\* Normal operation with outages of the SQL server and one crash/restart;
\* the worker is fair, outages end and a crashed process is restarted.
CONSTANTS
  QueueMax = 3
  BatchSize = 2
  FlushPct = 50
  CacheMaxRows = 3
  MaxEntries = 4
  MaxOutages = 2
  MaxRestarts = 1
  WithShutdown = FALSE
  LostAcks = TRUE
  Wake = Wake
SPECIFICATION FairSpec
INVARIANTS TypeOK NoSilentLoss
PROPERTIES ImplementsStore EventuallyStored
