\* close() while the worker may be stuck in a call to the SQL server, and a
\* COMMIT (also the shutdown one) may be applied with its reply lost.
\* The process stops after it exits, so deadlock is not an error here.
CONSTANTS
  QueueMax = 3
  BatchSize = 2
  FlushPct = 50
  CacheMaxRows = 3
  MaxEntries = 3
  MaxOutages = 1
  MaxRestarts = 0
  WithShutdown = TRUE
  LostAcks = TRUE
  Wake = Wake
SPECIFICATION ShutdownFairSpec
PROPERTY ShutdownTerminates
CHECK_DEADLOCK FALSE
