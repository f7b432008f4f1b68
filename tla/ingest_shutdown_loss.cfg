\* Shutdown while client threads may still enqueue TX entries.
CONSTANTS
  QueueMax = 3
  BatchSize = 2
  FlushPct = 50
  CacheMaxRows = 4
  MaxEntries = 4
  MaxOutages = 2
  MaxRestarts = 1
  WithShutdown = TRUE
  LostAcks = FALSE
  Wake = Wake
SPECIFICATION Spec
INVARIANT NoSilentLoss
CHECK_DEADLOCK FALSE
