\* After the cache is drained, the file is never reset and stays full.
CONSTANTS
  QueueMax = 3
  BatchSize = 2
  FlushPct = 50
  CacheMaxRows = 2
  MaxEntries = 4
  MaxOutages = 2
  MaxRestarts = 0
  WithShutdown = FALSE
  LostAcks = FALSE
  Wake = Wake
SPECIFICATION Spec
INVARIANT CacheReclaimed
