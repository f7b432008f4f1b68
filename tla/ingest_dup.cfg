\* A failed commit of a batch read from the cache: the batch is spilled again.
CONSTANTS
  QueueMax = 3
  BatchSize = 2
  FlushPct = 50
  CacheMaxRows = 4
  MaxEntries = 4
  MaxOutages = 2
  MaxRestarts = 0
  WithShutdown = FALSE
  LostAcks = FALSE
  Wake = Wake
SPECIFICATION Spec
INVARIANT NoDuplicateCommit
