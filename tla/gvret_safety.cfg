\* bus_offset 1 with one CAN interface: bus_count 2, one speed.
\* A session ends when its client closes; no step follows.
CONSTANTS
  Requests <- MCRequests
  Junk = {66, 241}
  MaxWrites = 2
  BusCount = 2
  NumSpeeds = 1
  MaxPushes = 1
SPECIFICATION FairSpec
INVARIANTS TypeOK EffectsFaithful WholeMessages
PROPERTIES Served SendReturns
CHECK_DEADLOCK FALSE
