\* A BUILD_CAN_FRAME request whose id field holds E7 E7.
CONSTANTS
  Requests <- MCRequestsE7
  Junk = {66}
  MaxWrites = 2
  BusCount = 1
  NumSpeeds = 1
  MaxPushes = 0
SPECIFICATION Spec
INVARIANT EffectsFaithful
CHECK_DEADLOCK FALSE
