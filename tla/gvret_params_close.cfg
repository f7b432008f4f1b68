\* bus_offset 1 with one CAN interface: bus_count 2, one speed.
CONSTANTS
  Requests <- MCRequests
  Junk = {66}
  MaxWrites = 2
  BusCount = 2
  NumSpeeds = 1
  MaxPushes = 0
SPECIFICATION Spec
INVARIANT SessionPersists
CHECK_DEADLOCK FALSE
