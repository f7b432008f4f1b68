\* Two CAN interfaces; a BUILD_CAN_FRAME write to a CAN socket may fail (ENOBUFS).
CONSTANTS
  Clients = {c1, c2}
  NIfaces = 2
  BusOffset = 0
  RxFrames <- MCRxFrames
  TxBuses = {0}
  TxLen = 2
  MaxFrames = 2
  MaxTx = 1
  MaxTxErrors = 1
SYMMETRY ClientSymmetry
SPECIFICATION Spec
INVARIANT ClosedBySocket
CHECK_DEADLOCK FALSE
