\* A push fails during the fan-out (the peer has gone, or sendall times out).
CONSTANTS
  Clients = {c1, c2}
  NIfaces = 1
  BusOffset = 0
  RxFrames <- MCRxFrames
  TxBuses = {0}
  TxLen = 2
  MaxFrames = 2
  MaxTx = 1
  MaxTxErrors = 1
SPECIFICATION Spec
PROPERTY FailedPushDropped
CHECK_DEADLOCK FALSE
