\* Two clients, two CAN interfaces, bus 2 has no socket, one failed CAN write.
\* Everything is bounded, and run() may raise: the process may stop.
CONSTANTS
  Clients = {c1, c2}
  NIfaces = 2
  BusOffset = 0
  RxFrames <- MCRxFrames
  TxBuses = {1, 2}
  TxLen = 2
  MaxFrames = 2
  MaxTx = 2
  MaxTxErrors = 1
SPECIFICATION Spec
INVARIANTS PushComplete IngestFaithful
CHECK_DEADLOCK FALSE
