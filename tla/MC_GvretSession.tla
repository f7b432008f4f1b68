-------------------------- MODULE MC_GvretSession --------------------------
(***************************************************************************)
(* Requests for checking GvretSession.  Ids and payloads avoid the byte    *)
(* E7 (see MCRequestsE7 for one that does not).                            *)
(***************************************************************************)
EXTENDS GvretSession

Req(op) == [op |-> op, bus |-> 0, ext |-> FALSE, arb |-> 0, data |-> <<>>]
Frame(bus, ext, arb, data) ==
  [op |-> BUILD_CAN_FRAME, bus |-> bus, ext |-> ext, arb |-> arb, data |-> data]

\* KEEPALIVE, GET_CANBUS_PARAMS, an unknown opcode, a standard frame with
\* one byte and an extended frame with dlc 9.
MCRequests ==
  { Req(9), Req(6), Req(5),
    Frame(0, FALSE, 291, <<66>>),
    Frame(1, TRUE, 305419896, <<1, 2, 3, 4, 5, 6, 7, 8, 9>>) }

\* An extended frame whose id 0xE7E7 puts E7 E7 into the id field.
MCRequestsE7 == { Req(9), Frame(0, TRUE, 59367, <<>>) }
============================================================================
