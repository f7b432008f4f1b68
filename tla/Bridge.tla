------------------------------- MODULE Bridge -------------------------------
(***************************************************************************)
(* The bridge core of wiretap-server.py (CanTcpServer): the main loop that *)
(* accepts GVRET clients and fans every received CAN frame out to the      *)
(* registered sessions (GVRETClient.send_frame / _send) and to the ingest  *)
(* queue, and the transmit path _tx_can that a session's rx thread calls   *)
(* for a BUILD_CAN_FRAME request.                                          *)
(*                                                                         *)
(* A session's rx thread is abstracted to its effects here (handshake,     *)
(* transmit request, end of stream); GvretSession models it at byte level. *)
(* The ingest queue is the sequence of entries enqueued; IngestPipeline    *)
(* models what happens to them.  A frame is its bus, FD flag and length.   *)
(***************************************************************************)
EXTENDS Naturals, Sequences, SequencesExt

CONSTANTS
  Clients,      \* TCP connections that may arrive
  NIfaces,      \* number of CAN sockets
  BusOffset,    \* --bus-offset
  RxFrames,     \* frames a CAN socket may deliver: [fd, len]
  TxBuses,      \* buses a BUILD_CAN_FRAME request may name
  TxLen,        \* payload length of a transmitted frame
  MaxFrames,    \* bound on frames received from the CAN sockets
  MaxTx,        \* bound on BUILD_CAN_FRAME requests
  MaxTxErrors   \* bound on failed writes to a CAN socket

ASSUME NIfaces \in Nat \ {0} /\ BusOffset \in Nat /\ TxLen \in 0..8
ASSUME MaxFrames \in Nat /\ MaxTx \in Nat /\ MaxTxErrors \in Nat

VARIABLES
  registry,   \* CanTcpServer.gvret_clients (its keys)
  peer,       \* the far end: "idle", "pending" (in the backlog), "reset"
              \* (reset while in the backlog), "up", "gone" (closed)
  alive,      \* GVRETClient.alive
  binary,     \* GVRETClient.binary
  pushed,     \* what each client has received: decoded GVRET frame pushes
  since,      \* Len(canLog) + 1 when the client's session entered binary
  canLog,     \* frames the main loop read from the CAN sockets, in order
  txLog,      \* frames written to a CAN socket by _tx_can, in order
  ingest,     \* entries given to PostgresWriter.enqueue, in order
  txReqs,     \* BUILD_CAN_FRAME requests so far
  txErrors,   \* failed CAN writes so far
  server,     \* "running", or "crashed" once run() has raised
  cause       \* why each session was closed: "none", "eof", "write", "txerror"

vars == <<registry, peer, alive, binary, pushed, since, canLog, txLog,
          ingest, txReqs, txErrors, server, cause>>

----------------------------------------------------------------------------
(***************************************************************************)
(* Frame codec: CAN_FD_DLC_LEN, dlc_to_len, len_to_dlc.                    *)
(***************************************************************************)
CAN_FD_DLC_LEN == <<0, 1, 2, 3, 4, 5, 6, 7, 8, 12, 16, 20, 24, 32, 48, 64>>
DlcLen(d) == CAN_FD_DLC_LEN[d + 1]    \* CAN_FD_DLC_LEN[d], 0-based

\* Mutant: the FD table forgotten.
DlcToLenClassicOnly(dlc, isFd) == IF dlc <= 8 THEN dlc ELSE 8

dlc_to_len(dlc, isFd) ==
  CASE dlc <= 8               -> dlc
    [] isFd /\ dlc <= 15      -> DlcLen(dlc)
    [] OTHER                  -> 8

\* Mutant: `dlen > length' instead of `dlen >= length'.
LenToDlcStrict(length) ==
  LET fits == {d \in 0..15 : DlcLen(d) > length}
  IN  IF length <= 8 THEN length ELSE IF fits = {} THEN 15 ELSE Min(fits)

\* The first DLC whose length fits, 15 if none.
len_to_dlc(length) ==
  LET fits == {d \in 0..15 : DlcLen(d) >= length}
  IN  IF length <= 8 THEN length ELSE IF fits = {} THEN 15 ELSE Min(fits)

(***************************************************************************)
(* The main loop's view of a frame and what it hands on.                   *)
(***************************************************************************)
\* run(): FD frames carry their length, classic ones their dlc (<= 8).
FrameDlc(f) == IF f.fd THEN len_to_dlc(f.len) ELSE f.len

\* send_frame: the length clamped, the DLC for FD, bus and DLC in nibbles.
\* What the client decodes from the push.
Push(f) ==
  LET dataLen == IF f.fd THEN IF f.len < 64 THEN f.len ELSE 64
                         ELSE IF f.len < 8 THEN f.len ELSE 8
      dlc == IF f.fd THEN len_to_dlc(dataLen) ELSE dataLen
  IN  [bus |-> f.bus % 16, dlc |-> dlc % 16, len |-> dataLen]

\* enqueue(): the payload is data[:dlc_to_len(dlc)] (min(dlc, 8) if classic).
Entry(dir, f, dlc) ==
  LET dataLen == IF f.fd THEN dlc_to_len(dlc, TRUE)
                         ELSE IF dlc < 8 THEN dlc ELSE 8
  IN  [dir |-> dir, bus |-> f.bus,
       len |-> IF f.len < dataLen THEN f.len ELSE dataLen]

\* send_frame pushes only in binary mode; _send swallows every exception.
Targets == {c \in registry : alive[c] /\ binary[c]}

----------------------------------------------------------------------------
Init ==
  /\ registry = {}
  /\ peer = [c \in Clients |-> "idle"]
  /\ alive = [c \in Clients |-> FALSE]
  /\ binary = [c \in Clients |-> FALSE]
  /\ pushed = [c \in Clients |-> <<>>]
  /\ since = [c \in Clients |-> 1]
  /\ canLog = <<>>
  /\ txLog = <<>>
  /\ ingest = <<>>
  /\ txReqs = 0
  /\ txErrors = 0
  /\ server = "running"
  /\ cause = [c \in Clients |-> "none"]

\* ---- the far ends ----
Connect(c) ==
  /\ peer[c] = "idle"
  /\ peer' = [peer EXCEPT ![c] = "pending"]
  /\ UNCHANGED <<registry, alive, binary, pushed, since, canLog, txLog,
                 ingest, txReqs, txErrors, server, cause>>

\* The client resets the connection before the server accepts it.
ResetInBacklog(c) ==
  /\ peer[c] = "pending"
  /\ peer' = [peer EXCEPT ![c] = "reset"]
  /\ UNCHANGED <<registry, alive, binary, pushed, since, canLog, txLog,
                 ingest, txReqs, txErrors, server, cause>>

PeerClose(c) ==
  /\ peer[c] = "up"
  /\ peer' = [peer EXCEPT ![c] = "gone"]
  /\ UNCHANGED <<registry, alive, binary, pushed, since, canLog, txLog,
                 ingest, txReqs, txErrors, server, cause>>

Environment ==
  \E c \in Clients : Connect(c) \/ ResetInBacklog(c) \/ PeerClose(c)

\* ---- the main loop, CanTcpServer.run ----
\* _accept: the new GVRETClient starts its rx thread, not in binary mode.
Accept(c) ==
  /\ server = "running" /\ peer[c] = "pending"
  /\ registry' = registry \cup {c}
  /\ peer' = [peer EXCEPT ![c] = "up"]
  /\ alive' = [alive EXCEPT ![c] = TRUE]
  /\ UNCHANGED <<binary, pushed, since, canLog, txLog, ingest, txReqs, txErrors,
                 server, cause>>

\* _accept of a connection reset in the backlog: GVRETClient.__init__ calls
\* getpeername(), which raises; nothing in run() catches it, main() exits.
AcceptReset(c) ==
  /\ server = "running" /\ peer[c] = "reset"
  /\ server' = "crashed"
  /\ UNCHANGED <<registry, peer, alive, binary, pushed, since, canLog,
                 txLog, ingest, txReqs, txErrors, cause>>

\* One frame read from CAN socket i: fanned out to every registered session,
\* then enqueued.  A push fails when the peer is gone or a slow client lets
\* sendall time out; _send then closes the session and returns normally,
\* so `dead' stays empty and no session is ever dropped from the registry.
CanRx(i, f) ==
  /\ server = "running" /\ Len(canLog) < MaxFrames
  /\ LET fr == [bus |-> BusOffset + i, fd |-> f.fd, len |-> f.len]
     IN  \E fail \in SUBSET Targets :
           /\ pushed' = [c \in Clients |->
                           IF c \in Targets \ fail /\ peer[c] = "up"
                           THEN Append(pushed[c], Push(fr)) ELSE pushed[c]]
           /\ alive' = [c \in Clients |-> alive[c] /\ c \notin fail]
           /\ cause' = [c \in Clients |->
                          IF c \in fail THEN "write" ELSE cause[c]]
           /\ canLog' = Append(canLog, fr)
           /\ ingest' = Append(ingest, Entry("rx", fr, FrameDlc(fr)))
  /\ UNCHANGED <<registry, peer, binary, since, txLog, txReqs, txErrors, server>>

MainLoop ==
  \/ \E c \in Clients : Accept(c) \/ AcceptReset(c)
  \/ \E i \in 0..(NIfaces - 1), f \in RxFrames : CanRx(i, f)

\* ---- a session's rx thread (GvretSession at byte level) ----
\* E7 E7 received.
Handshake(c) ==
  /\ server = "running"
  /\ c \in registry /\ alive[c] /\ peer[c] = "up" /\ ~binary[c]
  /\ binary' = [binary EXCEPT ![c] = TRUE]
  /\ since' = [since EXCEPT ![c] = Len(canLog) + 1]
  /\ UNCHANGED <<registry, peer, alive, pushed, canLog, txLog, ingest,
                 txReqs, txErrors, server, cause>>

\* A BUILD_CAN_FRAME request: tx_func = _tx_can.  A bus without a socket is
\* ignored.  A failed socket write raises through tx_func and out of
\* _rx_loop, whose finally clause closes the session.
TxRequest(c, bus) ==
  /\ server = "running"
  /\ c \in registry /\ alive[c] /\ binary[c] /\ peer[c] = "up"
  /\ txReqs < MaxTx
  /\ txReqs' = txReqs + 1
  /\ LET fr == [bus |-> bus, fd |-> FALSE, len |-> TxLen]
     IN  \/ /\ bus - BusOffset \notin 0..(NIfaces - 1)
            /\ UNCHANGED <<txLog, ingest, alive, txErrors, cause>>
         \/ /\ bus - BusOffset \in 0..(NIfaces - 1)
            /\ txLog' = Append(txLog, fr)
            /\ ingest' = Append(ingest, Entry("tx", fr, TxLen))
            /\ UNCHANGED <<alive, txErrors, cause>>
         \/ /\ bus - BusOffset \in 0..(NIfaces - 1)
            /\ txErrors < MaxTxErrors
            /\ txErrors' = txErrors + 1
            /\ alive' = [alive EXCEPT ![c] = FALSE]
            /\ cause' = [cause EXCEPT ![c] = "txerror"]
            /\ UNCHANGED <<txLog, ingest>>
  /\ UNCHANGED <<registry, peer, binary, pushed, since, canLog, server>>

\* recv() returns b"" after the peer closed: break, finally close().
RxEof(c) ==
  /\ server = "running"
  /\ c \in registry /\ alive[c] /\ peer[c] = "gone"
  /\ alive' = [alive EXCEPT ![c] = FALSE]
  /\ cause' = [cause EXCEPT ![c] = "eof"]
  /\ UNCHANGED <<registry, peer, binary, pushed, since, canLog, txLog,
                 ingest, txReqs, txErrors, server>>

RxThread(c) == Handshake(c) \/ (\E b \in TxBuses : TxRequest(c, b)) \/ RxEof(c)

Next == Environment \/ MainLoop \/ \E c \in Clients : RxThread(c)

Spec == Init /\ [][Next]_vars

----------------------------------------------------------------------------
\* The DLC of spec section 8: the length itself up to 8, then the FD table.
SpecDlc(len) ==
  IF len <= 8 THEN len
  ELSE CHOOSE d \in 9..15 : <<12, 16, 20, 24, 32, 48, 64>>[d - 8] = len

\* A session in binary mode whose peer is still there has received every
\* frame read since its handshake, in order, each with its bus, the DLC of
\* the protocol and its whole payload: the fan-out of run() and the
\* encoding of send_frame (spec 4.3, 4.4 3b).
PushComplete ==
  \A c \in registry :
    (alive[c] /\ binary[c] /\ peer[c] = "up") =>
      pushed[c] = [k \in 1..(Len(canLog) - since[c] + 1) |->
                     LET f == canLog[since[c] + k - 1]
                     IN  [bus |-> f.bus, dlc |-> SpecDlc(f.len), len |-> f.len]]

\* Every frame read is enqueued with direction rx and its whole payload,
\* and every frame transmitted by _tx_can with direction tx, each in the
\* order of the bus: the dlc_to_len / len_to_dlc round trip of run() and
\* enqueue() loses nothing.
IngestFaithful ==
  /\ SelectSeq(ingest, LAMBDA e : e.dir = "rx")
       = [k \in DOMAIN canLog |->
            [dir |-> "rx", bus |-> canLog[k].bus, len |-> canLog[k].len]]
  /\ SelectSeq(ingest, LAMBDA e : e.dir = "tx")
       = [k \in DOMAIN txLog |->
            [dir |-> "tx", bus |-> txLog[k].bus, len |-> txLog[k].len]]

\* A session is only closed by its peer or a failed socket write; a failed
\* write to a CAN socket is recovered locally (spec section 7).
ClosedBySocket == \A c \in Clients : cause[c] \in {"none", "eof", "write"}

\* A fan-out step in which a push fails removes that session from the
\* registry (spec 4.4 3b: scheduled for removal).
FailedPushDropped ==
  [][\A c \in Clients :
       (alive[c] /\ ~alive'[c] /\ canLog' # canLog) => c \notin registry']_vars
============================================================================
