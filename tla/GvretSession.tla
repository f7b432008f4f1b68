--------------------------- MODULE GvretSession ---------------------------
(***************************************************************************)
(* One GVRET client session of wiretap-server.py (class GVRETClient): the  *)
(* rx thread's _rx_loop, which reads the client's TCP byte stream in       *)
(* chunks, scans for the E7 E7 handshake, resynchronises on F1, answers    *)
(* fixed-size requests and hands BUILD_CAN_FRAME requests to tx_func.      *)
(*                                                                         *)
(* The client is the environment: it writes junk, the handshake and then   *)
(* whole requests laid out as the protocol (spec section 4.3) says, into   *)
(* a byte stream `wire'.  The server reads any non-empty prefix of it, as  *)
(* recv() may return any part of what has arrived.                         *)
(*                                                                         *)
(* Bytes are numbers 0..255.  What the session does for a request is an    *)
(* "effect": a reply (its opcode) or a frame given to tx_func.  Reply      *)
(* payloads (time, bus count, speeds) are not modelled.                    *)
(***************************************************************************)
EXTENDS Naturals, Sequences, SequencesExt

CONSTANTS
  Requests,   \* requests the client may write after its handshake
  Junk,       \* single bytes the client may write (before or after it)
  MaxWrites,  \* bound on the client's writes of junk and requests
  BusCount,   \* GVRETClient.bus_count (bus_offset + number of CAN sockets)
  NumSpeeds,  \* Len(GVRETClient.bus_speeds) (number of CAN sockets)
  MaxPushes   \* bound on frames the main thread pushes (send_frame)

ASSUME MaxWrites \in Nat /\ BusCount \in Nat /\ NumSpeeds \in Nat
ASSUME MaxPushes \in Nat
ASSUME Junk \subseteq 0..255

F1 == 241
E7 == 231
Handshake == <<E7, E7>>
BUILD_CAN_FRAME == 0
ReplyOps == {1, 6, 7, 9, 12}   \* TIMEBASE, GET_CANBUS_PARAMS, DEV_INFO,
                               \* KEEPALIVE, GET_NUMBUSES
GET_CANBUS_PARAMS == 6

VARIABLES
  wire,     \* bytes the client has written and the server not yet read
  cpc,      \* the client: "ascii", "binary" (handshake written), "closed"
  sent,     \* the requests the client wrote after its handshake, in order
  writes,   \* number of client writes so far
  buf,      \* GVRETClient.buf
  binary,   \* GVRETClient.binary
  alive,    \* GVRETClient.alive
  rpc,      \* the rx thread: "recv", "parse", "send" (in _send), "exited"
  effects,  \* what the session did for requests, in order
  sock,     \* the socket's send side: "open", or "failed" (timeout, reset)
  lock,     \* GVRETClient.lock: "free", or held by "rx" or "main"
  mpc,      \* the main thread: "idle", or "send" (in _send for send_frame)
  pushes,   \* frames the main thread has pushed
  toClient  \* what reached the client: halves [src, n, part] of messages

vars == <<wire, cpc, sent, writes, buf, binary, alive, rpc, effects,
          sock, lock, mpc, pushes, toClient>>
sendVars == <<sock, lock, mpc, pushes, toClient>>

(***************************************************************************)
(* Effects.  One record shape for both kinds, so that they compare.        *)
(***************************************************************************)
Reply(op) == [op |-> op, bus |-> 0, ext |-> FALSE, arb |-> 0, data |-> <<>>]
TxFrame(bus, ext, arb, data) ==
  [op |-> BUILD_CAN_FRAME, bus |-> bus, ext |-> ext, arb |-> arb, data |-> data]

(***************************************************************************)
(* The client side: the request layout of spec section 4.3.  A request is  *)
(* a record [op, bus, ext, arb, data]; only BUILD_CAN_FRAME uses the rest. *)
(***************************************************************************)
IdBytes(ext, arb) ==
  << arb % 256, (arb \div 256) % 256, (arb \div 65536) % 256,
     arb \div 16777216 + (IF ext THEN 128 ELSE 0) >>

Encode(r) ==
  IF r.op = BUILD_CAN_FRAME
  THEN <<F1, BUILD_CAN_FRAME>> \o IdBytes(r.ext, r.arb)
         \o <<r.bus, Len(r.data)>> \o r.data
  ELSE <<F1, r.op>>

\* What the protocol says the session does for request r.
Meaning(r) ==
  CASE r.op = BUILD_CAN_FRAME ->
         <<TxFrame(r.bus, r.ext, r.arb,
                   SubSeq(r.data, 1, IF Len(r.data) < 8 THEN Len(r.data) ELSE 8))>>
    [] r.op \in ReplyOps      -> <<Reply(r.op)>>
    [] OTHER                  -> <<>>

Expected == FlattenSeq([i \in DOMAIN sent |-> Meaning(sent[i])])

(***************************************************************************)
(* The server side, from _rx_loop and _try_consume_send_frame.             *)
(***************************************************************************)
\* Positions where E7 E7 starts (bytearray.find).
HandshakeAt(s) == {i \in 1..(Len(s) - 1) : s[i] = E7 /\ s[i + 1] = E7}

\* The handshake loop: delete through the first E7 E7, again and again.
RECURSIVE StripHandshakes(_)
StripHandshakes(s) ==
  IF HandshakeAt(s) = {} THEN s
  ELSE StripHandshakes(SubSeq(s, Min(HandshakeAt(s)) + 2, Len(s)))

\* Resync: drop the bytes before the first F1 (all of them if there is none).
Resync(s) ==
  LET i == SelectInSeq(s, LAMBDA x : x = F1)
  IN  IF i = 0 THEN <<>> ELSE SubSeq(s, i, Len(s))

\* b = F1 00 <id:4 LE> <bus> <dlc> <data:dlc>
FrameNeed(b) == 8 + b[8]
FrameComplete(b) == Len(b) >= 8 /\ Len(b) >= FrameNeed(b)

\* Mutant: the masks swapped, 0x7FF for extended and 0x1FFFFFFF for standard.
DecodeFrameSwappedMask(b) ==
  LET ext == b[6] >= 128
      arb == IF ext THEN b[3] + 256 * (b[4] % 8)
                    ELSE b[3] + 256 * b[4] + 65536 * b[5] + 16777216 * (b[6] % 32)
      dlc == IF b[8] < 8 THEN b[8] ELSE 8
  IN  TxFrame(b[7], ext, arb, SubSeq(b, 9, 8 + dlc))

\* Mutant: dlc not clamped to 8.
DecodeFrameNoClamp(b) ==
  LET ext == b[6] >= 128
      arb == IF ext THEN b[3] + 256 * b[4] + 65536 * b[5]
                           + 16777216 * (b[6] % 32)
                    ELSE b[3] + 256 * (b[4] % 8)
  IN  TxFrame(b[7], ext, arb, SubSeq(b, 9, 8 + b[8]))

\* int.from_bytes(buf[2:6], "little"), bit 31 and the 29- or 11-bit mask.
\* The id is taken apart byte by byte: 2^31 is beyond TLC's integers.
DecodeFrame(b) ==
  LET ext == b[6] >= 128
      arb == IF ext THEN b[3] + 256 * b[4] + 65536 * b[5]
                           + 16777216 * (b[6] % 32)
                    ELSE b[3] + 256 * (b[4] % 8)
      dlc == IF b[8] < 8 THEN b[8] ELSE 8
  IN  TxFrame(b[7], ext, arb, SubSeq(b, 9, 8 + dlc))

\* reply_canbus_params reads bus_speeds[0] if n >= 1 and bus_speeds[1] if
\* n >= 2, with n = bus_count: an IndexError when the tuple is shorter.
ParamsRaise == (BusCount >= 1 /\ NumSpeeds < 1) \/ (BusCount >= 2 /\ NumSpeeds < 2)

----------------------------------------------------------------------------
Init ==
  /\ wire = <<>>
  /\ cpc = "ascii"
  /\ sent = <<>>
  /\ writes = 0
  /\ buf = <<>>
  /\ binary = FALSE
  /\ alive = TRUE
  /\ rpc = "recv"
  /\ effects = <<>>
  /\ sock = "open"
  /\ lock = "free"
  /\ mpc = "idle"
  /\ pushes = 0
  /\ toClient = <<>>

ClientJunk(j) ==
  /\ cpc # "closed" /\ writes < MaxWrites
  /\ cpc = "binary" => j # F1
  /\ wire' = Append(wire, j)
  /\ writes' = writes + 1
  /\ UNCHANGED <<cpc, sent, buf, binary, alive, rpc, effects>>
  /\ UNCHANGED sendVars

ClientHandshake ==
  /\ cpc = "ascii"
  /\ wire' = wire \o Handshake
  /\ cpc' = "binary"
  /\ UNCHANGED <<sent, writes, buf, binary, alive, rpc, effects>>
  /\ UNCHANGED sendVars

ClientRequest(r) ==
  /\ cpc = "binary" /\ writes < MaxWrites
  /\ wire' = wire \o Encode(r)
  /\ sent' = Append(sent, r)
  /\ writes' = writes + 1
  /\ UNCHANGED <<cpc, buf, binary, alive, rpc, effects>>
  /\ UNCHANGED sendVars

ClientClose ==
  /\ cpc # "closed"
  /\ cpc' = "closed"
  /\ UNCHANGED <<wire, sent, writes, buf, binary, alive, rpc, effects>>
  /\ UNCHANGED sendVars

Client ==
  \/ \E j \in Junk : ClientJunk(j)
  \/ ClientHandshake
  \/ \E r \in Requests : ClientRequest(r)
  \/ ClientClose

\* recv(4096) returns part of the stream; then the handshake scan.
Recv ==
  /\ rpc = "recv" /\ alive
  /\ wire # <<>>
  /\ \E n \in 1..Len(wire) :
       LET b == buf \o SubSeq(wire, 1, n)
       IN  /\ wire' = SubSeq(wire, n + 1, Len(wire))
           /\ buf' = StripHandshakes(b)
           /\ binary' = (binary \/ HandshakeAt(b) # {})
  /\ rpc' = "parse"
  /\ UNCHANGED <<cpc, sent, writes, alive, effects>>
  /\ UNCHANGED sendVars

\* recv() returns b"" once the client has shut its end: break, close().
RecvEof ==
  /\ rpc = "recv" /\ alive
  /\ wire = <<>> /\ cpc = "closed"
  /\ alive' = FALSE
  /\ rpc' = "exited"
  /\ UNCHANGED <<wire, cpc, sent, writes, buf, binary, effects>>
  /\ UNCHANGED sendVars

\* The parse loop stops: not in binary mode, fewer than two bytes after
\* the resync, or an incomplete BUILD_CAN_FRAME.
ParseWait ==
  /\ rpc = "parse"
  /\ \/ ~binary /\ UNCHANGED buf
     \/ /\ binary
        /\ LET b == Resync(buf)
           IN  /\ \/ Len(b) < 2
                  \/ Len(b) >= 2 /\ b[2] = BUILD_CAN_FRAME /\ ~FrameComplete(b)
               /\ buf' = b
  /\ rpc' = "recv"
  /\ UNCHANGED <<wire, cpc, sent, writes, binary, alive, effects>>
  /\ UNCHANGED sendVars

\* Mutant: `break' instead of `continue' after a frame.
ParseFrameBreak ==
  /\ rpc = "parse" /\ binary
  /\ LET b == Resync(buf)
     IN  /\ Len(b) >= 2 /\ b[2] = BUILD_CAN_FRAME /\ FrameComplete(b)
         /\ buf' = SubSeq(b, FrameNeed(b) + 1, Len(b))
         /\ effects' = Append(effects, DecodeFrame(b))
  /\ rpc' = "recv"
  /\ UNCHANGED <<wire, cpc, sent, writes, binary, alive>>
  /\ UNCHANGED sendVars

\* A complete BUILD_CAN_FRAME: consumed and given to tx_func; continue.
ParseFrame ==
  /\ rpc = "parse" /\ binary
  /\ LET b == Resync(buf)
     IN  /\ Len(b) >= 2 /\ b[2] = BUILD_CAN_FRAME /\ FrameComplete(b)
         /\ buf' = SubSeq(b, FrameNeed(b) + 1, Len(b))
         /\ effects' = Append(effects, DecodeFrame(b))
  /\ UNCHANGED <<wire, cpc, sent, writes, binary, alive, rpc>>
  /\ UNCHANGED sendVars

\* F1 <cmd>, cmd # 0: two bytes consumed, then the reply through _send
\* (none for an unknown opcode).
ParseCommand ==
  /\ rpc = "parse" /\ binary
  /\ LET b == Resync(buf)
         cmd == b[2]
     IN  /\ Len(b) >= 2 /\ cmd # BUILD_CAN_FRAME
         /\ ~(cmd = GET_CANBUS_PARAMS /\ ParamsRaise)
         /\ buf' = SubSeq(b, 3, Len(b))
         /\ IF cmd \in ReplyOps
            THEN /\ effects' = Append(effects, Reply(cmd))
                 /\ rpc' = "send"
            ELSE UNCHANGED <<effects, rpc>>
  /\ UNCHANGED <<wire, cpc, sent, writes, binary, alive>>
  /\ UNCHANGED sendVars

\* GET_CANBUS_PARAMS when bus_speeds is shorter than bus_count: the
\* IndexError is not socket.timeout, so it leaves the loop through the
\* finally clause, which calls close().
ParseParamsRaise ==
  /\ rpc = "parse" /\ binary
  /\ LET b == Resync(buf)
     IN  /\ Len(b) >= 2 /\ b[2] = GET_CANBUS_PARAMS /\ ParamsRaise
         /\ buf' = SubSeq(b, 3, Len(b))
  /\ alive' = FALSE
  /\ rpc' = "exited"
  /\ UNCHANGED <<wire, cpc, sent, writes, binary, effects>>
  /\ UNCHANGED sendVars

\* recv() on a connection the client reset raises (not socket.timeout):
\* the exception leaves the loop and the finally clause runs close().
RecvReset ==
  /\ rpc = "recv" /\ alive /\ sock = "failed"
  /\ alive' = FALSE
  /\ rpc' = "exited"
  /\ UNCHANGED <<wire, cpc, sent, writes, buf, binary, effects>>
  /\ UNCHANGED sendVars

\* `while self.alive' is false, or recv() on the socket close() shut
\* down returns b"" or raises: the loop ends, close() returns at once.
RecvClosed ==
  /\ rpc = "recv" /\ ~alive
  /\ rpc' = "exited"
  /\ UNCHANGED <<wire, cpc, sent, writes, buf, binary, alive, effects>>
  /\ UNCHANGED sendVars

(***************************************************************************)
(* _send: `with self.lock: sendall(b)', and close() when it raises.        *)
(* sendall may write part of a message and then raise (the 0.1 s socket   *)
(* timeout, a reset), so a message goes out in two halves.                 *)
(***************************************************************************)
\* The message a thread is sending: the rx thread's last reply, or the
\* main thread's last push.
Msg(t, part) ==
  IF t = "rx" THEN [src |-> "rx", n |-> Len(effects), part |-> part]
  ELSE [src |-> "main", n |-> pushes, part |-> part]

InSend(t) == IF t = "rx" THEN rpc = "send" ELSE mpc = "send"

\* _send returns to the caller.
Return(t) ==
  IF t = "rx" THEN rpc' = "parse" /\ UNCHANGED mpc
  ELSE mpc' = "idle" /\ UNCHANGED rpc

\* Mutant: sendall outside the lock.
SendStartNoLock(t) ==
  /\ InSend(t)
  /\ IF sock = "open" /\ alive
     THEN /\ lock' = t
          /\ toClient' = Append(toClient, Msg(t, 1))
          /\ UNCHANGED <<alive, rpc, mpc>>
     ELSE /\ alive' = FALSE
          /\ Return(t)
          /\ UNCHANGED <<lock, toClient>>
  /\ UNCHANGED <<wire, cpc, sent, writes, buf, binary, effects, sock, pushes>>

\* The lock is taken and sendall writes the first half; on a failed or
\* closed socket it raises at once and close() runs (a no-op when the
\* session is already closed).
SendStart(t) ==
  /\ InSend(t) /\ lock = "free"
  /\ IF sock = "open" /\ alive
     THEN /\ lock' = t
          /\ toClient' = Append(toClient, Msg(t, 1))
          /\ UNCHANGED <<alive, rpc, mpc>>
     ELSE /\ alive' = FALSE
          /\ Return(t)
          /\ UNCHANGED <<lock, toClient>>
  /\ UNCHANGED <<wire, cpc, sent, writes, buf, binary, effects, sock, pushes>>

\* Mutant: the lock is released only when sendall returns (acquire and
\* release by hand instead of `with').
SendFinishKeepsLock(t) ==
  /\ lock = t
  /\ Return(t)
  /\ IF sock = "open" /\ alive
     THEN /\ toClient' = Append(toClient, Msg(t, 2)) /\ lock' = "free"
          /\ UNCHANGED alive
     ELSE alive' = FALSE /\ UNCHANGED <<toClient, lock>>
  /\ UNCHANGED <<wire, cpc, sent, writes, buf, binary, effects, sock, pushes>>

\* sendall writes the rest, or raises part-way; the lock is released.
SendFinish(t) ==
  /\ lock = t
  /\ lock' = "free"
  /\ Return(t)
  /\ IF sock = "open" /\ alive
     THEN toClient' = Append(toClient, Msg(t, 2)) /\ UNCHANGED alive
     ELSE alive' = FALSE /\ UNCHANGED toClient
  /\ UNCHANGED <<wire, cpc, sent, writes, buf, binary, effects, sock, pushes>>

\* The main thread's fan-out calls send_frame, which returns at once
\* before the handshake; it keeps calling it after the session closed.
MainPush ==
  /\ mpc = "idle" /\ pushes < MaxPushes
  /\ pushes' = pushes + 1
  /\ mpc' = IF binary THEN "send" ELSE "idle"
  /\ UNCHANGED <<wire, cpc, sent, writes, buf, binary, alive, rpc, effects,
                 sock, lock, toClient>>

\* A send times out (a slow client) or the connection is reset.
SockFail ==
  /\ sock = "open"
  /\ sock' = "failed"
  /\ UNCHANGED <<wire, cpc, sent, writes, buf, binary, alive, rpc, effects,
                 lock, mpc, pushes, toClient>>

RxThread ==
  \/ Recv \/ RecvEof \/ RecvReset \/ RecvClosed
  \/ ParseWait \/ ParseFrame \/ ParseCommand \/ ParseParamsRaise
  \/ SendStart("rx") \/ SendFinish("rx")

MainSend == SendStart("main") \/ SendFinish("main")

Next == Client \/ SockFail \/ RxThread \/ MainPush \/ MainSend

Spec == Init /\ [][Next]_vars

\* The rx thread is scheduled whenever it can run, and so is the main
\* thread inside _send (sendall returns or times out); the client and the
\* CAN bus are not obliged to do anything.
FairSpec == Spec /\ WF_vars(RxThread) /\ WF_vars(MainSend)

----------------------------------------------------------------------------
\* Types, and the frame length bound of spec section 8: no frame handed to
\* tx_func carries more than 8 data bytes, whatever dlc the request gives.
TypeOK ==
  /\ wire \in Seq(0..255) /\ buf \in Seq(0..255)
  /\ cpc \in {"ascii", "binary", "closed"}
  /\ sent \in Seq(Requests)
  /\ writes \in 0..MaxWrites
  /\ binary \in BOOLEAN /\ alive \in BOOLEAN
  /\ rpc \in {"recv", "parse", "send", "exited"}
  /\ sock \in {"open", "failed"} /\ lock \in {"free", "rx", "main"}
  /\ mpc \in {"idle", "send"} /\ pushes \in 0..MaxPushes
  /\ toClient \in Seq([src : {"rx", "main"}, n : Nat, part : {1, 2}])
  /\ effects \in Seq([op : 0..255, bus : 0..255, ext : BOOLEAN,
                      arb : Nat, data : Seq(0..255)])
  /\ \A i \in DOMAIN effects : Len(effects[i].data) <= 8

\* The session does for the client's requests what the protocol says and
\* nothing else, in the order they were written, whatever the chunking of
\* the stream, the junk around the handshake and between requests: the
\* handshake scan, resync and framing of _rx_loop.
EffectsFaithful == IsPrefix(effects, Expected)

\* Every request the client writes is eventually served, unless the rx
\* thread has left its loop: the parse loop keeps going while complete
\* requests are buffered (the `continue' after a frame) and the rx thread
\* keeps reading.
Served ==
  \A k \in 1..MaxWrites :
    (Len(Expected) >= k) ~> (Len(effects) >= k \/ rpc = "exited")

\* Every call of _send returns, from either thread: the lock is released
\* on every path out of sendall, also when it raises and close() runs, so
\* the rx thread's reply and the main thread's push never wait for ever on
\* each other.
SendReturns ==
  \A t \in {"rx", "main"} : InSend(t) ~> ~InSend(t)

\* The session is only ended by the client closing its end or a failed
\* send (spec section 7: a framing error or a request never drops the
\* connection unless the socket fails).
SessionPersists == ~alive => (cpc = "closed" \/ sock = "failed")

\* The client receives whole messages: the main thread's frame pushes and
\* the rx thread's replies never interleave inside a message (spec 4.3:
\* one writer at a time), and a message is cut short only by a send that
\* failed and closed the session, or while it is still being written.
WholeMessages ==
  \A j \in DOMAIN toClient :
    /\ toClient[j].part = 2 =>
         j > 1 /\ toClient[j - 1] = [toClient[j] EXCEPT !.part = 1]
    /\ toClient[j].part = 1 =>
         IF j < Len(toClient)
         THEN toClient[j + 1] = [toClient[j] EXCEPT !.part = 2]
         ELSE lock # "free" \/ ~alive
============================================================================
