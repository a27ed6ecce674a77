----------------------------- MODULE HSSession -----------------------------
(***************************************************************************)
(* One HSSession (hs_session.cpp): a TCP connection with a receive buffer, *)
(* a send buffer and asynchronous reads and writes, from the moment it is  *)
(* accepted until it is torn down and its last completion handler has run. *)
(*                                                                         *)
(* All handlers run on the one thread that polls the io_service, so a      *)
(* handler is never interrupted by another handler; the operating system   *)
(* completes reads and writes at any time, and the application calls       *)
(* send() from the thread's loop or from inside its own callbacks.         *)
(*                                                                         *)
(* The peer's byte stream is a sequence of positions 0, 1, 2, ...; frames  *)
(* maps the position where a packet starts to what its header claims.      *)
(***************************************************************************)
EXTENDS HSBuffer, HSPacketWorker, Sequences

CONSTANTS
  RecvLen, SendLen,   \* buffer sizes of this session
  OtherLens,          \* receive buffer sizes of the process's other sessions
  MaxStream,          \* bound: bytes the peer sends
  MaxSends,           \* bound: calls of send()
  SendSizes           \* sizes of the data given to send()

ASSUME SessionAssumption == /\ RecvLen \in Nat /\ MAXPKT <= RecvLen
                            /\ SendLen \in Nat \ {0}
                            /\ OtherLens \subseteq Nat
                            /\ \A l \in OtherLens : MAXPKT <= l
                            /\ MaxStream \in Nat /\ MaxSends \in Nat
                            /\ SendSizes \subseteq Nat

VARIABLES
  sock,       \* socket_: "new", "open" or "closed"
  connected,  \* connected_
  rb, sb,     \* *recv_buffer_, *send_buffer_
  sending,    \* handle_sending_
  maxRead,    \* the static max_read_length of handle_read, one for the whole process
  pc,         \* the handler that is running, "idle" when none is
  cur,        \* the packet passed to onReceive: where its header starts, its size
  rop,        \* the read operation of the session
  wq,         \* the write operations of the session, oldest first
  frames, slen,           \* the peer's packets and the length of its stream
  rdpos,                  \* bytes of the stream read from the socket
  rpos,                   \* end of the last packet given to the application
  queued, wired,          \* bytes put into sb, written to the socket
  sends, lateWrites,      \* calls of send(), writes started on a closed socket
  notified                \* calls of onDisconnect

recvVars == <<rb, maxRead, cur, rpos>>
peerVars == <<frames, slen>>
sendVars == <<queued, sends>>
vars == <<sock, connected, rb, sb, sending, maxRead, pc, cur, rop, wq, frames, slen,
          rdpos, rpos, queued, wired, sends, lateWrites, notified>>

Unset  == -1
NoRead == [st |-> "none", at |-> 0, n |-> 0]
NoCur  == [start |-> 0, size |-> 0]

Init == /\ sock = "new" /\ connected = FALSE /\ pc = "idle"
        /\ rb = NewRecvBuffer(RecvLen) /\ sb = NewSendBuffer(SendLen)
        /\ sending = FALSE /\ maxRead = Unset /\ cur = NoCur
        /\ rop = NoRead /\ wq = <<>>
        /\ frames = [p \in {} |-> 0] /\ slen = 0 /\ rdpos = 0 /\ rpos = 0
        /\ queued = 0 /\ wired = 0 /\ sends = 0
        /\ lateWrites = 0 /\ notified = 0

-----------------------------------------------------------------------------
(* The calls the handlers are made of *)

\* start(): a read into the free part of buffer b; a read of a closed socket fails.
StartRead(b, s) ==
  [st |-> IF s = "open" THEN "pending" ELSE "hard",
   at |-> b.in, n |-> GetLeftInSize(b)]

\* the async_write_some of handle_write()
WriteOp(b, s) ==
  [st |-> IF s = "open" THEN "pending" ELSE "hard",
   at |-> b.sent, n |-> GetCanSendSize(b)]

CanStartWrite(b, snd) == GetCanSendSize(b) > 0 /\ ~snd

\* handle_write() with send buffer b, flag snd and write operations q
HandleWrite(b, snd, q) ==
  /\ wq' = IF CanStartWrite(b, snd) THEN Append(q, WriteOp(b, sock)) ELSE q
  /\ lateWrites' = IF CanStartWrite(b, snd) /\ sock = "closed"
                   THEN lateWrites + 1 ELSE lateWrites

\* Mutant of Abort: closing the socket leaves the operation waiting.
AbortNothing(op) == op

\* Closing the socket aborts what is still pending; completed operations keep
\* their result, their handlers are already queued.
Abort(op)   == IF op.st = "pending" THEN [op EXCEPT !.st = "hard"] ELSE op
AbortAll(q) == [i \in DOMAIN q |-> Abort(q[i])]

\* clear(), called by a handler that leaves the operations r and q behind
Clear(r, q) == /\ sock' = "closed" /\ connected' = FALSE /\ sending' = FALSE
               /\ rb' = ClearRecv(rb) /\ sb' = ClearSend(sb)
               /\ rop' = Abort(r) /\ wq' = AbortAll(q)

-----------------------------------------------------------------------------
(* Accepting: HSAcceptor::handle_accept, connected(), start() *)

HandleAccept ==
  /\ sock = "new" /\ pc = "idle"
  /\ sock' = "open" /\ pc' = "onConnect"
  /\ UNCHANGED <<connected, sb, sending, rop, wq, rdpos, wired, lateWrites,
                 notified, recvVars, peerVars, sendVars>>

ConnectReturn ==
  /\ pc = "onConnect"
  /\ connected' = TRUE /\ rop' = StartRead(rb, sock) /\ pc' = "idle"
  /\ UNCHANGED <<sock, sb, sending, wq, rdpos, wired, lateWrites,
                 notified, recvVars, peerVars, sendVars>>

-----------------------------------------------------------------------------
(* handle_read *)

\* Data: DataIn, then the loop.
ReadData ==
  /\ pc = "idle" /\ rop.st = "ok" /\ rop.n > 0
  /\ rb' = DataIn(rb, rop.n) /\ rop' = NoRead /\ pc' = "decode"
  /\ UNCHANGED <<sock, connected, sb, sending, maxRead, cur, rpos, wq, rdpos, wired,
                 lateWrites, notified, peerVars, sendVars>>

\* No data and no error: the handler returns and reads no more.
ReadNothing ==
  /\ pc = "idle" /\ rop.st = "ok" /\ rop.n = 0
  /\ rop' = NoRead
  /\ UNCHANGED <<sock, connected, sb, sending, pc, wq, rdpos, wired, lateWrites,
                 notified, recvVars, peerVars, sendVars>>

\* handle_error says 0: read again.
ReadSoftError ==
  /\ pc = "idle" /\ rop.st = "soft"
  /\ rop' = StartRead(rb, sock)
  /\ UNCHANGED <<sock, connected, sb, sending, pc, wq, rdpos, wired, lateWrites,
                 notified, recvVars, peerVars, sendVars>>

\* Mutant of ReadHardError: it goes on reading after clear().
ReadHardErrorReads ==
  /\ pc = "idle" /\ rop.st = "hard"
  /\ Clear([NoRead EXCEPT !.st = "hard"], wq)
  /\ notified' = notified + 1
  /\ UNCHANGED <<pc, maxRead, cur, rpos, rdpos, wired, lateWrites, peerVars, sendVars>>

\* handle_error says -1: onDisconnect and clear().
ReadHardError ==
  /\ pc = "idle" /\ rop.st = "hard"
  /\ Clear(NoRead, wq)
  /\ notified' = notified + 1
  /\ UNCHANGED <<pc, maxRead, cur, rpos, rdpos, wired, lateWrites, peerVars, sendVars>>

\* What the header at the beginning of the unused bytes may claim: what the peer
\* wrote, when the bytes of one of its headers are there in order, else anything.
HeaderIntact(b) ==
  /\ GetCanUseSize(b) >= HDR
  /\ b.mem[b.used] \in DOMAIN frames
  /\ \A i \in 0..HDR-1 : b.mem[b.used + i] = b.mem[b.used] + i

ClaimsSeen(b) == IF HeaderIntact(b) THEN {frames[b.mem[b.used]]} ELSE Claims

\* Beyond used <= in the code reads outside its buffer; the model stops there.
Decoding == pc = "decode" /\ rb.used <= rb.in

\* Mutant of Compacted: the buffer is never compacted.
NotCompacted(b, t) == b

\* The buffer after the loop has found no complete packet, with threshold t
Compacted(b, t) == IF b.in >= t THEN MoveUnuseData2Begin(b) ELSE b

\* No complete packet: the first session to come here fixes the threshold.
DecodeIncomplete ==
  /\ Decoding
  /\ \E c \in ClaimsSeen(rb) : DecodePacket(GetCanUseSize(rb), c) = 0
  /\ maxRead' = IF maxRead = Unset THEN RecvLen - MAXPKT ELSE maxRead
  /\ rb' = Compacted(rb, maxRead')
  /\ rop' = StartRead(rb', sock)
  /\ pc' = "idle"
  /\ UNCHANGED <<sock, connected, sb, sending, cur, rpos, wq, rdpos, wired,
                 lateWrites, notified, peerVars, sendVars>>

\* Malformed: clear() and return, without onDisconnect.
DecodeMalformed ==
  /\ Decoding
  /\ \E c \in ClaimsSeen(rb) : DecodePacket(GetCanUseSize(rb), c) = -1
  /\ Clear(rop, wq)
  /\ pc' = "idle"
  /\ UNCHANGED <<maxRead, cur, rpos, rdpos, wired, lateWrites, notified,
                 peerVars, sendVars>>

\* A packet: its header is used and onReceive called.
Deliver ==
  /\ Decoding
  /\ \E c \in ClaimsSeen(rb) :
       /\ DecodePacket(GetCanUseSize(rb), c) = 1
       /\ cur' = [start |-> rb.mem[rb.used], size |-> c]
  /\ rb' = DataUse(rb, HDR)
  /\ pc' = "onReceive"
  /\ UNCHANGED <<sock, connected, sb, sending, maxRead, rpos, rop, wq, rdpos, wired,
                 lateWrites, notified, peerVars, sendVars>>

\* onReceive returns: the payload is used; next packet, or read again.
ReceiveReturn ==
  /\ pc = "onReceive"
  /\ rb' = DataUse(rb, cur.size)
  /\ rpos' = IF sock = "open" THEN rpos + HDR + cur.size ELSE rpos
  /\ cur' = NoCur
  /\ IF rb'.in = rb'.used
     THEN pc' = "idle" /\ rop' = StartRead(rb', sock)
     ELSE pc' = "decode" /\ rop' = rop
  /\ UNCHANGED <<sock, connected, sb, sending, maxRead, wq, rdpos, wired,
                 lateWrites, notified, peerVars, sendVars>>

-----------------------------------------------------------------------------
(* write_result: the oldest write operation has completed.  A write of at  *)
(* least one byte never completes with 0 bytes and no error.               *)

\* Sent(), then handle_write() if bytes are left: with handle_sending_ still set
\* it starts nothing.  GetCanSendSize aborts the process when its assertion fails.
WriteDone ==
  /\ pc = "idle" /\ wq # <<>> /\ Head(wq).st = "ok"
  /\ sb' = Sent(sb, Head(wq).n)
  /\ sending' = FALSE
  /\ IF SendAssertion(sb')
     THEN pc' = pc /\ HandleWrite(sb', sending, Tail(wq))
     ELSE pc' = "aborted" /\ wq' = Tail(wq) /\ lateWrites' = lateWrites
  /\ UNCHANGED <<sock, connected, rop, rdpos, wired, notified, recvVars, peerVars, sendVars>>

\* Mutant of WriteSoftError: the flag stays set.
WriteSoftErrorKeepsFlag ==
  /\ pc = "idle" /\ wq # <<>> /\ Head(wq).st = "soft"
  /\ HandleWrite(sb, sending, Tail(wq))
  /\ UNCHANGED <<sock, connected, sb, sending, pc, rop, rdpos, wired, notified, recvVars,
                 peerVars, sendVars>>

WriteSoftError ==
  /\ pc = "idle" /\ wq # <<>> /\ Head(wq).st = "soft"
  /\ HandleWrite(sb, sending, Tail(wq))
  /\ sending' = FALSE
  /\ UNCHANGED <<sock, connected, sb, pc, rop, rdpos, wired, notified, recvVars, peerVars, sendVars>>

WriteHardError ==
  /\ pc = "idle" /\ wq # <<>> /\ Head(wq).st = "hard"
  /\ Clear(rop, Tail(wq))
  /\ notified' = notified + 1
  /\ UNCHANGED <<pc, maxRead, cur, rpos, rdpos, wired, lateWrites, peerVars, sendVars>>

-----------------------------------------------------------------------------
(* The application: send(), and clear() from its own loop *)

AppMayCall == pc \in {"idle", "onConnect", "onReceive"} /\ sock # "new"

\* Too large for a packet: FALSE.
SendTooLarge(n) ==
  /\ EncodePacket(n, GetLeftInSize(sb)) = -1
  /\ UNCHANGED <<sb, sending, wq, lateWrites, queued>>

\* No room: the data is not kept, and send() returns TRUE.
SendNoRoom(n) ==
  /\ EncodePacket(n, GetLeftInSize(sb)) = 0
  /\ HandleWrite(sb, sending, wq)
  /\ sending' = (sending \/ CanStartWrite(sb, sending))
  /\ UNCHANGED <<sb, queued>>

SendQueued(n) ==
  /\ EncodePacket(n, GetLeftInSize(sb)) = 1
  /\ sb' = DataIn([sb EXCEPT !.mem = Store(sb.mem, sb.in, HDR + n, queued)], HDR + n)
  /\ HandleWrite(sb', sending, wq)
  /\ sending' = (sending \/ CanStartWrite(sb', sending))
  /\ queued' = queued + HDR + n

AppSend ==
  /\ AppMayCall /\ sends < MaxSends
  /\ sends' = sends + 1
  /\ \E n \in SendSizes : SendTooLarge(n) \/ SendNoRoom(n) \/ SendQueued(n)
  /\ UNCHANGED <<sock, connected, pc, rop, rdpos, wired, notified, recvVars, peerVars>>

AppClear ==
  /\ pc = "idle" /\ sock = "open"
  /\ Clear(rop, wq)
  /\ UNCHANGED <<pc, maxRead, cur, rpos, rdpos, wired, lateWrites, notified,
                 peerVars, sendVars>>

\* Another session of the process is the first to leave its loop with an
\* incomplete packet, and fixes the static threshold by its own buffer size.
OtherSessionFixesThreshold ==
  /\ maxRead = Unset
  /\ \E l \in OtherLens : maxRead' = l - MAXPKT
  /\ UNCHANGED <<sock, connected, rb, sb, sending, pc, cur, rop, wq, rdpos, rpos, wired,
                 lateWrites, notified, peerVars, sendVars>>

-----------------------------------------------------------------------------
(* The operating system and the peer *)

HandlerVars == <<sock, connected, sb, sending, maxRead, pc, cur, rpos, lateWrites,
                 notified, sendVars>>

\* A read completes with k bytes; one of 0 bytes completes at once with none.
OsRead ==
  /\ rop.st = "pending"
  /\ \/ \E k \in 1..rop.n :
          /\ rdpos + k <= slen
          /\ rb' = [rb EXCEPT !.mem = Store(rb.mem, rop.at, k, rdpos)]
          /\ rop' = [st |-> "ok", at |-> rop.at, n |-> k]
          /\ rdpos' = rdpos + k
     \/ /\ rop.n = 0
        /\ rop' = [rop EXCEPT !.st = "ok"]
        /\ UNCHANGED <<rb, rdpos>>
  /\ UNCHANGED <<HandlerVars, wq, wired, peerVars>>

\* End of stream, reset ("hard"), or the error 10035 ("soft")
OsReadFail ==
  /\ rop.st = "pending"
  /\ \E e \in {"soft", "hard"} : rop' = [rop EXCEPT !.st = e]
  /\ UNCHANGED <<HandlerVars, rb, wq, rdpos, wired, peerVars>>

\* The oldest write that is still pending
Writing(i) == /\ i \in DOMAIN wq /\ wq[i].st = "pending"
              /\ \A j \in 1..i-1 : wq[j].st # "pending"

\* The socket takes k bytes of it, all or only some.
OsWrite ==
  /\ \E i \in DOMAIN wq : /\ Writing(i)
                          /\ \E k \in 1..wq[i].n :
                               /\ wq' = [wq EXCEPT ![i] = [st |-> "ok", at |-> wq[i].at, n |-> k]]
                               /\ wired' = wired + k
  /\ UNCHANGED <<HandlerVars, rb, rop, rdpos, peerVars>>

OsWriteFail ==
  /\ \E i \in DOMAIN wq, e \in {"soft", "hard"} :
       Writing(i) /\ wq' = [wq EXCEPT ![i].st = e]
  /\ UNCHANGED <<HandlerVars, rb, rop, rdpos, wired, peerVars>>

\* The bytes a packet with this claim adds to the stream; after a malformed
\* header nothing the peer sends matters.
FrameLength(c) == IF c \in Payloads THEN HDR + c ELSE HDR

PeerSend ==
  /\ \A p \in DOMAIN frames : frames[p] \in Payloads
  /\ \E c \in Claims :
       /\ slen + FrameLength(c) <= MaxStream
       /\ frames' = [p \in DOMAIN frames \cup {slen} |-> IF p = slen THEN c ELSE frames[p]]
       /\ slen' = slen + FrameLength(c)
  /\ UNCHANGED <<HandlerVars, rb, rop, wq, rdpos, wired>>

-----------------------------------------------------------------------------
ReadHandler == ReadData \/ ReadNothing \/ ReadSoftError \/ ReadHardError
ReadLoop == DecodeIncomplete \/ DecodeMalformed \/ Deliver \/ ReceiveReturn
WriteHandler == WriteDone \/ WriteSoftError \/ WriteHardError
Thread == HandleAccept \/ ConnectReturn \/ ReadHandler \/ ReadLoop \/ WriteHandler
Application == AppSend \/ AppClear \/ OtherSessionFixesThreshold
Environment == OsRead \/ OsReadFail \/ OsWrite \/ OsWriteFail \/ PeerSend

Next == Thread \/ Application \/ Environment

Spec == Init /\ [][Next]_vars

\* The thread keeps polling, so a queued handler runs and a running one goes on.
\* The socket does not fail softly for ever: an operation that could make
\* progress again and again does so in the end.
Fairness == /\ WF_vars(ConnectReturn) /\ WF_vars(ReadHandler) /\ WF_vars(ReadLoop)
            /\ WF_vars(WriteHandler)
            /\ SF_vars(OsRead) /\ SF_vars(OsWrite)

FairSpec == Spec /\ Fairness

-----------------------------------------------------------------------------
(* Properties *)

ReadOps  == [st : {"none", "pending", "ok", "soft", "hard"}, at : Nat, n : Nat]
WriteOps == [st : {"pending", "ok", "soft", "hard"}, at : Nat, n : Nat]
RecvBuffers == [len : {RecvLen}, in : Nat, used : Nat, mem : Memory(RecvLen)]
SendBuffers == [len : {SendLen}, in : Nat, sent : Nat, mem : Memory(SendLen)]

\* The types of the variables.
TypeOK ==
  /\ sock \in {"new", "open", "closed"} /\ connected \in BOOLEAN /\ sending \in BOOLEAN
  /\ rb \in RecvBuffers /\ sb \in SendBuffers
  /\ maxRead \in Nat \cup {Unset}
  /\ pc \in {"idle", "onConnect", "decode", "onReceive", "aborted"}
  /\ cur \in [start : Nat \cup {Junk}, size : Payloads]
  /\ rop \in ReadOps /\ wq \in Seq(WriteOps)
  /\ slen \in Nat /\ DOMAIN frames \subseteq Nat /\ \A p \in DOMAIN frames : frames[p] \in Claims
  /\ rdpos \in Nat /\ rpos \in Nat /\ queued \in Nat /\ wired \in Nat
  /\ sends \in Nat /\ lateWrites \in Nat /\ notified \in Nat

\* hs_buffer.h:197 says the used offset never passes the received one; both stay
\* within the buffer, also when stale completions arrive after clear().
RecvBounds == rb.used <= rb.in /\ rb.in <= RecvLen

\* While the socket is open and no handler runs, a read with room for at least
\* one byte is outstanding: the read loop of handle_read and start() never dies.
ReadLoopAlive == sock = "open" /\ pc = "idle" =>
  /\ rop.st # "none"
  /\ rop.st \in {"pending", "ok"} => rop.n > 0

\* The threshold was fixed by a session whose receive buffer is not larger, or not yet.
ThresholdFits == maxRead <= RecvLen - MAXPKT

\* With such a threshold the read loop never dies (hs_session.cpp:98-103): a full buffer
\* is compacted before the next read, and what is left of it has room.
FittingLoopAlive == ThresholdFits => ReadLoopAlive

\* The packet given to onReceive while the socket is open is the next one of the
\* peer's stream, whole: nothing lost, repeated, reordered or overwritten by the
\* moves and resets of the receive buffer (hs_session.cpp:68-103).
PacketIntact == sock = "open" /\ pc = "onReceive" =>
  /\ cur.start = rpos /\ rpos \in DOMAIN frames /\ cur.size = frames[rpos]
  /\ \A i \in 0..cur.size-1 : rb.mem[rb.used + i] = rpos + HDR + i

\* A write operation that is still pending holds the bytes that follow on the
\* wire, although send() and Sent() change the buffer under it.
WriteInOrder == \A i \in DOMAIN wq : Writing(i) =>
  /\ wq[i].at + wq[i].n <= SendLen
  /\ \A k \in 0..wq[i].n-1 : sb.mem[wq[i].at + k] = wired + k

\* While the socket is open handle_sending_ says exactly whether a write is
\* outstanding, and at most one is (hs_session.cpp:144-162, 197).
SendingMeansInFlight == sock = "open" => /\ sending <=> wq # <<>>
                                         /\ Len(wq) <= 1

\* onDisconnect is called at most once for the read and once for the write that
\* were outstanding, and once for each write the application starts afterwards.
DisconnectBound == notified <= 2 + lateWrites

\* No assertion of the send buffer fails (hs_buffer.h:240).
NoAssertFailure == pc # "aborted"

\* Every well-formed packet of the stream is given to the application, and a
\* malformed one ends the connection, unless the connection ends before or another
\* session fixes a threshold that does not fit (hs_session.cpp:68-106).
StreamProcessed ==
  \A p \in 0..MaxStream :
    sock = "open" /\ rpos = p /\ p \in DOMAIN frames ~>
      sock = "closed" \/ rpos > p \/ ~ThresholdFits

\* What send() has put into the buffer reaches the wire, or the connection ends.
QueuedReachesWire == sock = "open" /\ wired < queued ~> sock = "closed" \/ wired = queued

\* The session implements the stream of packets that FrameStream promises.
Stream == INSTANCE FrameStream WITH up <- sock, next <- rpos
ImplementsStream == Stream!FSpec

\* An outstanding write is always settled, so a later send() can write again.
SendingSettles == sending ~> ~sending \/ pc = "aborted"

\* A torn down session runs out of handlers, so that its last shared_ptr goes.
Drains == sock = "closed" ~> (rop.st = "none" /\ wq = <<>>) \/ pc = "aborted"
=============================================================================
