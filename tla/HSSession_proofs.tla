-------------------------- MODULE HSSession_proofs --------------------------
(***************************************************************************)
(* Proofs about HSSession for every packet size, buffer size, stream and   *)
(* number of sends.                                                        *)
(***************************************************************************)
EXTENDS HSSession, TLAPS

-----------------------------------------------------------------------------
(* Facts about the buffer's and the packet worker's operators *)

\* What a new receive or send buffer is.
LEMMA NewBufferType == /\ NewRecvBuffer(RecvLen) \in RecvBuffers
                       /\ NewSendBuffer(SendLen) \in SendBuffers
  BY SessionAssumption DEF NewRecvBuffer, NewSendBuffer, RecvBuffers, SendBuffers, Memory

\* Storing stream bytes keeps the type of a memory.
LEMMA StoreType ==
  ASSUME NEW len \in Nat, NEW mem \in Memory(len), NEW at \in Nat, NEW n \in Nat, NEW pos \in Nat
  PROVE  Store(mem, at, n, pos) \in Memory(len)
  BY DEF Store, Memory

\* The fields of a receive buffer.
LEMMA RecvFields ==
  ASSUME NEW b \in RecvBuffers
  PROVE  b.len = RecvLen /\ b.in \in Nat /\ b.used \in Nat /\ b.mem \in Memory(RecvLen)
  BY DEF RecvBuffers

\* The fields of a send buffer.
LEMMA SendFields ==
  ASSUME NEW b \in SendBuffers
  PROVE  b.len = SendLen /\ b.in \in Nat /\ b.sent \in Nat /\ b.mem \in Memory(SendLen)
  BY DEF SendBuffers

\* DataIn moves in by n when the bytes fit.
LEMMA RecvDataIn ==
  ASSUME NEW b \in RecvBuffers, NEW n \in Nat
  PROVE  /\ DataIn(b, n) \in RecvBuffers
         /\ DataIn(b, n).used = b.used /\ DataIn(b, n).mem = b.mem
         /\ b.in + n <= RecvLen => DataIn(b, n).in = b.in + n
         /\ b.in + n > RecvLen => DataIn(b, n).in = b.in
<1>1. CASE b.in + n > b.len
  <2>1. DataIn(b, n) = b
    BY <1>1 DEF DataIn
  <2> QED BY <1>1, <2>1, RecvFields, SessionAssumption
<1>2. CASE ~(b.in + n > b.len)
  <2>1. DataIn(b, n) = [len |-> b.len, in |-> b.in + n, used |-> b.used, mem |-> b.mem]
    BY <1>2 DEF DataIn, RecvBuffers
  <2> QED BY <1>2, <2>1 DEF RecvBuffers
<1> QED BY <1>1, <1>2

\* The same of a send buffer.
LEMMA SendDataIn ==
  ASSUME NEW b \in SendBuffers, NEW n \in Nat
  PROVE  /\ DataIn(b, n) \in SendBuffers
         /\ DataIn(b, n).sent = b.sent /\ DataIn(b, n).mem = b.mem
         /\ b.in + n <= SendLen => DataIn(b, n).in = b.in + n
<1>1. CASE b.in + n > b.len
  <2>1. DataIn(b, n) = b
    BY <1>1 DEF DataIn
  <2> QED BY <1>1, <2>1, SendFields, SessionAssumption
<1>2. CASE ~(b.in + n > b.len)
  <2>1. DataIn(b, n) = [len |-> b.len, in |-> b.in + n, sent |-> b.sent, mem |-> b.mem]
    BY <1>2 DEF DataIn, SendBuffers
  <2> QED BY <1>2, <2>1 DEF SendBuffers
<1> QED BY <1>1, <1>2

\* DataUse moves used by n, or resets the buffer when that uses everything.
LEMMA DataUseFields ==
  ASSUME NEW b \in RecvBuffers, NEW n \in Nat
  PROVE  /\ DataUse(b, n) \in RecvBuffers /\ DataUse(b, n).mem = b.mem
         /\ b.used + n = b.in => DataUse(b, n).in = 0 /\ DataUse(b, n).used = 0
         /\ b.used + n # b.in => DataUse(b, n).in = b.in /\ DataUse(b, n).used = b.used + n
<1>1. CASE b.used + n = b.in
  <2>1. DataUse(b, n) = [len |-> b.len, in |-> 0, used |-> 0, mem |-> b.mem]
    BY <1>1 DEF DataUse, RecvOffsets
  <2> QED BY <1>1, <2>1 DEF RecvBuffers
<1>2. CASE b.used + n # b.in
  <2>1. DataUse(b, n) = [len |-> b.len, in |-> b.in, used |-> b.used + n, mem |-> b.mem]
    BY <1>2 DEF DataUse, RecvOffsets
  <2> QED BY <1>2, <2>1 DEF RecvBuffers
<1> QED BY <1>1, <1>2

\* Sent moves sent by n, or resets the buffer when that sends everything.
LEMMA SentFields ==
  ASSUME NEW b \in SendBuffers, NEW n \in Nat
  PROVE  /\ Sent(b, n) \in SendBuffers /\ Sent(b, n).mem = b.mem
         /\ b.sent + n = b.in => Sent(b, n).in = 0 /\ Sent(b, n).sent = 0
         /\ b.sent + n # b.in => Sent(b, n).in = b.in /\ Sent(b, n).sent = b.sent + n
<1>1. CASE b.sent + n = b.in
  <2>1. Sent(b, n) = [len |-> b.len, in |-> 0, sent |-> 0, mem |-> b.mem]
    BY <1>1 DEF Sent, SendOffsets
  <2> QED BY <1>1, <2>1 DEF SendBuffers
<1>2. CASE b.sent + n # b.in
  <2>1. Sent(b, n) = [len |-> b.len, in |-> b.in, sent |-> b.sent + n, mem |-> b.mem]
    BY <1>2 DEF Sent, SendOffsets
  <2> QED BY <1>2, <2>1 DEF SendBuffers
<1> QED BY <1>1, <1>2

\* The clears reset the offsets.
LEMMA ClearRecvFields ==
  ASSUME NEW b \in RecvBuffers
  PROVE  ClearRecv(b) \in RecvBuffers /\ ClearRecv(b).in = 0 /\ ClearRecv(b).used = 0
<1>1. ClearRecv(b) = [len |-> b.len, in |-> 0, used |-> 0, mem |-> b.mem]
  BY DEF ClearRecv, RecvOffsets
<1> QED BY <1>1 DEF RecvBuffers

LEMMA ClearSendFields ==
  ASSUME NEW b \in SendBuffers
  PROVE  ClearSend(b) \in SendBuffers /\ ClearSend(b).in = 0 /\ ClearSend(b).sent = 0
<1>1. ClearSend(b) = [len |-> b.len, in |-> 0, sent |-> 0, mem |-> b.mem]
  BY DEF ClearSend, SendOffsets
<1> QED BY <1>1 DEF SendBuffers

\* Compaction keeps the unused bytes, from the beginning of the memory on, when the
\* threshold is reached, and otherwise the buffer; it stays inside the memory.
LEMMA CompactedFields ==
  ASSUME NEW b \in RecvBuffers, NEW t \in Int, b.used <= b.in, b.in <= RecvLen
  PROVE  /\ Compacted(b, t) \in RecvBuffers
         /\ Compacted(b, t).used <= Compacted(b, t).in
         /\ Compacted(b, t).in - Compacted(b, t).used = b.in - b.used
         /\ \A k \in 0..b.in - b.used - 1 :
              Compacted(b, t).mem[Compacted(b, t).used + k] = b.mem[b.used + k]
         /\ b.in >= t /\ b.used < b.in => Compacted(b, t).in = b.in - b.used
         /\ ~(b.in >= t /\ b.used < b.in) => Compacted(b, t).in = b.in
<1>1. CASE b.in >= t /\ b.used < b.in
  <2> DEFINE m == [o \in DOMAIN b.mem |->
                     IF o < b.in - b.used THEN b.mem[b.used + o] ELSE b.mem[o]]
  <2>1. m \in Memory(RecvLen)
    BY <1>1, SessionAssumption DEF RecvBuffers, Memory
  <2>2. \A k \in 0..b.in - b.used - 1 : m[k] = b.mem[b.used + k]
    BY <1>1, SessionAssumption DEF RecvBuffers, Memory
  <2>3. b.in - b.used \in Nat /\ b.in - b.used > 0
    BY <1>1, RecvFields
  <2>4. Compacted(b, t) = [len |-> b.len, in |-> b.in - b.used, used |-> 0, mem |-> m]
    BY <1>1, <2>3 DEF Compacted, MoveUnuseData2Begin, GetCanUseSize
  <2> HIDE DEF m
  <2> QED BY <1>1, <2>1, <2>2, <2>3, <2>4 DEF RecvBuffers
<1>2. CASE ~(b.in >= t /\ b.used < b.in)
  <2>1. Compacted(b, t) = b
    BY <1>2, RecvFields DEF Compacted, MoveUnuseData2Begin, GetCanUseSize
  <2> QED BY <1>2, <2>1, RecvFields
<1> QED BY <1>1, <1>2

\* What DecodePacket says of a block and a claim.
LEMMA DecodeFacts ==
  ASSUME NEW size \in Nat, NEW c \in Claims
  PROVE  /\ DecodePacket(size, c) = 1 => c \in Payloads /\ HDR + c <= size
         /\ DecodePacket(size, c) = 0 => size < MAXPKT
         /\ DecodePacket(size, c) = -1 => c \notin Payloads /\ HDR <= size
  BY PacketAssumption, SMT DEF DecodePacket, Claims, Payloads, MaxPayload, Oversize, BadMagic

\* Payload lengths are numbers and may be claimed.
LEMMA PayloadsNat == Payloads \subseteq Nat /\ Payloads \subseteq Claims
  BY PacketAssumption DEF Payloads, MaxPayload, Claims

\* Claims the decoder may see are claims.
LEMMA ClaimsSeenType ==
  ASSUME NEW b, \A p \in DOMAIN frames : frames[p] \in Claims
  PROVE  ClaimsSeen(b) \subseteq Claims
  BY DEF ClaimsSeen, HeaderIntact

-----------------------------------------------------------------------------
(* Operations of the socket *)

\* start() reads into all of the free part of the buffer.
LEMMA StartReadFields ==
  ASSUME NEW b \in RecvBuffers, b.in <= RecvLen, NEW s
  PROVE  /\ StartRead(b, s) \in ReadOps
         /\ StartRead(b, s).at = b.in /\ StartRead(b, s).n = RecvLen - b.in
         /\ StartRead(b, s).st = IF s = "open" THEN "pending" ELSE "hard"
<1>1. RecvLen - b.in \in Nat
  BY RecvFields, SessionAssumption
<1> QED BY <1>1, RecvFields DEF StartRead, ReadOps, GetLeftInSize

\* Aborting operations keeps their types.
LEMMA AbortTypes ==
  /\ \A r \in ReadOps : Abort(r) \in ReadOps
  /\ \A q \in Seq(WriteOps) : AbortAll(q) \in Seq(WriteOps) /\ Len(AbortAll(q)) = Len(q)
<1>1. \A r \in ReadOps : Abort(r) \in ReadOps
  BY DEF Abort, ReadOps
<1>2. ASSUME NEW q \in Seq(WriteOps)
      PROVE  AbortAll(q) \in Seq(WriteOps) /\ Len(AbortAll(q)) = Len(q)
  <2>1. ASSUME NEW i \in 1..Len(q) PROVE Abort(q[i]) \in WriteOps
    <3>1. q[i] \in WriteOps
      OBVIOUS
    <3> QED BY <3>1 DEF Abort, WriteOps
  <2>2. AbortAll(q) = [i \in 1..Len(q) |-> Abort(q[i])]
    BY DEF AbortAll
  <2> QED BY <2>1, <2>2
<1> QED BY <1>1, <1>2

\* No operation is one of the values of rop.
LEMMA NoReadType == NoRead \in ReadOps
  BY DEF NoRead, ReadOps

\* handle_write() appends at most one operation to the queue.
LEMMA HandleWriteType ==
  ASSUME NEW b \in SendBuffers, NEW snd, NEW q \in Seq(WriteOps), lateWrites \in Nat,
         HandleWrite(b, snd, q)
  PROVE  wq' \in Seq(WriteOps) /\ lateWrites' \in Nat
<1>1. CASE CanStartWrite(b, snd)
  <2>1. WriteOp(b, sock) \in WriteOps
    BY <1>1, SendFields DEF CanStartWrite, GetCanSendSize, WriteOp, WriteOps
  <2> QED BY <1>1, <2>1 DEF HandleWrite
<1>2. CASE ~CanStartWrite(b, snd)
  BY <1>2 DEF HandleWrite
<1> QED BY <1>1, <1>2

\* clear() keeps the types and leaves the session closed and its buffers empty.
LEMMA ClearResult ==
  ASSUME TypeOK, NEW r \in ReadOps, NEW q \in Seq(WriteOps), Clear(r, q)
  PROVE  /\ sock' = "closed" /\ connected' = FALSE /\ sending' = FALSE
         /\ rb' \in RecvBuffers /\ rb'.in = 0 /\ rb'.used = 0
         /\ sb' \in SendBuffers /\ sb'.in = 0 /\ sb'.sent = 0
         /\ rop' = Abort(r) /\ rop' \in ReadOps
         /\ wq' = AbortAll(q) /\ wq' \in Seq(WriteOps) /\ Len(wq') = Len(q)
<1>1. rb \in RecvBuffers /\ sb \in SendBuffers
  BY DEF TypeOK
<1> QED BY <1>1, ClearRecvFields, ClearSendFields, AbortTypes DEF Clear

-----------------------------------------------------------------------------
(* Type correctness and the bounds of the receive buffer *)

\* onReceive is called only with a payload that is wholly in the buffer.
PayloadPresent == pc = "onReceive" => rb.used + cur.size <= rb.in

BoundsInv == TypeOK /\ RecvBounds /\ PayloadPresent

\* The invariant holds of a new session.
LEMMA BoundsInit == Init => BoundsInv
<1> SUFFICES ASSUME Init PROVE BoundsInv
  OBVIOUS
<1>1. rb \in RecvBuffers /\ sb \in SendBuffers /\ rb.in = 0 /\ rb.used = 0
  BY NewBufferType DEF Init, NewRecvBuffer
<1>2. cur \in [start : Nat \cup {Junk}, size : Payloads]
  BY PacketAssumption DEF Init, NoCur, Payloads, MaxPayload
<1>3. DOMAIN frames = {}
  BY DEF Init
<1>4. wq \in Seq(WriteOps) /\ rop \in ReadOps
  BY NoReadType DEF Init
<1>5. TypeOK
  BY <1>1, <1>2, <1>3, <1>4 DEF Init, TypeOK
<1>6. RecvBounds /\ PayloadPresent
  BY <1>1, SessionAssumption DEF Init, RecvBounds, PayloadPresent
<1> QED BY <1>5, <1>6 DEF BoundsInv

\* Every handler, call and completion keeps it.
LEMMA BoundsStep == BoundsInv /\ [Next]_vars => BoundsInv'
<1> SUFFICES ASSUME BoundsInv, [Next]_vars PROVE BoundsInv'
  OBVIOUS
<1> USE DEF BoundsInv
<1>t. /\ rb \in RecvBuffers /\ sb \in SendBuffers /\ rop \in ReadOps /\ wq \in Seq(WriteOps)
      /\ cur.size \in Payloads /\ lateWrites \in Nat
      /\ rop.n \in Nat /\ rop.at \in Nat
  BY DEF TypeOK, ReadOps
<1>r. rb.in \in Nat /\ rb.used \in Nat /\ rb.used <= rb.in /\ rb.in <= RecvLen
  BY <1>t, RecvFields DEF RecvBounds
<1>1. CASE HandleAccept
  BY <1>1 DEF HandleAccept, TypeOK, RecvBounds, PayloadPresent, recvVars, peerVars, sendVars
<1>2. CASE ConnectReturn
  <2>1. rop' \in ReadOps
    BY <1>2, <1>t, <1>r, StartReadFields DEF ConnectReturn
  <2> QED BY <1>2, <2>1 DEF ConnectReturn, TypeOK, RecvBounds, PayloadPresent,
          recvVars, peerVars, sendVars
<1>3. CASE ReadData
  <2>1. rb' = DataIn(rb, rop.n)
    BY <1>3 DEF ReadData
  <2>2. rb' \in RecvBuffers /\ rb'.used = rb.used /\ rb'.in \in {rb.in, rb.in + rop.n}
        /\ rb'.in <= RecvLen
    <3>1. /\ rb' \in RecvBuffers /\ rb'.used = rb.used
          /\ rb.in + rop.n <= RecvLen => rb'.in = rb.in + rop.n
          /\ rb.in + rop.n > RecvLen => rb'.in = rb.in
      BY <2>1, <1>t, RecvDataIn
    <3> QED BY <3>1, <1>t, <1>r, SessionAssumption
  <2>3. rb'.used <= rb'.in
    BY <2>2, <1>t, <1>r
  <2> QED BY <1>3, <2>2, <2>3, NoReadType
          DEF ReadData, TypeOK, RecvBounds, PayloadPresent, peerVars, sendVars
<1>4. CASE ReadNothing
  BY <1>4, NoReadType DEF ReadNothing, TypeOK, RecvBounds, PayloadPresent,
     recvVars, peerVars, sendVars
<1>5. CASE ReadSoftError
  <2>1. rop' \in ReadOps
    BY <1>5, <1>t, <1>r, StartReadFields DEF ReadSoftError
  <2> QED BY <1>5, <2>1 DEF ReadSoftError, TypeOK, RecvBounds, PayloadPresent,
          recvVars, peerVars, sendVars
<1>6. CASE ReadHardError
  <2>1. Clear(NoRead, wq)
    BY <1>6 DEF ReadHardError
  <2>2. /\ sock' = "closed" /\ connected' = FALSE /\ sending' = FALSE
        /\ rb' \in RecvBuffers /\ rb'.in = 0 /\ rb'.used = 0 /\ sb' \in SendBuffers
        /\ rop' \in ReadOps /\ wq' \in Seq(WriteOps)
    BY <2>1, <1>t, ClearResult, NoReadType
  <2>3. TypeOK'
    <3>1. notified' \in Nat
      BY <1>6 DEF ReadHardError, TypeOK
    <3> QED BY <1>6, <2>2, <3>1 DEF ReadHardError, TypeOK, peerVars, sendVars
  <2>4. RecvBounds' /\ PayloadPresent'
    BY <1>6, <2>2, SessionAssumption DEF ReadHardError, Decoding, RecvBounds, PayloadPresent
  <2> QED BY <2>3, <2>4
<1>7. CASE DecodeIncomplete
  <2>1. maxRead' \in Nat \cup {Unset} /\ maxRead' \in Int
    BY <1>7, SessionAssumption, PacketAssumption DEF DecodeIncomplete, TypeOK, Unset
  <2>2. rb' = Compacted(rb, maxRead')
    BY <1>7 DEF DecodeIncomplete
  <2>3. rb' \in RecvBuffers /\ rb'.used <= rb'.in /\ rb'.in <= RecvLen
    BY <2>1, <2>2, <1>t, <1>r, CompactedFields, SessionAssumption
  <2>4. rop' \in ReadOps
    BY <1>7, <2>3, StartReadFields DEF DecodeIncomplete
  <2> QED BY <1>7, <2>1, <2>3, <2>4
          DEF DecodeIncomplete, TypeOK, RecvBounds, PayloadPresent, peerVars, sendVars
<1>8. CASE DecodeMalformed
  <2>1. Clear(rop, wq)
    BY <1>8 DEF DecodeMalformed
  <2>2. /\ sock' = "closed" /\ connected' = FALSE /\ sending' = FALSE
        /\ rb' \in RecvBuffers /\ rb'.in = 0 /\ rb'.used = 0 /\ sb' \in SendBuffers
        /\ rop' \in ReadOps /\ wq' \in Seq(WriteOps)
    BY <2>1, <1>t, ClearResult, NoReadType
  <2>3. TypeOK'
    BY <1>8, <2>2 DEF DecodeMalformed, TypeOK, peerVars, sendVars
  <2>4. RecvBounds' /\ PayloadPresent'
    BY <1>8, <2>2, SessionAssumption DEF DecodeMalformed, Decoding, RecvBounds, PayloadPresent
  <2> QED BY <2>3, <2>4
<1>9. CASE Deliver
  <2>1. PICK c \in ClaimsSeen(rb) :
             /\ DecodePacket(GetCanUseSize(rb), c) = 1
             /\ cur' = [start |-> rb.mem[rb.used], size |-> c]
    BY <1>9 DEF Deliver
  <2>2. c \in Claims
    BY <2>1, ClaimsSeenType DEF TypeOK
  <2>3. GetCanUseSize(rb) = rb.in - rb.used /\ GetCanUseSize(rb) \in Nat
    BY <1>r DEF GetCanUseSize
  <2>4. c \in Payloads /\ c \in Nat /\ HDR + c <= rb.in - rb.used
    BY <2>1, <2>2, <2>3, DecodeFacts, PayloadsNat
  <2>5. rb' = DataUse(rb, HDR)
    BY <1>9 DEF Deliver
  <2>6a. /\ rb' \in RecvBuffers
         /\ rb.used + HDR = rb.in => rb'.in = 0 /\ rb'.used = 0
         /\ rb.used + HDR # rb.in => rb'.in = rb.in /\ rb'.used = rb.used + HDR
    BY <2>5, <1>t, DataUseFields, PacketAssumption
  <2>6. rb'.used <= rb'.in /\ rb'.in <= RecvLen /\ rb'.used + c <= rb'.in
    BY <2>4, <2>6a, <1>r, PacketAssumption, SessionAssumption
  <2>7. rb.mem[rb.used] \in Nat \cup {Junk}
    BY <2>4, <1>t, <1>r, RecvFields, PacketAssumption, SessionAssumption DEF Memory
  <2>8. cur' \in [start : Nat \cup {Junk}, size : Payloads] /\ cur'.size = c
    BY <2>1, <2>4, <2>7
  <2> QED BY <1>9, <2>6a, <2>6, <2>8
          DEF Deliver, TypeOK, RecvBounds, PayloadPresent, peerVars, sendVars
<1>10. CASE ReceiveReturn
  <2>1. cur.size \in Nat /\ rb.used + cur.size <= rb.in
    BY <1>10, <1>t, PayloadsNat DEF ReceiveReturn, PayloadPresent
  <2>2a. rb' = DataUse(rb, cur.size)
    BY <1>10 DEF ReceiveReturn
  <2>2b. /\ rb' \in RecvBuffers
         /\ rb.used + cur.size = rb.in => rb'.in = 0 /\ rb'.used = 0
         /\ rb.used + cur.size # rb.in => rb'.in = rb.in /\ rb'.used = rb.used + cur.size
    BY <2>1, <2>2a, <1>t, DataUseFields
  <2>2. rb' \in RecvBuffers /\ rb'.used <= rb'.in /\ rb'.in <= RecvLen
    BY <2>1, <2>2b, <1>r, SessionAssumption
  <2>3. rop' \in ReadOps /\ pc' \in {"idle", "decode"}
    BY <1>10, <2>2, <1>t, StartReadFields DEF ReceiveReturn
  <2>4. cur' \in [start : Nat \cup {Junk}, size : Payloads]
    BY <1>10, PacketAssumption DEF ReceiveReturn, NoCur, Payloads, MaxPayload
  <2>5. rpos' \in Nat
    BY <1>10, <2>1, PacketAssumption DEF ReceiveReturn, TypeOK
  <2> QED BY <1>10, <2>2, <2>3, <2>4, <2>5
          DEF ReceiveReturn, TypeOK, RecvBounds, PayloadPresent, peerVars, sendVars
<1>11. CASE WriteDone
  <2>0. Head(wq) \in WriteOps /\ Tail(wq) \in Seq(WriteOps)
    BY <1>11, <1>t DEF WriteDone
  <2>1. Tail(wq) \in Seq(WriteOps) /\ Head(wq).n \in Nat
    BY <2>0 DEF WriteOps
  <2>2. sb' \in SendBuffers
    BY <1>11, <2>1, <1>t, SentFields DEF WriteDone
  <2>3. wq' \in Seq(WriteOps) /\ lateWrites' \in Nat /\ pc' \in {"idle", "aborted"}
    BY <1>11, <2>1, <2>2, <1>t, HandleWriteType DEF WriteDone
  <2>4. TypeOK'
    BY <1>11, <2>2, <2>3 DEF WriteDone, TypeOK, recvVars, peerVars, sendVars
  <2> QED BY <1>11, <2>3, <2>4 DEF WriteDone, RecvBounds, PayloadPresent, recvVars
<1>12. CASE WriteSoftError
  <2>1. Tail(wq) \in Seq(WriteOps)
    BY <1>12, <1>t DEF WriteSoftError
  <2>2. wq' \in Seq(WriteOps) /\ lateWrites' \in Nat
    BY <1>12, <2>1, <1>t, HandleWriteType DEF WriteSoftError
  <2>3. TypeOK'
    BY <1>12, <2>2 DEF WriteSoftError, TypeOK, recvVars, peerVars, sendVars
  <2> QED BY <1>12, <2>3 DEF WriteSoftError, RecvBounds, PayloadPresent, recvVars
<1>13. CASE WriteHardError
  <2>1. Clear(rop, Tail(wq)) /\ Tail(wq) \in Seq(WriteOps)
    BY <1>13, <1>t DEF WriteHardError
  <2>2. /\ sock' = "closed" /\ connected' = FALSE /\ sending' = FALSE
        /\ rb' \in RecvBuffers /\ rb'.in = 0 /\ rb'.used = 0 /\ sb' \in SendBuffers
        /\ rop' \in ReadOps /\ wq' \in Seq(WriteOps)
    BY <2>1, <1>t, ClearResult
  <2>3. TypeOK'
    <3>1. notified' \in Nat
      BY <1>13 DEF WriteHardError, TypeOK
    <3> QED BY <1>13, <2>2, <3>1 DEF WriteHardError, TypeOK, peerVars, sendVars
  <2>4. RecvBounds' /\ PayloadPresent'
    BY <1>13, <2>2, SessionAssumption DEF WriteHardError, RecvBounds, PayloadPresent
  <2> QED BY <2>3, <2>4
<1>14. CASE AppSend
  <2>1. PICK n \in SendSizes : SendTooLarge(n) \/ SendNoRoom(n) \/ SendQueued(n)
    BY <1>14 DEF AppSend
  <2>2. n \in Nat /\ HDR + n \in Nat
    BY SessionAssumption, PacketAssumption
  <2>3. /\ sb' \in SendBuffers /\ wq' \in Seq(WriteOps) /\ sending' \in BOOLEAN
        /\ lateWrites' \in Nat /\ queued' \in Nat
    <3>1. CASE SendTooLarge(n)
      BY <3>1 DEF SendTooLarge, TypeOK
    <3>2. CASE SendNoRoom(n)
      <4>1. wq' \in Seq(WriteOps) /\ lateWrites' \in Nat
        BY <3>2, <1>t, HandleWriteType DEF SendNoRoom
      <4>2. sending' \in BOOLEAN
        BY <3>2, Zenon DEF SendNoRoom, TypeOK
      <4> QED BY <3>2, <4>1, <4>2, PacketAssumption, SessionAssumption DEF SendNoRoom, TypeOK
    <3>3. CASE SendQueued(n)
      <4> DEFINE b == [sb EXCEPT !.mem = Store(sb.mem, sb.in, HDR + n, queued)]
      <4>1. b \in SendBuffers
        BY <2>2, <1>t, StoreType, SendFields, SessionAssumption DEF TypeOK, SendBuffers
      <4>2. sb' = DataIn(b, HDR + n)
        BY <3>3 DEF SendQueued
      <4> HIDE DEF b
      <4>3. sb' \in SendBuffers
        BY <4>1, <4>2, <2>2, SendDataIn
      <4>4. wq' \in Seq(WriteOps) /\ lateWrites' \in Nat
        BY <3>3, <4>3, <1>t, HandleWriteType DEF SendQueued
      <4>5. sending' \in BOOLEAN
        BY <3>3, Zenon DEF SendQueued, TypeOK
      <4>6. queued' \in Nat
        BY <3>3, <2>2, PacketAssumption DEF SendQueued, TypeOK
      <4> QED BY <4>3, <4>4, <4>5, <4>6
    <3> QED BY <2>1, <3>1, <3>2, <3>3
  <2>4. TypeOK'
    BY <1>14, <2>3 DEF AppSend, TypeOK, recvVars, peerVars
  <2> QED BY <1>14, <2>4 DEF AppSend, RecvBounds, PayloadPresent, recvVars
<1>15. CASE AppClear
  <2>1. Clear(rop, wq)
    BY <1>15 DEF AppClear
  <2>2. /\ sock' = "closed" /\ connected' = FALSE /\ sending' = FALSE
        /\ rb' \in RecvBuffers /\ rb'.in = 0 /\ rb'.used = 0 /\ sb' \in SendBuffers
        /\ rop' \in ReadOps /\ wq' \in Seq(WriteOps)
    BY <2>1, <1>t, ClearResult
  <2>3. TypeOK'
    BY <1>15, <2>2 DEF AppClear, TypeOK, peerVars, sendVars
  <2>4. RecvBounds' /\ PayloadPresent'
    BY <1>15, <2>2, SessionAssumption DEF AppClear, RecvBounds, PayloadPresent
  <2> QED BY <2>3, <2>4
<1>16. CASE OtherSessionFixesThreshold
  <2>1. maxRead' \in Nat
    BY <1>16, SessionAssumption, PacketAssumption DEF OtherSessionFixesThreshold
  <2> QED BY <1>16, <2>1 DEF OtherSessionFixesThreshold, TypeOK, RecvBounds, PayloadPresent,
          peerVars, sendVars
<1>17. CASE OsRead
  <2>1. /\ rb' \in RecvBuffers /\ rb'.in = rb.in /\ rb'.used = rb.used
        /\ rop' \in ReadOps /\ rdpos' \in Nat
    <3>1. CASE rop.n = 0 /\ rop' = [rop EXCEPT !.st = "ok"] /\ UNCHANGED <<rb, rdpos>>
      BY <3>1, <1>t DEF TypeOK, ReadOps
    <3>2. ASSUME NEW k \in 1..rop.n, rdpos + k <= slen,
                 rb' = [rb EXCEPT !.mem = Store(rb.mem, rop.at, k, rdpos)],
                 rop' = [st |-> "ok", at |-> rop.at, n |-> k], rdpos' = rdpos + k
          PROVE  /\ rb' \in RecvBuffers /\ rb'.in = rb.in /\ rb'.used = rb.used
                 /\ rop' \in ReadOps /\ rdpos' \in Nat
      <4>1. k \in Nat /\ rdpos \in Nat
        BY <1>t DEF TypeOK
      <4>2. Store(rb.mem, rop.at, k, rdpos) \in Memory(RecvLen)
        BY <4>1, <1>t, StoreType, RecvFields, SessionAssumption
      <4>3. rb' \in RecvBuffers /\ rb'.in = rb.in /\ rb'.used = rb.used
        BY <3>2, <4>2, <1>t DEF RecvBuffers
      <4>4. rop' \in ReadOps
        BY <3>2, <4>1, <1>t DEF ReadOps
      <4> QED BY <3>2, <4>1, <4>3, <4>4
    <3> QED BY <1>17, <3>1, <3>2 DEF OsRead
  <2>2. TypeOK'
    BY <1>17, <2>1 DEF OsRead, TypeOK, HandlerVars, peerVars, sendVars
  <2> QED BY <1>17, <2>1, <2>2 DEF OsRead, RecvBounds, PayloadPresent, HandlerVars
<1>18. CASE OsReadFail
  <2>1. rop' \in ReadOps
    BY <1>18, <1>t DEF OsReadFail, ReadOps
  <2> QED BY <1>18, <2>1 DEF OsReadFail, TypeOK, RecvBounds, PayloadPresent, HandlerVars,
          peerVars, sendVars
<1>19. CASE OsWrite
  <2>0. PICK i \in DOMAIN wq :
             \E k \in 1..wq[i].n :
               wq' = [wq EXCEPT ![i] = [st |-> "ok", at |-> wq[i].at, n |-> k]] /\ wired' = wired + k
    BY <1>19 DEF OsWrite
  <2>1. PICK k \in 1..wq[i].n :
             wq' = [wq EXCEPT ![i] = [st |-> "ok", at |-> wq[i].at, n |-> k]] /\ wired' = wired + k
    BY <2>0
  <2>2. i \in 1..Len(wq) /\ wq[i] \in WriteOps
    BY <1>t
  <2>3. k \in Nat /\ [st |-> "ok", at |-> wq[i].at, n |-> k] \in WriteOps
    BY <2>2 DEF WriteOps
  <2>4. wq' \in Seq(WriteOps) /\ wired' \in Nat
    BY <2>1, <2>2, <2>3, <1>t DEF TypeOK
  <2>5. TypeOK'
    BY <1>19, <2>4 DEF OsWrite, TypeOK, HandlerVars, peerVars, sendVars
  <2> QED BY <1>19, <2>5 DEF OsWrite, RecvBounds, PayloadPresent, HandlerVars
<1>20. CASE OsWriteFail
  <2>1. PICK i \in DOMAIN wq, e \in {"soft", "hard"} : wq' = [wq EXCEPT ![i].st = e]
    BY <1>20 DEF OsWriteFail
  <2>2. i \in 1..Len(wq) /\ wq[i] \in WriteOps
    BY <1>t
  <2>3. PICK op \in WriteOps : wq' = [wq EXCEPT ![i] = op]
    <3>1. [wq[i] EXCEPT !.st = e] \in WriteOps
      BY <2>2 DEF WriteOps
    <3> QED BY <2>1, <3>1, Zenon
  <2>3a. wq' \in Seq(WriteOps)
    BY <2>2, <2>3, <1>t
  <2>4. TypeOK'
    BY <1>20, <2>3a DEF OsWriteFail, TypeOK, HandlerVars, peerVars, sendVars
  <2> QED BY <1>20, <2>4 DEF OsWriteFail, RecvBounds, PayloadPresent, HandlerVars
<1>21. CASE PeerSend
  <2>1. PICK c \in Claims :
             /\ frames' = [p \in DOMAIN frames \cup {slen} |-> IF p = slen THEN c ELSE frames[p]]
             /\ slen' = slen + FrameLength(c)
    BY <1>21 DEF PeerSend
  <2>2. slen \in Nat /\ FrameLength(c) \in Nat
    BY PacketAssumption DEF TypeOK, FrameLength, Payloads, MaxPayload
  <2>3. slen' \in Nat /\ DOMAIN frames' \subseteq Nat /\ \A p \in DOMAIN frames' : frames'[p] \in Claims
    BY <2>1, <2>2 DEF TypeOK
  <2>4. TypeOK'
    BY <1>21, <2>3 DEF PeerSend, TypeOK, HandlerVars, sendVars
  <2> QED BY <1>21, <2>4 DEF PeerSend, RecvBounds, PayloadPresent, HandlerVars
<1>22. CASE UNCHANGED vars
  BY <1>22 DEF vars, TypeOK, RecvBounds, PayloadPresent
<1> QED BY <1>1, <1>2, <1>3, <1>4, <1>5, <1>6, <1>7, <1>8, <1>9, <1>10, <1>11, <1>12, <1>13,
           <1>14, <1>15, <1>16, <1>17, <1>18, <1>19, <1>20, <1>21, <1>22
        DEF Next, Thread, Application, Environment, ReadHandler, ReadLoop, WriteHandler

\* Every variable of a session keeps its type: in particular the payload length given to
\* onReceive is one a packet may have, and no offset becomes negative (hs_session.cpp,
\* hs_buffer.h).
THEOREM TypeCorrect == Spec => []TypeOK
<1>1. BoundsInv => TypeOK
  BY DEF BoundsInv
<1> QED BY BoundsInit, BoundsStep, <1>1, PTL DEF Spec

\* The offsets of the receive buffer stay in order and within it, whatever stale
\* completions arrive after clear(), which the application calls between handlers only
\* (hs_buffer.h:161-184, hs_session.cpp:52-103).
THEOREM BoundsKept == Spec => []RecvBounds
<1>1. BoundsInv => RecvBounds
  BY DEF BoundsInv
<1> QED BY BoundsInit, BoundsStep, <1>1, PTL DEF Spec
=============================================================================
