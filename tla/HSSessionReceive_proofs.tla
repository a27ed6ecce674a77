---------------------- MODULE HSSessionReceive_proofs -----------------------
(***************************************************************************)
(* The read loop of an open session never dies, as long as the static      *)
(* threshold was not fixed by a session with a larger receive buffer.      *)
(*                                                                         *)
(* What the peer writes is what onReceive gets: the packets of the stream  *)
(* one by one, in order and whole, whatever pieces the reads bring and     *)
(* however the receive buffer is compacted and reset.  HSSession           *)
(* implements FrameStream.                                                 *)
(***************************************************************************)
EXTENDS HSSession_proofs, SequenceTheorems

(* The loop *)


\* Before the first start() nothing has been received.
NotStarted == /\ sock = "new" => pc \in {"idle", "aborted"} /\ rop.st = "none" /\ rb.in = 0
              /\ pc = "onConnect" => rb.in = 0

\* The operation of an idle, open session reads into the free part of its buffer.
ReadFits == sock = "open" /\ pc = "idle" => rb.in + rop.n <= RecvLen

\* The loop of handle_read goes round only while bytes are unused.
DecodeHasBytes == sock = "open" /\ pc = "decode" => rb.used < rb.in

\* A threshold that fits leaves room behind the received bytes.
RoomLeft == ThresholdFits /\ sock = "open" /\ pc = "idle" => rb.in < RecvLen

LoopParts == NotStarted /\ ReadFits /\ DecodeHasBytes /\ RoomLeft /\ FittingLoopAlive

LoopInv == BoundsInv /\ LoopParts

\* A step that leaves the socket closed, new with an untouched buffer, or in a
\* callback, keeps the invariant's parts.
LEMMA ClosedParts ==
  ASSUME sock' = "closed", pc' # "onConnect" PROVE LoopParts'
BY DEF LoopParts, NotStarted, ReadFits, DecodeHasBytes, RoomLeft, FittingLoopAlive, ReadLoopAlive

\* A read started into a buffer with room.
LEMMA StartedParts ==
  ASSUME rb' \in RecvBuffers, rb'.in < RecvLen, rop' = StartRead(rb', sock'),
         pc' = "idle", sock' \in {"open", "closed"}
  PROVE  LoopParts'
<1>1. /\ rop'.n = RecvLen - rb'.in
      /\ rop'.st = IF sock' = "open" THEN "pending" ELSE "hard"
  BY StartReadFields, RecvFields, SessionAssumption
<1>2. rb'.in \in Nat /\ RecvLen \in Nat
  BY RecvFields, SessionAssumption
<1> QED BY <1>1, <1>2
        DEF LoopParts, NotStarted, ReadFits, DecodeHasBytes, RoomLeft, FittingLoopAlive, ReadLoopAlive

\* Steps that touch neither the receiving side nor the socket, though they may fix
\* the threshold or end in a failed assertion.
LEMMA SameParts ==
  ASSUME BoundsInv, LoopParts, ThresholdFits' => ThresholdFits,
         UNCHANGED <<sock, rop>>, rb'.in = rb.in, rb'.used = rb.used,
         pc' = pc \/ pc' = "aborted"
  PROVE  LoopParts'
BY DEF LoopParts, NotStarted, ReadFits, DecodeHasBytes, RoomLeft, FittingLoopAlive, ReadLoopAlive,
       BoundsInv

\* A new session has the invariant.
LEMMA LoopInit == Init => LoopInv
<1> SUFFICES ASSUME Init PROVE LoopInv
  OBVIOUS
<1>1. BoundsInv
  BY BoundsInit
<1>2. sock = "new" /\ pc = "idle" /\ rop.st = "none" /\ rb.in = 0
  BY DEF Init, NoRead, NewRecvBuffer
<1> QED BY <1>1, <1>2
        DEF LoopInv, LoopParts, NotStarted, ReadFits, DecodeHasBytes, RoomLeft, FittingLoopAlive, ReadLoopAlive

\* Every step keeps it.
LEMMA LoopStep == LoopInv /\ [Next]_vars => LoopInv'
<1> SUFFICES ASSUME LoopInv, [Next]_vars PROVE LoopParts'
  BY BoundsStep DEF LoopInv
<1>b. BoundsInv /\ LoopParts
  BY DEF LoopInv
<1>t. /\ rb \in RecvBuffers /\ rop \in ReadOps /\ wq \in Seq(WriteOps)
      /\ rop.n \in Nat /\ maxRead \in Int /\ sock \in {"new", "open", "closed"}
      /\ TypeOK
  BY <1>b DEF BoundsInv, TypeOK, ReadOps, Unset
<1>r. /\ rb.in \in Nat /\ rb.used \in Nat /\ rb.used <= rb.in /\ rb.in <= RecvLen
      /\ RecvLen \in Nat /\ MAXPKT \in Nat /\ MAXPKT > 0 /\ MAXPKT <= RecvLen
  BY <1>b, <1>t, RecvFields, SessionAssumption, PacketAssumption DEF BoundsInv, RecvBounds
<1>1. CASE HandleAccept
  <2>1. rb' = rb /\ rop' = rop /\ sock' = "open" /\ pc' = "onConnect" /\ rb.in = 0
    BY <1>1, <1>b DEF HandleAccept, recvVars, LoopParts, NotStarted
  <2> QED BY <2>1
          DEF LoopParts, NotStarted, ReadFits, DecodeHasBytes, RoomLeft, FittingLoopAlive, ReadLoopAlive
<1>2. CASE ConnectReturn
  <2>1. rb' = rb /\ rb.in = 0 /\ sock' = sock /\ pc' = "idle" /\ sock # "new"
    BY <1>2, <1>b DEF ConnectReturn, recvVars, LoopParts, NotStarted
  <2>2. rop' = StartRead(rb', sock')
    BY <1>2, <2>1 DEF ConnectReturn
  <2> QED BY <2>1, <2>2, <1>t, <1>r, StartedParts
<1>3. CASE ReadData
  <2>1. /\ rb' = DataIn(rb, rop.n) /\ rop.n > 0 /\ sock' = sock /\ pc = "idle" /\ pc' = "decode"
        /\ rop.st = "ok"
    BY <1>3 DEF ReadData
  <2>2. sock # "new"
    BY <2>1, <1>b DEF LoopParts, NotStarted
  <2>3. sock = "open" => rb'.used < rb'.in
    <3>1. sock = "open" => rb.in + rop.n <= RecvLen
      BY <2>1, <1>b DEF LoopParts, ReadFits
    <3>2. rb'.used = rb.used /\ (rb.in + rop.n <= RecvLen => rb'.in = rb.in + rop.n)
      BY <2>1, <1>t, RecvDataIn
    <3> QED BY <2>1, <3>1, <3>2, <1>t, <1>r
  <2> QED BY <2>1, <2>2, <2>3
          DEF LoopParts, NotStarted, ReadFits, DecodeHasBytes, RoomLeft, FittingLoopAlive, ReadLoopAlive
<1>4. CASE ReadNothing
  <2>1. /\ rop.st = "ok" /\ rop.n = 0 /\ pc = "idle"
        /\ rop' = NoRead /\ rb' = rb /\ sock' = sock /\ pc' = pc /\ maxRead' = maxRead
    BY <1>4 DEF ReadNothing, recvVars
  <2>2. ~(ThresholdFits /\ sock = "open") /\ sock # "new"
    BY <2>1, <1>b DEF LoopParts, FittingLoopAlive, ReadLoopAlive, NotStarted
  <2>3. ThresholdFits' => ThresholdFits
    BY <2>1 DEF ThresholdFits
  <2> QED BY <2>1, <2>2, <2>3, <1>r
          DEF LoopParts, NotStarted, ReadFits, DecodeHasBytes, RoomLeft, FittingLoopAlive,
              ReadLoopAlive, NoRead
<1>5. CASE ReadSoftError
  <2>1. /\ rop.st = "soft" /\ pc = "idle" /\ rb' = rb /\ sock' = sock /\ pc' = pc
        /\ maxRead' = maxRead /\ rop' = StartRead(rb, sock)
    BY <1>5 DEF ReadSoftError, recvVars
  <2>2. sock # "new" /\ (ThresholdFits /\ sock = "open" => rb.in < RecvLen)
    BY <2>1, <1>b DEF LoopParts, NotStarted, RoomLeft
  <2>3. ThresholdFits' => ThresholdFits
    BY <2>1 DEF ThresholdFits
  <2>4. rop'.n = RecvLen - rb.in /\ (sock = "open" => rop'.st = "pending")
    BY <2>1, <1>t, <1>r, StartReadFields
  <2> QED BY <2>1, <2>2, <2>3, <2>4, <1>r
          DEF LoopParts, NotStarted, ReadFits, DecodeHasBytes, RoomLeft, FittingLoopAlive, ReadLoopAlive
<1>6. CASE ReadHardError
  BY <1>6, ClosedParts DEF ReadHardError, Clear
<1>7. CASE DecodeIncomplete
  <2>1. PICK c \in ClaimsSeen(rb) : DecodePacket(GetCanUseSize(rb), c) = 0
    BY <1>7 DEF DecodeIncomplete
  <2>2. c \in Claims
    BY <2>1, <1>t, ClaimsSeenType DEF TypeOK
  <2>3. rb.in - rb.used < MAXPKT
    BY <2>1, <2>2, <1>r, DecodeFacts DEF GetCanUseSize
  <2>4. /\ rb' = Compacted(rb, maxRead') /\ sock' = sock /\ pc = "decode" /\ pc' = "idle"
        /\ rop' = StartRead(rb', sock')
    BY <1>7 DEF DecodeIncomplete, Decoding
  <2>5. maxRead' \in Int
    BY <1>7, <1>t, <1>r DEF DecodeIncomplete
  <2>6. /\ rb' \in RecvBuffers /\ rb'.in <= RecvLen
        /\ rb.in >= maxRead' /\ rb.used < rb.in => rb'.in = rb.in - rb.used
        /\ ~(rb.in >= maxRead' /\ rb.used < rb.in) => rb'.in = rb.in
    BY <2>4, <2>5, <1>t, <1>r, CompactedFields
  <2>7. sock # "new" /\ (sock = "open" => rb.used < rb.in)
    BY <2>4, <1>b DEF LoopParts, NotStarted, DecodeHasBytes
  <2>8. ThresholdFits' /\ sock = "open" => rb'.in < RecvLen
    BY <2>3, <2>5, <2>6, <2>7, <1>r DEF ThresholdFits
  <2>9. rop'.n = RecvLen - rb'.in /\ (sock = "open" => rop'.st = "pending") /\ rb'.in \in Nat
    BY <2>4, <2>6, StartReadFields, RecvFields
  <2> QED BY <2>4, <2>7, <2>8, <2>9, <1>r
          DEF LoopParts, NotStarted, ReadFits, DecodeHasBytes, RoomLeft, FittingLoopAlive, ReadLoopAlive
<1>8. CASE DecodeMalformed
  BY <1>8, ClosedParts DEF DecodeMalformed, Clear
<1>9. CASE Deliver
  <2>1. sock' = sock /\ pc' = "onReceive" /\ sock # "new"
    BY <1>9, <1>b DEF Deliver, Decoding, LoopParts, NotStarted
  <2> QED BY <2>1
          DEF LoopParts, NotStarted, ReadFits, DecodeHasBytes, RoomLeft, FittingLoopAlive, ReadLoopAlive
<1>10. CASE ReceiveReturn
  <2>1. /\ rb' = DataUse(rb, cur.size) /\ sock' = sock /\ pc = "onReceive"
        /\ rb.used + cur.size <= rb.in /\ cur.size \in Nat
    BY <1>10, <1>b, PayloadsNat DEF ReceiveReturn, BoundsInv, PayloadPresent, TypeOK
  <2>2. sock # "new"
    BY <2>1, <1>b DEF LoopParts, NotStarted
  <2>3. /\ rb' \in RecvBuffers
        /\ rb.used + cur.size = rb.in => rb'.in = 0 /\ rb'.used = 0
        /\ rb.used + cur.size # rb.in => rb'.in = rb.in /\ rb'.used = rb.used + cur.size
    BY <2>1, <1>t, DataUseFields
  <2>4. CASE rb'.in = rb'.used
    <3>1. rb'.in = 0
      BY <2>1, <2>3, <2>4, <1>r
    <3>2. pc' = "idle" /\ rop' = StartRead(rb', sock')
      BY <1>10, <2>4 DEF ReceiveReturn
    <3> QED BY <2>1, <2>2, <2>3, <3>1, <3>2, <1>t, <1>r, StartedParts
  <2>5. CASE rb'.in # rb'.used
    <3>1. pc' = "decode"
      BY <1>10, <2>5 DEF ReceiveReturn
    <3>2. rb'.used < rb'.in
      BY <2>1, <2>3, <2>5, <1>r
    <3> QED BY <2>1, <2>2, <3>1, <3>2
            DEF LoopParts, NotStarted, ReadFits, DecodeHasBytes, RoomLeft, FittingLoopAlive,
                ReadLoopAlive
  <2> QED BY <2>4, <2>5
<1>11. CASE WriteDone
  BY <1>11, <1>b, SameParts DEF WriteDone, recvVars, ThresholdFits
<1>12. CASE WriteSoftError
  BY <1>12, <1>b, SameParts DEF WriteSoftError, recvVars, ThresholdFits
<1>13. CASE WriteHardError
  BY <1>13, ClosedParts DEF WriteHardError, Clear
<1>14. CASE AppSend
  BY <1>14, <1>b, SameParts DEF AppSend, recvVars, ThresholdFits
<1>15. CASE AppClear
  BY <1>15, ClosedParts DEF AppClear, Clear
<1>16. CASE OtherSessionFixesThreshold
  <2>1. ThresholdFits
    BY <1>16, <1>r DEF OtherSessionFixesThreshold, ThresholdFits, Unset
  <2> QED BY <1>16, <2>1, <1>b, SameParts DEF OtherSessionFixesThreshold
<1>17. CASE OsRead
  <2>1. /\ sock' = sock /\ pc' = pc /\ maxRead' = maxRead /\ rop.st = "pending"
        /\ rb'.in = rb.in /\ rb'.used = rb.used
    BY <1>17, <1>t DEF OsRead, HandlerVars, RecvBuffers
  <2>2. rop'.st = "ok" /\ rop'.n \in Nat /\ rop'.n <= rop.n /\ (rop.n > 0 => rop'.n > 0)
    <3>1. CASE rop.n = 0 /\ rop' = [rop EXCEPT !.st = "ok"]
      BY <3>1, <1>t DEF ReadOps
    <3>2. ASSUME NEW k \in 1..rop.n, rop' = [st |-> "ok", at |-> rop.at, n |-> k]
          PROVE  rop'.st = "ok" /\ rop'.n \in Nat /\ rop'.n <= rop.n /\ (rop.n > 0 => rop'.n > 0)
      BY <3>2, <1>t
    <3> QED BY <1>17, <3>1, <3>2 DEF OsRead
  <2>3. sock # "new"
    BY <2>1, <1>b DEF LoopParts, NotStarted
  <2>4. ThresholdFits' = ThresholdFits
    BY <2>1 DEF ThresholdFits
  <2>5. ReadFits'
    BY <2>1, <2>2, <1>b, <1>t, <1>r DEF LoopParts, ReadFits
  <2>6. FittingLoopAlive'
    BY <2>1, <2>2, <2>4, <1>b, <1>t DEF LoopParts, FittingLoopAlive, ReadLoopAlive
  <2> QED BY <2>1, <2>3, <2>4, <2>5, <2>6, <1>b
          DEF LoopParts, NotStarted, DecodeHasBytes, RoomLeft
<1>18. CASE OsReadFail
  <2>1. PICK e \in {"soft", "hard"} : rop' = [rop EXCEPT !.st = e]
    BY <1>18 DEF OsReadFail
  <2>2. rop'.st \in {"soft", "hard"} /\ rop'.n = rop.n
    BY <2>1, <1>t DEF ReadOps
  <2>3. /\ sock' = sock /\ pc' = pc /\ maxRead' = maxRead /\ rb' = rb /\ rop.st = "pending"
    BY <1>18 DEF OsReadFail, HandlerVars
  <2>4. sock # "new" /\ (ThresholdFits' = ThresholdFits)
    BY <2>3, <1>b DEF LoopParts, NotStarted, ThresholdFits
  <2> QED BY <2>2, <2>3, <2>4, <1>b
          DEF LoopParts, NotStarted, ReadFits, DecodeHasBytes, RoomLeft, FittingLoopAlive, ReadLoopAlive
<1>19. CASE OsWrite
  BY <1>19, <1>b, SameParts DEF OsWrite, HandlerVars, ThresholdFits
<1>20. CASE OsWriteFail
  BY <1>20, <1>b, SameParts DEF OsWriteFail, HandlerVars, ThresholdFits
<1>21. CASE PeerSend
  BY <1>21, <1>b, SameParts DEF PeerSend, HandlerVars, ThresholdFits
<1>22. CASE UNCHANGED vars
  BY <1>22, <1>b, SameParts DEF vars, ThresholdFits
<1> QED BY <1>1, <1>2, <1>3, <1>4, <1>5, <1>6, <1>7, <1>8, <1>9, <1>10, <1>11, <1>12, <1>13,
           <1>14, <1>15, <1>16, <1>17, <1>18, <1>19, <1>20, <1>21, <1>22
        DEF Next, Thread, Application, Environment, ReadHandler, ReadLoop, WriteHandler

\* An open session that is idle has a read with room outstanding, whatever the sizes, the
\* pieces the stream arrives in and the errors, if the threshold of the compaction fits
\* (hs_session.cpp:52-122).
THEOREM LoopAlive == Spec => []FittingLoopAlive
<1>1. LoopInv => FittingLoopAlive
  BY DEF LoopInv, LoopParts
<1> QED BY LoopInit, LoopStep, <1>1, PTL DEF Spec

-----------------------------------------------------------------------------
(* The stream *)


\* Where in the stream the unused bytes of the receive buffer begin
Handed == IF pc = "onReceive" THEN rpos + HDR ELSE rpos

\* Bytes a completed read has put behind the received ones, not counted yet
Landed == IF rop.st = "ok" THEN rop.n ELSE 0

\* The unused bytes of b, and the extra ones behind them, are those of the stream from
\* position from on.
InOrder(b, extra, from) ==
  \A i \in 0..b.in - b.used + extra - 1 : b.mem[b.used + i] = from + i

\* The buffer holds what has been read from the socket and not handed over.
BytesInOrder == /\ rdpos = Handed + (rb.in - rb.used) + Landed /\ rdpos <= slen
                /\ InOrder(rb, Landed, Handed)

\* A packet ends where the next one starts or where the stream ends, and so does
\* what the application has got.
FramesTile ==
  /\ rpos \in DOMAIN frames \cup {slen}
  /\ \A p \in DOMAIN frames : p + FrameLength(frames[p]) \in DOMAIN frames \cup {slen}

\* A read stores its bytes right behind the received ones.
ReadAtEnd == rop.st \in {"pending", "ok"} => rop.at = rb.in /\ rb.in + rop.n <= RecvLen

\* No read is outstanding while a handler works on the buffer.
OneReader == rop.st # "none" => pc \in {"idle", "aborted"}

\* onReceive runs for the packet that follows what the application has got.
CurIsNext == pc = "onReceive" =>
  cur.start = rpos /\ rpos \in DOMAIN frames /\ cur.size = frames[rpos]

StreamParts == BytesInOrder /\ FramesTile /\ ReadAtEnd /\ OneReader /\ CurIsNext

\* A session that is accepting has not written.
NoWriteYet == sock = "new" => wq = <<>>

StreamInv == LoopInv /\ NoWriteYet /\ (sock # "closed" => StreamParts)

-----------------------------------------------------------------------------
(* The buffer's operations keep the unused bytes in order *)

\* DataIn counts bytes that are in place.
LEMMA DataInOrder ==
  ASSUME NEW b \in RecvBuffers, NEW n \in Nat, NEW from \in Nat,
         b.in + n <= RecvLen, InOrder(b, n, from)
  PROVE  InOrder(DataIn(b, n), 0, from)
<1>1. /\ DataIn(b, n).used = b.used /\ DataIn(b, n).mem = b.mem /\ DataIn(b, n).in = b.in + n
      /\ b.in \in Nat /\ b.used \in Nat
  BY RecvDataIn, RecvFields
<1> QED BY <1>1 DEF InOrder

\* DataUse drops the first n bytes, also when it resets the buffer.
LEMMA DataUseOrder ==
  ASSUME NEW b \in RecvBuffers, NEW n \in Nat, NEW from \in Nat,
         b.used + n <= b.in, InOrder(b, 0, from)
  PROVE  /\ InOrder(DataUse(b, n), 0, from + n)
         /\ DataUse(b, n).in - DataUse(b, n).used = b.in - b.used - n
<1>1. b.in \in Nat /\ b.used \in Nat
  BY RecvFields
<1>2. CASE b.used + n = b.in
  <2>1. DataUse(b, n).in = 0 /\ DataUse(b, n).used = 0
    BY <1>2, DataUseFields
  <2> QED BY <1>1, <1>2, <2>1 DEF InOrder
<1>3. CASE b.used + n # b.in
  <2>1. DataUse(b, n).in = b.in /\ DataUse(b, n).used = b.used + n /\ DataUse(b, n).mem = b.mem
    BY <1>3, DataUseFields
  <2>2. ASSUME NEW i \in 0..b.in - (b.used + n) + 0 - 1
        PROVE  b.mem[b.used + n + i] = from + n + i
    <3>1. n + i \in 0..b.in - b.used + 0 - 1
      BY <1>1
    <3>2. b.mem[b.used + (n + i)] = from + (n + i)
      BY <3>1 DEF InOrder
    <3>3. i \in Int /\ b.used + (n + i) = b.used + n + i /\ from + (n + i) = from + n + i
      BY <1>1
    <3> QED BY <3>2, <3>3
  <2>3. InOrder(DataUse(b, n), 0, from + n)
    BY <2>1, <2>2 DEF InOrder
  <2> QED BY <1>1, <2>1, <2>3
<1> QED BY <1>2, <1>3

\* Compaction moves them together.
LEMMA CompactedOrder ==
  ASSUME NEW b \in RecvBuffers, NEW t \in Int, NEW from \in Nat,
         b.used <= b.in, b.in <= RecvLen, InOrder(b, 0, from)
  PROVE  /\ InOrder(Compacted(b, t), 0, from)
         /\ Compacted(b, t).in - Compacted(b, t).used = b.in - b.used
<1> DEFINE c == Compacted(b, t)
<1>1. /\ c.in - c.used = b.in - b.used
      /\ \A k \in 0..b.in - b.used - 1 : c.mem[c.used + k] = b.mem[b.used + k]
      /\ c \in RecvBuffers
  BY CompactedFields
<1>2. c.in \in Nat /\ c.used \in Nat /\ b.in \in Nat /\ b.used \in Nat
  BY <1>1, RecvFields
<1> HIDE DEF c
<1>3. InOrder(c, 0, from)
  BY <1>1, <1>2 DEF InOrder
<1> QED BY <1>1, <1>3 DEF c

\* A read that completes puts the next bytes of the stream behind them.
LEMMA StoredOrder ==
  ASSUME NEW b \in RecvBuffers, NEW k \in Nat, NEW from \in Nat,
         b.used <= b.in, b.in + k <= RecvLen, InOrder(b, 0, from)
  PROVE  InOrder([b EXCEPT !.mem = Store(b.mem, b.in, k, from + (b.in - b.used))], k, from)
<1> DEFINE m == Store(b.mem, b.in, k, from + (b.in - b.used))
<1>1. /\ b.in \in Nat /\ b.used \in Nat /\ b.mem \in Memory(RecvLen) /\ RecvLen \in Nat
  BY RecvFields, SessionAssumption
<1>2. DOMAIN b.mem = 0..RecvLen-1
  BY <1>1 DEF Memory
<1>3. ASSUME NEW i \in 0..b.in - b.used + k - 1 PROVE m[b.used + i] = from + i
  <2>1. b.used + i \in 0..RecvLen-1 /\ i \in Nat
    BY <1>1
  <2>2. m[b.used + i] = IF b.in <= b.used + i /\ b.used + i < b.in + k
                        THEN from + (b.in - b.used) + (b.used + i - b.in) ELSE b.mem[b.used + i]
    BY <1>1, <1>2, <2>1 DEF Store
  <2>3. CASE b.used + i >= b.in
    BY <1>1, <2>1, <2>2, <2>3
  <2>4. CASE b.used + i < b.in
    <3>1. i \in 0..b.in - b.used + 0 - 1
      BY <1>1, <2>1, <2>4
    <3>2. b.mem[b.used + i] = from + i
      BY <3>1 DEF InOrder
    <3> QED BY <1>1, <2>1, <2>2, <2>4, <3>2
  <2> QED BY <1>1, <2>1, <2>3, <2>4
<1>4. /\ [b EXCEPT !.mem = m].in = b.in /\ [b EXCEPT !.mem = m].used = b.used
      /\ [b EXCEPT !.mem = m].mem = m
  BY DEF RecvBuffers
<1> HIDE DEF m
<1>5. InOrder([b EXCEPT !.mem = m], k, from)
  BY <1>3, <1>4 DEF InOrder
<1> QED BY <1>5 DEF m

-----------------------------------------------------------------------------
(* The invariant *)

\* A handler starts a read into the buffer it leaves behind.
LEMMA RestartedParts ==
  ASSUME StreamParts, rb' \in RecvBuffers, rb'.in <= RecvLen, rpos' \in Nat,
         InOrder(rb', 0, rpos'), rdpos' = rpos' + (rb'.in - rb'.used),
         rop' = StartRead(rb', sock'), pc' = "idle",
         rpos' \in DOMAIN frames \cup {slen}, UNCHANGED <<frames, slen, rdpos>>
  PROVE  StreamParts'
<1>1. /\ rop'.at = rb'.in /\ rop'.n = RecvLen - rb'.in /\ rop'.st # "ok"
      /\ rb'.in \in Nat /\ rb'.used \in Nat /\ RecvLen \in Nat
  BY StartReadFields, RecvFields, SessionAssumption
<1>2. Landed' = 0 /\ Handed' = rpos'
  BY <1>1 DEF Landed, Handed
<1>3. BytesInOrder'
  BY <1>1, <1>2 DEF StreamParts, BytesInOrder, InOrder
<1>4. FramesTile'
  BY DEF StreamParts, FramesTile, FrameLength
<1> QED BY <1>1, <1>3, <1>4 DEF StreamParts, ReadAtEnd, OneReader, CurIsNext

\* Steps that leave the receiving side alone.
LEMMA KeptParts ==
  ASSUME StreamParts, rb' = rb, rop' = rop, cur' = cur, rpos' = rpos, rdpos' = rdpos,
         frames' = frames, slen' = slen,
         \/ pc' = pc
         \/ pc = "idle" /\ (rop.st = "none" \/ pc' = "aborted") /\ pc' # "onReceive"
  PROVE  StreamParts'
<1>1. Handed' = Handed /\ Landed' = Landed
  BY DEF Handed, Landed
<1>2. BytesInOrder' /\ FramesTile'
  BY <1>1 DEF StreamParts, BytesInOrder, FramesTile, InOrder, FrameLength
<1> QED BY <1>2 DEF StreamParts, ReadAtEnd, OneReader, CurIsNext

\* A new session has the invariant.
LEMMA StreamInit == Init => StreamInv
<1> SUFFICES ASSUME Init PROVE StreamInv
  OBVIOUS
<1>1. /\ pc = "idle" /\ rop = NoRead /\ wq = <<>> /\ rpos = 0 /\ rdpos = 0 /\ slen = 0
      /\ DOMAIN frames = {} /\ rb.in = 0 /\ rb.used = 0
  BY DEF Init, NewRecvBuffer
<1>2. Handed = 0 /\ Landed = 0
  BY <1>1 DEF Handed, Landed, NoRead
<1>3. StreamParts
  BY <1>1, <1>2 DEF StreamParts, BytesInOrder, InOrder, FramesTile, ReadAtEnd, OneReader,
                    CurIsNext, NoRead
<1> QED BY <1>1, <1>3, LoopInit DEF StreamInv, NoWriteYet

\* A write queue of a new session stays empty: only completions and send() change it.
LEMMA NoWriteStep == StreamInv /\ [Next]_vars => NoWriteYet'
<1> SUFFICES ASSUME StreamInv, [Next]_vars, sock' = "new" PROVE wq' = <<>>
  BY DEF NoWriteYet
<1>1. sock = "new" /\ wq' = wq
  <2>1. wq # <<>> => sock # "new"
    BY DEF StreamInv, NoWriteYet
  <2>2. \A i \in DOMAIN wq : wq # <<>>
    BY EmptySeq
  <2> QED BY <2>1, <2>2
          DEF Next, Thread, Application, Environment, ReadHandler, ReadLoop, WriteHandler,
              HandleAccept, ConnectReturn, ReadData, ReadNothing, ReadSoftError, ReadHardError,
              DecodeIncomplete, DecodeMalformed, Deliver, ReceiveReturn, WriteDone, WriteSoftError,
              WriteHardError, AppSend, AppMayCall, AppClear, OtherSessionFixesThreshold, OsRead,
              OsReadFail, OsWrite, OsWriteFail, PeerSend, HandlerVars, Clear, vars
<1> QED BY <1>1 DEF StreamInv, NoWriteYet

\* Every step keeps the invariant.
LEMMA StreamStep == StreamInv /\ [Next]_vars => StreamInv'
<1> SUFFICES ASSUME StreamInv, [Next]_vars PROVE StreamInv'
  OBVIOUS
<1>a. LoopInv' /\ NoWriteYet'
  BY LoopStep, NoWriteStep DEF StreamInv
<1> SUFFICES ASSUME sock' # "closed" PROVE StreamParts'
  BY <1>a DEF StreamInv
<1>b. LoopInv /\ BoundsInv /\ LoopParts /\ TypeOK /\ NoWriteYet
  BY DEF StreamInv, LoopInv, BoundsInv
<1>t. /\ rb \in RecvBuffers /\ rop \in ReadOps /\ rop.n \in Nat /\ rop.at \in Nat
      /\ rpos \in Nat /\ rdpos \in Nat /\ slen \in Nat /\ HDR \in Nat /\ HDR > 0
      /\ RecvLen \in Nat /\ cur.size \in Nat
  <2>1. cur.size \in Payloads /\ rop \in ReadOps
    BY <1>b DEF TypeOK
  <2>2. HDR \in Nat /\ HDR > 0 /\ RecvLen \in Nat
    BY SessionAssumption, PacketAssumption
  <2> QED BY <2>1, <2>2, <1>b, PayloadsNat DEF TypeOK, ReadOps
<1>r. rb.in \in Nat /\ rb.used \in Nat /\ rb.used <= rb.in /\ rb.in <= RecvLen
  BY <1>b, <1>t, RecvFields DEF BoundsInv, RecvBounds
<1>c. sock # "closed" => StreamParts
  BY DEF StreamInv
<1>d. /\ ~ReadHardError /\ ~DecodeMalformed /\ ~WriteHardError /\ ~AppClear
  BY DEF ReadHardError, DecodeMalformed, WriteHardError, AppClear, Clear
<1>k. /\ sock' = sock /\ rb' = rb /\ rop' = rop /\ cur' = cur /\ rpos' = rpos /\ rdpos' = rdpos
      /\ frames' = frames /\ slen' = slen
      /\ pc' = pc \/ (pc = "idle" /\ pc' = "aborted")
      => StreamParts'
  BY <1>c, KeptParts
<1>1. CASE HandleAccept
  <2>1. sock = "new" /\ pc = "idle" /\ pc' = "onConnect" /\ rop.st = "none"
    BY <1>1, <1>b DEF HandleAccept, LoopParts, NotStarted
  <2>2. UNCHANGED <<rb, rop, cur, rpos, rdpos, frames, slen>>
    BY <1>1 DEF HandleAccept, recvVars, peerVars
  <2> QED BY <2>1, <2>2, <1>c, KeptParts
<1>2. CASE ConnectReturn
  <2>1. /\ pc = "onConnect" /\ pc' = "idle" /\ sock # "closed" /\ sock' = sock
        /\ rop' = StartRead(rb', sock') /\ UNCHANGED <<rb, rpos, rdpos, frames, slen>>
    BY <1>2 DEF ConnectReturn, recvVars, peerVars
  <2>2. StreamParts /\ rop.st = "none"
    BY <2>1, <1>c DEF StreamParts, OneReader
  <2>3. Handed = rpos /\ Landed = 0
    BY <2>1, <2>2 DEF Handed, Landed
  <2>4. /\ InOrder(rb, 0, rpos) /\ rdpos = rpos + (rb.in - rb.used)
        /\ rpos \in DOMAIN frames \cup {slen}
    BY <2>2, <2>3, <1>t, <1>r DEF StreamParts, BytesInOrder, FramesTile
  <2>5. InOrder(rb', 0, rpos')
    BY <2>1, <2>4
  <2> QED BY <2>1, <2>2, <2>4, <2>5, <1>t, <1>r, RestartedParts
<1>3. CASE ReadData
  <2>1. /\ pc = "idle" /\ pc' = "decode" /\ rop.st = "ok" /\ rop' = NoRead /\ sock' = sock
        /\ rb' = DataIn(rb, rop.n) /\ UNCHANGED <<rpos, rdpos, frames, slen>>
    BY <1>3 DEF ReadData, peerVars
  <2>2. StreamParts
    BY <2>1, <1>c
  <2>3. /\ Handed = rpos /\ Landed = rop.n /\ Handed' = rpos /\ Landed' = 0
        /\ NoRead.st = "none"
    BY <2>1 DEF Handed, Landed, NoRead
  <2>4. /\ rb.in + rop.n <= RecvLen /\ InOrder(rb, rop.n, rpos)
        /\ rdpos = rpos + (rb.in - rb.used) + rop.n /\ rdpos <= slen
    BY <2>1, <2>2, <2>3 DEF StreamParts, ReadAtEnd, BytesInOrder
  <2>5. InOrder(rb', 0, rpos) /\ rb'.in = rb.in + rop.n /\ rb'.used = rb.used
    BY <2>1, <2>4, <1>t, DataInOrder, RecvDataIn
  <2>6. BytesInOrder'
    BY <2>1, <2>3, <2>4, <2>5, <1>t, <1>r DEF BytesInOrder, InOrder
  <2> QED BY <2>1, <2>2, <2>3, <2>6
          DEF StreamParts, FramesTile, FrameLength, ReadAtEnd, OneReader, CurIsNext
<1>4. CASE ReadNothing
  <2>1. /\ pc = "idle" /\ pc' = pc /\ rop.st = "ok" /\ rop.n = 0 /\ rop' = NoRead /\ sock' = sock
        /\ UNCHANGED <<rb, rpos, rdpos, frames, slen>>
    BY <1>4 DEF ReadNothing, recvVars, peerVars
  <2>2. StreamParts
    BY <2>1, <1>c
  <2>3. Handed' = Handed /\ Landed = 0 /\ Landed' = 0 /\ NoRead.st = "none"
    BY <2>1 DEF Handed, Landed, NoRead
  <2>4. BytesInOrder'
    BY <2>1, <2>2, <2>3 DEF StreamParts, BytesInOrder, InOrder
  <2> QED BY <2>1, <2>2, <2>3, <2>4
          DEF StreamParts, FramesTile, FrameLength, ReadAtEnd, OneReader, CurIsNext
<1>5. CASE ReadSoftError
  <2>1. /\ pc = "idle" /\ pc' = "idle" /\ rop.st = "soft" /\ sock' = sock
        /\ rop' = StartRead(rb', sock') /\ UNCHANGED <<rb, rpos, rdpos, frames, slen>>
    BY <1>5 DEF ReadSoftError, recvVars, peerVars
  <2>2. StreamParts
    BY <2>1, <1>c
  <2>3. Handed = rpos /\ Landed = 0
    BY <2>1 DEF Handed, Landed
  <2>4. /\ InOrder(rb, 0, rpos) /\ rdpos = rpos + (rb.in - rb.used)
        /\ rpos \in DOMAIN frames \cup {slen}
    BY <2>2, <2>3, <1>t, <1>r DEF StreamParts, BytesInOrder, FramesTile
  <2>5. InOrder(rb', 0, rpos')
    BY <2>1, <2>4
  <2> QED BY <2>1, <2>2, <2>4, <2>5, <1>t, <1>r, RestartedParts
<1>6. CASE DecodeIncomplete
  <2>1. /\ pc = "decode" /\ pc' = "idle" /\ sock' = sock /\ rb' = Compacted(rb, maxRead')
        /\ rop' = StartRead(rb', sock') /\ UNCHANGED <<rpos, rdpos, frames, slen>>
    BY <1>6 DEF DecodeIncomplete, Decoding, peerVars
  <2>2. StreamParts /\ rop.st = "none"
    BY <2>1, <1>c DEF StreamParts, OneReader
  <2>3. Handed = rpos /\ Landed = 0
    BY <2>1, <2>2 DEF Handed, Landed
  <2>4. /\ InOrder(rb, 0, rpos) /\ rdpos = rpos + (rb.in - rb.used)
        /\ rpos \in DOMAIN frames \cup {slen}
    BY <2>2, <2>3, <1>t, <1>r DEF StreamParts, BytesInOrder, FramesTile
  <2>5. maxRead' \in Int
    BY <1>6, <1>b, SessionAssumption, PacketAssumption DEF DecodeIncomplete, TypeOK, Unset
  <2>6. /\ InOrder(rb', 0, rpos) /\ rb'.in - rb'.used = rb.in - rb.used
    BY <2>1, <2>4, <2>5, <1>t, <1>r, CompactedOrder
  <2>7. InOrder(rb', 0, rpos') /\ rdpos' = rpos' + (rb'.in - rb'.used)
    BY <2>1, <2>4, <2>6
  <2>8. rb' \in RecvBuffers /\ rb'.in <= RecvLen
    BY BoundsStep, <1>b DEF BoundsInv, TypeOK, RecvBounds
  <2> QED BY <2>1, <2>2, <2>4, <2>7, <2>8, <1>t, RestartedParts
<1>7. CASE Deliver
  <2>1. PICK c \in ClaimsSeen(rb) :
             /\ DecodePacket(GetCanUseSize(rb), c) = 1
             /\ cur' = [start |-> rb.mem[rb.used], size |-> c]
    BY <1>7 DEF Deliver
  <2>2. /\ pc = "decode" /\ pc' = "onReceive" /\ sock' = sock /\ rb' = DataUse(rb, HDR)
        /\ UNCHANGED <<rop, rpos, rdpos, frames, slen>>
    BY <1>7 DEF Deliver, Decoding, peerVars
  <2>3. StreamParts /\ rop.st = "none"
    BY <2>2, <1>c DEF StreamParts, OneReader
  <2>4. Handed = rpos /\ Landed = 0 /\ Handed' = rpos + HDR /\ Landed' = 0
    BY <2>2, <2>3 DEF Handed, Landed
  <2>5. /\ InOrder(rb, 0, rpos) /\ rdpos = rpos + (rb.in - rb.used) /\ rdpos <= slen
        /\ rpos \in DOMAIN frames \cup {slen}
    BY <2>3, <2>4, <1>t, <1>r DEF StreamParts, BytesInOrder, FramesTile
  <2>6. rb.in - rb.used >= HDR
    <3>1. c \in Claims
      BY <2>1, <1>b, ClaimsSeenType DEF TypeOK
    <3>2. GetCanUseSize(rb) \in Nat /\ GetCanUseSize(rb) = rb.in - rb.used
      BY <1>r DEF GetCanUseSize
    <3> QED BY <2>1, <3>1, <3>2, <1>t, DecodeFacts, PayloadsNat
  <2>7. \A i \in 0..HDR-1 : rb.mem[rb.used + i] = rpos + i
    BY <2>5, <2>6, <1>t, <1>r DEF InOrder
  <2>8. rb.mem[rb.used] = rpos
    <3>1. rb.mem[rb.used + 0] = rpos + 0
      BY <2>7, <1>t
    <3> QED BY <3>1, <1>t, <1>r
  <2>9. rpos \in DOMAIN frames
    BY <2>5, <2>6, <1>t, <1>r
  <2>10. HeaderIntact(rb)
    BY <2>6, <2>7, <2>8, <2>9 DEF HeaderIntact, GetCanUseSize
  <2>11. cur'.start = rpos /\ cur'.size = frames[rpos]
    BY <2>1, <2>8, <2>10 DEF ClaimsSeen
  <2>12. InOrder(rb', 0, rpos + HDR) /\ rb'.in - rb'.used = rb.in - rb.used - HDR
    BY <2>2, <2>5, <2>6, <1>t, <1>r, DataUseOrder
  <2>13. BytesInOrder'
    <3>1. rb'.in - rb'.used + 0 = rb'.in - rb'.used
      BY <2>12, <1>t, <1>r
    <3>2. rdpos' = Handed' + (rb'.in - rb'.used) + Landed' /\ rdpos' <= slen'
      BY <2>2, <2>4, <2>5, <2>12, <1>t, <1>r
    <3> QED BY <2>2, <2>4, <2>12, <3>2 DEF BytesInOrder, InOrder
  <2> QED BY <2>2, <2>3, <2>9, <2>11, <2>13
          DEF StreamParts, FramesTile, FrameLength, ReadAtEnd, OneReader, CurIsNext
<1>8. CASE ReceiveReturn
  <2>1. /\ pc = "onReceive" /\ sock' = sock /\ rb' = DataUse(rb, cur.size)
        /\ UNCHANGED <<rdpos, frames, slen>>
    BY <1>8 DEF ReceiveReturn, peerVars
  <2>2. sock = "open"
    BY <2>1, <1>b DEF LoopParts, NotStarted, TypeOK
  <2>3. StreamParts /\ rop.st = "none"
    BY <2>1, <1>c, <2>2 DEF StreamParts, OneReader
  <2>4. /\ Handed = rpos + HDR /\ Landed = 0 /\ rpos' = rpos + HDR + cur.size
    BY <1>8, <2>1, <2>2, <2>3 DEF Handed, Landed, ReceiveReturn
  <2>5. /\ InOrder(rb, 0, rpos + HDR) /\ rdpos = rpos + HDR + (rb.in - rb.used) /\ rdpos <= slen
        /\ rpos \in DOMAIN frames /\ cur.size = frames[rpos] /\ rb.used + cur.size <= rb.in
    BY <2>1, <2>3, <2>4, <1>t, <1>r, <1>b
       DEF StreamParts, BytesInOrder, CurIsNext, BoundsInv, PayloadPresent
  <2>6. rpos' \in DOMAIN frames \cup {slen}
    <3>1. FrameLength(frames[rpos]) = HDR + cur.size
      BY <2>5, <1>b DEF FrameLength, TypeOK
    <3> QED BY <2>3, <2>4, <2>5, <3>1, <1>t DEF StreamParts, FramesTile
  <2>7. InOrder(rb', 0, rpos') /\ rb'.in - rb'.used = rb.in - rb.used - cur.size
    BY <2>1, <2>4, <2>5, <1>t, <1>r, DataUseOrder
  <2>8. rdpos' = rpos' + (rb'.in - rb'.used) /\ rpos' \in Nat
    BY <2>1, <2>4, <2>5, <2>7, <1>t, <1>r
  <2>9. rb' \in RecvBuffers /\ rb'.in <= RecvLen
    BY BoundsStep, <1>b DEF BoundsInv, TypeOK, RecvBounds
  <2>10. CASE rb'.in = rb'.used
    <3>1. pc' = "idle" /\ rop' = StartRead(rb', sock')
      BY <1>8, <2>1, <2>10 DEF ReceiveReturn
    <3> QED BY <2>1, <2>3, <2>6, <2>7, <2>8, <2>9, <3>1, RestartedParts
  <2>11. CASE rb'.in # rb'.used
    <3>1. pc' = "decode" /\ rop' = rop
      BY <1>8, <2>11 DEF ReceiveReturn
    <3>2. Handed' = rpos' /\ Landed' = 0
      BY <2>3, <3>1 DEF Handed, Landed
    <3>3. rb'.in \in Nat /\ rb'.used \in Nat
      BY <2>9, RecvFields
    <3>4. BytesInOrder'
      BY <2>1, <2>5, <2>7, <2>8, <3>2, <3>3 DEF BytesInOrder, InOrder
    <3> QED BY <2>1, <2>3, <2>6, <3>1, <3>4
            DEF StreamParts, FramesTile, FrameLength, ReadAtEnd, OneReader, CurIsNext
  <2> QED BY <2>10, <2>11
<1>9. CASE OsRead
  <2>1. /\ sock' = sock /\ pc' = pc /\ rop.st = "pending"
        /\ UNCHANGED <<cur, rpos, frames, slen>>
    BY <1>9 DEF OsRead, HandlerVars, peerVars
  <2>2. StreamParts
    BY <2>1, <1>c
  <2>3. Landed = 0 /\ Handed' = Handed /\ Handed \in Nat
    BY <2>1, <1>t DEF Handed, Landed
  <2>4. pc \in {"idle", "aborted"} /\ rop.at = rb.in /\ rb.in + rop.n <= RecvLen
    BY <2>1, <2>2 DEF StreamParts, OneReader, ReadAtEnd
  <2>5. CASE rop.n = 0 /\ rop' = [rop EXCEPT !.st = "ok"] /\ UNCHANGED <<rb, rdpos>>
    <3>1. rop'.st = "ok" /\ rop'.n = 0 /\ rop'.at = rop.at /\ Landed' = 0
      BY <2>5, <1>t DEF ReadOps, Landed
    <3>2. BytesInOrder'
      BY <2>1, <2>2, <2>3, <2>5, <3>1 DEF StreamParts, BytesInOrder, InOrder
    <3> QED BY <2>1, <2>2, <2>4, <2>5, <3>1, <3>2
            DEF StreamParts, FramesTile, FrameLength, ReadAtEnd, OneReader, CurIsNext
  <2>6. ASSUME NEW k \in 1..rop.n, rdpos + k <= slen,
               rb' = [rb EXCEPT !.mem = Store(rb.mem, rop.at, k, rdpos)],
               rop' = [st |-> "ok", at |-> rop.at, n |-> k], rdpos' = rdpos + k
        PROVE  StreamParts'
    <3>1. Landed' = k /\ k \in Nat /\ k <= rop.n /\ rop'.at = rop.at /\ rop'.n = k /\ rop'.st = "ok"
      BY <2>6, <1>t DEF Landed
    <3>2. InOrder(rb, 0, Handed) /\ rdpos = Handed + (rb.in - rb.used)
      BY <2>2, <2>3, <1>t, <1>r DEF StreamParts, BytesInOrder
    <3>3. InOrder(rb', k, Handed)
      BY <2>3, <2>4, <2>6, <3>1, <3>2, <1>t, <1>r, StoredOrder
    <3>4. rb'.in = rb.in /\ rb'.used = rb.used
      BY <2>6, <1>t DEF RecvBuffers
    <3>5. BytesInOrder'
      BY <2>1, <2>3, <2>6, <3>1, <3>2, <3>3, <3>4, <1>t, <1>r DEF BytesInOrder, InOrder
    <3>6. ReadAtEnd'
      BY <2>4, <3>1, <3>4, <1>t, <1>r DEF ReadAtEnd
    <3> QED BY <2>1, <2>2, <2>4, <3>5, <3>6
            DEF StreamParts, FramesTile, FrameLength, OneReader, CurIsNext
  <2> QED BY <1>9, <2>5, <2>6 DEF OsRead
<1>10. CASE OsReadFail
  <2>1. PICK e \in {"soft", "hard"} : rop' = [rop EXCEPT !.st = e]
    BY <1>10 DEF OsReadFail
  <2>2. /\ sock' = sock /\ pc' = pc /\ rop.st = "pending" /\ rop'.st \in {"soft", "hard"}
        /\ UNCHANGED <<cur, rb, rpos, rdpos, frames, slen>>
    BY <1>10, <2>1, <1>t DEF OsReadFail, HandlerVars, peerVars, ReadOps
  <2>3. StreamParts
    BY <2>2, <1>c
  <2>4. Landed' = 0 /\ Landed = 0 /\ Handed' = Handed
    BY <2>2 DEF Handed, Landed
  <2>5. BytesInOrder'
    BY <2>2, <2>3, <2>4 DEF StreamParts, BytesInOrder, InOrder
  <2> QED BY <2>2, <2>3, <2>5
          DEF StreamParts, FramesTile, FrameLength, ReadAtEnd, OneReader, CurIsNext
<1>11. CASE PeerSend
  <2>1. PICK c \in Claims :
             /\ frames' = [p \in DOMAIN frames \cup {slen} |-> IF p = slen THEN c ELSE frames[p]]
             /\ slen' = slen + FrameLength(c)
    BY <1>11 DEF PeerSend
  <2>2. /\ sock' = sock /\ pc' = pc /\ UNCHANGED <<cur, rb, rop, rpos, rdpos>>
    BY <1>11 DEF PeerSend, HandlerVars
  <2>3. StreamParts
    BY <2>2, <1>c
  <2>4. FrameLength(c) \in Nat
    BY <1>t, PayloadsNat DEF FrameLength
  <2>5. FramesTile'
    <3>1. DOMAIN frames' = DOMAIN frames \cup {slen} /\ rpos' \in DOMAIN frames'
      BY <2>1, <2>2, <2>3 DEF StreamParts, FramesTile
    <3>2. ASSUME NEW p \in DOMAIN frames'
          PROVE  p + FrameLength(frames'[p]) \in DOMAIN frames' \cup {slen'}
      <4>1. CASE p = slen
        BY <2>1, <4>1
      <4>2. CASE p # slen
        <5>1. p \in DOMAIN frames /\ frames'[p] = frames[p]
          BY <2>1, <3>1, <4>2
        <5> QED BY <2>3, <3>1, <5>1 DEF StreamParts, FramesTile
      <4> QED BY <4>1, <4>2
    <3> QED BY <3>1, <3>2 DEF FramesTile, FrameLength
  <2>6. BytesInOrder'
    <3>1. Handed' = Handed /\ Landed' = Landed
      BY <2>2 DEF Handed, Landed
    <3> QED BY <2>1, <2>2, <2>3, <2>4, <3>1, <1>t DEF StreamParts, BytesInOrder, InOrder
  <2>7. CurIsNext'
    <3>1. SUFFICES ASSUME pc = "onReceive" PROVE rpos \in DOMAIN frames' /\ cur.size = frames'[rpos]
      BY <2>2, <2>3 DEF CurIsNext, StreamParts
    <3>2. Handed = rpos + HDR /\ Landed \in Nat
      BY <3>1, <1>t DEF Handed, Landed
    <3>3. rpos # slen
      BY <2>3, <3>2, <1>t, <1>r DEF StreamParts, BytesInOrder
    <3> QED BY <2>1, <2>3, <3>1, <3>3 DEF StreamParts, CurIsNext
  <2> QED BY <2>2, <2>3, <2>5, <2>6, <2>7 DEF StreamParts, ReadAtEnd, OneReader
<1>12. CASE WriteDone
  BY <1>12, <1>k DEF WriteDone, recvVars, peerVars
<1>13. CASE WriteSoftError
  BY <1>13, <1>k DEF WriteSoftError, recvVars, peerVars
<1>14. CASE AppSend
  BY <1>14, <1>k DEF AppSend, recvVars, peerVars
<1>15. CASE OtherSessionFixesThreshold
  BY <1>15, <1>k DEF OtherSessionFixesThreshold, peerVars
<1>16. CASE OsWrite
  BY <1>16, <1>k DEF OsWrite, HandlerVars, peerVars
<1>17. CASE OsWriteFail
  BY <1>17, <1>k DEF OsWriteFail, HandlerVars, peerVars
<1>18. CASE UNCHANGED vars
  BY <1>18, <1>k DEF vars
<1> QED BY <1>d, <1>1, <1>2, <1>3, <1>4, <1>5, <1>6, <1>7, <1>8, <1>9, <1>10, <1>11, <1>12,
           <1>13, <1>14, <1>15, <1>16, <1>17, <1>18
        DEF Next, Thread, Application, Environment, ReadHandler, ReadLoop, WriteHandler

\* The packet onReceive gets is the next one of the stream, whole, whatever pieces the
\* stream arrives in and wherever the compaction's threshold is (hs_session.cpp:52-106).
THEOREM PacketsIntact == Spec => []PacketIntact
<1>1. StreamInv => PacketIntact
  <2> SUFFICES ASSUME StreamInv, sock = "open", pc = "onReceive"
               PROVE  /\ cur.start = rpos /\ rpos \in DOMAIN frames /\ cur.size = frames[rpos]
                      /\ \A i \in 0..cur.size-1 : rb.mem[rb.used + i] = rpos + HDR + i
    BY DEF PacketIntact
  <2>1. StreamParts /\ BoundsInv /\ TypeOK
    BY DEF StreamInv, LoopInv, BoundsInv
  <2>2. Handed = rpos + HDR /\ Landed = 0
    BY <2>1 DEF StreamParts, OneReader, Handed, Landed
  <2>3. /\ rb.in \in Nat /\ rb.used \in Nat /\ cur.size \in Nat /\ rb.used + cur.size <= rb.in
    BY <2>1, RecvFields, PayloadsNat DEF TypeOK, BoundsInv, PayloadPresent
  <2>4. InOrder(rb, 0, rpos + HDR)
    BY <2>1, <2>2 DEF StreamParts, BytesInOrder
  <2>5. \A i \in 0..cur.size-1 : rb.mem[rb.used + i] = rpos + HDR + i
    BY <2>3, <2>4 DEF InOrder
  <2> QED BY <2>1, <2>5 DEF StreamParts, CurIsNext
<1> QED BY StreamInit, StreamStep, <1>1, PTL DEF Spec

-----------------------------------------------------------------------------
(* HSSession implements FrameStream *)

\* Teardown, whichever handler does it, closes the abstract stream or finds it closed.
LEMMA ClearImplements ==
  ASSUME NEW r, NEW q, Clear(r, q), sock \in {"open", "closed"}, UNCHANGED <<frames, slen, rpos>>
  PROVE  [Stream!FNext]_Stream!fvars
<1>1. sock' = "closed"
  BY DEF Clear
<1>2. CASE sock = "open"
  BY <1>1, <1>2 DEF Stream!FNext, Stream!FClose
<1>3. CASE sock = "closed"
  BY <1>1, <1>3 DEF Stream!fvars
<1> QED BY <1>2, <1>3

\* The peer's packets are the same in both.
LEMMA PeerSendImplements ==
  ASSUME slen \in Nat, PeerSend PROVE Stream!FWrite
<1>1. PICK c \in Claims :
           /\ frames' = [p \in DOMAIN frames \cup {slen} |-> IF p = slen THEN c ELSE frames[p]]
           /\ slen' = slen + FrameLength(c)
  BY DEF PeerSend
<1>2. Stream!Claims = Claims /\ Stream!Payloads = Payloads
  BY DEF Claims, Payloads, MaxPayload, Oversize, BadMagic, Stream!Claims, Stream!Payloads,
         Stream!MaxPayload, Stream!Oversize, Stream!BadMagic
<1>3. slen' = slen + HDR + (IF c \in Payloads THEN c ELSE 0)
  BY <1>1, PayloadsNat, PacketAssumption DEF FrameLength
<1>4. (\A p \in DOMAIN frames : frames[p] \in Payloads) /\ UNCHANGED <<sock, rpos>>
  BY DEF PeerSend, HandlerVars
<1> QED BY <1>1, <1>2, <1>3, <1>4 DEF Stream!FWrite

\* A step of the session is a step of the stream, or leaves it alone.
LEMMA StreamRefined == StreamInv /\ [Next]_vars => [Stream!FNext]_Stream!fvars
<1> SUFFICES ASSUME StreamInv, [Next]_vars PROVE [Stream!FNext]_Stream!fvars
  OBVIOUS
<1>b. LoopParts /\ TypeOK /\ NoWriteYet /\ sock \in {"new", "open", "closed"}
  BY DEF StreamInv, LoopInv, BoundsInv, TypeOK
<1>1. CASE HandleAccept
  BY <1>1 DEF HandleAccept, recvVars, peerVars, Stream!FNext, Stream!FOpen
<1>2. CASE ReadHardError
  <2>1. sock \in {"open", "closed"}
    BY <1>2, <1>b DEF ReadHardError, LoopParts, NotStarted
  <2> QED BY <1>2, <2>1, ClearImplements DEF ReadHardError, peerVars
<1>3. CASE DecodeMalformed
  <2>1. sock \in {"open", "closed"}
    BY <1>3, <1>b DEF DecodeMalformed, Decoding, LoopParts, NotStarted
  <2> QED BY <1>3, <2>1, ClearImplements DEF DecodeMalformed, peerVars
<1>4. CASE WriteHardError
  <2>1. sock \in {"open", "closed"}
    BY <1>4, <1>b DEF WriteHardError, NoWriteYet
  <2> QED BY <1>4, <2>1, ClearImplements DEF WriteHardError, peerVars
<1>5. CASE AppClear
  BY <1>5, ClearImplements DEF AppClear, peerVars
<1>6. CASE ReceiveReturn
  <2>1. sock' = sock /\ UNCHANGED <<frames, slen>>
    BY <1>6 DEF ReceiveReturn, peerVars
  <2>2. CASE sock = "open"
    <3>1. /\ rpos \in DOMAIN frames /\ cur.size = frames[rpos] /\ cur.size \in Payloads
          /\ rpos' = rpos + HDR + cur.size
      BY <1>6, <2>2, <1>b DEF ReceiveReturn, StreamInv, StreamParts, CurIsNext, TypeOK
    <3>2. Stream!Payloads = Payloads
      BY DEF Payloads, MaxPayload, Stream!Payloads, Stream!MaxPayload
    <3> QED BY <2>1, <2>2, <3>1, <3>2 DEF Stream!FNext, Stream!FDeliver
  <2>3. CASE sock # "open"
    BY <1>6, <2>1, <2>3 DEF ReceiveReturn, Stream!fvars
  <2> QED BY <2>2, <2>3
<1>7. CASE PeerSend
  BY <1>7, <1>b, PeerSendImplements DEF Stream!FNext, TypeOK
<1>8. CASE UNCHANGED <<sock, frames, slen, rpos>>
  BY <1>8 DEF Stream!fvars
<1>9. ConnectReturn \/ ReadData \/ ReadNothing \/ ReadSoftError \/ DecodeIncomplete \/ Deliver
      => UNCHANGED <<sock, frames, slen, rpos>>
  BY DEF ConnectReturn, ReadData, ReadNothing, ReadSoftError, DecodeIncomplete, Deliver,
         recvVars, peerVars
<1>10. WriteDone \/ WriteSoftError \/ AppSend \/ OtherSessionFixesThreshold \/ UNCHANGED vars
       => UNCHANGED <<sock, frames, slen, rpos>>
  BY DEF WriteDone, WriteSoftError, AppSend, OtherSessionFixesThreshold, vars, recvVars, peerVars
<1>11. OsRead \/ OsReadFail \/ OsWrite \/ OsWriteFail => UNCHANGED <<sock, frames, slen, rpos>>
  BY DEF OsRead, OsReadFail, OsWrite, OsWriteFail, HandlerVars, peerVars
<1> QED BY <1>1, <1>2, <1>3, <1>4, <1>5, <1>6, <1>7, <1>8, <1>9, <1>10, <1>11
        DEF Next, Thread, Application, Environment, ReadHandler, ReadLoop, WriteHandler

\* The application of a session gets the packets the peer writes one by one and in order,
\* each exactly once, and none once the connection is torn down or a header is malformed:
\* the read loop, the framing and the buffer implement the abstract stream
\* (hs_session.cpp:52-122, hs_packetworker.cpp, hs_buffer.h:126-207).
THEOREM StreamImplemented == Spec => ImplementsStream
<1>1. Init => Stream!FInit
  BY DEF Init, Stream!FInit
<1> QED BY <1>1, StreamInit, StreamStep, StreamRefined, PTL DEF Spec, ImplementsStream, Stream!FSpec
=============================================================================
