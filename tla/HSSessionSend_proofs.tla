------------------------ MODULE HSSessionSend_proofs ------------------------
(***************************************************************************)
(* handle_sending_ says whether a write is outstanding, at most one is     *)
(* while the socket is open, and onDisconnect is called a bounded number   *)
(* of times, whatever completes before or after clear().                   *)
(***************************************************************************)
EXTENDS HSSession_proofs, SequenceTheorems

\* A session that is accepting has not written or failed, and onConnect runs on an open
\* socket.
Fresh == /\ sock = "new" => /\ pc \in {"idle", "aborted"} /\ rop.st = "none"
                            /\ wq = <<>> /\ ~sending
         /\ pc = "onConnect" => sock = "open"

\* The read that is outstanding, or the handler that will start one.
Reading == IF rop.st # "none" \/ pc \in {"decode", "onReceive"} THEN 1 ELSE 0

\* What has been told, and each operation that may still end in an error
NotifyBudget ==
  IF sock = "closed" THEN notified + Reading + Len(wq) <= 2 + lateWrites
                     ELSE notified = 0

SendInv == BoundsInv /\ Fresh /\ SendingMeansInFlight /\ NotifyBudget

\* A new session has the invariant.
LEMMA SendInit == Init => SendInv
<1> SUFFICES ASSUME Init PROVE SendInv
  OBVIOUS
<1>1. BoundsInv
  BY BoundsInit
<1>2. sock = "new" /\ pc = "idle" /\ rop.st = "none" /\ wq = <<>> /\ sending = FALSE /\ notified = 0
  BY DEF Init, NoRead
<1> QED BY <1>1, <1>2 DEF SendInv, Fresh, SendingMeansInFlight, NotifyBudget

\* A handler that has taken operations off and calls clear(): each of them pays for at
\* most one onDisconnect.
LEMMA ClearBudget ==
  ASSUME BoundsInv, Fresh, SendingMeansInFlight, NotifyBudget, sock # "new",
         NEW r \in ReadOps, NEW q \in Seq(WriteOps), NEW d \in {0, 1},
         Clear(r, q), Len(q) <= Len(wq), lateWrites' = lateWrites, pc' \in {"idle", "aborted"},
         notified' = notified + d,
         d + (IF r.st # "none" THEN 1 ELSE 0) + Len(q) <= Reading + Len(wq)
  PROVE  Fresh' /\ SendingMeansInFlight' /\ NotifyBudget'
<1>1. /\ sock' = "closed" /\ rop' = Abort(r) /\ wq' = AbortAll(q) /\ Len(wq') = Len(q)
      /\ wq \in Seq(WriteOps) /\ notified \in Nat /\ lateWrites \in Nat
  BY ClearResult DEF BoundsInv, TypeOK
<1>2. rop'.st # "none" => r.st # "none"
  BY <1>1 DEF Abort, ReadOps
<1>3. Reading' <= (IF r.st # "none" THEN 1 ELSE 0) /\ Reading' \in {0, 1} /\ Reading \in {0, 1}
  BY <1>2 DEF Reading
<1>4. Len(wq) \in Nat /\ Len(q) \in Nat
  BY <1>1
<1>5. CASE sock = "open"
  <2>1. notified = 0 /\ Len(wq) <= 1
    BY <1>5 DEF NotifyBudget, SendingMeansInFlight
  <2> QED BY <1>1, <1>3, <1>4, <2>1 DEF NotifyBudget, Fresh, SendingMeansInFlight
<1>6. CASE sock = "closed"
  <2>1. notified + Reading + Len(wq) <= 2 + lateWrites
    BY <1>6 DEF NotifyBudget
  <2> QED BY <1>1, <1>3, <1>4, <2>1 DEF NotifyBudget, Fresh, SendingMeansInFlight
<1> QED BY <1>5, <1>6 DEF BoundsInv, TypeOK

\* handle_write() on what is left of the queue: a new write needs a lowered flag, and one
\* on a closed socket is a late one.
LEMMA HandleWriteCounts ==
  ASSUME NEW b \in SendBuffers, NEW snd \in BOOLEAN, NEW q \in Seq(WriteOps), lateWrites \in Nat,
         HandleWrite(b, snd, q)
  PROVE  /\ Len(wq') \in Nat /\ lateWrites' \in Nat
         /\ snd => wq' = q /\ lateWrites' = lateWrites
         /\ CanStartWrite(b, snd) => Len(wq') = Len(q) + 1
         /\ ~CanStartWrite(b, snd) => wq' = q
         /\ sock = "closed" => Len(wq') - Len(q) = lateWrites' - lateWrites
         /\ sock # "closed" => lateWrites' = lateWrites
<1>1. CASE CanStartWrite(b, snd)
  <2>1. WriteOp(b, sock) \in WriteOps
    BY <1>1, SendFields DEF CanStartWrite, GetCanSendSize, WriteOp, WriteOps
  <2>2. wq' = Append(q, WriteOp(b, sock)) /\ ~snd
    BY <1>1 DEF HandleWrite, CanStartWrite
  <2>3. lateWrites' = IF sock = "closed" THEN lateWrites + 1 ELSE lateWrites
    BY <1>1 DEF HandleWrite
  <2> QED BY <1>1, <2>1, <2>2, <2>3
<1>2. CASE ~CanStartWrite(b, snd)
  <2>1. wq' = q /\ lateWrites' = lateWrites
    BY <1>2 DEF HandleWrite
  <2> QED BY <1>2, <2>1
<1> QED BY <1>1, <1>2

\* Steps of the receiving side that keep what they hold as a token.
LEMMA ReceiveParts ==
  ASSUME BoundsInv, Fresh, SendingMeansInFlight, NotifyBudget, sock # "new",
         UNCHANGED <<sock, sending, wq, lateWrites, notified>>,
         sock = "closed" => Reading' <= Reading,
         pc' = "onConnect" => sock = "open"
  PROVE  Fresh' /\ SendingMeansInFlight' /\ NotifyBudget'
<1>1. Reading \in {0, 1} /\ Reading' \in {0, 1} /\ notified \in Nat /\ lateWrites \in Nat /\ Len(wq) \in Nat
  BY DEF Reading, BoundsInv, TypeOK
<1> QED BY <1>1 DEF Fresh, SendingMeansInFlight, NotifyBudget

\* The queue without its oldest operation.
LEMMA TailFields ==
  ASSUME NEW q \in Seq(WriteOps), q # <<>>
  PROVE  /\ Tail(q) \in Seq(WriteOps) /\ Len(Tail(q)) = Len(q) - 1 /\ Head(q) \in WriteOps
         /\ Len(q) \in Nat /\ Len(q) > 0
         /\ Len(q) <= 1 => Tail(q) = <<>>
<1>1. /\ Tail(q) \in Seq(WriteOps) /\ Len(Tail(q)) = Len(q) - 1 /\ Head(q) \in WriteOps
      /\ Len(q) \in Nat /\ Len(q) > 0
  OBVIOUS
<1>2. ASSUME Len(q) <= 1 PROVE Tail(q) = <<>>
  <2>1. Len(Tail(q)) = 0
    BY <1>1, <1>2
  <2> QED BY <1>1, <2>1, EmptySeq
<1> QED BY <1>1, <1>2

\* Steps that leave all of it alone.
LEMMA UntouchedParts ==
  ASSUME Fresh, SendingMeansInFlight, NotifyBudget,
         UNCHANGED <<sock, pc, sending, rop, wq, lateWrites, notified>>
  PROVE  Fresh' /\ SendingMeansInFlight' /\ NotifyBudget'
BY DEF Fresh, SendingMeansInFlight, NotifyBudget, Reading

\* Every step keeps the invariant.
LEMMA SendStep == SendInv /\ [Next]_vars => SendInv'
<1> SUFFICES ASSUME SendInv, [Next]_vars
             PROVE  Fresh' /\ SendingMeansInFlight' /\ NotifyBudget'
  BY BoundsStep DEF SendInv
<1>b. BoundsInv /\ Fresh /\ SendingMeansInFlight /\ NotifyBudget
  BY DEF SendInv
<1>t. /\ TypeOK /\ rop \in ReadOps /\ wq \in Seq(WriteOps) /\ sending \in BOOLEAN
      /\ sb \in SendBuffers /\ lateWrites \in Nat /\ notified \in Nat /\ Len(wq) \in Nat
      /\ sock \in {"new", "open", "closed"} /\ Reading \in {0, 1}
  BY <1>b DEF BoundsInv, TypeOK, Reading
<1>1. CASE HandleAccept
  <2>1. /\ sock = "new" /\ sock' = "open" /\ pc' = "onConnect"
        /\ UNCHANGED <<sending, rop, wq, lateWrites, notified>>
    BY <1>1 DEF HandleAccept
  <2>2. ~sending /\ wq = <<>> /\ notified = 0
    BY <2>1, <1>b DEF Fresh, NotifyBudget
  <2> QED BY <2>1, <2>2 DEF Fresh, SendingMeansInFlight, NotifyBudget
<1>2. CASE ConnectReturn
  <2>1. sock = "open" /\ pc' = "idle" /\ UNCHANGED <<sock, sending, wq, lateWrites, notified>>
    BY <1>2, <1>b DEF ConnectReturn, Fresh
  <2> QED BY <2>1, <1>b, ReceiveParts
<1>3. CASE ReadData
  <2>1. /\ rop.st = "ok" /\ rop' = NoRead /\ pc' = "decode"
        /\ UNCHANGED <<sock, sending, wq, lateWrites, notified>>
    BY <1>3 DEF ReadData
  <2>2. sock # "new" /\ Reading = 1 /\ Reading' = 1
    BY <2>1, <1>b DEF Fresh, Reading
  <2> QED BY <2>1, <2>2, <1>b, ReceiveParts
<1>4. CASE ReadNothing
  <2>1. /\ rop.st = "ok" /\ rop' = NoRead /\ pc = "idle"
        /\ UNCHANGED <<sock, pc, sending, wq, lateWrites, notified>>
    BY <1>4 DEF ReadNothing
  <2>2. sock # "new" /\ Reading' = 0 /\ Reading = 1
    BY <2>1, <1>b DEF Fresh, Reading, NoRead
  <2> QED BY <2>1, <2>2, <1>b, ReceiveParts
<1>5. CASE ReadSoftError
  <2>1. /\ rop.st = "soft" /\ pc = "idle" /\ UNCHANGED <<sock, pc, sending, wq, lateWrites, notified>>
    BY <1>5 DEF ReadSoftError
  <2>2. sock # "new" /\ Reading = 1 /\ Reading' <= 1
    BY <2>1, <1>b DEF Fresh, Reading
  <2> QED BY <2>1, <2>2, <1>b, ReceiveParts
<1>6. CASE ReadHardError
  <2>1. /\ rop.st = "hard" /\ pc = "idle" /\ pc' = pc /\ Clear(NoRead, wq)
        /\ notified' = notified + 1 /\ lateWrites' = lateWrites
    BY <1>6 DEF ReadHardError
  <2>2. sock # "new" /\ Reading = 1 /\ NoRead.st = "none"
    BY <2>1, <1>b DEF Fresh, Reading, NoRead
  <2>3. 1 + (IF NoRead.st # "none" THEN 1 ELSE 0) + Len(wq) <= Reading + Len(wq)
    BY <2>2, <1>t
  <2> QED BY <2>1, <2>2, <2>3, <1>b, <1>t, NoReadType, ClearBudget
<1>7. CASE DecodeIncomplete
  <2>1. /\ pc = "decode" /\ pc' = "idle" /\ UNCHANGED <<sock, sending, wq, lateWrites, notified>>
    BY <1>7 DEF DecodeIncomplete, Decoding
  <2>2. sock # "new" /\ Reading = 1 /\ Reading' <= 1
    BY <2>1, <1>b DEF Fresh, Reading
  <2> QED BY <2>1, <2>2, <1>b, ReceiveParts
<1>8. CASE DecodeMalformed
  <2>1. /\ pc = "decode" /\ pc' = "idle" /\ Clear(rop, wq)
        /\ notified' = notified + 0 /\ lateWrites' = lateWrites
    BY <1>8, <1>t DEF DecodeMalformed, Decoding
  <2>2. sock # "new" /\ Reading = 1
    BY <2>1, <1>b DEF Fresh, Reading
  <2>3. 0 + (IF rop.st # "none" THEN 1 ELSE 0) + Len(wq) <= Reading + Len(wq)
    BY <2>2, <1>t
  <2> QED BY <2>1, <2>2, <2>3, <1>b, <1>t, ClearBudget
<1>9. CASE Deliver
  <2>1. /\ pc = "decode" /\ pc' = "onReceive" /\ UNCHANGED <<sock, sending, wq, lateWrites, notified>>
    BY <1>9 DEF Deliver, Decoding
  <2>2. sock # "new" /\ Reading = 1 /\ Reading' <= 1
    BY <2>1, <1>b DEF Fresh, Reading
  <2> QED BY <2>1, <2>2, <1>b, ReceiveParts
<1>10. CASE ReceiveReturn
  <2>1. /\ pc = "onReceive" /\ pc' \in {"idle", "decode"}
        /\ UNCHANGED <<sock, sending, wq, lateWrites, notified>>
    BY <1>10 DEF ReceiveReturn
  <2>2. sock # "new" /\ Reading = 1 /\ Reading' <= 1
    BY <2>1, <1>b DEF Fresh, Reading
  <2> QED BY <2>1, <2>2, <1>b, ReceiveParts
<1>11. CASE WriteDone
  <2>1. /\ pc = "idle" /\ wq # <<>> /\ sending' = FALSE /\ sb' = Sent(sb, Head(wq).n)
        /\ UNCHANGED <<sock, rop, notified>>
    BY <1>11 DEF WriteDone
  <2>2. Tail(wq) \in Seq(WriteOps) /\ Len(Tail(wq)) = Len(wq) - 1 /\ Head(wq).n \in Nat
    BY <2>1, <1>t, TailFields DEF WriteOps
  <2>3. sb' \in SendBuffers
    BY <2>1, <2>2, <1>t, SentFields
  <2>4. \/ pc' = pc /\ HandleWrite(sb', sending, Tail(wq))
        \/ pc' = "aborted" /\ wq' = Tail(wq) /\ lateWrites' = lateWrites
    BY <1>11 DEF WriteDone
  <2>5. /\ Len(wq') \in Nat /\ lateWrites' \in Nat
        /\ sending => wq' = Tail(wq) /\ lateWrites' = lateWrites
        /\ sock = "closed" => Len(wq') - Len(Tail(wq)) = lateWrites' - lateWrites
    <3>1. CASE HandleWrite(sb', sending, Tail(wq))
      BY <2>2, <2>3, <3>1, <1>t, HandleWriteCounts
    <3>2. CASE wq' = Tail(wq) /\ lateWrites' = lateWrites
      BY <2>2, <3>2, <1>t
    <3> QED BY <2>4, <3>1, <3>2
  <2>6. sock # "new" /\ pc' \in {"idle", "aborted"}
    BY <2>1, <2>4, <1>b DEF Fresh
  <2>7. Fresh'
    BY <2>1, <2>6 DEF Fresh
  <2>8. SendingMeansInFlight'
    <3>1. SUFFICES ASSUME sock = "open" PROVE wq' = <<>>
      BY <2>1, <3>1 DEF SendingMeansInFlight
    <3>2. sending /\ Len(wq) <= 1
      BY <2>1, <3>1, <1>b DEF SendingMeansInFlight
    <3>3. Tail(wq) = <<>>
      BY <3>2, <2>1, <1>t, TailFields
    <3> QED BY <3>2, <3>3, <2>5
  <2>9. NotifyBudget'
    <3>1. Reading' <= Reading /\ Reading' \in {0, 1}
      BY <2>1, <2>6 DEF Reading
    <3>2. CASE sock = "closed"
      <4>1. notified + Reading + Len(wq) <= 2 + lateWrites
        BY <3>2, <1>b DEF NotifyBudget
      <4> QED BY <4>1, <3>1, <3>2, <2>1, <2>2, <2>5, <1>t DEF NotifyBudget
    <3> QED BY <3>2, <2>1, <1>b DEF NotifyBudget
  <2> QED BY <2>7, <2>8, <2>9
<1>12. CASE WriteSoftError
  <2>1. /\ pc = "idle" /\ wq # <<>> /\ sending' = FALSE /\ HandleWrite(sb, sending, Tail(wq))
        /\ UNCHANGED <<sock, pc, rop, notified>>
    BY <1>12 DEF WriteSoftError
  <2>2. Tail(wq) \in Seq(WriteOps) /\ Len(Tail(wq)) = Len(wq) - 1
    BY <2>1, <1>t
  <2>3. /\ Len(wq') \in Nat /\ lateWrites' \in Nat
        /\ sending => wq' = Tail(wq) /\ lateWrites' = lateWrites
        /\ sock = "closed" => Len(wq') - Len(Tail(wq)) = lateWrites' - lateWrites
    BY <2>1, <2>2, <1>t, HandleWriteCounts
  <2>4. sock # "new"
    BY <2>1, <1>b DEF Fresh
  <2>5. Fresh'
    BY <2>1, <2>4, <1>b DEF Fresh
  <2>6. SendingMeansInFlight'
    <3>1. SUFFICES ASSUME sock = "open" PROVE wq' = <<>>
      BY <2>1, <3>1 DEF SendingMeansInFlight
    <3>2. sending /\ Len(wq) <= 1
      BY <2>1, <3>1, <1>b DEF SendingMeansInFlight
    <3>3. Tail(wq) = <<>>
      BY <3>2, <2>1, <1>t, TailFields
    <3> QED BY <3>2, <3>3, <2>3
  <2>7. NotifyBudget'
    <3>1. Reading' = Reading
      BY <2>1 DEF Reading
    <3>2. CASE sock = "closed"
      <4>1. notified + Reading + Len(wq) <= 2 + lateWrites
        BY <3>2, <1>b DEF NotifyBudget
      <4> QED BY <4>1, <3>1, <3>2, <2>1, <2>2, <2>3, <1>t DEF NotifyBudget
    <3> QED BY <3>2, <2>1, <1>b DEF NotifyBudget
  <2> QED BY <2>5, <2>6, <2>7
<1>13. CASE WriteHardError
  <2>1. /\ pc = "idle" /\ pc' = pc /\ wq # <<>> /\ Clear(rop, Tail(wq))
        /\ notified' = notified + 1 /\ lateWrites' = lateWrites
    BY <1>13 DEF WriteHardError
  <2>2. Tail(wq) \in Seq(WriteOps) /\ Len(Tail(wq)) = Len(wq) - 1 /\ Len(Tail(wq)) <= Len(wq)
    BY <2>1, <1>t, TailFields
  <2>3. pc' \in {"idle", "aborted"} /\ sock # "new"
    BY <2>1, <1>b DEF Fresh
  <2>4. 1 + (IF rop.st # "none" THEN 1 ELSE 0) + Len(Tail(wq)) <= Reading + Len(wq)
    BY <2>2, <1>t DEF Reading
  <2> QED BY <2>1, <2>2, <2>3, <2>4, <1>b, <1>t, ClearBudget
<1>14. CASE AppSend
  <2>1. sock # "new" /\ UNCHANGED <<sock, pc, rop, notified>>
    BY <1>14 DEF AppSend, AppMayCall
  <2>2. PICK n \in SendSizes : SendTooLarge(n) \/ SendNoRoom(n) \/ SendQueued(n)
    BY <1>14 DEF AppSend
  <2>3. CASE SendTooLarge(n)
    BY <2>1, <2>3, <1>b, UntouchedParts DEF SendTooLarge
  <2>4. ASSUME NEW b \in SendBuffers, HandleWrite(b, sending, wq),
               sending' = (sending \/ CanStartWrite(b, sending))
        PROVE  Fresh' /\ SendingMeansInFlight' /\ NotifyBudget'
    <3>1. /\ Len(wq') \in Nat /\ lateWrites' \in Nat
          /\ CanStartWrite(b, sending) => Len(wq') = Len(wq) + 1
          /\ ~CanStartWrite(b, sending) => wq' = wq
          /\ sock = "closed" => Len(wq') - Len(wq) = lateWrites' - lateWrites
      BY <2>4, <1>t, HandleWriteCounts
    <3>2. Fresh'
      BY <2>1, <1>b DEF Fresh
    <3>3. SendingMeansInFlight'
      <4>1. CASE sock # "open"
        BY <4>1, <2>1 DEF SendingMeansInFlight
      <4>2. CASE sock = "open" /\ CanStartWrite(b, sending)
        <5>1. sending' /\ ~sending
          BY <2>4, <4>2 DEF CanStartWrite
        <5>2. wq = <<>>
          BY <5>1, <4>2, <1>b DEF SendingMeansInFlight
        <5>3. Len(wq') = 1 /\ wq' # <<>>
          BY <5>2, <4>2, <3>1
        <5> QED BY <5>1, <5>3 DEF SendingMeansInFlight
      <4>3. CASE sock = "open" /\ ~CanStartWrite(b, sending)
        BY <2>1, <2>4, <4>3, <3>1, <1>b DEF SendingMeansInFlight
      <4> QED BY <4>1, <4>2, <4>3
    <3>4. NotifyBudget'
      <4>1. Reading' = Reading
        BY <2>1 DEF Reading
      <4>2. CASE sock = "closed"
        <5>1. notified + Reading + Len(wq) <= 2 + lateWrites
          BY <4>2, <1>b DEF NotifyBudget
        <5> QED BY <5>1, <4>1, <4>2, <2>1, <3>1, <1>t DEF NotifyBudget
      <4> QED BY <4>2, <2>1, <1>b DEF NotifyBudget
    <3> QED BY <3>2, <3>3, <3>4
  <2>5. CASE SendNoRoom(n)
    BY <2>4, <2>5, <1>t DEF SendNoRoom
  <2>6. CASE SendQueued(n)
    <3>1. sb' \in SendBuffers
      BY <1>14, BoundsStep, <1>b DEF BoundsInv, TypeOK, Next, Application
    <3> QED BY <2>4, <2>6, <3>1 DEF SendQueued
  <2> QED BY <2>2, <2>3, <2>5, <2>6
<1>15. CASE AppClear
  <2>1. /\ pc = "idle" /\ pc' = pc /\ sock = "open" /\ Clear(rop, wq)
        /\ notified' = notified + 0 /\ lateWrites' = lateWrites
    BY <1>15, <1>t DEF AppClear
  <2>2. 0 + (IF rop.st # "none" THEN 1 ELSE 0) + Len(wq) <= Reading + Len(wq)
    BY <1>t DEF Reading
  <2> QED BY <2>1, <2>2, <1>b, <1>t, ClearBudget
<1>16. CASE OtherSessionFixesThreshold
  BY <1>16, <1>b, UntouchedParts DEF OtherSessionFixesThreshold
<1>17. CASE OsRead
  <2>1. rop.st = "pending" /\ UNCHANGED <<sock, pc, sending, wq, lateWrites, notified>>
    BY <1>17 DEF OsRead, HandlerVars
  <2>2. sock # "new" /\ Reading = 1 /\ Reading' <= 1
    BY <2>1, <1>b DEF Fresh, Reading
  <2>3. pc' = "onConnect" => sock = "open"
    BY <2>1, <1>b DEF Fresh
  <2> QED BY <2>1, <2>2, <2>3, <1>b, ReceiveParts
<1>18. CASE OsReadFail
  <2>1. rop.st = "pending" /\ UNCHANGED <<sock, pc, sending, wq, lateWrites, notified>>
    BY <1>18 DEF OsReadFail, HandlerVars
  <2>2. sock # "new" /\ Reading = 1 /\ Reading' <= 1
    BY <2>1, <1>b DEF Fresh, Reading
  <2>3. pc' = "onConnect" => sock = "open"
    BY <2>1, <1>b DEF Fresh
  <2> QED BY <2>1, <2>2, <2>3, <1>b, ReceiveParts
<1>19. ASSUME NEW i \in DOMAIN wq, NEW op, wq' = [wq EXCEPT ![i] = op],
              UNCHANGED <<sock, pc, sending, rop, lateWrites, notified>>
       PROVE  Fresh' /\ SendingMeansInFlight' /\ NotifyBudget'
  <2>1. Len(wq') = Len(wq) /\ wq # <<>> /\ wq' # <<>>
    BY <1>19, <1>t
  <2> QED BY <2>1, <1>19, <1>b DEF Fresh, SendingMeansInFlight, NotifyBudget, Reading
<1>20. CASE OsWrite
  BY <1>20, <1>19 DEF OsWrite, HandlerVars
<1>21. CASE OsWriteFail
  <2>1. PICK i \in DOMAIN wq, e \in {"soft", "hard"} : wq' = [wq EXCEPT ![i].st = e]
    BY <1>21 DEF OsWriteFail
  <2>2. wq' = [wq EXCEPT ![i] = [wq[i] EXCEPT !.st = e]]
    BY <2>1
  <2> QED BY <2>2, <1>21, <1>19 DEF OsWriteFail, HandlerVars
<1>22. CASE PeerSend
  BY <1>22, <1>b, UntouchedParts DEF PeerSend, HandlerVars
<1>23. CASE UNCHANGED vars
  BY <1>23, <1>b, UntouchedParts DEF vars
<1> QED BY <1>1, <1>2, <1>3, <1>4, <1>5, <1>6, <1>7, <1>8, <1>9, <1>10, <1>11, <1>12, <1>13,
           <1>14, <1>15, <1>16, <1>17, <1>18, <1>20, <1>21, <1>22, <1>23
        DEF Next, Thread, Application, Environment, ReadHandler, ReadLoop, WriteHandler

\* While the socket is open handle_sending_ is set exactly while a write is outstanding,
\* and never two are, whatever errors, partial writes and sends meet
\* (hs_session.cpp:139-198).
THEOREM OneWriteAtATime == Spec => []SendingMeansInFlight
<1>1. SendInv => SendingMeansInFlight
  BY DEF SendInv
<1> QED BY SendInit, SendStep, <1>1, PTL DEF Spec

\* onDisconnect is called at most twice and once more for each write started on a closed
\* socket: each call takes an operation that was outstanding (hs_session.cpp:107-122, 184-198).
THEOREM DisconnectBounded == Spec => []DisconnectBound
<1>1. SendInv => DisconnectBound
  <2>1. SUFFICES ASSUME SendInv PROVE DisconnectBound
    OBVIOUS
  <2>2. /\ notified \in Nat /\ lateWrites \in Nat /\ Len(wq) \in Nat /\ Reading \in {0, 1}
        /\ NotifyBudget
    BY <2>1 DEF SendInv, BoundsInv, TypeOK, Reading
  <2> QED BY <2>2 DEF NotifyBudget, DisconnectBound
<1> QED BY SendInit, SendStep, <1>1, PTL DEF Spec

-----------------------------------------------------------------------------
(* The bytes of an outstanding write *)

\* Bytes a completed write has put on the wire, not yet taken out of the send buffer
Taken == IF wq # <<>> /\ wq[1].st = "ok" THEN wq[1].n ELSE 0

\* The bytes of b that are not sent follow each other from position from on.
SendInOrder(b, from) == \A k \in 0..b.in - b.sent - 1 : b.mem[b.sent + k] = from + k

\* The send buffer holds what was queued and is not on the wire, and an outstanding write
\* begins with the first byte of it.
WireParts ==
  /\ sb.sent <= sb.in /\ sb.in <= SendLen
  /\ Taken <= wired /\ queued = wired - Taken + (sb.in - sb.sent)
  /\ SendInOrder(sb, wired - Taken)
  /\ wq # <<>> => wq[1].at = sb.sent /\ wq[1].n <= sb.in - sb.sent

\* Closing aborts what was pending, and a closed socket accepts no operation.
PendingIsOpen == sock # "open" => \A i \in DOMAIN wq : wq[i].st # "pending"

WireInv == SendInv /\ PendingIsOpen /\ (sock # "closed" => WireParts)

\* Sent drops the first n bytes, also when it resets the buffer.
LEMMA SentOrder ==
  ASSUME NEW b \in SendBuffers, NEW n \in Nat, NEW from \in Nat,
         b.sent + n <= b.in, SendInOrder(b, from)
  PROVE  /\ SendInOrder(Sent(b, n), from + n)
         /\ Sent(b, n).in - Sent(b, n).sent = b.in - b.sent - n
         /\ Sent(b, n).sent <= Sent(b, n).in /\ Sent(b, n).in <= b.in
<1>1. b.in \in Nat /\ b.sent \in Nat
  BY SendFields
<1>2. CASE b.sent + n = b.in
  <2>1. Sent(b, n).in = 0 /\ Sent(b, n).sent = 0
    BY <1>2, SentFields
  <2> QED BY <1>1, <1>2, <2>1 DEF SendInOrder
<1>3. CASE b.sent + n # b.in
  <2>1. Sent(b, n).in = b.in /\ Sent(b, n).sent = b.sent + n /\ Sent(b, n).mem = b.mem
    BY <1>3, SentFields
  <2>2. ASSUME NEW i \in 0..b.in - (b.sent + n) - 1
        PROVE  b.mem[b.sent + n + i] = from + n + i
    <3>1. n + i \in 0..b.in - b.sent - 1
      BY <1>1
    <3>2. b.mem[b.sent + (n + i)] = from + (n + i)
      BY <3>1 DEF SendInOrder
    <3>3. i \in Int /\ b.sent + (n + i) = b.sent + n + i /\ from + (n + i) = from + n + i
      BY <1>1
    <3> QED BY <3>2, <3>3
  <2>3. SendInOrder(Sent(b, n), from + n)
    BY <2>1, <2>2 DEF SendInOrder
  <2> QED BY <1>1, <1>3, <2>1, <2>3
<1> QED BY <1>2, <1>3

\* Buffer b after send() has put n bytes into it, the first of them queued at position q
Queued(b, n, q) == DataIn([b EXCEPT !.mem = Store(b.mem, b.in, n, q)], n)

\* A cell after Store
LEMMA StoreAt ==
  ASSUME NEW mem, NEW at, NEW n, NEW pos, NEW o \in DOMAIN mem
  PROVE  /\ at <= o /\ o < at + n => Store(mem, at, n, pos)[o] = pos + (o - at)
         /\ ~(at <= o /\ o < at + n) => Store(mem, at, n, pos)[o] = mem[o]
  BY DEF Store

\* send() puts its bytes behind those that are not sent.
LEMMA QueuedOrder ==
  ASSUME NEW b \in SendBuffers, NEW n \in Nat, NEW from \in Nat,
         b.sent <= b.in, b.in + n <= SendLen, SendInOrder(b, from)
  PROVE  /\ Queued(b, n, from + (b.in - b.sent)) \in SendBuffers
         /\ SendInOrder(Queued(b, n, from + (b.in - b.sent)), from)
         /\ Queued(b, n, from + (b.in - b.sent)).in = b.in + n
         /\ Queued(b, n, from + (b.in - b.sent)).sent = b.sent
<1> DEFINE m == Store(b.mem, b.in, n, from + (b.in - b.sent))
<1>1. b.in \in Nat /\ b.sent \in Nat /\ b.mem \in Memory(SendLen) /\ SendLen \in Nat
  BY SendFields, SessionAssumption
<1>2. DOMAIN b.mem = 0..SendLen-1
  BY <1>1 DEF Memory
<1>3. ASSUME NEW i \in 0..b.in + n - b.sent - 1 PROVE m[b.sent + i] = from + i
  <2>1. b.sent + i \in 0..SendLen-1 /\ i \in Nat
    BY <1>1
  <2>2. PICK o, in, mem, pos :
          /\ o = b.sent + i /\ in = b.in /\ mem = b.mem /\ pos = from + (b.in - b.sent)
    BY Zenon
  <2>3. o \in DOMAIN mem /\ m = Store(mem, in, n, pos)
    <3>1. o \in DOMAIN mem
      BY <1>2, <2>1, <2>2
    <3>2. m = Store(mem, in, n, pos)
      BY <2>2, Zenon
    <3> QED BY <3>1, <3>2, Zenon
  <2> HIDE DEF m
  <2>4. CASE in <= o
    <3>1. o < in + n
      BY <1>1, <2>1, <2>2
    <3>2. m[o] = pos + (o - in)
      BY <2>3, <2>4, <3>1, StoreAt
    <3>3. pos + (o - in) = from + i
      BY <1>1, <2>1, <2>2
    <3> QED BY <2>2, <3>2, <3>3
  <2>5. CASE ~(in <= o)
    <3>1. i \in 0..b.in - b.sent - 1
      BY <1>1, <2>1, <2>2, <2>5
    <3>2. b.mem[b.sent + i] = from + i
      BY <3>1 DEF SendInOrder
    <3>3. m[o] = mem[o]
      BY <2>3, <2>5, StoreAt
    <3> QED BY <2>2, <3>2, <3>3
  <2> QED BY <2>4, <2>5
<1>4. m \in Memory(SendLen)
  <2>1. from + (b.in - b.sent) \in Nat
    BY <1>1
  <2> QED BY <1>1, <2>1, StoreType
<1> HIDE DEF m
<1>5. /\ [b EXCEPT !.mem = m] \in SendBuffers /\ [b EXCEPT !.mem = m].in = b.in
      /\ [b EXCEPT !.mem = m].sent = b.sent /\ [b EXCEPT !.mem = m].mem = m
  BY <1>4 DEF SendBuffers
<1> DEFINE d == Queued(b, n, from + (b.in - b.sent))
<1>6. d = DataIn([b EXCEPT !.mem = m], n)
  BY DEF m, Queued
<1> HIDE DEF d
<1>7. d \in SendBuffers /\ d.in = b.in + n /\ d.sent = b.sent /\ d.mem = m
  <2> DEFINE c == [b EXCEPT !.mem = m]
  <2>1. c \in SendBuffers /\ c.in = b.in /\ c.sent = b.sent /\ c.mem = m /\ d = DataIn(c, n)
    BY <1>5, <1>6
  <2> HIDE DEF c
  <2>2. c.in + n <= SendLen
    BY <1>1, <2>1
  <2>3. /\ DataIn(c, n) \in SendBuffers /\ DataIn(c, n).sent = c.sent
        /\ DataIn(c, n).mem = c.mem /\ DataIn(c, n).in = c.in + n
    BY <2>1, <2>2, SendDataIn
  <2> QED BY <2>1, <2>3, Zenon
<1>8. SendInOrder(d, from)
  BY <1>1, <1>3, <1>7 DEF SendInOrder
<1> QED BY <1>7, <1>8 DEF d

\* handle_write() of an open session with buffer sb': the write it may start begins with
\* the first byte that is not sent.
LEMMA WriteStarted ==
  ASSUME sb' \in SendBuffers, wq \in Seq(WriteOps), sending <=> wq # <<>>, wq # <<>> => Len(wq) = 1,
         sock = "open", HandleWrite(sb', sending, wq),
         sb'.sent = sb.sent, sb'.in \in Nat, sb'.in >= sb.in, sb.in \in Nat, sb.sent \in Nat,
         WireParts
  PROVE  /\ Taken' = Taken
         /\ wq' # <<>> => wq'[1].at = sb'.sent /\ wq'[1].n <= sb'.in - sb'.sent
<1>1. CASE CanStartWrite(sb', sending)
  <2>1. wq = <<>> /\ wq' = Append(wq, WriteOp(sb', sock))
    BY <1>1 DEF CanStartWrite, HandleWrite
  <2>2. wq'[1] = WriteOp(sb', sock) /\ wq' # <<>>
    BY <2>1
  <2>3. wq'[1].st = "pending" /\ wq'[1].at = sb'.sent /\ wq'[1].n = sb'.in - sb'.sent
    BY <2>2 DEF WriteOp, GetCanSendSize
  <2>4. Taken' = 0 /\ Taken = 0
    BY <2>1, <2>3 DEF Taken
  <2>5. sb'.in - sb'.sent <= sb'.in - sb'.sent
    OBVIOUS
  <2> QED BY <2>3, <2>4, <2>5
<1>2. CASE ~CanStartWrite(sb', sending)
  <2>1. wq' = wq
    BY <1>2 DEF HandleWrite
  <2>2. Taken' = Taken
    BY <2>1 DEF Taken
  <2>3. ASSUME wq # <<>> PROVE wq[1].n \in Nat
    <3>1. wq[1] \in WriteOps
      BY <2>3
    <3> QED BY <3>1 DEF WriteOps
  <2> QED BY <2>1, <2>2, <2>3 DEF WireParts
<1> QED BY <1>1, <1>2

\* Aborted operations are not pending.
LEMMA NonePending ==
  ASSUME NEW q \in Seq(WriteOps)
  PROVE  \A i \in DOMAIN AbortAll(q) : AbortAll(q)[i].st # "pending"
<1> SUFFICES ASSUME NEW i \in DOMAIN AbortAll(q) PROVE AbortAll(q)[i].st # "pending"
  OBVIOUS
<1>1. AbortAll(q) = [j \in 1..Len(q) |-> Abort(q[j])]
  BY DEF AbortAll
<1>2. i \in 1..Len(q) /\ q[i] \in WriteOps /\ AbortAll(q)[i] = Abort(q[i])
  BY <1>1
<1> QED BY <1>2 DEF Abort, WriteOps

\* handle_write() on a socket that is not open queues an operation that has failed.
LEMMA NoneStarted ==
  ASSUME NEW b \in SendBuffers, NEW snd, NEW q \in Seq(WriteOps), HandleWrite(b, snd, q),
         sock # "open", \A i \in DOMAIN q : q[i].st # "pending"
  PROVE  \A i \in DOMAIN wq' : wq'[i].st # "pending"
<1>1. CASE CanStartWrite(b, snd)
  <2> DEFINE w == WriteOp(b, sock)
  <2>1. w \in WriteOps /\ w.st = "hard"
    BY <1>1, SendFields DEF CanStartWrite, GetCanSendSize, WriteOp, WriteOps
  <2>2. wq' = Append(q, w)
    BY <1>1 DEF HandleWrite
  <2> HIDE DEF w
  <2> QED BY <2>1, <2>2
<1>2. CASE ~CanStartWrite(b, snd)
  BY <1>2 DEF HandleWrite
<1> QED BY <1>1, <1>2

\* Every step keeps a socket that is not open without pending writes.
LEMMA PendingStep == WireInv /\ [Next]_vars => PendingIsOpen'
<1> SUFFICES ASSUME WireInv, [Next]_vars, sock' # "open"
             PROVE  \A i \in DOMAIN wq' : wq'[i].st # "pending"
  BY DEF PendingIsOpen
<1>b. SendInv /\ SendInv' /\ PendingIsOpen /\ BoundsInv /\ BoundsInv'
  BY SendStep DEF WireInv, SendInv
<1>t. /\ sb \in SendBuffers /\ wq \in Seq(WriteOps) /\ sb' \in SendBuffers /\ TypeOK
  BY <1>b DEF BoundsInv, TypeOK
<1>1. CASE wq' = wq /\ sock' = sock
  BY <1>1, <1>b DEF PendingIsOpen
<1>2. CASE ReadHardError \/ DecodeMalformed \/ AppClear
  <2>1. wq' = AbortAll(wq)
    BY <1>2 DEF ReadHardError, DecodeMalformed, AppClear, Clear
  <2> QED BY <2>1, <1>t, NonePending
<1>3. CASE WriteHardError
  <2>1. wq' = AbortAll(Tail(wq)) /\ Tail(wq) \in Seq(WriteOps)
    BY <1>3, <1>t, TailFields DEF WriteHardError, Clear
  <2> QED BY <2>1, NonePending
<1>4. CASE WriteDone \/ WriteSoftError
  <2>1. /\ wq # <<>> /\ sock # "open"
        /\ \/ wq' = Tail(wq)
           \/ HandleWrite(sb', sending, Tail(wq))
           \/ HandleWrite(sb, sending, Tail(wq))
    BY <1>4 DEF WriteDone, WriteSoftError
  <2>2. Tail(wq) \in Seq(WriteOps) /\ \A i \in DOMAIN Tail(wq) : Tail(wq)[i].st # "pending"
    <3>1. \A i \in DOMAIN wq : wq[i].st # "pending"
      BY <2>1, <1>b DEF PendingIsOpen
    <3>2. /\ Tail(wq) \in Seq(WriteOps) /\ DOMAIN Tail(wq) = 1..Len(wq)-1 /\ Len(wq) \in Nat
          /\ \A i \in 1..Len(wq)-1 : Tail(wq)[i] = wq[i+1] /\ i+1 \in DOMAIN wq
      BY <2>1, <1>t
    <3> QED BY <3>1, <3>2
  <2> QED BY <2>1, <2>2, <1>t, NoneStarted
<1>5. CASE AppSend
  <2>1. sock # "open" /\ (wq' = wq \/ HandleWrite(sb, sending, wq) \/ HandleWrite(sb', sending, wq))
    BY <1>5 DEF AppSend, SendTooLarge, SendNoRoom, SendQueued
  <2> QED BY <2>1, <1>b, <1>t, NoneStarted DEF PendingIsOpen
<1>6. CASE OsWrite \/ OsWriteFail
  <2>1. sock # "open" /\ \E i \in DOMAIN wq : wq[i].st = "pending"
    BY <1>6 DEF OsWrite, OsWriteFail, Writing, HandlerVars
  <2> QED BY <2>1, <1>b DEF PendingIsOpen
<1>7. HandleAccept => sock' = "open"
  BY DEF HandleAccept
<1>8. ConnectReturn \/ ReadData \/ ReadNothing \/ ReadSoftError \/ DecodeIncomplete \/ Deliver
      \/ ReceiveReturn \/ UNCHANGED vars => wq' = wq /\ sock' = sock
  BY DEF ConnectReturn, ReadData, ReadNothing, ReadSoftError, DecodeIncomplete, Deliver,
         ReceiveReturn, vars
<1>9. OtherSessionFixesThreshold \/ OsRead \/ OsReadFail \/ PeerSend => wq' = wq /\ sock' = sock
  BY DEF OtherSessionFixesThreshold, OsRead, OsReadFail, PeerSend, HandlerVars
<1> QED BY <1>1, <1>2, <1>3, <1>4, <1>5, <1>6, <1>7, <1>8, <1>9
        DEF Next, Thread, Application, Environment, ReadHandler, ReadLoop, WriteHandler

\* A new session has the invariant.
LEMMA WireInit == Init => WireInv
<1> SUFFICES ASSUME Init PROVE WireInv
  OBVIOUS
<1>1. wq = <<>> /\ sb.in = 0 /\ sb.sent = 0 /\ queued = 0 /\ wired = 0
  BY DEF Init, NewSendBuffer
<1>2. Taken = 0
  BY <1>1 DEF Taken
<1>3. WireParts
  BY <1>1, <1>2, SessionAssumption DEF WireParts, SendInOrder
<1>4. PendingIsOpen
  BY <1>1 DEF PendingIsOpen
<1> QED BY <1>3, <1>4, SendInit DEF WireInv

\* Every step keeps it.
LEMMA WireStep == WireInv /\ [Next]_vars => WireInv'
<1> SUFFICES ASSUME WireInv, [Next]_vars PROVE WireInv'
  OBVIOUS
<1>a. SendInv' /\ PendingIsOpen'
  BY SendStep, PendingStep DEF WireInv
<1> SUFFICES ASSUME sock' # "closed" PROVE WireParts'
  BY <1>a DEF WireInv
<1>b. /\ BoundsInv /\ BoundsInv' /\ Fresh /\ SendingMeansInFlight
      /\ (sock # "closed" => WireParts)
  BY <1>a DEF WireInv, SendInv
<1>t. /\ sb \in SendBuffers /\ wq \in Seq(WriteOps) /\ sb' \in SendBuffers /\ sending \in BOOLEAN
      /\ sock \in {"new", "open", "closed"} /\ wired \in Nat /\ queued \in Nat
      /\ sb.in \in Nat /\ sb.sent \in Nat /\ SendLen \in Nat
  BY <1>b, SendFields, SessionAssumption DEF BoundsInv, TypeOK
<1>o. ASSUME wq # <<>>, sock # "closed"
      PROVE  /\ sock = "open" /\ sending /\ Len(wq) = 1 /\ DOMAIN wq = {1} /\ wq[1] \in WriteOps
             /\ Head(wq) = wq[1] /\ wq[1].n \in Nat /\ Tail(wq) = <<>>
  <2>1. sock = "open"
    BY <1>b, <1>t, <1>o DEF Fresh
  <2>2. Len(wq) <= 1
    BY <2>1, <1>b, <1>o DEF SendingMeansInFlight
  <2>s. sending
    BY <2>1, <1>b, <1>o DEF SendingMeansInFlight
  <2>3. Len(wq) \in Nat /\ Len(wq) > 0 /\ Tail(wq) = <<>> /\ Head(wq) \in WriteOps
    BY <2>2, <1>o, <1>t, TailFields
  <2>4. Len(wq) = 1
    <3>1. \A n \in Nat : n > 0 /\ n <= 1 => n = 1
      OBVIOUS
    <3> QED BY <2>2, <2>3, <3>1, Zenon
  <2>5. DOMAIN wq = 1..1 /\ Head(wq) = wq[1]
    <3>1. DOMAIN wq = 1..Len(wq)
      BY <1>t
    <3>2. Head(wq) = wq[1]
      BY <1>t, <1>o
    <3> QED BY <2>4, <3>1, <3>2
  <2>6. 1..1 = {1}
    OBVIOUS
  <2>7. wq[1] \in WriteOps /\ wq[1].n \in Nat
    BY <2>3, <2>5 DEF WriteOps
  <2> QED BY <2>1, <2>s, <2>3, <2>4, <2>5, <2>6, <2>7
<1>k. /\ sock' = sock \/ sock = "new"
      /\ sb' = sb /\ wq' = wq /\ queued' = queued /\ wired' = wired
      => WireParts'
  <2> SUFFICES ASSUME sock' = sock \/ sock = "new", sb' = sb, wq' = wq, queued' = queued,
                      wired' = wired
               PROVE  WireParts'
    OBVIOUS
  <2>1. WireParts
    BY <1>b
  <2>2. Taken' = Taken
    BY DEF Taken
  <2> QED BY <2>1, <2>2 DEF WireParts, SendInOrder
<1>1. ~ReadHardError /\ ~DecodeMalformed /\ ~AppClear /\ ~WriteHardError
  BY DEF ReadHardError, DecodeMalformed, AppClear, WriteHardError, Clear
<1>2. CASE HandleAccept \/ ConnectReturn \/ ReadData \/ ReadNothing \/ ReadSoftError
  BY <1>2, <1>k DEF HandleAccept, ConnectReturn, ReadData, ReadNothing, ReadSoftError, sendVars
<1>3. CASE DecodeIncomplete \/ Deliver \/ ReceiveReturn \/ OtherSessionFixesThreshold
  BY <1>3, <1>k DEF DecodeIncomplete, Deliver, ReceiveReturn, OtherSessionFixesThreshold, sendVars
<1>4. CASE OsRead \/ OsReadFail \/ PeerSend \/ UNCHANGED vars
  BY <1>4, <1>k DEF OsRead, OsReadFail, PeerSend, HandlerVars, sendVars, vars
<1>5. CASE WriteDone
  <2>1. /\ wq # <<>> /\ Head(wq).st = "ok" /\ sb' = Sent(sb, Head(wq).n) /\ sock' = sock
        /\ UNCHANGED <<queued, wired>>
        /\ \/ HandleWrite(sb', sending, Tail(wq))
           \/ wq' = Tail(wq)
    BY <1>5 DEF WriteDone, sendVars
  <2>2. /\ sending /\ Tail(wq) = <<>> /\ WireParts /\ wq[1].st = "ok" /\ Head(wq) = wq[1]
        /\ wq[1].n \in Nat
    BY <2>1, <1>b, <1>o
  <2>3. wq' = <<>>
    BY <2>1, <2>2 DEF HandleWrite, CanStartWrite
  <2>4. Taken = wq[1].n /\ Taken' = 0
    BY <2>1, <2>2, <2>3 DEF Taken
  <2>5. /\ sb.sent <= sb.in /\ sb.in <= SendLen /\ wq[1].n <= sb.in - sb.sent
        /\ wq[1].n <= wired /\ queued = wired - wq[1].n + (sb.in - sb.sent)
        /\ SendInOrder(sb, wired - wq[1].n)
    BY <2>1, <2>2, <2>4 DEF WireParts
  <2>6. sb' = Sent(sb, wq[1].n) /\ sb.sent + wq[1].n <= sb.in /\ wired - wq[1].n \in Nat
    BY <2>1, <2>2, <2>5, <1>t
  <2>7. /\ SendInOrder(sb', wired - wq[1].n + wq[1].n)
        /\ sb'.in - sb'.sent = sb.in - sb.sent - wq[1].n
        /\ sb'.sent <= sb'.in /\ sb'.in <= sb.in
    BY <2>2, <2>5, <2>6, <1>t, SentOrder
  <2>8. sb'.in \in Nat /\ sb'.sent \in Nat
    BY <1>t, SendFields
  <2>9. wired - wq[1].n + wq[1].n = wired - 0
    BY <2>2, <1>t
  <2>10. SendInOrder(sb', wired - 0)
    BY <2>7, <2>9
  <2>11. SendInOrder(sb, wired - 0)'
    BY <2>1, <2>10 DEF SendInOrder
  <2>12. sb'.in <= SendLen /\ Taken' <= wired'
    BY <2>1, <2>4, <2>5, <2>7, <2>8, <1>t
  <2>13. queued' = wired' - Taken' + (sb'.in - sb'.sent)
    <3>1. queued' = wired - wq[1].n + (sb.in - sb.sent) /\ wired' - Taken' = wired
      BY <2>1, <2>4, <2>5, <1>t
    <3>2. wired - wq[1].n + (sb.in - sb.sent) = wired + (sb.in - sb.sent - wq[1].n)
      BY <2>2, <1>t
    <3> QED BY <2>7, <3>1, <3>2
  <2>14. SendInOrder(sb, wired - Taken)'
    BY <2>4, <2>11
  <2> QED BY <2>3, <2>7, <2>12, <2>13, <2>14 DEF WireParts
<1>6. CASE WriteSoftError
  <2>1. /\ wq # <<>> /\ Head(wq).st = "soft" /\ sock' = sock
        /\ HandleWrite(sb, sending, Tail(wq)) /\ UNCHANGED <<sb, queued, wired>>
    BY <1>6 DEF WriteSoftError, sendVars
  <2>2. sending /\ Tail(wq) = <<>> /\ WireParts /\ wq[1].st = "soft"
    BY <2>1, <1>b, <1>o
  <2>3. wq' = <<>>
    BY <2>1, <2>2 DEF HandleWrite, CanStartWrite
  <2>4. Taken = 0 /\ Taken' = 0
    BY <2>2, <2>3 DEF Taken
  <2> QED BY <2>1, <2>2, <2>3, <2>4 DEF WireParts, SendInOrder
<1>7. CASE AppSend
  <2>1. sock # "new" /\ sock' = sock /\ wired' = wired
    BY <1>7 DEF AppSend, AppMayCall
  <2>2. sock = "open" /\ WireParts
    BY <2>1, <1>t, <1>b
  <2>3. /\ sending <=> wq # <<>>
        /\ wq # <<>> => Len(wq) = 1
    BY <2>2, <1>b, <1>o DEF SendingMeansInFlight
  <2>4. PICK n \in SendSizes : SendTooLarge(n) \/ SendNoRoom(n) \/ SendQueued(n)
    BY <1>7 DEF AppSend
  <2>5. CASE SendTooLarge(n)
    BY <2>1, <2>5, <1>k DEF SendTooLarge
  <2>6. CASE SendNoRoom(n)
    <3>1. HandleWrite(sb', sending, wq) /\ sb' = sb /\ queued' = queued
      BY <2>6 DEF SendNoRoom
    <3>2. /\ Taken' = Taken
          /\ wq' # <<>> => wq'[1].at = sb'.sent /\ wq'[1].n <= sb'.in - sb'.sent
      BY <2>2, <2>3, <3>1, <1>t, WriteStarted
    <3> QED BY <2>1, <2>2, <3>1, <3>2 DEF WireParts, SendInOrder
  <2>7. CASE SendQueued(n)
    <3>1. n \in Nat /\ HDR + n \in Nat /\ HDR + n <= SendLen - sb.in /\ sb.len = SendLen
      <4>1. n \in Nat /\ HDR \in Nat /\ sb.len = SendLen
        BY <1>t, SessionAssumption, PacketAssumption, SendFields
      <4>2. EncodePacket(n, SendLen - sb.in) = 1
        BY <2>7, <4>1 DEF SendQueued, GetLeftInSize
      <4>3. HDR + n <= SendLen - sb.in
        <5>1. PICK left \in Int : left = SendLen - sb.in
          BY <1>t
        <5>2. ~(n + HDR > MAXPKT) /\ ~(n + HDR > left)
          BY <4>1, <4>2, <5>1, PacketAssumption DEF EncodePacket
        <5> QED BY <4>1, <5>1, <5>2
      <4> QED BY <4>1, <4>3
    <3>2. /\ sb' = Queued(sb, HDR + n, queued) /\ HandleWrite(sb', sending, wq)
          /\ queued' = queued + HDR + n
      BY <2>7 DEF SendQueued, Queued
    <3>3. /\ Taken \in Nat /\ wired - Taken \in Nat /\ queued = wired - Taken + (sb.in - sb.sent)
          /\ SendInOrder(sb, wired - Taken) /\ sb.sent <= sb.in
      <4>1. Taken \in Nat
        BY <2>2, <1>o DEF Taken
      <4> QED BY <2>2, <4>1, <1>t DEF WireParts
    <3>4. /\ sb' = Queued(sb, HDR + n, wired - Taken + (sb.in - sb.sent))
          /\ sb.in + (HDR + n) <= SendLen
      BY <3>1, <3>2, <3>3, <1>t
    <3>5. SendInOrder(sb', wired - Taken) /\ sb'.in = sb.in + (HDR + n) /\ sb'.sent = sb.sent
      BY <3>1, <3>3, <3>4, <1>t, QueuedOrder
    <3>6. /\ Taken' = Taken
          /\ wq' # <<>> => wq'[1].at = sb'.sent /\ wq'[1].n <= sb'.in - sb'.sent
      BY <2>2, <2>3, <3>1, <3>2, <3>5, <1>t, WriteStarted
    <3>7. SendInOrder(sb, wired - Taken)'
      BY <2>1, <3>5, <3>6 DEF SendInOrder
    <3>8. queued' = wired' - Taken' + (sb'.in - sb'.sent)
      <4>1. sb'.in - sb'.sent = (sb.in - sb.sent) + (HDR + n) /\ wired' - Taken' = wired - Taken
        BY <2>1, <3>1, <3>5, <3>6, <1>t
      <4>2. queued' = queued + (HDR + n)
        BY <3>1, <3>2, <1>t, PacketAssumption
      <4>3. queued' = (wired - Taken) + (sb.in - sb.sent) + (HDR + n)
        BY <3>3, <4>2
      <4>4. (wired - Taken) + (sb.in - sb.sent) + (HDR + n)
            = (wired - Taken) + ((sb.in - sb.sent) + (HDR + n))
        BY <3>1, <3>3, <1>t
      <4> QED BY <4>1, <4>3, <4>4
    <3>9. sb'.sent <= sb'.in /\ sb'.in <= SendLen /\ Taken' <= wired'
      BY <2>1, <2>2, <3>1, <3>3, <3>4, <3>5, <3>6, <1>t DEF WireParts
    <3> QED BY <3>6, <3>7, <3>8, <3>9 DEF WireParts
  <2> QED BY <2>4, <2>5, <2>6, <2>7
<1>8. CASE OsWrite
  <2>1. PICK i \in DOMAIN wq :
             /\ Writing(i)
             /\ \E k \in 1..wq[i].n :
                  wq' = [wq EXCEPT ![i] = [st |-> "ok", at |-> wq[i].at, n |-> k]] /\ wired' = wired + k
    BY <1>8 DEF OsWrite
  <2>2. PICK k \in 1..wq[i].n :
             wq' = [wq EXCEPT ![i] = [st |-> "ok", at |-> wq[i].at, n |-> k]] /\ wired' = wired + k
    BY <2>1
  <2>3. sock' = sock /\ UNCHANGED <<sb, queued>> /\ wq # <<>>
    BY <1>8, <2>1 DEF OsWrite, HandlerVars, sendVars
  <2>4. WireParts /\ i = 1 /\ wq[1].st = "pending" /\ wq[1].n \in Nat /\ DOMAIN wq = {1}
    BY <2>1, <2>3, <1>b, <1>o DEF Writing
  <2>5. k \in Nat /\ k <= wq[1].n /\ Taken = 0
    BY <2>4 DEF Taken
  <2>6. wq' # <<>> /\ wq'[1] = [st |-> "ok", at |-> wq[1].at, n |-> k]
    <3>1. wq' = [wq EXCEPT ![1] = [st |-> "ok", at |-> wq[1].at, n |-> k]]
      BY <2>2, <2>4
    <3>2. wq'[1] = [st |-> "ok", at |-> wq[1].at, n |-> k] /\ DOMAIN wq' = {1}
      BY <2>4, <3>1
    <3> QED BY <3>2
  <2>7. Taken' = k
    BY <2>6 DEF Taken
  <2>8. /\ sb.sent <= sb.in /\ sb.in <= SendLen /\ queued = wired - 0 + (sb.in - sb.sent)
        /\ SendInOrder(sb, wired - 0) /\ wq[1].at = sb.sent /\ wq[1].n <= sb.in - sb.sent
    BY <2>3, <2>4, <2>5 DEF WireParts
  <2>9. wired' - k = wired - 0 /\ k <= wired' /\ k <= sb.in - sb.sent
    BY <2>2, <2>4, <2>5, <2>8, <1>t
  <2>10. SendInOrder(sb, wired - Taken)'
    BY <2>3, <2>7, <2>8, <2>9 DEF SendInOrder
  <2> QED BY <2>3, <2>6, <2>7, <2>8, <2>9, <2>10 DEF WireParts
<1>9. CASE OsWriteFail
  <2>1. PICK i \in DOMAIN wq, e \in {"soft", "hard"} : Writing(i) /\ wq' = [wq EXCEPT ![i].st = e]
    BY <1>9 DEF OsWriteFail
  <2>2. sock' = sock /\ UNCHANGED <<sb, queued, wired>> /\ wq # <<>>
    BY <1>9, <2>1 DEF OsWriteFail, HandlerVars, sendVars
  <2>3. /\ WireParts /\ i = 1 /\ wq[1].st = "pending" /\ DOMAIN wq = {1} /\ wq[1] \in WriteOps
    BY <2>1, <2>2, <1>b, <1>o DEF Writing
  <2>4. wq' = [wq EXCEPT ![1] = [wq[1] EXCEPT !.st = e]]
    BY <2>1, <2>3
  <2>5. wq'[1] = [wq[1] EXCEPT !.st = e]
    BY <2>3, <2>4
  <2>6. wq'[1].st = e /\ wq'[1].at = wq[1].at /\ wq'[1].n = wq[1].n
    BY <2>3, <2>5 DEF WriteOps
  <2>7. Taken = 0 /\ Taken' = 0
    BY <2>3, <2>6, <2>1 DEF Taken
  <2>8. SendInOrder(sb, wired - Taken)'
    BY <2>2, <2>3, <2>7 DEF WireParts, SendInOrder
  <2> QED BY <2>2, <2>3, <2>6, <2>7, <2>8 DEF WireParts
<1> QED BY <1>1, <1>2, <1>3, <1>4, <1>5, <1>6, <1>7, <1>8, <1>9
        DEF Next, Thread, Application, Environment, ReadHandler, ReadLoop, WriteHandler

\* What a pending write holds is what follows on the wire, whatever send() adds behind it and
\* however the writes before it were cut; after clear() nothing is pending
\* (hs_session.cpp:139-198, 207-240, hs_buffer.h:209-330).
THEOREM WritesInOrder == Spec => []WriteInOrder
<1>1. WireInv => WriteInOrder
  <2> SUFFICES ASSUME WireInv, NEW i \in DOMAIN wq, Writing(i)
               PROVE  /\ wq[i].at + wq[i].n <= SendLen
                      /\ \A k \in 0..wq[i].n-1 : sb.mem[wq[i].at + k] = wired + k
    BY DEF WriteInOrder
  <2>1. sock = "open" /\ wq[i].st = "pending" /\ wq # <<>>
    BY DEF WireInv, PendingIsOpen, Writing
  <2>2. /\ WireParts /\ Len(wq) <= 1 /\ wq \in Seq(WriteOps) /\ wired \in Nat /\ sb \in SendBuffers
    BY <2>1 DEF WireInv, SendInv, SendingMeansInFlight, BoundsInv, TypeOK
  <2>3. i = 1 /\ wq[1] \in WriteOps
    BY <2>2
  <2>4. wq[1].n \in Nat /\ wq[1].at \in Nat /\ sb.in \in Nat /\ sb.sent \in Nat /\ SendLen \in Nat
    BY <2>2, <2>3, SendFields, SessionAssumption DEF WriteOps
  <2>5. Taken = 0
    BY <2>1, <2>3 DEF Taken
  <2>6. SendInOrder(sb, wired) /\ wq[1].at = sb.sent /\ wq[1].n <= sb.in - sb.sent /\ sb.in <= SendLen
    BY <2>1, <2>2, <2>5 DEF WireParts, SendInOrder
  <2> QED BY <2>3, <2>4, <2>6 DEF SendInOrder
<1> QED BY WireInit, WireStep, <1>1, PTL DEF Spec
=============================================================================
