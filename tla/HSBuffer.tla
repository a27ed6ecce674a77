------------------------------ MODULE HSBuffer ------------------------------
(***************************************************************************)
(* HSRecvBuffer and HSSendBuffer (hs_buffer.h): a fixed block of memory    *)
(* with the offset where the next byte goes in and the offset up to which  *)
(* bytes have been used (received data) or sent (data to send).            *)
(*                                                                         *)
(* A memory cell holds the position, in the byte stream it belongs to, of  *)
(* the byte stored there: that is all the properties need to tell whether  *)
(* a byte was lost, duplicated or moved.  Junk is uninitialised memory.    *)
(*                                                                         *)
(* used_out_reset_ and sent_out_reset_ are TRUE in every state: nothing in *)
(* the repository calls SetUsedOutReset or SetSentOutReset.                *)
(***************************************************************************)
EXTENDS Integers

Junk == -1

Memory(len) == [0..len-1 -> Nat \cup {Junk}]

\* new char[len] and both offsets 0
NewRecvBuffer(len) == [len |-> len, in |-> 0, used |-> 0,
                       mem |-> [o \in 0..len-1 |-> Junk]]
NewSendBuffer(len) == [len |-> len, in |-> 0, sent |-> 0,
                       mem |-> [o \in 0..len-1 |-> Junk]]

GetLeftInSize(b) == b.len - b.in

\* Cells at..at+n-1 receive the stream bytes pos, pos+1, ...
Store(mem, at, n, pos) ==
  [o \in DOMAIN mem |-> IF at <= o /\ o < at + n THEN pos + (o - at) ELSE mem[o]]

\* DataIn(size_t): the bytes are already in place, only the offset moves;
\* the call changes nothing when they would not fit.
DataIn(b, n) == IF b.in + n > b.len THEN b ELSE [b EXCEPT !.in = b.in + n]

-----------------------------------------------------------------------------
(* HSRecvBuffer *)

\* Buffer b with other offsets
RecvOffsets(b, in, used) == [len |-> b.len, in |-> in, used |-> used, mem |-> b.mem]

GetCanUseSize(b) == b.in - b.used

\* Mutant of DataUse: the used offset is not reset.
DataUseHalfReset(b, n) == IF b.used + n = b.in THEN RecvOffsets(b, 0, b.used + n)
                                               ELSE RecvOffsets(b, b.in, b.used + n)

\* DataUse with check = FALSE: when everything is used the buffer is reset.
DataUse(b, n) == IF b.used + n = b.in THEN RecvOffsets(b, 0, 0)
                                      ELSE RecvOffsets(b, b.in, b.used + n)

\* Mutant of MoveUnuseData2Begin: the bytes stay where they are.
MoveOffsetsOnly(b) == IF GetCanUseSize(b) > 0 THEN RecvOffsets(b, GetCanUseSize(b), 0) ELSE b

\* The unused bytes are moved to the beginning of the memory.
MoveUnuseData2Begin(b) ==
  LET n == GetCanUseSize(b)
  IN  IF n > 0 THEN [len |-> b.len, in |-> n, used |-> 0,
                     mem |-> [o \in DOMAIN b.mem |->
                                IF o < n THEN b.mem[b.used + o] ELSE b.mem[o]]]
               ELSE b

\* Clear(false) keeps the memory.
ClearRecv(b) == RecvOffsets(b, 0, 0)

-----------------------------------------------------------------------------
(* HSSendBuffer *)

\* Buffer b with other offsets
SendOffsets(b, in, sent) == [len |-> b.len, in |-> in, sent |-> sent, mem |-> b.mem]

\* Mutant of GetCanSendSize: the last byte is left out.
GetCanSendSizeShort(b) == IF b.in > b.sent THEN b.in - b.sent - 1 ELSE 0

GetCanSendSize(b) == b.in - b.sent

\* The assertion in GetCanSendSize.
SendAssertion(b) == b.in >= b.sent

\* Mutant of Sent: reset also when only a part was sent.
SentAlwaysReset(b, n) == SendOffsets(b, 0, 0)

\* Sent with check = FALSE: when everything is sent the buffer is reset.
Sent(b, n) == IF b.sent + n = b.in THEN SendOffsets(b, 0, 0)
                                   ELSE SendOffsets(b, b.in, b.sent + n)

ClearSend(b) == SendOffsets(b, 0, 0)

\* Clear(true) gives the memory back, too.
FreeSend == NewSendBuffer(0)

\* SetLength: other memory for a buffer that has some; one without stays without.
SetLength(b, len) ==
  IF len # 0 /\ b.len # 0 /\ len # b.len
  THEN [NewSendBuffer(len) EXCEPT !.in = b.in, !.sent = b.sent]
  ELSE b
=============================================================================
