---------------------------- MODULE HSODBC_proofs ----------------------------
(***************************************************************************)
(* Who changes the parameters a callback works with, for any queries in    *)
(* the list: a head that is replaced too late still has its value.         *)
(*                                                                         *)
(* As long as the application never has a second query in the list, every  *)
(* query is also answered by the handle it runs on, and at most once.  The *)
(* list is where this could go wrong, and with two queries in it it does:  *)
(* RemoveHead takes a node off that stays the head.  With one at most the  *)
(* head that is removed is also the tail, and the list is empty afterwards.*)
(***************************************************************************)
EXTENDS HSODBC, SequenceTheorems, WellFoundedInduction, TLAPS

Nodes == [value : Nat, next : Nat]
Lists == [head : Nat, tail : Nat, recycled : Nat, count : Nat, node : Seq(Nodes)]

\* The tail is always the last node made, and a node that waits to be used again is
\* linked from the recycled one, never from the tail.  The head of two values or more is
\* not the tail, though it may be a node that was taken off before.
Shape(l) == /\ l \in Lists
            /\ l.tail = Len(l.node) /\ l.recycled <= Len(l.node)
            /\ l.tail # Null => l.node[l.tail].next = Null
            /\ l.count > 0 => l.head \in 1..Len(l.node) /\ l.recycled # l.tail
            /\ l.count > 1 => l.head # l.tail

\* A list of one value at most
Single(l) == /\ Shape(l) /\ l.count \in {0, 1}
             /\ l.head = IF l.count = 1 THEN l.tail ELSE Null

Types == /\ doing \in [Handles -> BOOLEAN]
         /\ cb \in [Handles -> Int] /\ run \in [Handles -> Int]
         /\ stmt \in [Handles -> {"executing", "done", "error"}]
         /\ issued \in 0..MaxQueries /\ calls \in [Queries -> Int]

\* Query q was issued and has not been answered.
Pending(q) == q \in 1..issued /\ calls[q] = 0

Unrun(q) == \A h \in Handles : doing[h] => run[h] # q

\* A busy handle runs, for the callback it keeps, a query no other handle runs.
Busy == /\ \A h \in Handles : doing[h] => cb[h] = run[h] /\ Pending(run[h])
        /\ \A g, h \in Handles : doing[g] /\ doing[h] /\ run[g] = run[h] => g = h

\* The query in the list runs nowhere.  It has been answered only while its callback,
\* called from the loop over the list, has not returned.
Waiting == list.count = 1 =>
             /\ HeadValue(list) \in 1..issued /\ Unrun(HeadValue(list))
             /\ pc # "drainCallback" => Pending(HeadValue(list))

NotYet == \A q \in Queries : q > issued => calls[q] = 0

Giving == pc = "drainCallback" => list.count = 1 /\ HeadValue(list) = giving

Collected == pc = "scanCallback" => idx \in Handles /\ (~doing[idx] => cb[idx] = giving)

HandleInv == Types /\ Busy /\ NotYet /\ CalledAtMostOnce

QueryInv == HandleInv /\ Single(list) /\ Waiting /\ Giving /\ Collected

\* The inductive invariant says what the two properties ask for.
LEMMA InvProperties == QueryInv => HandleOwnsQuery /\ CalledAtMostOnce
BY DEF QueryInv, HandleInv, Types, Busy, HandleOwnsQuery

\* What there is to know of any number of queries in the list
ParamsInv == /\ Shape(list) /\ issued \in Nat
             /\ doing \in [Handles -> BOOLEAN] /\ cb \in [Handles -> Nat]
             /\ pc = "drainCallback" => list.count > 0 /\ HeadValue(list) = giving
             /\ Collected

-----------------------------------------------------------------------------
(* The list *)

\* Giving a node another successor leaves the other nodes as they are.
LEMMA Linked ==
  ASSUME NEW nodes \in Seq(Nodes), NEW i \in 1..Len(nodes), NEW n \in Nat
  PROVE  /\ [nodes EXCEPT ![i].next = n] \in Seq(Nodes)
         /\ Len([nodes EXCEPT ![i].next = n]) = Len(nodes)
         /\ [nodes EXCEPT ![i].next = n][i].next = n
         /\ \A j \in 1..Len(nodes) : j # i => [nodes EXCEPT ![i].next = n][j] = nodes[j]
<1> DEFINE e == [nodes[i] EXCEPT !.next = n]
<1>1. nodes[i] \in Nodes
  OBVIOUS
<1>2. e \in Nodes /\ e.next = n
  BY <1>1 DEF Nodes
<1>3. [nodes EXCEPT ![i].next = n] = [nodes EXCEPT ![i] = e]
  OBVIOUS
<1> HIDE DEF e
<1> QED
  BY <1>2, <1>3

\* A value is put behind those that are there; in an empty list it is the head.
LEMMA PushKeeps ==
  ASSUME NEW l, Shape(l), NEW v \in Nat
  PROVE  /\ Shape(PushValue(l, v)) /\ PushValue(l, v).count = l.count + 1
         /\ l.count > 0 => HeadValue(PushValue(l, v)) = HeadValue(l)
         /\ l.count = 0 => /\ HeadValue(PushValue(l, v)) = v
                           /\ PushValue(l, v).head = PushValue(l, v).tail
<1> DEFINE e == [value |-> v, next |-> Null]
           n == Len(l.node) + 1
           linked == IF l.count = 0 THEN l.node ELSE [l.node EXCEPT ![l.tail].next = n]
           m == Append(linked, e)
           h == IF l.count = 0 THEN n ELSE l.head
           c == l.count + 1
           p == PushValue(l, v)
<1>1. /\ l \in Lists /\ l.node \in Seq(Nodes) /\ Len(l.node) \in Nat /\ l.count \in Nat
      /\ l.recycled \in Nat /\ l.recycled <= Len(l.node) /\ l.tail = Len(l.node)
      /\ l.count > 0 => l.head \in 1..Len(l.node)
  BY DEF Shape, Lists
<1>2. p = [l EXCEPT !.node = m, !.head = h, !.tail = n, !.count = c]
  <2>1. TailNext(l) = Null
    BY <1>1 DEF Shape, TailNext, Null
  <2> QED
    BY <2>1 DEF PushValue, Total, Null
<1>3. e \in Nodes /\ e.value = v /\ e.next = Null
  BY DEF Nodes, Null
<1> HIDE DEF e
<1>4. /\ linked \in Seq(Nodes) /\ Len(linked) = Len(l.node)
      /\ l.count > 0 => linked[l.head].value = l.node[l.head].value
  <2>1. CASE l.count = 0
    BY <2>1, <1>1
  <2>2. CASE l.count # 0
    <3>1. l.tail \in 1..Len(l.node) /\ n \in Nat /\ l.head \in 1..Len(l.node)
      BY <2>2, <1>1
    <3>2. linked = [l.node EXCEPT ![l.tail].next = n]
      BY <2>2
    <3> HIDE DEF linked, n
    <3>3. linked[l.head].value = l.node[l.head].value
      <4>1. CASE l.head = l.tail
        BY <4>1, <1>1, <3>1, <3>2 DEF Nodes
      <4>2. CASE l.head # l.tail
        BY <4>2, <1>1, <3>1, <3>2
      <4> QED
        BY <4>1, <4>2
    <3> QED
      BY <1>1, <3>1, <3>2, <3>3, Linked
  <2> QED
    BY <2>1, <2>2
<1> HIDE DEF linked
<1>5. /\ m \in Seq(Nodes) /\ Len(m) = n /\ n \in Nat \ {0} /\ m[n] = e /\ n = Len(l.node) + 1
      /\ \A i \in 1..Len(l.node) : m[i] = linked[i]
  BY <1>1, <1>3, <1>4
<1>6. h \in 1..n /\ (l.count > 0 => h = l.head /\ h # n) /\ (l.count = 0 => h = n)
      /\ c \in Nat /\ c > 0 /\ (c > 1 => l.count > 0)
  BY <1>1
<1> HIDE DEF m, n, p, h, c
<1>7. /\ p \in Lists /\ p.head = h /\ p.tail = n /\ p.recycled = l.recycled /\ p.count = c
      /\ p.node = m
  <2> p = [head |-> h, tail |-> n, recycled |-> l.recycled, count |-> c, node |-> m]
    BY <1>1, <1>2 DEF Lists
  <2> QED
    BY <1>1, <1>5, <1>6 DEF Lists
<1>8. Shape(p)
  BY <1>1, <1>3, <1>5, <1>6, <1>7 DEF Shape
<1>9. HeadValue(p) = m[h].value
  BY <1>7 DEF HeadValue
<1>10. l.count > 0 => HeadValue(p) = HeadValue(l)
  BY <1>1, <1>4, <1>5, <1>6, <1>9 DEF HeadValue
<1>11. l.count = 0 => HeadValue(p) = v /\ p.head = p.tail
  BY <1>3, <1>5, <1>6, <1>7, <1>9
<1> QED
  BY <1>7, <1>8, <1>10, <1>11 DEF p, c

\* The head is taken off, and is the head still when there are others.
LEMMA RemoveKeeps ==
  ASSUME NEW l, Shape(l), l.count > 0
  PROVE  /\ Shape(RemoveHead(l)) /\ RemoveHead(l).count = l.count - 1
         /\ l.count = 1 => RemoveHead(l).head = Null
<1> DEFINE cut == [l.node EXCEPT ![l.head].next = Null]
           hung == IF l.recycled = Null THEN cut ELSE [cut EXCEPT ![l.recycled].next = l.head]
           r == IF l.recycled = Null THEN l.head ELSE l.recycled
           h == IF l.count = 1 THEN Null ELSE l.head
           c == l.count - 1
           q == RemoveHead(l)
<1>1. /\ l \in Lists /\ l.node \in Seq(Nodes) /\ l.head \in 1..Len(l.node) /\ l.count \in Nat
      /\ l.tail = Len(l.node) /\ l.tail \in 1..Len(l.node) /\ l.node[l.tail].next = Null
      /\ l.recycled \in Nat /\ l.recycled < l.tail
      /\ l.count > 1 => l.head # l.tail
  BY DEF Shape, Lists, Null
<1>2. q = [l EXCEPT !.node = hung, !.recycled = r, !.head = h, !.count = c]
  BY <1>1 DEF RemoveHead, MoveHead2Tail
<1>3. cut \in Seq(Nodes) /\ Len(cut) = Len(l.node) /\ cut[l.tail].next = Null
  <2>1. Null \in Nat
    BY DEF Null
  <2> QED
    BY <1>1, <2>1, Linked
<1> HIDE DEF cut
<1>4. hung \in Seq(Nodes) /\ Len(hung) = Len(l.node) /\ hung[l.tail].next = Null
  <2>1. CASE l.recycled = Null
    BY <2>1, <1>3
  <2>2. CASE l.recycled # Null
    <3>1. l.recycled \in 1..Len(cut) /\ l.recycled # l.tail /\ l.tail \in 1..Len(cut)
          /\ l.head \in Nat
      BY <2>2, <1>1, <1>3 DEF Null
    <3>2. hung = [cut EXCEPT ![l.recycled].next = l.head]
      BY <2>2
    <3> HIDE DEF hung
    <3> QED
      BY <1>3, <3>1, <3>2, Linked
  <2> QED
    BY <2>1, <2>2
<1>5. /\ r \in Nat /\ r <= l.tail /\ (c > 0 => r # l.tail)
      /\ h \in Nat /\ c \in Nat /\ (c > 0 => h = l.head /\ l.head # l.tail)
      /\ (l.count = 1 => h = Null)
  BY <1>1 DEF Null
<1> HIDE DEF hung, r, q, h, c
<1>6. /\ q \in Lists /\ q.head = h /\ q.tail = l.tail /\ q.recycled = r /\ q.count = c
      /\ q.node = hung
  <2> q = [head |-> h, tail |-> l.tail, recycled |-> r, count |-> c, node |-> hung]
    BY <1>1, <1>2 DEF Lists
  <2> QED
    BY <1>1, <1>4, <1>5 DEF Lists
<1>7. Shape(q)
  BY <1>1, <1>4, <1>5, <1>6 DEF Shape
<1> QED
  BY <1>5, <1>6, <1>7 DEF q, c

\* A value put into an empty list is its only one.
LEMMA PushSingle ==
  ASSUME NEW l, Single(l), l.count = 0, NEW v \in Nat
  PROVE  /\ Single(PushValue(l, v)) /\ PushValue(l, v).count = 1
         /\ HeadValue(PushValue(l, v)) = v
BY PushKeeps DEF Single

\* Without its only value the list is empty.
LEMMA RemoveSingle ==
  ASSUME NEW l, Single(l), l.count = 1
  PROVE  Single(RemoveHead(l)) /\ RemoveHead(l).count = 0
BY RemoveKeeps DEF Single

-----------------------------------------------------------------------------
(* The handles *)

\* Every set of natural numbers with an element has a least one.
LEMMA HasLeast ==
  ASSUME NEW S \in SUBSET Nat, S # {}
  PROVE  \E x \in S : \A y \in S : x <= y
<1> DEFINE Less == {ss \in Nat \X Nat : ss[1] < ss[2]}
<1>1. IsWellFoundedOn(Less, Nat)
  BY NatLessThanWellFounded, Zenon DEF OpToRel
<1>2. \E x \in S : \A y \in S : <<y, x>> \notin Less
  <2> HIDE DEF Less
  <2> QED
    BY <1>1, WFMin, Zenon
<1>3. ASSUME NEW x \in S, \A y \in S : <<y, x>> \notin Less
      PROVE  \A y \in S : x <= y
  <2> TAKE y \in S
  <2>1. <<y, x>> \in Nat \X Nat /\ x \in Nat /\ y \in Nat
    OBVIOUS
  <2>2. ~(<<y, x>>[1] < <<y, x>>[2])
    BY <1>3, <2>1
  <2> QED
    BY <2>1, <2>2
<1> QED
  BY <1>2, <1>3

\* The handle that is used is one that is free, when there is any.
LEMMA CanUse == FreeHandles # {} => CanUseHandle \in Handles /\ ~doing[CanUseHandle]
<1>1. FreeHandles \in SUBSET Nat
  BY ODBCAssumption DEF FreeHandles, Handles
<1>2. FreeHandles # {} => CanUseHandle \in FreeHandles
  BY <1>1, HasLeast DEF CanUseHandle
<1> QED
  BY <1>2 DEF FreeHandles

\* A query that was not answered and runs nowhere can be run on a free handle, whether
\* its result is there at once or comes later.
LEMMA HandleRuns ==
  ASSUME HandleInv, NEW q \in 1..issued', calls[q] = 0, Unrun(q), FreeHandles # {},
         issued' \in issued..MaxQueries,
         RunAsync(q, CanUseHandle) \/ RunAtOnce(q, CanUseHandle)
  PROVE  /\ HandleInv'
         /\ \A r \in Queries : r # q => calls'[r] = calls[r]
         /\ \A r \in Int : r # q /\ Unrun(r) => Unrun(r)'
         /\ RunAtOnce(q, CanUseHandle) => Unrun(q)'
         /\ \A g \in Handles : ~doing'[g] => ~doing[g] /\ cb'[g] = cb[g]
<1> DEFINE h == CanUseHandle
<1>1. h \in Handles /\ ~doing[h]
  BY CanUse
<1>2. /\ q \in Queries /\ q \in Int /\ issued \in Nat /\ MaxQueries \in Nat /\ issued' \in Nat
      /\ issued <= issued' /\ issued' <= MaxQueries
  BY ODBCAssumption DEF HandleInv, Types, Queries
<1> HIDE DEF h
<1>3. CASE RunAsync(q, h)
  <2>1. /\ doing' = [doing EXCEPT ![h] = TRUE] /\ cb' = [cb EXCEPT ![h] = q]
        /\ run' = [run EXCEPT ![h] = q] /\ stmt' = [stmt EXCEPT ![h] = "executing"]
        /\ calls' = calls
    BY <1>3 DEF RunAsync
  <2>2. Types'
    BY <1>1, <1>2, <2>1 DEF HandleInv, Types
  <2>3. doing'[h] /\ cb'[h] = q /\ run'[h] = q
    BY <1>1, <2>1 DEF HandleInv, Types
  <2>4. \A g \in Handles : g # h => doing'[g] = doing[g] /\ cb'[g] = cb[g] /\ run'[g] = run[g]
    BY <2>1 DEF HandleInv, Types
  <2>5. Busy'
    <3>1. Pending(q)'
      BY <1>2, <2>1 DEF Pending
    <3>2. \A r : Pending(r) => Pending(r)'
      BY <1>2, <2>1 DEF Pending
    <3> QED
      BY <2>3, <2>4, <3>1, <3>2 DEF HandleInv, Busy, Unrun
  <2>6. NotYet' /\ CalledAtMostOnce'
    BY <1>2, <2>1 DEF HandleInv, NotYet, CalledAtMostOnce, Queries
  <2>7. ~RunAtOnce(q, h)
    BY <1>1, <2>1, <2>3 DEF RunAtOnce
  <2> QED
    BY <2>1, <2>2, <2>3, <2>4, <2>5, <2>6, <2>7 DEF HandleInv, Unrun, h
<1>4. CASE RunAtOnce(q, h)
  <2>1. /\ doing' = doing /\ cb' = cb /\ run' = [run EXCEPT ![h] = q]
        /\ stmt' = [stmt EXCEPT ![h] = "done"]
        /\ calls' = [calls EXCEPT ![q] = 1]
    BY <1>4 DEF RunAtOnce, Called
  <2>2. Types'
    BY <1>1, <1>2, <2>1 DEF HandleInv, Types
  <2>3. \A g \in Handles : doing[g] => run'[g] = run[g]
    BY <1>1, <2>1 DEF HandleInv, Types
  <2>4. \A r : Pending(r) /\ r # q => Pending(r)'
    BY <1>2, <2>1 DEF Pending, HandleInv, Types, Queries
  <2>5. Busy'
    BY <2>1, <2>3, <2>4 DEF HandleInv, Busy, Unrun
  <2>6. NotYet' /\ CalledAtMostOnce'
    BY <1>2, <2>1 DEF HandleInv, Types, NotYet, CalledAtMostOnce, Queries
  <2> QED
    BY <1>2, <2>1, <2>2, <2>3, <2>5, <2>6 DEF HandleInv, Types, Unrun, h
<1> QED
  BY <1>3, <1>4 DEF h

\* A handle that is given free leaves the others alone.
LEMMA HandleFreed ==
  ASSUME HandleInv, NEW h \in Handles, doing[h], doing' = [doing EXCEPT ![h] = FALSE],
         cb' = cb, run' = run, stmt' = stmt, issued' = issued,
         calls' = calls \/ Called(cb[h])
  PROVE  /\ HandleInv'
         /\ \A r \in Queries : Unrun(r) => calls'[r] = calls[r]
         /\ \A r \in Int : Unrun(r) => Unrun(r)'
<1>1. /\ \A g \in Handles : doing'[g] => doing[g] /\ g # h
      /\ ~doing'[h] /\ doing' \in [Handles -> BOOLEAN]
  BY DEF HandleInv, Types
<1>2. /\ cb[h] = run[h] /\ cb[h] \in 1..issued /\ calls[cb[h]] = 0 /\ cb[h] \in Queries
      /\ issued \in Nat /\ issued <= MaxQueries /\ MaxQueries \in Nat
  BY ODBCAssumption DEF HandleInv, Busy, Pending, Types, Queries
<1>3. calls' = calls \/ calls' = [calls EXCEPT ![cb[h]] = 1]
  BY <1>2 DEF Called
<1>4. /\ calls' \in [Queries -> Int]
      /\ \A r \in Queries : r # cb[h] => calls'[r] = calls[r]
      /\ calls'[cb[h]] \in {0, 1}
  BY <1>2, <1>3 DEF HandleInv, Types
<1>5. Types'
  BY <1>1, <1>4 DEF HandleInv, Types
<1>6. Busy'
  <2> SUFFICES ASSUME NEW g \in Handles, doing'[g] PROVE Pending(run[g])'
    BY <1>1 DEF HandleInv, Busy
  <2>1. doing[g] /\ run[g] # cb[h] /\ Pending(run[g]) /\ run[g] \in Queries
    BY <1>1, <1>2 DEF HandleInv, Busy, Types, Queries, Pending
  <2> QED
    BY <1>4, <2>1 DEF Pending
<1>7. NotYet' /\ CalledAtMostOnce'
  <2>1. /\ \A r \in Queries : calls'[r] = calls[r] \/ r = cb[h]
        /\ \A r \in Queries : r > issued => r # cb[h]
    BY <1>2, <1>4
  <2>2. NotYet'
    BY <1>2, <2>1 DEF HandleInv, NotYet
  <2>3. CalledAtMostOnce'
    BY <1>4, <2>1 DEF HandleInv, CalledAtMostOnce
  <2> QED
    BY <2>2, <2>3
<1> QED
  BY <1>1, <1>2, <1>4, <1>5, <1>6, <1>7 DEF HandleInv, Unrun

-----------------------------------------------------------------------------
(* The steps *)

\* What neither runs nor answers a query keeps the handles' part of the invariant.
LEMMA HandlesKept ==
  ASSUME HandleInv, doing' = doing, cb' = cb, run' = run, calls' = calls, Types',
         issued' \in issued..MaxQueries
  PROVE  HandleInv' /\ (\A q \in Int : Unrun(q) => Unrun(q)') /\ issued <= issued'
<1>1. issued \in Nat /\ issued' \in Nat /\ issued <= issued'
  BY ODBCAssumption DEF HandleInv, Types
<1>2. \A q : Pending(q) => Pending(q)'
  BY <1>1 DEF Pending
<1> QED
  BY <1>1, <1>2 DEF HandleInv, Busy, Unrun, NotYet, CalledAtMostOnce, Queries

\* The head of a list with something in it, while Doing is at the list
LEMMA HeadOfList ==
  ASSUME QueryInv, pc = "drain", list.count > 0
  PROVE  /\ list.count = 1 /\ HeadValue(list) \in 1..issued
         /\ Unrun(HeadValue(list)) /\ calls[HeadValue(list)] = 0
BY DEF QueryInv, Single, Shape, Lists, Waiting, Pending

\* Every action keeps the inductive invariant.
LEMMA QueryStep == ASSUME QueryInv, [Next]_odbcvars, MaxQueued <= 1 PROVE QueryInv'
<1>1. /\ issued \in Nat /\ MaxQueries \in Nat /\ MaxQueued \in Nat /\ issued <= MaxQueries
      /\ Types /\ HandleInv /\ Single(list) /\ list.count \in {0, 1} /\ Waiting /\ Giving
      /\ Collected
  BY ODBCAssumption DEF QueryInv, HandleInv, Types, Single
<1>2. \A h \in Handles : doing[h] => run[h] \in 1..issued
  BY <1>1 DEF HandleInv, Busy, Pending
<1>3. CASE ExecuteOnHandle
  <2> PICK q \in Nat : q = issued + 1
    BY <1>1
  <2>1. /\ issued' = q /\ q <= MaxQueries /\ list' = list /\ pc' = pc /\ idx' = idx
        /\ giving' = giving /\ FreeHandles # {} /\ pc # "drain"
        /\ RunAsync(q, CanUseHandle) \/ RunAtOnce(q, CanUseHandle)
    BY <1>1, <1>3 DEF ExecuteOnHandle, MayExecute
  <2>2. q \in Queries /\ calls[q] = 0 /\ Unrun(q) /\ q \in 1..issued'
    BY <1>1, <1>2, <2>1 DEF HandleInv, NotYet, Queries, Unrun
  <2>3. issued' \in issued..MaxQueries
    BY <1>1, <2>1
  <2>4. /\ HandleInv'
        /\ \A r \in Queries : r # q => calls'[r] = calls[r]
        /\ \A r \in Int : r # q /\ Unrun(r) => Unrun(r)'
        /\ \A g \in Handles : ~doing'[g] => ~doing[g] /\ cb'[g] = cb[g]
    BY <1>1, <2>1, <2>2, <2>3, HandleRuns
  <2>5. Waiting'
    <3> PICK v : v = HeadValue(list)
      OBVIOUS
    <3>1. HeadValue(list)' = v
      BY <2>1 DEF HeadValue
    <3> SUFFICES ASSUME list.count = 1
                 PROVE  /\ v \in 1..issued' /\ Unrun(v)'
                        /\ pc # "drainCallback" => Pending(v)'
      BY <2>1, <3>1 DEF Waiting
    <3>2. v \in 1..issued /\ Unrun(v) /\ (pc # "drainCallback" => calls[v] = 0)
      BY <1>1 DEF Waiting, Pending
    <3>3. v \in Int /\ v \in Queries /\ v # q
      BY <1>1, <3>2 DEF Queries
    <3> QED
      BY <1>1, <2>1, <2>4, <3>2, <3>3 DEF Pending
  <2>6. Giving' /\ Collected'
    BY <1>1, <2>1, <2>4 DEF Giving, Collected, HeadValue
  <2> QED
    BY <1>1, <2>1, <2>4, <2>5, <2>6 DEF QueryInv
<1>4. CASE ExecuteQueued
  <2> PICK q \in Nat : q = issued + 1
    BY <1>1
  <2>1. /\ issued' = q /\ q <= MaxQueries /\ list.count = 0 /\ list' = PushValue(list, q)
        /\ doing' = doing /\ cb' = cb /\ run' = run /\ stmt' = stmt /\ pc' = pc /\ idx' = idx
        /\ calls' = calls /\ giving' = giving
    BY <1>1, <1>4 DEF ExecuteQueued, MayExecute
  <2>2. pc # "drainCallback"
    BY <1>1, <2>1 DEF Giving
  <2>3. Single(list') /\ HeadValue(list') = q
    BY <1>1, <2>1, PushSingle
  <2>4. Types' /\ issued' \in issued..MaxQueries
    BY <1>1, <2>1 DEF Types
  <2>5. HandleInv'
    BY <1>1, <2>1, <2>4, HandlesKept
  <2>6. Unrun(q)' /\ Pending(q)'
    BY <1>1, <1>2, <2>1 DEF Unrun, Pending, HandleInv, NotYet, Queries
  <2>7. Waiting'
    BY <2>1, <2>2, <2>3, <2>6 DEF Waiting, Pending, HeadValue
  <2> QED
    BY <1>1, <2>1, <2>2, <2>3, <2>5, <2>7 DEF QueryInv, Giving, Collected
<1>5. ASSUME doing' = doing, cb' = cb, run' = run, calls' = calls, issued' = issued,
             list' = list, Types', pc' # "drainCallback", pc # "drainCallback", Collected'
      PROVE  QueryInv'
  <2>1. HandleInv' /\ \A r \in Int : Unrun(r) => Unrun(r)'
    BY <1>1, <1>5, HandlesKept
  <2>2. Waiting'
    BY <1>1, <1>5, <2>1 DEF Waiting, Pending, HeadValue
  <2> QED
    BY <1>1, <1>5, <2>1, <2>2 DEF QueryInv, Giving
<1>6. CASE Doing
  BY <1>1, <1>5, <1>6 DEF Doing, Types, Collected
<1>7. CASE ScanNothing
  BY <1>1, <1>5, <1>7 DEF ScanNothing, Types, Collected
<1>8. CASE ScanEnd
  BY <1>1, <1>5, <1>8 DEF ScanEnd, Types, Collected
<1>9. CASE DrainEnd
  BY <1>1, <1>5, <1>9 DEF DrainEnd, Types, Collected
<1>10. CASE ScanCallbackReturn
  BY <1>1, <1>5, <1>10 DEF ScanCallbackReturn, Types, Collected
<1>11. CASE DriverDone
  <2>1. stmt' \in [Handles -> {"executing", "done", "error"}]
    BY <1>1, <1>11 DEF DriverDone, Types
  <2>2. Types'
    BY <1>1, <1>11, <2>1 DEF DriverDone, Types
  <2>3. HandleInv' /\ \A r \in Int : Unrun(r) => Unrun(r)'
    BY <1>1, <1>11, <2>2, HandlesKept DEF DriverDone
  <2>4. Waiting'
    BY <1>1, <1>11, <2>3 DEF DriverDone, Waiting, Pending, HeadValue
  <2> QED
    BY <1>1, <1>11, <2>3, <2>4 DEF DriverDone, QueryInv, Giving, Collected, HeadValue
<1>12. CASE ScanError \/ ScanResult
  <2>1. /\ idx \in Handles /\ doing[idx] /\ doing' = [doing EXCEPT ![idx] = FALSE]
        /\ cb' = cb /\ run' = run /\ stmt' = stmt /\ issued' = issued /\ list' = list
        /\ pc # "drainCallback" /\ pc' # "drainCallback"
        /\ calls' = calls \/ Called(cb[idx])
        /\ pc' = "scanCallback" => idx' = idx /\ giving' = cb[idx]
    BY <1>12 DEF ScanError, ScanResult
  <2>2. /\ HandleInv'
        /\ \A r \in Queries : Unrun(r) => calls'[r] = calls[r]
        /\ \A r \in Int : Unrun(r) => Unrun(r)'
    BY <1>1, <2>1, HandleFreed
  <2>3. Waiting'
    BY <1>1, <2>1, <2>2 DEF Waiting, Pending, HeadValue, Queries
  <2> QED
    BY <1>1, <2>1, <2>2, <2>3 DEF QueryInv, Giving, Collected
<1>13. CASE DrainAsync
  <2> DEFINE v == HeadValue(list)
  <2>1. /\ pc = "drain" /\ pc' = pc /\ list' = RemoveHead(list) /\ issued' = issued
        /\ list.count > 0 /\ FreeHandles # {} /\ RunAsync(v, CanUseHandle)
    BY <1>13 DEF DrainAsync
  <2>2. list.count = 1 /\ v \in 1..issued' /\ Unrun(v) /\ calls[v] = 0
        /\ issued' \in issued..MaxQueries
    BY <1>1, <2>1, HeadOfList
  <2>3. HandleInv'
    BY <1>1, <2>1, <2>2, HandleRuns
  <2>4. Single(list') /\ list'.count = 0
    BY <1>1, <2>1, <2>2, RemoveSingle
  <2>5. pc' # "drainCallback" /\ pc' # "scanCallback"
    BY <2>1
  <2> QED
    BY <2>3, <2>4, <2>5 DEF QueryInv, Waiting, Giving, Collected
<1>14. CASE DrainAtOnce
  <2> PICK v : v = HeadValue(list)
    OBVIOUS
  <2>1. /\ pc = "drain" /\ pc' = "drainCallback" /\ list' = list /\ issued' = issued
        /\ list.count > 0 /\ FreeHandles # {} /\ RunAtOnce(v, CanUseHandle) /\ giving' = v
    BY <1>14 DEF DrainAtOnce
  <2>2. list.count = 1 /\ v \in 1..issued' /\ Unrun(v) /\ calls[v] = 0
        /\ issued' \in issued..MaxQueries
    BY <1>1, <2>1, HeadOfList
  <2>3. HandleInv' /\ Unrun(v)'
    BY <1>1, <2>1, <2>2, HandleRuns
  <2>4. HeadValue(list)' = v
    BY <2>1 DEF HeadValue
  <2>5. Waiting' /\ Giving'
    BY <2>1, <2>2, <2>3, <2>4 DEF Waiting, Giving
  <2> QED
    BY <1>1, <2>1, <2>3, <2>5 DEF QueryInv, Collected
<1>15. CASE DrainCallbackReturn
  <2>1. list.count = 1
    BY <1>1, <1>15 DEF DrainCallbackReturn, Giving
  <2>2. Single(list') /\ list'.count = 0
    BY <1>1, <1>15, <2>1, RemoveSingle DEF DrainCallbackReturn
  <2>3. HandleInv'
    BY <1>1, <1>15, HandlesKept DEF DrainCallbackReturn, Types
  <2> QED
    BY <1>15, <2>2, <2>3 DEF DrainCallbackReturn, QueryInv, Waiting, Giving, Collected
<1>16. CASE UNCHANGED odbcvars
  <2>1. HandleInv' /\ \A r \in Int : Unrun(r) => Unrun(r)'
    BY <1>1, <1>16, HandlesKept DEF odbcvars, Types
  <2>2. Waiting'
    BY <1>1, <1>16, <2>1 DEF odbcvars, Waiting, Pending, HeadValue
  <2> QED
    BY <1>1, <1>16, <2>1, <2>2 DEF odbcvars, QueryInv, Giving, Collected, HeadValue
<1> QED
  BY <1>3, <1>4, <1>6, <1>7, <1>8, <1>9, <1>10, <1>11, <1>12, <1>13, <1>14, <1>15, <1>16
  DEF Next, InDoing

\* Nothing was issued, runs or waits at first.
LEMMA QueryInit == Init => QueryInv
<1> SUFFICES ASSUME Init PROVE QueryInv
  OBVIOUS
<1>1. Single(EmptyList) /\ EmptyList.count = 0
  <2> <<>> \in Seq(Nodes) /\ Len(<<>>) = 0
    OBVIOUS
  <2> QED
    BY DEF EmptyList, Single, Shape, Lists, Null
<1>2. Types
  BY ODBCAssumption DEF Init, Types, NoQuery
<1> QED
  BY <1>1, <1>2 DEF Init, QueryInv, HandleInv, Busy, NotYet, CalledAtMostOnce, Waiting, Giving,
                    Collected

\* With at most one query in the list: a busy handle runs the query whose callback it
\* keeps, and no other handle does.  ExecuteQuery and the loop over the list only take
\* handles that are not doing anything (hs_odbc.cpp:105-139, 205-213).
THEOREM OwnQuery == ASSUME MaxQueued <= 1 PROVE Spec => []HandleOwnsQuery
<1>1. Init => QueryInv
  BY QueryInit
<1>2. QueryInv /\ [Next]_odbcvars => QueryInv'
  BY QueryStep
<1>3. QueryInv => HandleOwnsQuery
  BY InvProperties
<1> QED
  BY <1>1, <1>2, <1>3, PTL DEF Spec

\* With at most one query in the list: no query's callback is called twice, whatever the
\* callbacks execute while Doing is in one of its loops (hs_odbc.cpp:118-162, 164-216).
THEOREM AnsweredOnce == ASSUME MaxQueued <= 1 PROVE Spec => []CalledAtMostOnce
<1>1. Init => QueryInv
  BY QueryInit
<1>2. QueryInv /\ [Next]_odbcvars => QueryInv'
  BY QueryStep
<1>3. QueryInv => CalledAtMostOnce
  BY InvProperties
<1> QED
  BY <1>1, <1>2, <1>3, PTL DEF Spec

-----------------------------------------------------------------------------
(* The parameters, for any number of queries in the list *)

\* Running a query, on whatever handle, leaves a handle that is free afterwards as it was.
LEMMA RunKeepsFree ==
  ASSUME ParamsInv, NEW q \in Nat, NEW h, RunAsync(q, h) \/ RunAtOnce(q, h)
  PROVE  /\ doing' \in [Handles -> BOOLEAN] /\ cb' \in [Handles -> Nat]
         /\ \A g \in Handles : ~doing'[g] => ~doing[g] /\ cb'[g] = cb[g]
BY DEF ParamsInv, RunAsync, RunAtOnce

\* The values in the list are numbers.
LEMMA HeadIsNat == ASSUME NEW l, Shape(l), l.count > 0 PROVE HeadValue(l) \in Nat
<1>1. l.head \in 1..Len(l.node) /\ l.node \in Seq(Nodes)
  BY DEF Shape, Lists
<1>2. l.node[l.head] \in Nodes
  BY <1>1
<1> QED
  BY <1>2 DEF HeadValue, Nodes

\* Every action keeps what is known of the parameters.
LEMMA ParamsStep == ASSUME ParamsInv, [Next]_odbcvars PROVE ParamsInv'
<1>1. CASE ExecuteOnHandle
  <2>1. issued' = issued + 1 /\ issued' \in Nat /\ UNCHANGED <<list, pc, idx, giving>>
    BY <1>1 DEF ExecuteOnHandle, ParamsInv
  <2>2. /\ doing' \in [Handles -> BOOLEAN] /\ cb' \in [Handles -> Nat]
        /\ \A g \in Handles : ~doing'[g] => ~doing[g] /\ cb'[g] = cb[g]
    BY <1>1, <2>1, RunKeepsFree DEF ExecuteOnHandle
  <2> QED
    BY <2>1, <2>2 DEF ParamsInv, Collected, HeadValue
<1>2. CASE ExecuteQueued
  <2>1. /\ list' = PushValue(list, issued') /\ issued' \in Nat
        /\ UNCHANGED <<doing, cb, pc, idx, giving>>
    BY <1>2 DEF ExecuteQueued, ParamsInv
  <2>2. /\ Shape(list') /\ list'.count = list.count + 1 /\ list.count \in Nat
        /\ list.count > 0 => HeadValue(list') = HeadValue(list)
    BY <2>1, PushKeeps DEF ParamsInv, Shape, Lists
  <2>3. HeadValue(list)' = HeadValue(list')
    BY DEF HeadValue
  <2> QED
    BY <2>1, <2>2, <2>3 DEF ParamsInv, Collected
<1>3. CASE Doing \/ ScanNothing \/ ScanCallbackReturn \/ ScanEnd \/ DrainEnd \/ DriverDone
           \/ UNCHANGED odbcvars
  <2>1. UNCHANGED <<list, issued, doing, cb>>
    BY <1>3 DEF Doing, ScanNothing, ScanCallbackReturn, ScanEnd, DrainEnd, DriverDone, odbcvars
  <2>2. \/ pc' \notin {"scanCallback", "drainCallback"}
        \/ UNCHANGED <<pc, idx, giving>>
    BY <1>3 DEF Doing, ScanNothing, ScanCallbackReturn, ScanEnd, DrainEnd, DriverDone, odbcvars
  <2> QED
    BY <2>1, <2>2 DEF ParamsInv, Collected, HeadValue
<1>4. CASE ScanError \/ ScanResult
  BY <1>4 DEF ScanError, ScanResult, ParamsInv, Collected, HeadValue
<1>5. CASE DrainAsync \/ DrainAtOnce
  <2>1. HeadValue(list) \in Nat /\ list.count > 0
    BY <1>5, HeadIsNat DEF DrainAsync, DrainAtOnce, ParamsInv
  <2>2. doing' \in [Handles -> BOOLEAN] /\ cb' \in [Handles -> Nat] /\ issued' = issued
    BY <1>5, <2>1, RunKeepsFree DEF DrainAsync, DrainAtOnce
  <2>3. CASE DrainAsync
    BY <2>1, <2>2, <2>3, RemoveKeeps DEF DrainAsync, ParamsInv, Collected
  <2>4. CASE DrainAtOnce
    <3>1. list' = list /\ pc' = "drainCallback" /\ giving' = HeadValue(list)
      BY <2>4 DEF DrainAtOnce
    <3>2. HeadValue(list)' = HeadValue(list)
      BY <3>1 DEF HeadValue
    <3> QED
      BY <2>1, <2>2, <3>1, <3>2 DEF ParamsInv, Collected
  <2> QED
    BY <1>5, <2>3, <2>4
<1>6. CASE DrainCallbackReturn
  BY <1>6, RemoveKeeps DEF DrainCallbackReturn, ParamsInv, Collected
<1> QED
  BY <1>1, <1>2, <1>3, <1>4, <1>5, <1>6 DEF Next, InDoing

\* At first the list is empty.
LEMMA ParamsInit == Init => ParamsInv
<1> SUFFICES ASSUME Init PROVE ParamsInv
  OBVIOUS
<1>1. Shape(EmptyList)
  <2> <<>> \in Seq(Nodes) /\ Len(<<>>) = 0
    OBVIOUS
  <2> QED
    BY DEF EmptyList, Shape, Lists, Null
<1> QED
  BY <1>1 DEF Init, ParamsInv, Collected, NoQuery

\* Whatever is in the list: the parameters of a callback that runs are changed by nothing
\* but its own asynchronous execution on the handle it was collected from, which changes
\* them (hs_odbc.cpp:118-139, 198-199, 205-213).
THEOREM OwnParams == Spec => []OthersKeepParams
<1>1. Init => ParamsInv
  BY ParamsInit
<1>2. ParamsInv /\ [Next]_odbcvars => ParamsInv'
  BY ParamsStep
<1>3. ParamsInv => OthersKeepParams
  BY DEF ParamsInv, Collected, Shape, HasHead, Null, OthersKeepParams
<1> QED
  BY <1>1, <1>2, <1>3, PTL DEF Spec
=============================================================================
