------------------------ MODULE PathSearches_proofs ------------------------
(***************************************************************************)
(* What a search on the grid leaves behind: a tree of nodes over the       *)
(* cells, which has every cell at most once but for one; all cells that    *)
(* can be reached when the search gives up; and a path that is as short as *)
(* any when it finds its end.  At the end, the same for both searches.     *)
(***************************************************************************)
EXTENDS PathSearches, Dijkstra_proofs, FiniteSetTheorems

(* Sequences *)

Members(s) == {s[p] : p \in DOMAIN s}
NoRepeats(s) == \A p, q \in DOMAIN s : s[p] = s[q] => p = q

\* One sequence behind another
LEMMA Joined ==
  ASSUME NEW S, NEW s \in Seq(S), NEW t \in Seq(S)
  PROVE  /\ s \o t \in Seq(S) /\ Members(s \o t) = Members(s) \cup Members(t)
         /\ NoRepeats(s) /\ NoRepeats(t) /\ Members(s) \cap Members(t) = {} => NoRepeats(s \o t)
<1> DEFINE u == s \o t
<1>1. /\ Len(s) \in Nat /\ Len(t) \in Nat /\ DOMAIN s = 1..Len(s) /\ DOMAIN t = 1..Len(t)
      /\ u \in Seq(S) /\ DOMAIN u = 1..Len(s) + Len(t)
      /\ \A p \in 1..Len(s) + Len(t) : u[p] = IF p <= Len(s) THEN s[p] ELSE t[p - Len(s)]
  BY ConcatProperties
<1> HIDE DEF u
<1>2. \A p \in 1..Len(s) : p \in DOMAIN u /\ u[p] = s[p]
  BY <1>1
<1>3. \A p \in 1..Len(t) : p + Len(s) \in DOMAIN u /\ u[p + Len(s)] = t[p]
  <2> TAKE p \in 1..Len(t)
  <2>1. p + Len(s) \in 1..Len(s) + Len(t) /\ ~(p + Len(s) <= Len(s)) /\ p + Len(s) - Len(s) = p
    BY <1>1
  <2> QED
    BY <1>1, <2>1
<1>4. \A p \in DOMAIN u : \/ p \in DOMAIN s /\ u[p] = s[p]
                          \/ p - Len(s) \in DOMAIN t /\ u[p] = t[p - Len(s)]
  BY <1>1
<1>5. Members(u) = Members(s) \cup Members(t)
  <2>1. \A p \in DOMAIN s : s[p] \in Members(u)
    BY <1>1, <1>2, Zenon DEF Members
  <2>2. \A p \in DOMAIN t : t[p] \in Members(u)
    BY <1>1, <1>3, Zenon DEF Members
  <2>3. \A p \in DOMAIN u : u[p] \in Members(s) \cup Members(t)
    BY <1>4, Zenon DEF Members
  <2> QED
    BY <2>1, <2>2, <2>3, Zenon DEF Members
<1>6. ASSUME NoRepeats(s), NoRepeats(t), Members(s) \cap Members(t) = {},
             NEW p \in DOMAIN u, NEW q \in DOMAIN u, u[p] = u[q]
      PROVE  p = q
  <2>1. CASE p \in DOMAIN s /\ u[p] = s[p] /\ q \in DOMAIN s /\ u[q] = s[q]
    BY <1>6, <2>1 DEF NoRepeats
  <2>2. CASE /\ p - Len(s) \in DOMAIN t /\ u[p] = t[p - Len(s)]
             /\ q - Len(s) \in DOMAIN t /\ u[q] = t[q - Len(s)]
    <3>1. p - Len(s) = q - Len(s)
      BY <1>6, <2>2 DEF NoRepeats
    <3> QED
      BY <1>1, <3>1
  <2>3. ~(\E a \in DOMAIN s, b \in DOMAIN t : s[a] = t[b])
    BY <1>6 DEF Members
  <2> QED
    BY <1>4, <1>6, <2>1, <2>2, <2>3
<1> QED
  BY <1>1, <1>5, <1>6 DEF u, NoRepeats

\* A sequence without the element at a position
LEMMA Removed ==
  ASSUME NEW S, NEW s \in Seq(S), NEW at \in DOMAIN s, NoRepeats(s)
  PROVE  LET t == SubSeq(s, 1, at - 1) \o SubSeq(s, at + 1, Len(s)) IN
         t \in Seq(S) /\ Members(t) = Members(s) \ {s[at]} /\ NoRepeats(t)
<1> DEFINE a == SubSeq(s, 1, at - 1)
           b == SubSeq(s, at + 1, Len(s))
<1>1. Len(s) \in Nat /\ DOMAIN s = 1..Len(s) /\ at \in Int /\ 1 <= at /\ at <= Len(s)
      /\ \A p \in 1..Len(s) : s[p] \in S
  OBVIOUS
<1>2. /\ a \in Seq(S) /\ DOMAIN a = 1..at - 1 /\ \A p \in 1..at - 1 : a[p] = s[p]
  <2>1. \A p \in 1..at - 1 : s[p] \in S
    BY <1>1
  <2>2. Len(a) = at - 1 /\ a \in Seq(S) /\ \A p \in 1..at - 1 : a[p] = s[p]
    BY <1>1, <2>1, SubSeqProperties
  <2> QED
    BY <1>1, <2>2
<1>3. /\ b \in Seq(S) /\ DOMAIN b = 1..Len(s) - at /\ \A p \in 1..Len(s) - at : b[p] = s[at + p]
  <2>1. \A p \in at + 1..Len(s) : s[p] \in S
    BY <1>1
  <2>2. Len(b) = Len(s) - at /\ b \in Seq(S) /\ \A p \in 1..Len(s) - at : b[p] = s[at + 1 + p - 1]
    BY <1>1, <2>1, SubSeqProperties
  <2>3. \A p \in 1..Len(s) - at : at + 1 + p - 1 = at + p
    BY <1>1
  <2> QED
    BY <1>1, <2>2, <2>3
<1> HIDE DEF a, b
<1>4. Members(a) = {s[p] : p \in 1..at - 1}
  BY <1>2 DEF Members
<1>5. Members(b) = {s[p] : p \in at + 1..Len(s)}
  <2>1. \A p \in at + 1..Len(s) : p - at \in 1..Len(s) - at /\ at + (p - at) = p
    BY <1>1
  <2>2. \A p \in 1..Len(s) - at : at + p \in at + 1..Len(s)
    BY <1>1
  <2>3. \A p \in at + 1..Len(s) : s[p] \in Members(b)
    <3> TAKE p \in at + 1..Len(s)
    <3>1. p - at \in DOMAIN b /\ b[p - at] = s[p]
      BY <1>3, <2>1
    <3> QED
      BY <3>1, Zenon DEF Members
  <2>4. \A p \in 1..Len(s) - at : b[p] \in {s[q] : q \in at + 1..Len(s)}
    BY <1>3, <2>2
  <2>5. \A x \in Members(b) : x \in {s[q] : q \in at + 1..Len(s)}
    BY <1>3, <2>4, Zenon DEF Members
  <2> QED
    BY <2>3, <2>5, Zenon
<1>6. 1..Len(s) = (1..at - 1) \cup {at} \cup (at + 1..Len(s))
  BY <1>1
<1>7. at \notin 1..at - 1 /\ at \notin at + 1..Len(s) /\ (1..at - 1) \cap (at + 1..Len(s)) = {}
  BY <1>1
<1>8. \A p, q \in 1..Len(s) : s[p] = s[q] => p = q
  BY <1>1 DEF NoRepeats
<1>9. Members(a) \cap Members(b) = {} /\ Members(a) \cup Members(b) = Members(s) \ {s[at]}
  <2>1. \A p \in 1..at - 1 : p \in 1..Len(s) /\ p # at
    BY <1>6, <1>7
  <2>2. \A p \in at + 1..Len(s) : p \in 1..Len(s) /\ p # at
    BY <1>6, <1>7
  <2>3. \A p \in 1..Len(s) : p \in 1..at - 1 \/ p = at \/ p \in at + 1..Len(s)
    BY <1>6
  <2>4. Members(a) \cap Members(b) = {}
    <3>1. ASSUME NEW p \in 1..at - 1, NEW q \in at + 1..Len(s) PROVE s[p] # s[q]
      BY <1>7, <1>8, <2>1, <2>2, Zenon
    <3> QED
      BY <1>4, <1>5, <3>1, Zenon
  <2>5. \A x \in Members(a) \cup Members(b) : x \in Members(s) \ {s[at]}
    BY <1>1, <1>4, <1>5, <1>8, <2>1, <2>2, Zenon DEF Members
  <2>6. \A x \in Members(s) \ {s[at]} : x \in Members(a) \cup Members(b)
    BY <1>1, <1>4, <1>5, <2>3, Zenon DEF Members
  <2> QED
    BY <2>4, <2>5, <2>6, Zenon
<1>10. NoRepeats(a)
  BY <1>2, <1>6, <1>8 DEF NoRepeats
<1>11. NoRepeats(b)
  <2>1. \A p, q \in 1..Len(s) - at : at + p \in 1..Len(s) /\ (at + p = at + q => p = q)
    BY <1>1
  <2>2. ASSUME NEW p \in 1..Len(s) - at, NEW q \in 1..Len(s) - at, b[p] = b[q]
        PROVE  p = q
    <3>1. b[p] = s[at + p] /\ b[q] = s[at + q]
      BY <1>3
    <3> QED
      BY <1>8, <2>1, <2>2, <3>1, Zenon
  <2> QED
    BY <1>3, <2>2, Zenon DEF NoRepeats
<1>12. /\ a \o b \in Seq(S) /\ Members(a \o b) = Members(s) \ {s[at]}
       /\ NoRepeats(a \o b)
  <2>1. a \in Seq(S) /\ b \in Seq(S)
    BY <1>2, <1>3
  <2> QED
    BY <1>9, <1>10, <1>11, <2>1, Joined
<1> QED
  BY <1>12, Zenon DEF a, b

-----------------------------------------------------------------------------
(* The inductive invariant *)

NodeSet == [cell : Cells, g : Nat, parent : Nat]

AStarTypes == /\ begin \in Cells /\ end \in Cells
              /\ node \in Seq(NodeSet)
              /\ open \in Seq(DOMAIN node) /\ closed \in Seq(DOMAIN node)

\* Each node is in one of the lists.
Listed == /\ NoRepeats(open)
          /\ Members(open) \cap Members(closed) = {}
          /\ DOMAIN node \subseteq Members(open) \cup Members(closed)

\* The node that is not looked at in the closed list is the first one made.
OldestIsFirst == /\ closed # <<>> => closed[Len(closed)] = 1
                 /\ closed = <<>> => Len(node) <= 1

\* No other cell has two nodes.
OneNodeEach == \A a, b \in DOMAIN node : a # 1 /\ b # 1 /\ node[a].cell = node[b].cell => a = b

\* A parent is closed, so it keeps its g.
Tree == \A k \in DOMAIN node :
  IF node[k].parent = 0 THEN node[k].cell = begin /\ node[k].g = 0
  ELSE /\ node[k].parent \in Members(closed)
       /\ IsNeighbour(node[k].cell, node[node[k].parent].cell)
       /\ node[k].g = node[node[k].parent].g + 1

\* While the search goes on, and when it has given up: no closed node is at the end, and all
\* free cells around it have nodes.
Explored == pc \in {"search", "nopath"} =>
  /\ node # <<>> /\ node[1].cell = begin
  /\ \A k \in Members(closed) :
       /\ node[k].cell # end
       /\ \A d \in 1..4 : LET c == Neighbours(node[k].cell)[d] IN
            ~IsBlocked(c) => \E o \in DOMAIN node : node[o].cell = c

GivenUp == pc = "nopath" => open = <<>>

GridInv == AStarTypes /\ Listed /\ OldestIsFirst /\ OneNodeEach /\ Tree /\ Explored /\ GivenUp

\* Nodes are closed in the order of their estimates.
Ordered == \A k \in Members(closed), o \in Members(open) : FValue(k) <= FValue(o)

\* The free cells around a closed node have nodes that count a step more at most.
NextCounted == \A k \in Members(closed), c \in Cells \ blocked :
  IsNeighbour(node[k].cell, c) => \E o \in DOMAIN node : node[o].cell = c /\ node[o].g <= node[k].g + 1

\* As many steps as a node counts reach its cell, and no more than there are nodes before it.
Counted == \A k \in DOMAIN node : node[k].g <= k - 1 /\ node[k].cell \in Reached[node[k].g]

ShortInv == /\ pc = "search" => Ordered /\ NextCounted /\ Counted
            /\ FoundIsShortest

-----------------------------------------------------------------------------
(* The operators of a round *)

\* The cells of the map are pairs of integers, and so is what lies around them.
LEMMA CellParts ==
  ASSUME NEW c \in Cells
  PROVE  c[1] \in Int /\ c[2] \in Int /\ c = <<c[1], c[2]>>
BY AStarAssumption DEF Cells

\* The map has as many cells as it has columns times rows, and in any case finitely many.
LEMMA FewCells == IsFiniteSet(Cells)
<1>1. 0..Width-1 \in SUBSET Int /\ IsFiniteSet(0..Width-1) /\ IsFiniteSet(0..Height-1)
  BY AStarAssumption, FS_Interval
<1> QED
  BY <1>1, FS_Product DEF Cells

\* The four neighbours are the cells at distance 1, each once.
LEMMA NextTo ==
  ASSUME NEW c \in Cells
  PROVE  /\ \A d \in 1..4 : Neighbours(c)[d] \in Cells => IsNeighbour(Neighbours(c)[d], c)
         /\ \A d, e \in 1..4 : Neighbours(c)[d] = Neighbours(c)[e] => d = e
         /\ \A b \in Cells : IsNeighbour(c, b) => \E d \in 1..4 : Neighbours(c)[d] = b
         /\ DOMAIN Neighbours(c) = 1..4
<1> PICK x, y : x = c[1] /\ y = c[2]
  OBVIOUS
<1>1. x \in Int /\ y \in Int /\ c = <<x, y>>
  BY CellParts
<1> DEFINE n == Neighbours(c)
<1>2. /\ n[1] = <<x, y - 1>> /\ n[2] = <<x, y + 1>> /\ n[3] = <<x - 1, y>> /\ n[4] = <<x + 1, y>>
      /\ DOMAIN n = 1..4
  BY DEF Neighbours
<1> HIDE DEF n
<1>3. \A d \in 1..4 : IsNeighbour(n[d], c)
  <2>1. IsNeighbour(n[1], c)
    BY <1>1, <1>2 DEF IsNeighbour, Distance
  <2>2. IsNeighbour(n[2], c)
    BY <1>1, <1>2 DEF IsNeighbour, Distance
  <2>3. IsNeighbour(n[3], c)
    BY <1>1, <1>2 DEF IsNeighbour, Distance
  <2>4. IsNeighbour(n[4], c)
    BY <1>1, <1>2 DEF IsNeighbour, Distance
  <2> QED
    BY <2>1, <2>2, <2>3, <2>4
<1>4. \A d, e \in 1..4 : n[d] = n[e] => d = e
  <2>1. /\ n[1] # n[2] /\ n[1] # n[3] /\ n[1] # n[4]
        /\ n[2] # n[3] /\ n[2] # n[4] /\ n[3] # n[4]
    BY <1>1, <1>2
  <2> QED
    BY <2>1
<1>5. ASSUME NEW b \in Cells, IsNeighbour(c, b) PROVE \E d \in 1..4 : n[d] = b
  <2> PICK u, v : u = b[1] /\ v = b[2]
    OBVIOUS
  <2>1. u \in Int /\ v \in Int /\ b = <<u, v>>
    BY CellParts
  <2>2. Distance(x, u) + Distance(y, v) = 1
    BY <1>1, <1>5 DEF IsNeighbour
  <2>3. \/ u = x /\ v = y - 1
        \/ u = x /\ v = y + 1
        \/ u = x - 1 /\ v = y
        \/ u = x + 1 /\ v = y
    BY <1>1, <2>1, <2>2 DEF Distance
  <2> QED
    BY <1>2, <2>1, <2>3
<1> QED
  BY <1>2, <1>3, <1>4, <1>5 DEF n

\* What a node is
LEMMA NodeParts ==
  ASSUME AStarTypes, NEW k \in DOMAIN node
  PROVE  /\ node[k].cell \in Cells /\ node[k].g \in Nat /\ node[k].parent \in Nat
         /\ node[k] \in NodeSet
         /\ node[k] = [cell |-> node[k].cell, g |-> node[k].g, parent |-> node[k].parent]
         /\ DOMAIN node = 1..Len(node) /\ Len(node) \in Nat
<1>1. node \in Seq(NodeSet)
  BY DEF AStarTypes
<1>2. node[k] \in NodeSet /\ DOMAIN node = 1..Len(node) /\ Len(node) \in Nat
  BY <1>1
<1> QED
  BY <1>2 DEF NodeSet

\* The estimate of a node is a natural number.
LEMMA FValueNat == ASSUME AStarTypes, NEW k \in DOMAIN node PROVE FValue(k) \in Nat
<1>1. node[k].g \in Nat /\ node[k].cell \in Cells
  BY NodeParts
<1>2. /\ node[k].cell[1] \in Int /\ node[k].cell[2] \in Int /\ end[1] \in Int /\ end[2] \in Int
  BY <1>1, CellParts DEF AStarTypes
<1>3. \A a, b \in Int : Distance(a, b) \in Nat
  BY DEF Distance
<1>4. HValue(node[k].cell) \in Nat
  <2>1. /\ Distance(node[k].cell[1], end[1]) \in Nat
        /\ Distance(node[k].cell[2], end[2]) \in Nat
    BY <1>2, <1>3
  <2> QED
    BY <2>1 DEF HValue
<1> QED
  BY <1>1, <1>4 DEF FValue

\* The node that is closed next is one of the open list, with the least estimate.
LEMMA MinFIndexIn ==
  ASSUME AStarTypes, open # <<>>
  PROVE  /\ MinFIndex(open) \in DOMAIN open
         /\ \A q \in DOMAIN open : FValue(open[MinFIndex(open)]) <= FValue(open[q])
<1> DEFINE fs == {FValue(open[p]) : p \in DOMAIN open}
<1>1. /\ DOMAIN open = 1..Len(open) /\ Len(open) \in Nat /\ Len(open) # 0
      /\ \A p \in DOMAIN open : open[p] \in DOMAIN node
  BY DEF AStarTypes
<1>2. \A p \in DOMAIN open : FValue(open[p]) \in Nat
  BY <1>1, FValueNat
<1>3. PICK f \in fs : \A e \in fs : f <= e
  <2>1. fs \in SUBSET Nat
    BY <1>2
  <2>2. 1 \in DOMAIN open
    BY <1>1
  <2>3. fs # {}
    BY <2>2
  <2> HIDE DEF fs
  <2> QED
    BY <2>1, <2>3, HasLeast
<1> DEFINE back == {Len(open) - p : p \in {q \in DOMAIN open : FValue(open[q]) = f}}
<1>4. PICK b \in back : \A e \in back : b <= e
  <2>1. back \in SUBSET Nat
    BY <1>1
  <2>2. back # {}
    BY <1>3
  <2> HIDE DEF back
  <2> QED
    BY <2>1, <2>2, HasLeast
<1>5. PICK p \in DOMAIN open : b = Len(open) - p /\ FValue(open[p]) = f
  BY <1>4
<1>6. ASSUME NEW q \in DOMAIN open
      PROVE  \/ FValue(open[p]) < FValue(open[q])
             \/ FValue(open[p]) = FValue(open[q]) /\ q <= p
  <2>1. FValue(open[q]) \in Nat /\ FValue(open[p]) \in Nat /\ f <= FValue(open[q])
    BY <1>2, <1>3
  <2>2. CASE FValue(open[q]) = f
    <3>1. Len(open) - p <= Len(open) - q
      BY <1>4, <1>5, <2>2
    <3>2. q <= p
      BY <1>1, <3>1
    <3> QED
      BY <1>5, <2>2, <3>2
  <2>3. CASE FValue(open[q]) # f
    BY <1>5, <2>1, <2>3
  <2> QED
    BY <2>2, <2>3
<1>7. PICK m \in DOMAIN open :
        /\ m = MinFIndex(open)
        /\ \A q \in DOMAIN open : \/ FValue(open[m]) < FValue(open[q])
                                  \/ FValue(open[m]) = FValue(open[q]) /\ q <= m
  BY <1>6, Zenon DEF MinFIndex
<1>8. \A q \in DOMAIN open : FValue(open[m]) <= FValue(open[q])
  BY <1>2, <1>7
<1> QED
  BY <1>7, <1>8

\* A round makes nodes for the neighbours that are free and have none, each once.
LEMMA NewCellsAre ==
  ASSUME AStarTypes, NEW k \in DOMAIN node, NEW op, NEW cl
  PROVE  /\ NewCells(k, op, cl) \in Seq(Cells) /\ NoRepeats(NewCells(k, op, cl))
         /\ \A c : c \in Members(NewCells(k, op, cl)) <=>
              /\ \E d \in 1..4 : c = Neighbours(node[k].cell)[d]
              /\ ~IsBlocked(c) /\ ~InClosed(cl, c) /\ ~IsIn(op, c)
<1> DEFINE n == Neighbours(node[k].cell)
           Skipped(c) == IsBlocked(c) \/ InClosed(cl, c) \/ IsIn(op, c)
           At(d) == IF Skipped(n[d]) THEN <<>> ELSE <<n[d]>>
<1>1. node[k].cell \in Cells
  BY NodeParts
<1>2. \A d, e \in 1..4 : n[d] = n[e] => d = e
  BY <1>1, NextTo
<1>3. \A c : ~Skipped(c) => c \in Cells
  BY DEF IsBlocked
<1>4. NewCells(k, op, cl) = At(1) \o At(2) \o At(3) \o At(4)
  BY DEF NewCells
<1> HIDE DEF n, Skipped
<1>5. ASSUME NEW d \in 1..4
      PROVE  /\ At(d) \in Seq(Cells) /\ NoRepeats(At(d))
             /\ Members(At(d)) = IF Skipped(n[d]) THEN {} ELSE {n[d]}
  <2>1. CASE Skipped(n[d])
    <3>1. At(d) = <<>> /\ DOMAIN <<>> = {} /\ <<>> \in Seq(Cells)
      BY <2>1
    <3> QED
      BY <2>1, <3>1, Zenon DEF Members, NoRepeats
  <2>2. CASE ~Skipped(n[d])
    <3>1. At(d) = <<n[d]>> /\ DOMAIN <<n[d]>> = {1} /\ <<n[d]>>[1] = n[d] /\ <<n[d]>> \in Seq(Cells)
      BY <1>3, <2>2
    <3> QED
      BY <2>2, <3>1, Zenon DEF Members, NoRepeats
  <2> QED
    BY <2>1, <2>2
<1> HIDE DEF At
<1> DEFINE s2 == At(1) \o At(2)
           s3 == s2 \o At(3)
           s4 == s3 \o At(4)
<1>6. /\ s2 \in Seq(Cells) /\ Members(s2) = Members(At(1)) \cup Members(At(2)) /\ NoRepeats(s2)
  <2>1. Members(At(1)) \cap Members(At(2)) = {}
    BY <1>2, <1>5
  <2> QED
    BY <1>5, <2>1, Joined
<1> HIDE DEF s2
<1>7. /\ s3 \in Seq(Cells) /\ Members(s3) = Members(s2) \cup Members(At(3)) /\ NoRepeats(s3)
  <2>1. Members(s2) \cap Members(At(3)) = {}
    BY <1>2, <1>5, <1>6
  <2> QED
    BY <1>5, <1>6, <2>1, Joined
<1> HIDE DEF s3
<1>8. /\ s4 \in Seq(Cells) /\ Members(s4) = Members(s3) \cup Members(At(4)) /\ NoRepeats(s4)
  <2>1. Members(s3) \cap Members(At(4)) = {}
    BY <1>2, <1>5, <1>6, <1>7
  <2> QED
    BY <1>5, <1>7, <2>1, Joined
<1>9. NewCells(k, op, cl) = s4
  BY <1>4 DEF s2, s3
<1> HIDE DEF s4
<1>10. \A c : c \in Members(s4) <=> (\E d \in 1..4 : c = n[d]) /\ ~Skipped(c)
  BY <1>5, <1>6, <1>7, <1>8
<1> QED
  BY <1>8, <1>9, <1>10 DEF n, Skipped

-----------------------------------------------------------------------------
(* A round *)

\* The lists after node k has been moved from one to the other
IsMove(k, op, cl) ==
  /\ k \in DOMAIN node /\ k \in Members(open)
  /\ op \in Seq(DOMAIN node) /\ NoRepeats(op) /\ Members(op) \subseteq Members(open)
  /\ cl \in Seq(DOMAIN node) /\ Members(cl) = {k} \cup Members(closed)
  /\ cl # <<>> /\ cl[Len(cl)] = 1
  /\ Members(op) \cap Members(cl) = {}
  /\ DOMAIN node \subseteq Members(op) \cup Members(cl)

\* The node that is closed goes in front of the closed list.
LEMMA Moved ==
  ASSUME GridInv, open # <<>>, NEW at, NEW k, NEW op, NEW cl,
         at = MinFIndex(open), k = open[at], cl = <<k>> \o closed,
         op = SubSeq(open, 1, at - 1) \o SubSeq(open, at + 1, Len(open))
  PROVE  IsMove(k, op, cl)
<1>1. /\ open \in Seq(DOMAIN node) /\ closed \in Seq(DOMAIN node) /\ NoRepeats(open)
      /\ AStarTypes
  BY DEF GridInv, AStarTypes, Listed
<1>2. at \in DOMAIN open /\ k \in DOMAIN node /\ k \in Members(open)
  <2>1. at \in DOMAIN open
    BY <1>1, MinFIndexIn
  <2> QED
    BY <1>1, <2>1 DEF Members
<1>3. op \in Seq(DOMAIN node) /\ Members(op) = Members(open) \ {k} /\ NoRepeats(op)
  BY <1>1, <1>2, Removed
<1>4. /\ cl \in Seq(DOMAIN node) /\ cl # <<>> /\ Len(cl) = Len(closed) + 1 /\ Len(closed) \in Nat
      /\ cl[1] = k /\ \A p \in 1..Len(closed) : cl[p + 1] = closed[p]
  <2>1. <<k>> \in Seq(DOMAIN node) /\ Len(<<k>>) = 1 /\ <<k>>[1] = k
    BY <1>2
  <2>2. /\ cl \in Seq(DOMAIN node) /\ Len(cl) = 1 + Len(closed) /\ Len(closed) \in Nat
        /\ \A p \in 1..1 + Len(closed) : cl[p] = IF p <= 1 THEN <<k>>[p] ELSE closed[p - 1]
    BY <1>1, <2>1, ConcatProperties
  <2>3. \A p \in 1..Len(closed) : cl[p + 1] = closed[p]
    <3> TAKE p \in 1..Len(closed)
    <3>1. p + 1 \in 1..1 + Len(closed) /\ ~(p + 1 <= 1) /\ p + 1 - 1 = p
      BY <2>2
    <3> QED
      BY <2>2, <3>1
  <2>4. 1 \in 1..1 + Len(closed) /\ 1 <= 1 /\ cl # <<>> /\ 1 + Len(closed) = Len(closed) + 1
    BY <2>2
  <2> QED
    BY <2>1, <2>2, <2>3, <2>4
<1>5. Members(cl) = {k} \cup Members(closed)
  <2>1. PICK one : one = <<k>>
    OBVIOUS
  <2>2. one \in Seq(DOMAIN node) /\ DOMAIN one = {1} /\ one[1] = k
    BY <1>2, <2>1
  <2>3. Members(one) = {k}
    BY <2>2, Zenon DEF Members
  <2>4. cl = one \o closed
    BY <2>1
  <2>5. PICK S : S = DOMAIN node
    OBVIOUS
  <2>6. one \in Seq(S) /\ closed \in Seq(S)
    BY <1>1, <2>2, <2>5, Zenon
  <2>7. Members(one \o closed) = Members(one) \cup Members(closed)
    BY <2>6, Joined
  <2> QED
    BY <2>3, <2>4, <2>7
<1>6. cl[Len(cl)] = 1
  <2>1. CASE closed = <<>>
    <3>1. Len(node) <= 1 /\ DOMAIN node = 1..Len(node) /\ Len(node) \in Nat
      BY <1>1, <1>2, <2>1, NodeParts DEF GridInv, OldestIsFirst
    <3>2. k = 1
      BY <1>2, <3>1
    <3> QED
      BY <1>4, <2>1, <3>2
  <2>2. CASE closed # <<>>
    <3>1. Len(closed) \in 1..Len(closed)
      BY <1>1, <2>2
    <3>2. cl[Len(closed) + 1] = closed[Len(closed)] /\ closed[Len(closed)] = 1
      BY <1>4, <2>2, <3>1 DEF GridInv, OldestIsFirst
    <3> QED
      BY <1>4, <3>2
  <2> QED
    BY <2>1, <2>2
<1>7. /\ Members(op) \cap Members(cl) = {}
      /\ DOMAIN node \subseteq Members(op) \cup Members(cl)
  BY <1>3, <1>5 DEF GridInv, Listed
<1> QED
  BY <1>2, <1>3, <1>4, <1>5, <1>6, <1>7 DEF IsMove

\* All nodes but the first are looked at in the lists.
LEMMA LookedAt ==
  ASSUME AStarTypes, NEW k, NEW op, NEW cl, IsMove(k, op, cl), NEW o \in DOMAIN node, o # 1
  PROVE  InClosed(cl, node[o].cell) \/ IsIn(op, node[o].cell)
<1>1. CASE o \in Members(op)
  BY <1>1 DEF Members, IsIn
<1>2. CASE o \in Members(cl)
  <2> PICK p \in DOMAIN cl : cl[p] = o
    BY <1>2 DEF Members
  <2> DEFINE s == SubSeq(cl, 1, Len(cl) - 1)
  <2>1. cl \in Seq(DOMAIN node) /\ Len(cl) \in Nat /\ DOMAIN cl = 1..Len(cl) /\ p # Len(cl)
    BY DEF IsMove
  <2>2. p \in 1..Len(cl) - 1 /\ \A q \in 1..Len(cl) - 1 : cl[q] \in DOMAIN node
    BY <2>1
  <2>3. DOMAIN s = 1..Len(cl) - 1 /\ s[p] = cl[p]
    <3>1. Len(cl) - 1 - 1 + 1 = Len(cl) - 1 /\ 1 + p - 1 = p
      BY <2>1
    <3> QED
      BY <2>1, <2>2, <3>1, SubSeqProperties
  <2> HIDE DEF s
  <2>4. IsIn(s, node[o].cell)
    BY <2>2, <2>3 DEF IsIn
  <2> QED
    BY <2>4 DEF InClosed, s
<1> QED
  BY <1>1, <1>2 DEF IsMove

\* A cell that is looked at in a list has a node there.
LEMMA HasNode ==
  ASSUME AStarTypes, NEW k, NEW op, NEW cl, IsMove(k, op, cl), NEW c
  PROVE  /\ IsIn(op, c) => \E o \in Members(op) : o \in DOMAIN node /\ node[o].cell = c
         /\ InClosed(cl, c) => \E o \in Members(cl) : o \in DOMAIN node /\ node[o].cell = c
<1>1. ASSUME IsIn(op, c) PROVE \E o \in Members(op) : o \in DOMAIN node /\ node[o].cell = c
  <2>1. \A p \in DOMAIN op : op[p] \in DOMAIN node
    BY DEF IsMove
  <2> QED
    BY <1>1, <2>1, Zenon DEF IsIn, Members
<1>2. ASSUME InClosed(cl, c) PROVE \E o \in Members(cl) : o \in DOMAIN node /\ node[o].cell = c
  <2>1. cl \in Seq(DOMAIN node) /\ Len(cl) \in Nat /\ DOMAIN cl = 1..Len(cl)
    BY DEF IsMove
  <2>2. \A q \in 1..Len(cl) - 1 : cl[q] \in DOMAIN node /\ q \in DOMAIN cl
    BY <2>1
  <2> PICK s : s = SubSeq(cl, 1, Len(cl) - 1)
    OBVIOUS
  <2>3. DOMAIN s = 1..Len(cl) - 1 /\ \A q \in 1..Len(cl) - 1 : s[q] = cl[q]
    <3>1. Len(cl) - 1 - 1 + 1 = Len(cl) - 1 /\ \A q \in 1..Len(cl) - 1 : 1 + q - 1 = q
      BY <2>1
    <3> QED
      BY <2>1, <2>2, <3>1, SubSeqProperties
  <2>4. PICK p \in DOMAIN s : node[s[p]].cell = c
    BY <1>2 DEF InClosed, IsIn
  <2>5. p \in DOMAIN cl /\ cl[p] \in DOMAIN node /\ node[cl[p]].cell = c
    BY <2>2, <2>3, <2>4
  <2> QED
    BY <2>5, Zenon DEF Members
<1> QED
  BY <1>1, <1>2

\* The nodes after a round that closes node k: new ones for the cells new, and those of
\* imp with k as their parent
IsGrown(k, new, imp) ==
  /\ DOMAIN node' = 1..Len(node) + Len(new) /\ node' \in Seq(NodeSet)
  /\ Len(node') = Len(node) + Len(new)
  /\ \A o \in DOMAIN node :
       /\ o \in DOMAIN node' /\ node'[o].cell = node[o].cell
       /\ o \notin imp => node'[o] = node[o]
       /\ o \in imp => node'[o].parent = k /\ node'[o].g = node[k].g + 1
  /\ \A j \in DOMAIN new :
       /\ Len(node) + j \in DOMAIN node' /\ Len(node) + j \notin DOMAIN node
       /\ node'[Len(node) + j].cell = new[j]
       /\ node'[Len(node) + j].parent = k /\ node'[Len(node) + j].g = node[k].g + 1
  /\ \A o \in DOMAIN node' : o \in DOMAIN node \/ \E j \in DOMAIN new : o = Len(node) + j

\* What the assignment of a round says
LEMMA Grown ==
  ASSUME AStarTypes, NEW k \in DOMAIN node, NEW new \in Seq(Cells), NEW imp,
         node' = [o \in 1..Len(node) + Len(new) |->
                    IF o > Len(node)
                    THEN [cell |-> new[o - Len(node)], g |-> node[k].g + 1, parent |-> k]
                    ELSE IF o \in imp THEN [cell |-> node[o].cell, g |-> node[k].g + 1,
                                            parent |-> k]
                    ELSE node[o]]
  PROVE  IsGrown(k, new, imp)
<1> PICK n, m, g : n = Len(node) /\ m = Len(new) /\ g = node[k].g + 1
  OBVIOUS
<1>1. /\ n \in Nat /\ m \in Nat /\ g \in Nat /\ k \in Nat
      /\ DOMAIN node = 1..n /\ DOMAIN new = 1..m /\ \A j \in 1..m : new[j] \in Cells
  BY NodeParts
<1>2. /\ DOMAIN node' = 1..n + m
      /\ \A o \in 1..n + m : node'[o] =
           IF o > n THEN [cell |-> new[o - n], g |-> g, parent |-> k]
           ELSE IF o \in imp THEN [cell |-> node[o].cell, g |-> g, parent |-> k] ELSE node[o]
  OBVIOUS
<1>3. ASSUME NEW j \in 1..m
      PROVE  /\ n + j \in 1..n + m /\ n + j \notin 1..n
             /\ node'[n + j] = [cell |-> new[j], g |-> g, parent |-> k]
  <2>1. n + j \in 1..n + m /\ n + j > n /\ n + j - n = j
    BY <1>1
  <2> QED
    BY <1>2, <2>1
<1>4. ASSUME NEW o \in 1..n
      PROVE  /\ o \in 1..n + m
             /\ node'[o] = IF o \in imp THEN [cell |-> node[o].cell, g |-> g, parent |-> k]
                           ELSE node[o]
  <2>1. o \in 1..n + m /\ ~(o > n)
    BY <1>1
  <2> QED
    BY <1>2, <2>1
<1>5. ASSUME NEW o \in 1..n + m PROVE o \in 1..n \/ \E j \in 1..m : o = n + j
  <2>1. CASE o > n
    <3>1. o - n \in 1..m /\ o = n + (o - n)
      BY <1>1, <2>1
    <3> QED
      BY <3>1
  <2> QED
    BY <1>1, <2>1
<1>6. \A o \in 1..n + m : node'[o] \in NodeSet
  <2>1. \A o \in 1..n : node'[o] \in NodeSet
    <3> TAKE o \in 1..n
    <3>1. node[o] \in NodeSet /\ node[o].cell \in Cells
      BY <1>1, NodeParts
    <3> QED
      BY <1>1, <1>4, <3>1 DEF NodeSet
  <2>2. \A j \in 1..m : node'[n + j] \in NodeSet
    BY <1>1, <1>3 DEF NodeSet
  <2> QED
    BY <1>5, <2>1, <2>2
<1>7. node' \in Seq(NodeSet) /\ Len(node') = n + m
  <2>1. node' = [o \in 1..n + m |-> node'[o]] /\ n + m \in Nat
    BY <1>1
  <2> QED
    BY <1>2, <1>6, <2>1, SeqDef
<1>8. \A o \in 1..n :
        /\ o \in 1..n + m /\ node'[o].cell = node[o].cell
        /\ o \notin imp => node'[o] = node[o]
        /\ o \in imp => node'[o].parent = k /\ node'[o].g = g
  BY <1>4
<1>9. \A j \in 1..m :
        /\ n + j \in 1..n + m /\ n + j \notin 1..n
        /\ node'[n + j].cell = new[j] /\ node'[n + j].parent = k /\ node'[n + j].g = g
  BY <1>3
<1>10. \A o \in 1..n + m : o \in 1..n \/ \E j \in 1..m : o = n + j
  BY <1>5
<1>11. /\ DOMAIN node' = 1..Len(node) + Len(new) /\ node' \in Seq(NodeSet)
       /\ Len(node') = Len(node) + Len(new)
  BY <1>2, <1>7
<1>12. \A o \in DOMAIN node :
         /\ o \in DOMAIN node' /\ node'[o].cell = node[o].cell
         /\ o \notin imp => node'[o] = node[o]
         /\ o \in imp => node'[o].parent = k /\ node'[o].g = node[k].g + 1
  BY <1>1, <1>2, <1>8, Zenon
<1>13. \A j \in DOMAIN new :
         /\ Len(node) + j \in DOMAIN node' /\ Len(node) + j \notin DOMAIN node
         /\ node'[Len(node) + j].cell = new[j]
         /\ node'[Len(node) + j].parent = k /\ node'[Len(node) + j].g = node[k].g + 1
  BY <1>1, <1>2, <1>9, Zenon
<1>14. \A o \in DOMAIN node' : o \in DOMAIN node \/ \E j \in DOMAIN new : o = Len(node) + j
  <2> TAKE o \in DOMAIN node'
  <2>1. o \in 1..n \/ \E j \in 1..m : o = n + j
    BY <1>2, <1>10
  <2> QED
    BY <1>1, <2>1
<1> QED
  BY <1>11, <1>12, <1>13, <1>14, Zenon DEF IsGrown

\* The open list after it
LEMMA OpenGrown ==
  ASSUME AStarTypes, NEW k, NEW op, NEW cl, IsMove(k, op, cl), NEW new, NEW imp,
         IsGrown(k, new, imp), new \in Seq(Cells),
         open' = op \o [p \in 1..Len(new) |-> Len(node) + p]
  PROVE  /\ open' \in Seq(DOMAIN node') /\ NoRepeats(open')
         /\ Members(open') = Members(op) \cup {Len(node) + j : j \in DOMAIN new}
<1> PICK n, m : n = Len(node) /\ m = Len(new)
  OBVIOUS
<1> DEFINE fresh == [p \in 1..m |-> n + p]
<1>1. n \in Nat /\ m \in Nat /\ DOMAIN new = 1..m /\ DOMAIN node = 1..n
  BY NodeParts DEF IsMove
<1>2. DOMAIN fresh = 1..m /\ \A p \in 1..m : fresh[p] = n + p
  OBVIOUS
<1>3. \A o \in DOMAIN node : o \in DOMAIN node'
  BY DEF IsGrown
<1>4. \A p \in 1..m : n + p \in DOMAIN node' /\ n + p \notin DOMAIN node
  BY <1>1 DEF IsGrown
<1>5. fresh \in Seq(DOMAIN node')
  BY <1>1, <1>2, <1>4, SeqDef
<1>6. NoRepeats(fresh)
  <2>1. \A p, q \in 1..m : n + p = n + q => p = q
    BY <1>1
  <2> QED
    BY <1>2, <2>1 DEF NoRepeats
<1>7. Members(fresh) = {n + j : j \in 1..m}
  BY <1>2 DEF Members
<1> HIDE DEF fresh
<1>8. op \in Seq(DOMAIN node') /\ NoRepeats(op)
  <2>1. op \in Seq(DOMAIN node)
    BY DEF IsMove
  <2>2. DOMAIN node \subseteq DOMAIN node'
    BY <1>3
  <2> QED
    BY <2>1, <2>2, SeqMonotonic DEF IsMove
<1>9. Members(op) \cap Members(fresh) = {}
  <2>1. \A o \in Members(op) : o \in DOMAIN node
    BY DEF IsMove, Members
  <2> QED
    BY <1>4, <1>7, <2>1
<1>10. open' = op \o fresh
  BY DEF fresh
<1>11. PICK S : S = DOMAIN node'
  OBVIOUS
<1>12. op \in Seq(S) /\ fresh \in Seq(S)
  BY <1>5, <1>8, <1>11, Zenon
<1>13. /\ op \o fresh \in Seq(S) /\ NoRepeats(op \o fresh)
       /\ Members(op \o fresh) = Members(op) \cup Members(fresh)
  BY <1>6, <1>8, <1>9, <1>12, Joined
<1> QED
  BY <1>1, <1>7, <1>10, <1>11, <1>13, Zenon

\* A round that visits the neighbours of the node it closes
LEMMA RoundVisits ==
  ASSUME GridInv, NEW k, NEW op, NEW cl, IsMove(k, op, cl), NEW new, NEW imp,
         new = NewCells(k, op, cl), imp = Improved(k, op, cl), IsGrown(k, new, imp),
         open' = op \o [p \in 1..Len(new) |-> Len(node) + p], closed' = cl,
         node[k].cell # end, pc = "search", pc' \in {"search", "crashed"},
         begin' = begin, end' = end, blocked' = blocked
  PROVE  GridInv'
<1> DEFINE n == Len(node)
<1>1. /\ AStarTypes /\ node \in Seq(NodeSet) /\ n \in Nat /\ DOMAIN node = 1..n
      /\ k \in DOMAIN node /\ k # 0 /\ node[k].cell \in Cells /\ DOMAIN closed = 1..Len(closed)
  <2>1. AStarTypes /\ k \in DOMAIN node
    BY DEF GridInv, IsMove
  <2> QED
    BY <2>1, NodeParts DEF AStarTypes
<1>2. /\ new \in Seq(Cells) /\ NoRepeats(new)
      /\ \A c : c \in Members(new) <=>
           /\ \E d \in 1..4 : c = Neighbours(node[k].cell)[d]
           /\ ~IsBlocked(c) /\ ~InClosed(cl, c) /\ ~IsIn(op, c)
  BY <1>1, NewCellsAre
<1>3. \A j \in DOMAIN new : new[j] \in Members(new)
  BY DEF Members
<1>4. \A o \in imp : /\ o \in Members(op) /\ o \in DOMAIN node
                     /\ IsNeighbour(node[o].cell, node[k].cell)
  <2> TAKE o \in imp
  <2>1. /\ o \in Members(op)
        /\ \E d \in DOMAIN Neighbours(node[k].cell) : Neighbours(node[k].cell)[d] = node[o].cell
    BY DEF Improved, Members
  <2>2. o \in DOMAIN node
    BY <2>1 DEF IsMove, Members
  <2>3. node[o].cell \in Cells
    BY <1>1, <2>2, NodeParts
  <2> QED
    BY <1>1, <2>1, <2>2, <2>3, NextTo
<1>5. /\ open' \in Seq(DOMAIN node') /\ NoRepeats(open')
      /\ Members(open') = Members(op) \cup {n + j : j \in DOMAIN new}
  BY <1>1, <1>2, OpenGrown
<1>6. AStarTypes'
  <2>1. DOMAIN node \subseteq DOMAIN node' /\ cl \in Seq(DOMAIN node)
    BY DEF IsGrown, IsMove
  <2>2. cl \in Seq(DOMAIN node')
    BY <2>1, SeqMonotonic
  <2> QED
    BY <1>1, <1>5, <2>2 DEF AStarTypes, IsGrown
<1>7. /\ \A o \in Members(cl) : o \in DOMAIN node /\ o \in DOMAIN node'
                                /\ node'[o] = node[o]
      /\ k \in Members(cl)
  <2>1. \A o \in Members(cl) : o \in DOMAIN node /\ o \notin Members(op)
    <3>1. \A p \in DOMAIN cl : cl[p] \in DOMAIN node
      BY DEF IsMove
    <3>2. Members(op) \cap Members(cl) = {}
      BY DEF IsMove
    <3> QED
      BY <3>1, <3>2, Zenon DEF Members
  <2> QED
    BY <1>4, <2>1 DEF IsGrown, IsMove
<1>8. Listed'
  <2>1. Members(op) \cap Members(cl) = {} /\ DOMAIN node \subseteq Members(op) \cup Members(cl)
    BY DEF IsMove
  <2>2. \A j \in DOMAIN new : n + j \notin Members(cl)
    BY <1>7 DEF IsGrown
  <2>3. Members(open') \cap Members(cl) = {}
    BY <1>5, <2>1, <2>2
  <2>4. DOMAIN node' \subseteq Members(open') \cup Members(cl)
    BY <1>5, <2>1 DEF IsGrown
  <2>5. Members(closed)' = Members(cl) /\ Members(open)' = Members(open')
    BY DEF Members
  <2> QED
    BY <1>5, <2>3, <2>4, <2>5 DEF Listed, NoRepeats
<1>9. OldestIsFirst'
  BY DEF OldestIsFirst, IsMove
<1>10. OneNodeEach'
  <2>1. ASSUME NEW a \in DOMAIN node, NEW j \in DOMAIN new, a # 1, node[a].cell = new[j]
        PROVE  FALSE
    BY <1>1, <1>2, <1>3, <2>1, LookedAt
  <2>2. ASSUME NEW a \in DOMAIN node', NEW b \in DOMAIN node', a # 1, b # 1,
               node'[a].cell = node'[b].cell
        PROVE  a = b
    <3>1. CASE a \in DOMAIN node /\ b \in DOMAIN node
      BY <2>2, <3>1 DEF IsGrown, GridInv, OneNodeEach
    <3>2. CASE a \in DOMAIN node /\ b \notin DOMAIN node
      <4>1. PICK j \in DOMAIN new : b = n + j
        BY <2>2, <3>2 DEF IsGrown
      <4>2. node'[a].cell = node[a].cell /\ node'[b].cell = new[j]
        BY <3>2, <4>1 DEF IsGrown
      <4> QED
        BY <2>1, <2>2, <3>2, <4>2
    <3>3. CASE a \notin DOMAIN node /\ b \in DOMAIN node
      <4>1. PICK j \in DOMAIN new : a = n + j
        BY <2>2, <3>3 DEF IsGrown
      <4>2. node'[b].cell = node[b].cell /\ node'[a].cell = new[j]
        BY <3>3, <4>1 DEF IsGrown
      <4> QED
        BY <2>1, <2>2, <3>3, <4>2
    <3>4. CASE a \notin DOMAIN node /\ b \notin DOMAIN node
      <4>1. PICK i1 \in DOMAIN new : a = n + i1
        BY <2>2, <3>4 DEF IsGrown
      <4>2. PICK i2 \in DOMAIN new : b = n + i2
        BY <2>2, <3>4 DEF IsGrown
      <4>3. node'[a].cell = new[i1] /\ node'[b].cell = new[i2]
        BY <4>1, <4>2 DEF IsGrown
      <4>4. i1 = i2
        BY <1>2, <2>2, <4>3, Zenon DEF NoRepeats
      <4> QED
        BY <4>1, <4>2, <4>4
    <3> QED
      BY <3>1, <3>2, <3>3, <3>4
  <2> QED
    BY <2>2 DEF OneNodeEach
<1>11. Tree'
  <2>1. ASSUME NEW o \in DOMAIN node'
        PROVE  IF node'[o].parent = 0 THEN node'[o].cell = begin /\ node'[o].g = 0
               ELSE /\ node'[o].parent \in Members(cl)
                    /\ IsNeighbour(node'[o].cell, node'[node'[o].parent].cell)
                    /\ node'[o].g = node'[node'[o].parent].g + 1
    <3>1. CASE o \in DOMAIN node /\ o \notin imp
      <4>1. node'[o] = node[o]
        BY <3>1 DEF IsGrown
      <4>2. node[o].parent # 0 => node[o].parent \in Members(cl)
        BY <3>1 DEF GridInv, Tree, IsMove
      <4> QED
        BY <1>7, <3>1, <4>1, <4>2 DEF GridInv, Tree
    <3>2. CASE o \in imp
      BY <1>1, <1>4, <1>7, <3>2 DEF IsGrown
    <3>3. CASE o \notin DOMAIN node
      <4> PICK j \in DOMAIN new : o = n + j
        BY <2>1, <3>3 DEF IsGrown
      <4>1. new[j] \in Cells /\ IsNeighbour(new[j], node[k].cell)
        <5>1. PICK d \in 1..4 : new[j] = Neighbours(node[k].cell)[d]
          BY <1>2, <1>3
        <5>2. new[j] \in Cells
          BY <1>2, <1>3 DEF IsBlocked
        <5>3. node[k].cell \in Cells
          BY <1>1
        <5> QED
          BY <5>1, <5>2, <5>3, NextTo
      <4>2. node'[o].parent = k /\ node'[o].cell = new[j] /\ node'[o].g = node[k].g + 1
        BY DEF IsGrown
      <4> QED
        BY <1>1, <1>7, <4>1, <4>2
    <3> QED
      BY <3>1, <3>2, <3>3
  <2>2. Members(closed)' = Members(cl)
    BY DEF Members
  <2> QED
    BY <2>1, <2>2 DEF Tree, IsNeighbour, Distance
<1>12. Explored'
  <2>1. /\ node # <<>> /\ node[1].cell = begin
        /\ \A m \in Members(closed) :
             /\ node[m].cell # end
             /\ \A d \in 1..4 : LET c == Neighbours(node[m].cell)[d] IN
                  ~IsBlocked(c) => \E o \in DOMAIN node : node[o].cell = c
    BY DEF GridInv, Explored
  <2>2. node' # <<>> /\ node'[1].cell = begin
    <3>1. 1 \in DOMAIN node
      BY <1>1, <2>1
    <3> QED
      BY <2>1, <3>1 DEF IsGrown
  <2>3. ASSUME NEW c, NEW o \in DOMAIN node, node[o].cell = c
        PROVE  \E b \in DOMAIN node' : node'[b].cell = c
    BY <2>3 DEF IsGrown
  <2>4. ASSUME NEW m \in Members(cl)
        PROVE  /\ node'[m].cell # end
               /\ \A d \in 1..4 : LET c == Neighbours(node'[m].cell)[d] IN
                    ~IsBlocked(c) => \E o \in DOMAIN node' : node'[o].cell = c
    <3>1. node'[m] = node[m] /\ (m = k \/ m \in Members(closed))
      BY <1>7 DEF IsMove
    <3>2. CASE m \in Members(closed)
      BY <2>1, <2>3, <3>1, <3>2
    <3>3. CASE m = k
      <4> SUFFICES ASSUME NEW d \in 1..4, NEW c, c = Neighbours(node[k].cell)[d], ~IsBlocked(c)
                   PROVE  \E o \in DOMAIN node' : node'[o].cell = c
        BY <3>1, <3>3
      <4>1. CASE InClosed(cl, c) \/ IsIn(op, c)
        <5>1. \E o \in DOMAIN node : node[o].cell = c
          BY <1>1, <4>1, HasNode
        <5> QED
          BY <2>3, <5>1
      <4>2. CASE ~(InClosed(cl, c) \/ IsIn(op, c))
        <5>1. PICK j \in DOMAIN new : new[j] = c
          BY <1>2, <4>2 DEF Members
        <5> QED
          BY <5>1 DEF IsGrown
      <4> QED
        BY <4>1, <4>2
    <3> QED
      BY <3>1, <3>2, <3>3
  <2>5. /\ Members(closed)' = Members(cl)
        /\ \A c : IsBlocked(c)' <=> IsBlocked(c)
    BY DEF Members, IsBlocked
  <2> QED
    BY <2>2, <2>4, <2>5 DEF Explored, Neighbours
<1>13. GivenUp'
  BY DEF GivenUp
<1> QED
  BY <1>6, <1>8, <1>9, <1>10, <1>11, <1>12, <1>13 DEF GridInv

\* Every step of a search keeps the inductive invariant.
LEMMA RoundStep == ASSUME GridInv, Round PROVE GridInv'
<1>1. PICK at, k, op, cl :
        /\ at = MinFIndex(open) /\ k = open[at] /\ cl = <<k>> \o closed
        /\ op = SubSeq(open, 1, at - 1) \o SubSeq(open, at + 1, Len(open))
  OBVIOUS
<1>2. IsMove(k, op, cl)
  BY <1>1, Moved DEF Round
<1>3. PICK new, imp : new = NewCells(k, op, cl) /\ imp = Improved(k, op, cl)
  OBVIOUS
<1>4. /\ pc = "search" /\ closed' = cl
      /\ begin' = begin /\ end' = end /\ blocked' = blocked
  BY <1>1 DEF Round
<1>5. CASE node[k].cell = end
  <2>1. pc' = "found" /\ open' = op /\ node' = node
    BY <1>1, <1>5 DEF Round
  <2>2. Members(closed)' = Members(cl) /\ Members(open)' = Members(op)
    BY <1>4, <2>1 DEF Members
  <2>3. AStarTypes' /\ OneNodeEach'
    BY <1>2, <1>4, <2>1 DEF GridInv, AStarTypes, OneNodeEach, IsMove
  <2>4. Listed' /\ OldestIsFirst'
    BY <1>2, <1>4, <2>1, <2>2 DEF Listed, OldestIsFirst, IsMove, NoRepeats
  <2>5. Tree'
    BY <1>2, <1>4, <2>1, <2>2 DEF GridInv, Tree, IsMove, IsNeighbour, Distance
  <2>6. Explored' /\ GivenUp'
    BY <2>1 DEF Explored, GivenUp
  <2> QED
    BY <2>3, <2>4, <2>5, <2>6 DEF GridInv
<1>6. CASE node[k].cell # end
  <2>1. /\ node' = [o \in 1..Len(node) + Len(new) |->
                      IF o > Len(node)
                      THEN [cell |-> new[o - Len(node)], g |-> node[k].g + 1, parent |-> k]
                      ELSE IF o \in imp THEN [cell |-> node[o].cell, g |-> node[k].g + 1,
                                              parent |-> k]
                      ELSE node[o]]
        /\ open' = op \o [p \in 1..Len(new) |-> Len(node) + p]
        /\ pc' \in {"search", "crashed"}
    BY <1>1, <1>3, <1>4, <1>6 DEF Round
  <2>2. AStarTypes /\ k \in DOMAIN node
    BY <1>2 DEF GridInv, IsMove
  <2>3. new \in Seq(Cells)
    BY <1>3, <2>2, NewCellsAre
  <2>4. IsGrown(k, new, imp)
    BY <2>1, <2>2, <2>3, Grown
  <2> QED
    BY <1>2, <1>3, <1>4, <1>6, <2>1, <2>4, RoundVisits
<1> QED
  BY <1>5, <1>6

\* A search begins with one node.
LEMMA BeginsWithOne == FindPath => GridInv'
<1> SUFFICES ASSUME FindPath PROVE GridInv'
  OBVIOUS
<1> DEFINE first == [cell |-> begin', g |-> 0, parent |-> 0]
<1>1. first \in NodeSet /\ first.cell = begin' /\ first.parent = 0 /\ first.g = 0
  BY DEF NodeSet, FindPath
<1>2. /\ node' = <<first>> /\ open' = <<1>> /\ closed' = <<>>
      /\ begin' \in Cells /\ end' \in Cells /\ pc' \in {"search", "crashed"}
  BY DEF FindPath
<1> HIDE DEF first
<1>3. /\ DOMAIN node' = {1} /\ node'[1] = first /\ Len(node') = 1 /\ node' \in Seq(NodeSet)
      /\ node' # <<>>
  BY <1>1, <1>2
<1>4. /\ DOMAIN open' = {1} /\ open'[1] = 1 /\ open' \in Seq({1})
      /\ DOMAIN closed' = {} /\ closed' \in Seq({1})
  BY <1>2
<1>5. Members(open') = {1} /\ Members(closed') = {} /\ NoRepeats(open')
  BY <1>4, Zenon DEF Members, NoRepeats
<1>6. Members(open)' = {1} /\ Members(closed)' = {} /\ NoRepeats(open)'
  BY <1>5 DEF Members, NoRepeats
<1>7. AStarTypes' /\ OneNodeEach'
  BY <1>2, <1>3, <1>4 DEF AStarTypes, OneNodeEach
<1>8. Listed' /\ OldestIsFirst'
  BY <1>2, <1>3, <1>4, <1>6 DEF Listed, OldestIsFirst
<1>9. Tree' /\ Explored' /\ GivenUp'
  BY <1>1, <1>2, <1>3, <1>6 DEF Tree, Explored, GivenUp
<1> QED
  BY <1>7, <1>8, <1>9 DEF GridInv

\* Between searches there are no nodes.
LEMMA NoNodes ==
  ASSUME NoSearch, pc' \notin {"search", "nopath"} PROVE GridInv'
<1>1. /\ begin' = <<0, 0>> /\ end' = <<0, 0>>
      /\ node' = <<>> /\ open' = <<>> /\ closed' = <<>> /\ DOMAIN <<>> = {} /\ Len(<<>>) = 0
  BY DEF NoSearch
<1>2. <<0, 0>> \in Cells
  BY AStarAssumption DEF Cells
<1>3. AStarTypes' /\ OldestIsFirst'
  BY <1>1, <1>2 DEF AStarTypes, OldestIsFirst
<1>4. Members(open)' = {} /\ NoRepeats(open)'
  BY <1>1, Zenon DEF Members, NoRepeats
<1>5. Listed' /\ OneNodeEach' /\ Tree'
  BY <1>1, <1>4 DEF Listed, OneNodeEach, Tree
<1>6. Explored' /\ GivenUp'
  BY DEF Explored, GivenUp
<1> QED
  BY <1>3, <1>5, <1>6 DEF GridInv

\* Every step on the grid keeps the inductive invariant.
LEMMA GridStep == ASSUME GridInv, [AStarNext]_avars PROVE GridInv'
<1>1. CASE Load \/ Recycle \/ Clear
  BY <1>1, NoNodes DEF Load, Recycle, Clear
<1>2. CASE FindPath
  BY <1>2, BeginsWithOne
<1>3. CASE NoPath \/ UNCHANGED avars
  <2>1. /\ pc' = pc \/ (pc = "search" /\ pc' = "nopath" /\ open = <<>>)
        /\ open' = open /\ node' = node /\ closed' = closed
        /\ begin' = begin /\ end' = end /\ blocked' = blocked
    BY <1>3 DEF NoPath, avars
  <2>2. Members(open)' = Members(open) /\ Members(closed)' = Members(closed)
        /\ NoRepeats(open)' = NoRepeats(open)
    BY <2>1 DEF Members, NoRepeats
  <2>3. AStarTypes' /\ Listed' /\ OldestIsFirst' /\ OneNodeEach' /\ GivenUp'
    BY <2>1, <2>2 DEF GridInv, AStarTypes, Listed, OldestIsFirst, OneNodeEach, GivenUp
  <2>4. Tree'
    BY <2>1, <2>2 DEF GridInv, Tree, IsNeighbour, Distance
  <2>5. Explored'
    <3>1. \A c : IsBlocked(c)' <=> IsBlocked(c)
      BY <2>1 DEF IsBlocked
    <3> QED
      BY <2>1, <2>2, <3>1 DEF GridInv, Explored, Neighbours
  <2> QED
    BY <2>3, <2>4, <2>5 DEF GridInv
<1>4. CASE Round
  BY <1>4, RoundStep
<1> QED
  BY <1>1, <1>2, <1>3, <1>4 DEF AStarNext

\* At first there are no nodes.
LEMMA GridStart == AStarInit => GridInv
<1> SUFFICES ASSUME AStarInit PROVE GridInv
  OBVIOUS
<1>1. /\ begin = <<0, 0>> /\ end = <<0, 0>> /\ pc = "unloaded"
      /\ node = <<>> /\ open = <<>> /\ closed = <<>> /\ DOMAIN <<>> = {} /\ Len(<<>>) = 0
  BY DEF AStarInit
<1>2. <<0, 0>> \in Cells
  BY AStarAssumption DEF Cells
<1>3. AStarTypes /\ OldestIsFirst
  BY <1>1, <1>2 DEF AStarTypes, OldestIsFirst
<1>4. Members(open) = {} /\ NoRepeats(open)
  BY <1>1, Zenon DEF Members, NoRepeats
<1>5. Listed /\ OneNodeEach /\ Tree
  BY <1>1, <1>4 DEF Listed, OneNodeEach, Tree
<1>6. Explored /\ GivenUp
  BY <1>1 DEF Explored, GivenUp
<1> QED
  BY <1>3, <1>5, <1>6 DEF GridInv

-----------------------------------------------------------------------------
(* What the properties ask for *)

LEMMA InvParents == GridInv => ParentsLeadBack
BY DEF GridInv, Tree, ParentsLeadBack

LEMMA InvNoPath == GridInv => NoPathIsRight
<1> SUFFICES ASSUME GridInv, pc = "nopath", NEW seen, seen = {node[k].cell : k \in DOMAIN node}
             PROVE  /\ begin \in seen /\ end \notin seen
                    /\ \A c \in seen, d \in Cells \ blocked : IsNeighbour(c, d) => d \in seen
  BY DEF NoPathIsRight
<1>1. /\ node # <<>> /\ node[1].cell = begin
      /\ \A k \in Members(closed) :
           /\ node[k].cell # end
           /\ \A d \in 1..4 : LET c == Neighbours(node[k].cell)[d] IN
                ~IsBlocked(c) => \E o \in DOMAIN node : node[o].cell = c
  BY DEF GridInv, Explored
<1>2. AStarTypes /\ 1 \in DOMAIN node
  BY <1>1 DEF GridInv, AStarTypes
<1>3. \A k \in DOMAIN node : k \in Members(closed)
  <2>1. open = <<>> /\ DOMAIN <<>> = {}
    BY DEF GridInv, GivenUp
  <2>2. Members(open) = {}
    BY <2>1, Zenon DEF Members
  <2> QED
    BY <2>2 DEF GridInv, Listed
<1>4. begin \in seen /\ end \notin seen
  BY <1>1, <1>2, <1>3
<1>5. ASSUME NEW k \in DOMAIN node, NEW b \in Cells \ blocked, IsNeighbour(node[k].cell, b)
      PROVE  b \in seen
  <2>1. node[k].cell \in Cells
    BY <1>2, NodeParts
  <2>2. PICK d \in 1..4 : Neighbours(node[k].cell)[d] = b
    BY <1>5, <2>1, NextTo
  <2>3. ~IsBlocked(b)
    BY DEF IsBlocked
  <2> QED
    BY <1>1, <1>3, <2>2, <2>3
<1> QED
  BY <1>4, <1>5

LEMMA InvNodes == GridInv => NodesSuffice
<1> SUFFICES ASSUME GridInv PROVE Len(node) <= Cardinality(Cells) + 1
  BY DEF NodesSuffice
<1> DEFINE n == Len(node)
<1>1. n \in Nat /\ DOMAIN node = 1..n /\ AStarTypes
  BY DEF GridInv, AStarTypes
<1>2. IsFiniteSet(Cells) /\ Cardinality(Cells) \in Nat
  BY FewCells, FS_CardinalityType
<1>3. CASE n <= 1
  BY <1>1, <1>2, <1>3
<1>4. CASE ~(n <= 1)
  <2> DEFINE f == [k \in 2..n |-> node[k].cell]
  <2>1. \A k \in 2..n : k \in DOMAIN node /\ k # 1
    BY <1>1
  <2>2. f \in Injection(2..n, Cells)
    <3>1. f \in [2..n -> Cells]
      BY <1>1, <2>1, NodeParts
    <3>2. \A a, b \in 2..n : f[a] = f[b] => a = b
      BY <2>1 DEF GridInv, OneNodeEach
    <3> HIDE DEF f
    <3> QED
      BY <3>1, <3>2, Zenon DEF Injection, IsInjective
  <2>3. IsFiniteSet(2..n) /\ Cardinality(2..n) = n - 1
    BY <1>1, <1>4, FS_Interval
  <2>4. Cardinality(2..n) <= Cardinality(Cells)
    BY <1>2, <2>2, <2>3, FS_Injection
  <2> QED
    BY <1>1, <1>2, <2>3, <2>4
<1> QED
  BY <1>3, <1>4

-----------------------------------------------------------------------------
(* The path that is found *)

\* The estimate of a step: between neighbours it differs by one at most.
LEMMA Estimates ==
  ASSUME AStarTypes, NEW b \in Cells, NEW c \in Cells
  PROVE  /\ HValue(b) \in Nat /\ HValue(c) \in Nat
         /\ IsNeighbour(b, c) => HValue(b) <= HValue(c) + 1 /\ HValue(c) <= HValue(b) + 1
<1> PICK x, y : x = end[1] /\ y = end[2]
  OBVIOUS
<1> PICK b1, b2 : b1 = b[1] /\ b2 = b[2]
  OBVIOUS
<1> PICK c1, c2 : c1 = c[1] /\ c2 = c[2]
  OBVIOUS
<1>1. x \in Int /\ y \in Int /\ b1 \in Int /\ b2 \in Int /\ c1 \in Int /\ c2 \in Int
  BY CellParts DEF AStarTypes
<1>2. \A p, q \in Int : Distance(p, q) \in Nat
  BY DEF Distance
<1>3. \A p, q, r \in Int : /\ Distance(p, r) <= Distance(p, q) + Distance(q, r)
                           /\ Distance(q, r) <= Distance(p, q) + Distance(p, r)
  BY DEF Distance
<1> DEFINE bx == Distance(b1, x)
           by == Distance(b2, y)
           cx == Distance(c1, x)
           cy == Distance(c2, y)
           d1 == Distance(b1, c1)
           d2 == Distance(b2, c2)
<1>4. /\ bx \in Nat /\ by \in Nat /\ cx \in Nat /\ cy \in Nat /\ d1 \in Nat /\ d2 \in Nat
      /\ bx <= d1 + cx /\ cx <= d1 + bx /\ by <= d2 + cy /\ cy <= d2 + by
  BY <1>1, <1>2, <1>3
<1>5. HValue(b) = bx + by /\ HValue(c) = cx + cy /\ (IsNeighbour(b, c) <=> d1 + d2 = 1)
  BY DEF HValue, IsNeighbour
<1> HIDE DEF bx, by, cx, cy, d1, d2
<1> QED
  BY <1>4, <1>5

\* What is reached without a step, and with a step more
LEMMA ReachedSteps ==
  begin \in Cells =>
    /\ Reached[0] = {begin}
    /\ \A k \in 0..Cardinality(Cells) : Reached[k] \subseteq Cells
    /\ \A k \in 1..Cardinality(Cells) : Reached[k] = Around(Reached[k-1])
<1> SUFFICES ASSUME begin \in Cells
             PROVE  /\ Reached[0] = {begin}
                    /\ \A k \in 0..Cardinality(Cells) : Reached[k] \subseteq Cells
                    /\ \A k \in 1..Cardinality(Cells) : Reached[k] = Around(Reached[k-1])
  OBVIOUS
<1> PICK most : most = Cardinality(Cells)
  OBVIOUS
<1> DEFINE A == SUBSET Cells
           G == [k \in 1..most |-> [y \in A |-> Around(y)]]
           Steps(f) == f = [k \in 0..most |-> IF k = 0 THEN {begin} ELSE Around(f[k-1])]
<1>1. most \in Nat /\ 0 <= most /\ 0 + 1 = 1 /\ 0 \in Nat
  BY FewCells, FS_CardinalityType
<1>2. {begin} \in A
  OBVIOUS
<1>3. \A y \in A : Around(y) \in A
  BY DEF Around
<1>4. \A k \in 1..most, y \in A : G[k][y] = Around(y) /\ G[k][y] \in A
  BY <1>3
<1>5. PICK f \in [0..most -> A] : Iterates(f, {begin}, G, 0, most)
  <2> HIDE DEF A, G
  <2>1. \A k \in 0+1..most, y \in A : G[k][y] \in A
    BY <1>1, <1>4
  <2> QED
    BY <1>1, <1>2, <2>1, Iterated
<1>6. f = [k \in 0..most |-> IF k = 0 THEN {begin} ELSE G[k][f[k-1]]]
  BY <1>5, Zenon DEF Iterates
<1> HIDE DEF G
<1>7. Steps(f)
  <2>1. \A k \in 0..most : (IF k = 0 THEN {begin} ELSE G[k][f[k-1]])
                           = IF k = 0 THEN {begin} ELSE Around(f[k-1])
    <3> TAKE k \in 0..most
    <3>1. CASE k = 0
      BY <3>1
    <3>2. CASE k # 0
      <4>1. k \in 1..most /\ k - 1 \in 0..most
        BY <1>1, <3>2
      <4>2. f[k-1] \in A
        BY <1>5, <4>1
      <4> QED
        BY <1>4, <3>2, <4>1, <4>2
    <3> QED
      BY <3>1, <3>2
  <2> QED
    BY <1>6, <2>1
<1>8. Steps(Reached)
  <2>1. Reached = CHOOSE g : Steps(g)
    BY Zenon DEF Reached
  <2> HIDE DEF Steps
  <2> QED
    BY <1>7, <2>1
<1>9. Reached[0] = {begin} /\ \A k \in 1..most : Reached[k] = Around(Reached[k-1])
  <2>1. 0 \in 0..most /\ \A k \in 1..most : k \in 0..most /\ k # 0
    BY <1>1
  <2> QED
    BY <1>8, <2>1
<1>10. \A k \in 0..most : Reached[k] \in A
  <2>1. \A k \in 0..most : k = 0 \/ k \in 1..most
    BY <1>1
  <2> QED
    BY <1>9, <2>1 DEF Around
<1> QED
  BY <1>9, <1>10

LEMMA ReachedAtOnce == begin \in Cells => Reached[0] = {begin}
BY ReachedSteps

\* A node counts no more steps than the map has cells.
LEMMA StepsSuffice ==
  ASSUME GridInv, Counted, NEW k \in DOMAIN node
  PROVE  node[k].g \in 0..Cardinality(Cells)
<1>1. /\ node[k].g \in Nat /\ node[k].g <= k - 1 /\ k \in 1..Len(node) /\ Len(node) \in Nat
  BY NodeParts DEF GridInv, Counted
<1>2. Len(node) <= Cardinality(Cells) + 1
  BY InvNodes DEF NodesSuffice
<1>3. Cardinality(Cells) \in Nat
  BY FewCells, FS_CardinalityType
<1> QED
  BY <1>1, <1>2, <1>3

\* When the node that is closed is at the end, no shorter way leads there.  A cell that j
\* steps reach has a closed node that counts j steps at most, or the estimate from j steps
\* on is no less than that of the node closed now: and there is no closed node at the end.
LEMMA RoundFinds ==
  ASSUME GridInv, Ordered, NextCounted, Counted, pc = "search",
         NEW k \in Members(open), node[k].cell = end,
         \A o \in Members(open) : FValue(k) <= FValue(o)
  PROVE  LET g == node[k].g IN end \in Reached[g] /\ (g > 0 => end \notin Reached[g-1])
<1> DEFINE g == node[k].g
           most == Cardinality(Cells)
           Near(c, j) == \/ \E o \in Members(closed) : node[o].cell = c /\ node[o].g <= j
                         \/ g <= j + HValue(c)
           S == {j \in 0..most : \A c \in Reached[j] : Near(c, j)}
<1>1. /\ AStarTypes /\ begin \in Cells /\ end \in Cells /\ node # <<>> /\ node[1].cell = begin
      /\ \A o \in Members(closed) : node[o].cell # end
      /\ \A o \in Members(open) \cup Members(closed) : o \in DOMAIN node
      /\ DOMAIN node \subseteq Members(open) \cup Members(closed)
  <2>1. AStarTypes /\ Listed /\ Explored
    BY DEF GridInv
  <2>2. /\ \A p \in DOMAIN open : open[p] \in DOMAIN node
        /\ \A p \in DOMAIN closed : closed[p] \in DOMAIN node
    BY <2>1 DEF AStarTypes
  <2>3. \A o \in Members(open) \cup Members(closed) : o \in DOMAIN node
    BY <2>2, Zenon DEF Members
  <2> QED
    BY <2>1, <2>3 DEF AStarTypes, Listed, Explored
<1>2. /\ \A o \in DOMAIN node : node[o].cell \in Cells /\ node[o].g \in Nat
      /\ most \in Nat /\ 0 \in Nat /\ g \in 0..most /\ 1 \in DOMAIN node
  <2>1. \A o \in DOMAIN node : node[o].cell \in Cells /\ node[o].g \in Nat
    BY <1>1, NodeParts
  <2>2. most \in Nat
    BY FewCells, FS_CardinalityType
  <2>3. g \in 0..most
    BY <1>1, StepsSuffice
  <2>4. 1 \in DOMAIN node
    BY <1>1 DEF AStarTypes
  <2> QED
    BY <2>1, <2>2, <2>3, <2>4
<1>3. \A c \in Cells : HValue(c) \in Nat
  BY <1>1, Estimates
<1>4. HValue(end) = 0
  <2>1. end[1] \in Int /\ end[2] \in Int
    BY <1>1, CellParts
  <2> QED
    BY <2>1 DEF HValue, Distance
\* A node is closed, or its estimate is no less.
<1>5. \A o \in DOMAIN node : o \in Members(closed) \/ g <= node[o].g + HValue(node[o].cell)
  <2>1. FValue(k) = g
    BY <1>2, <1>4 DEF FValue
  <2>2. \A o \in Members(open) : g <= node[o].g + HValue(node[o].cell)
    BY <2>1 DEF FValue
  <2> QED
    BY <1>1, <2>2
<1>6. /\ Reached[0] = {begin}
      /\ \A j \in 0..most : Reached[j] \subseteq Cells
      /\ \A j \in 1..most : Reached[j] = Around(Reached[j-1])
  BY <1>1, ReachedSteps
<1> HIDE DEF g, most
<1>7. 0 \in S
  <2>1. 0 \in 0..most
    BY <1>2
  <2>2. node[1].g = 0
    BY <1>2 DEF Counted
  <2>3. Near(begin, 0)
    BY <1>1, <1>2, <1>5, <2>2
  <2> QED
    BY <1>6, <2>1, <2>3
<1>8. ASSUME NEW j \in 1..most, j - 1 \in S PROVE j \in S
  <2>1. j \in 0..most /\ j - 1 \in 0..most /\ j \in Int /\ Reached[j] = Around(Reached[j-1])
        /\ Reached[j-1] \subseteq Cells /\ Reached[j] \subseteq Cells /\ g \in Int
    BY <1>2, <1>6
  <2>2. \A b \in Reached[j-1] : Near(b, j - 1)
    BY <1>8
  <2>3. ASSUME NEW c \in Reached[j] PROVE Near(c, j)
    <3>0. c \in Cells /\ HValue(c) \in Nat
      BY <1>3, <2>1
    <3>1. CASE c \in Reached[j-1]
      <4>1. CASE g <= j - 1 + HValue(c)
        BY <2>1, <3>0, <4>1
      <4>2. CASE \E o \in Members(closed) : node[o].cell = c /\ node[o].g <= j - 1
        BY <1>1, <1>2, <2>1, <4>2
      <4> QED
        BY <2>2, <3>1, <4>1, <4>2
    <3>2. ASSUME NEW b \in Reached[j-1], c \notin blocked, IsNeighbour(b, c) PROVE Near(c, j)
      <4>0. b \in Cells /\ HValue(b) \in Nat /\ HValue(b) <= HValue(c) + 1
        BY <1>1, <1>3, <2>1, <3>0, <3>2, Estimates
      <4>1. CASE g <= j - 1 + HValue(b)
        BY <2>1, <3>0, <4>0, <4>1
      <4>2. ASSUME NEW o \in Members(closed), node[o].cell = b, node[o].g <= j - 1 PROVE Near(c, j)
        <5>1. PICK a \in DOMAIN node : node[a].cell = c /\ node[a].g <= node[o].g + 1
          BY <3>0, <3>2, <4>2 DEF NextCounted
        <5>2. node[a].g <= j /\ node[a].g \in Nat
          BY <1>1, <1>2, <2>1, <4>2, <5>1
        <5>3. a \in Members(closed) \/ g <= node[a].g + HValue(c)
          BY <1>5, <5>1
        <5> QED
          BY <2>1, <3>0, <5>1, <5>2, <5>3
      <4> QED
        BY <2>2, <3>2, <4>1, <4>2
    <3> QED
      BY <2>1, <3>1, <3>2 DEF Around
  <2> QED
    BY <2>1, <2>3
<1>9. \A j \in 0..most : j \in S
  <2> HIDE DEF S
  <2> QED
    BY <1>2, <1>7, <1>8, Stepwise
<1>10. ASSUME g > 0 PROVE end \notin Reached[g-1]
  <2>1. g - 1 \in S /\ g \in Int
    BY <1>2, <1>9, <1>10
  <2>2. ~Near(end, g - 1)
    BY <1>1, <1>4, <2>1
  <2> QED
    BY <2>1, <2>2
<1>11. end \in Reached[g]
  BY <1>1 DEF Counted, g
<1> QED
  BY <1>10, <1>11 DEF g

\* Two sums in order, the later's second part at most one above the earlier's.
LEMMA OneApart ==
  ASSUME NEW u \in Nat, NEW v \in Nat, NEW x \in Nat, NEW y \in Nat, u + y <= v + x, x <= y + 1
  PROVE  u <= v + 1
OBVIOUS

\* Closing a node, the least of the open ones, and visiting its neighbours keeps the order,
\* and what is counted stays right.
LEMMA RoundKeepsCounts ==
  ASSUME GridInv, Ordered, NextCounted, Counted, NEW k, NEW op, NEW cl, IsMove(k, op, cl),
         \A o \in Members(open) : FValue(k) <= FValue(o),
         NEW new, NEW imp, new = NewCells(k, op, cl), imp = Improved(k, op, cl),
         IsGrown(k, new, imp), open' = op \o [p \in 1..Len(new) |-> Len(node) + p], closed' = cl,
         begin' = begin, end' = end, blocked' = blocked,
         Len(node') <= Cardinality(Cells) + 1
  PROVE  Ordered' /\ NextCounted' /\ Counted'
<1> DEFINE n == Len(node)
           g == node[k].g
           most == Cardinality(Cells)
<1>1. /\ AStarTypes /\ n \in Nat /\ DOMAIN node = 1..n /\ k \in 1..n /\ begin \in Cells
      /\ \A o \in DOMAIN node : node[o].cell \in Cells /\ node[o].g \in Nat
      /\ most \in Nat /\ g \in Nat /\ \A o \in DOMAIN node : o \in Nat
  <2>1. AStarTypes /\ k \in DOMAIN node
    BY DEF GridInv, IsMove
  <2>2. most \in Nat
    BY FewCells, FS_CardinalityType
  <2> QED
    BY <2>1, <2>2, NodeParts DEF AStarTypes
<1>2. /\ new \in Seq(Cells)
      /\ \A c : c \in Members(new) <=>
           /\ \E d \in 1..4 : c = Neighbours(node[k].cell)[d]
           /\ ~IsBlocked(c) /\ ~InClosed(cl, c) /\ ~IsIn(op, c)
  BY <1>1, NewCellsAre
<1>3. /\ Members(op) \cap Members(cl) = {} /\ Members(cl) = {k} \cup Members(closed)
      /\ Members(op) \subseteq Members(open) /\ k \in Members(open)
      /\ \A o \in Members(op) \cup Members(cl) : o \in DOMAIN node
  <2>1. /\ \A p \in DOMAIN op : op[p] \in DOMAIN node
        /\ \A p \in DOMAIN cl : cl[p] \in DOMAIN node
    BY DEF IsMove
  <2>2. \A o \in Members(op) \cup Members(cl) : o \in DOMAIN node
    BY <2>1, Zenon DEF Members
  <2> QED
    BY <2>2 DEF IsMove
\* The nodes that are new or improved
<1>4. ASSUME NEW o \in DOMAIN node', o \notin DOMAIN node \/ o \in imp
      PROVE  /\ node'[o].g = g + 1 /\ node'[o].cell \in Cells /\ node'[o].cell \notin blocked
             /\ IsNeighbour(node'[o].cell, node[k].cell) /\ IsNeighbour(node[k].cell, node'[o].cell)
             /\ g + 1 <= o - 1 /\ g + 1 \in 1..most
  <2>1. PICK c : c = node'[o].cell
    OBVIOUS
  <2>2. /\ node'[o].g = g + 1 /\ ~IsBlocked(c) /\ g + 1 <= o - 1 /\ g + 1 \in 1..most
        /\ \E d \in 1..4 : Neighbours(node[k].cell)[d] = c
    <3>1. CASE o \in imp
      <4>1. /\ o \in Members(op) /\ node[o].g > g + 1 /\ ~IsBlocked(node[o].cell)
            /\ \E d \in DOMAIN Neighbours(node[k].cell) : Neighbours(node[k].cell)[d] = node[o].cell
        BY <3>1 DEF Improved, Members
      <4>2. o \in DOMAIN node /\ DOMAIN Neighbours(node[k].cell) = 1..4
        BY <1>1, <1>3, <4>1, NextTo
      <4>3. node[o].g \in 0..most /\ node[o].g <= o - 1
        BY <4>2, StepsSuffice DEF Counted
      <4>4. node'[o].cell = node[o].cell /\ node'[o].g = g + 1
        BY <3>1, <4>2 DEF IsGrown
      <4>5. g + 1 <= o - 1 /\ g + 1 \in 1..most
        <5> PICK h, u : h = g /\ u = node[o].g
          OBVIOUS
        <5>1. h \in Nat /\ u \in 0..most /\ u > h + 1 /\ u <= o - 1 /\ o \in Nat /\ most \in Nat
          BY <1>1, <4>1, <4>2, <4>3
        <5>2. h + 1 <= o - 1 /\ h + 1 \in 1..most
          BY <5>1
        <5> QED
          BY <5>2
      <4> QED
        BY <2>1, <4>1, <4>2, <4>4, <4>5
    <3>2. CASE o \notin DOMAIN node
      <4>1. PICK j \in DOMAIN new : o = n + j /\ node'[o].cell = new[j] /\ node'[o].g = g + 1
        BY <1>4, <3>2 DEF IsGrown
      <4>2. new[j] \in Members(new)
        BY DEF Members
      <4>3. o \in 1..Len(node') /\ o > n /\ Len(node') \in Nat
        <5>1. node' \in Seq(NodeSet)
          BY DEF IsGrown
        <5>2. o \in 1..Len(node') /\ Len(node') \in Nat
          BY <1>4, <5>1
        <5> QED
          BY <1>1, <3>2, <5>2
      <4>4. g \in Nat /\ g <= k - 1
        BY <1>1 DEF Counted
      <4>5. g + 1 <= o - 1 /\ g + 1 \in 1..most
        <5> PICK h, l : h = g /\ l = Len(node')
          OBVIOUS
        <5>1. h \in Nat /\ h + 1 \in 1..most
          BY <1>1, <4>3, <4>4, FewCells
        <5>2. h <= k - 1 /\ k <= n /\ o > n /\ o \in Nat /\ k \in Nat /\ n \in Nat
          BY <1>1, <4>3, <4>4
        <5>3. h + 1 <= o - 1
          BY <5>1, <5>2
        <5> QED
          BY <5>1, <5>3
      <4>6. ~IsBlocked(c) /\ \E d \in 1..4 : Neighbours(node[k].cell)[d] = c
        BY <1>2, <2>1, <4>1, <4>2
      <4> QED
        BY <4>1, <4>5, <4>6
    <3> QED
      BY <1>4, <3>1, <3>2
  <2>3. c \in Cells /\ c \notin blocked
    BY <2>2 DEF IsBlocked
  <2>4. IsNeighbour(c, node[k].cell)
    <3>1. PICK b \in Cells : b = node[k].cell
      BY <1>1
    <3>2. \A d \in 1..4 : Neighbours(b)[d] \in Cells => IsNeighbour(Neighbours(b)[d], b)
      BY NextTo
    <3> QED
      BY <2>2, <2>3, <3>1, <3>2
  <2>5. IsNeighbour(node[k].cell, c)
    <3>1. /\ c[1] \in Int /\ c[2] \in Int
          /\ node[k].cell[1] \in Int /\ node[k].cell[2] \in Int
      BY <1>1, <2>3, CellParts
    <3> QED
      BY <2>4, <3>1 DEF IsNeighbour, Distance
  <2> QED
    BY <2>1, <2>2, <2>3, <2>4, <2>5
\* The other nodes
<1>5. \A o \in DOMAIN node : o \in DOMAIN node' /\ node'[o].cell = node[o].cell
                             /\ (o \notin imp => node'[o] = node[o])
  BY DEF IsGrown
<1>6. \A o \in Members(cl) : o \in DOMAIN node /\ o \in DOMAIN node' /\ node'[o] = node[o]
  <2>1. \A o \in imp : o \in Members(op)
    BY DEF Improved, Members
  <2> QED
    BY <1>3, <1>5, <2>1
<1>7. \A o \in DOMAIN node : node'[o].g <= node[o].g
  <2> TAKE o \in DOMAIN node
  <2>1. CASE o \in imp
    <3>1. node[o].g > g + 1
      BY <2>1 DEF Improved
    <3> QED
      BY <1>1, <1>4, <1>5, <2>1, <3>1
  <2>2. CASE o \notin imp
    BY <1>1, <1>5, <2>2
  <2> QED
    BY <2>1, <2>2
<1>8. /\ Members(open') = Members(op) \cup {n + j : j \in DOMAIN new}
      /\ \A j \in DOMAIN new : n + j \in DOMAIN node' /\ n + j \notin DOMAIN node
  <2>1. Members(open') = Members(op) \cup {n + j : j \in DOMAIN new}
    BY <1>1, <1>2, OpenGrown
  <2>2. \A j \in DOMAIN new : n + j \in DOMAIN node' /\ n + j \notin DOMAIN node
    BY DEF IsGrown
  <2> QED
    BY <2>1, <2>2
<1>9. Members(open)' = Members(open') /\ Members(closed)' = Members(cl)
  BY DEF Members
<1>10. \A o : FValue(o)' = node'[o].g + HValue(node'[o].cell)
  BY DEF FValue, HValue, Distance
<1>11. \A o \in Members(cl) : FValue(o)' = FValue(o) /\ FValue(o) \in Nat
  BY <1>1, <1>6, <1>10, FValueNat DEF FValue
<1>12. Ordered'
  <2>1. ASSUME NEW o \in Members(open') PROVE FValue(k) <= FValue(o)'
    <3>1. CASE o \in Members(op) /\ o \notin imp
      <4>1. FValue(o)' = FValue(o)
        BY <1>3, <1>5, <1>10, <3>1 DEF FValue
      <4> QED
        BY <1>3, <3>1, <4>1
    <3>2. CASE o \notin DOMAIN node \/ o \in imp
      <4>1. o \in DOMAIN node'
        BY <1>3, <1>5, <1>8, <2>1
      <4>2. node'[o].g = g + 1 /\ node'[o].cell \in Cells /\ IsNeighbour(node'[o].cell, node[k].cell)
        BY <1>4, <3>2, <4>1
      <4> PICK c, b : c = node'[o].cell /\ b = node[k].cell
        OBVIOUS
      <4>3. b \in Cells /\ c \in Cells /\ IsNeighbour(c, b)
        BY <1>1, <4>2
      <4>4. HValue(b) \in Nat /\ HValue(c) \in Nat /\ HValue(b) <= HValue(c) + 1
        BY <1>1, <4>3, Estimates
      <4>5. FValue(k) = g + HValue(b) /\ FValue(o)' = g + 1 + HValue(c) /\ g \in Nat
        BY <1>1, <1>10, <4>2 DEF FValue
      <4> QED
        BY <4>4, <4>5
    <3> QED
      BY <1>8, <2>1, <3>1, <3>2
  <2>2. ASSUME NEW m \in Members(cl), NEW o \in Members(open') PROVE FValue(m)' <= FValue(o)'
    <3>1. FValue(m) <= FValue(k)
      <4>1. CASE m = k
        BY <1>11, <2>2, <4>1
      <4>2. CASE m \in Members(closed)
        BY <1>3, <4>2 DEF Ordered
      <4> QED
        BY <1>3, <2>2, <4>1, <4>2
    <3>2. FValue(m)' = FValue(m) /\ FValue(m) \in Nat /\ FValue(k) \in Nat
      BY <1>3, <1>11, <2>2
    <3>3. FValue(o)' \in Nat
      <4>1. o \in DOMAIN node'
        BY <1>3, <1>5, <1>8, <2>2
      <4>2. node' \in Seq(NodeSet)
        BY DEF IsGrown
      <4>3. node'[o] \in NodeSet
        BY <4>1, <4>2
      <4>4. node'[o].cell \in Cells /\ node'[o].g \in Nat
        BY <4>3 DEF NodeSet
      <4> QED
        BY <1>1, <1>10, <4>4, Estimates
    <3> QED
      BY <2>1, <3>1, <3>2, <3>3
  <2> QED
    BY <1>9, <2>2 DEF Ordered
<1>13. NextCounted'
  <2>1. ASSUME NEW m \in Members(cl), NEW c \in Cells \ blocked, IsNeighbour(node[m].cell, c)
        PROVE  \E o \in DOMAIN node' : node'[o].cell = c /\ node'[o].g <= node[m].g + 1
    <3>1. ASSUME NEW o \in DOMAIN node, node[o].cell = c, node[o].g <= node[m].g + 1
          PROVE  \E a \in DOMAIN node' : node'[a].cell = c /\ node'[a].g <= node[m].g + 1
      <4>1. o \in DOMAIN node' /\ node'[o].cell = c /\ node'[o].g <= node[o].g
        BY <1>5, <1>7, <3>1
      <4>2. node'[o].g \in Nat
        <5>1. node'[o] \in NodeSet
          BY <4>1 DEF IsGrown
        <5> QED
          BY <5>1 DEF NodeSet
      <4>3. node'[o].g <= node[m].g + 1
        BY <1>1, <1>6, <3>1, <4>1, <4>2
      <4> QED
        BY <4>1, <4>3
    <3>2. CASE m \in Members(closed)
      <4>1. PICK o \in DOMAIN node : node[o].cell = c /\ node[o].g <= node[m].g + 1
        BY <2>1, <3>2 DEF NextCounted
      <4> QED
        BY <3>1, <4>1
    <3>3. CASE m = k /\ InClosed(cl, c)
      <4>1. PICK o \in Members(cl) : o \in DOMAIN node /\ node[o].cell = c
        BY <1>1, <3>3, HasNode
      <4>2. FValue(o) <= FValue(k)
        <5>1. CASE o = k
          BY <1>11, <4>1, <5>1
        <5>2. CASE o \in Members(closed)
          BY <1>3, <5>2 DEF Ordered
        <5> QED
          BY <1>3, <4>1, <5>1, <5>2
      <4> PICK b : b = node[k].cell
        OBVIOUS
      <4>3. HValue(b) \in Nat /\ HValue(c) \in Nat /\ HValue(b) <= HValue(c) + 1
        BY <1>1, <2>1, <3>3, Estimates
      <4>4. FValue(o) = node[o].g + HValue(c) /\ FValue(k) = g + HValue(b) /\ g \in Nat /\ node[o].g \in Nat
        BY <1>1, <4>1 DEF FValue
      <4>5. node[o].g <= g + 1
        <5> PICK u, v, x, y : u = node[o].g /\ v = g /\ x = HValue(b) /\ y = HValue(c)
          OBVIOUS
        <5>1. u \in Nat /\ v \in Nat /\ x \in Nat /\ y \in Nat /\ x <= y + 1
          BY <4>3, <4>4
        <5>2. u + y <= v + x
          BY <4>2, <4>4
        <5>3. u <= v + 1
          BY <5>1, <5>2, OneApart
        <5> QED
          BY <5>3
      <4> QED
        BY <3>1, <3>3, <4>1, <4>5
    <3>4. CASE m = k /\ IsIn(op, c) /\ ~InClosed(cl, c)
      <4>1. PICK o \in Members(op) : o \in DOMAIN node /\ node[o].cell = c
        BY <1>1, <3>4, HasNode
      <4>2. CASE o \in imp
        <5>1. o \in DOMAIN node' /\ node'[o].cell = c /\ node'[o].g = g + 1
          BY <4>1, <4>2 DEF IsGrown
        <5> QED
          BY <1>1, <3>4, <5>1
      <4>3. CASE o \notin imp
        <5>1. /\ \E d \in DOMAIN Neighbours(node[k].cell) : Neighbours(node[k].cell)[d] = node[o].cell
              /\ ~IsBlocked(node[o].cell)
          <6> PICK b : b = node[k].cell
            OBVIOUS
          <6>1. b \in Cells /\ IsNeighbour(b, c) /\ c \in Cells /\ c \notin blocked /\ node[o].cell = c
            BY <1>1, <2>1, <3>4, <4>1
          <6>2. DOMAIN Neighbours(b) = 1..4 /\ \E d \in 1..4 : Neighbours(b)[d] = c
            BY <6>1, NextTo
          <6> QED
            BY <6>1, <6>2 DEF IsBlocked
        <5>2. ~(node[o].g > g + 1)
          BY <3>4, <4>1, <4>3, <5>1 DEF Improved, Members
        <5>3. node[o].g <= g + 1
          BY <1>1, <4>1, <5>2
        <5> QED
          BY <3>1, <3>4, <4>1, <5>3
      <4> QED
        BY <4>2, <4>3
    <3>5. CASE m = k /\ ~IsIn(op, c) /\ ~InClosed(cl, c)
      <4>1. c \in Members(new)
        <5>1. \E d \in 1..4 : c = Neighbours(node[k].cell)[d]
          BY <1>1, <2>1, <3>5, NextTo
        <5>2. ~IsBlocked(c)
          BY DEF IsBlocked
        <5> QED
          BY <1>2, <3>5, <5>1, <5>2
      <4>2. PICK j \in DOMAIN new : new[j] = c
        BY <4>1 DEF Members
      <4>3. n + j \in DOMAIN node' /\ node'[n + j].cell = c /\ node'[n + j].g = g + 1
        BY <4>2 DEF IsGrown
      <4> QED
        BY <1>1, <3>5, <4>3
    <3> QED
      BY <1>3, <2>1, <3>2, <3>3, <3>4, <3>5
  <2>2. \A m \in Members(cl) : node'[m] = node[m]
    BY <1>6
  <2> QED
    BY <1>9, <2>1, <2>2 DEF NextCounted, IsNeighbour, Distance, Cells
<1>14. Counted'
  <2>1. Reached' = Reached
    BY DEF Reached, Around, IsNeighbour, Distance, Cells
  <2>2. \A j \in 1..most : Reached[j] = Around(Reached[j-1])
    BY <1>1, ReachedSteps
  <2>3. ASSUME NEW o \in DOMAIN node' PROVE node'[o].g <= o - 1 /\ node'[o].cell \in Reached[node'[o].g]
    <3>1. CASE o \in DOMAIN node /\ o \notin imp
      <4>1. node'[o] = node[o]
        BY <1>5, <3>1
      <4> QED
        BY <3>1, <4>1 DEF Counted
    <3>2. CASE o \notin DOMAIN node \/ o \in imp
      <4>1. /\ node'[o].g = g + 1 /\ node'[o].cell \in Cells /\ node'[o].cell \notin blocked
            /\ IsNeighbour(node[k].cell, node'[o].cell) /\ g + 1 <= o - 1 /\ g + 1 \in 1..most
        BY <1>4, <3>2
      <4>2. g + 1 - 1 = g /\ node[k].cell \in Reached[g]
        BY <1>1 DEF Counted
      <4>3. PICK j \in 1..most : j = g + 1 /\ j - 1 = g
        BY <1>1, <4>1
      <4>4. node'[o].cell \in Around(Reached[j-1])
        BY <4>1, <4>2, <4>3 DEF Around
      <4>5. node'[o].cell \in Reached[j]
        BY <2>2, <4>4
      <4> QED
        BY <4>1, <4>3, <4>5
    <3> QED
      BY <3>1, <3>2
  <2> QED
    BY <2>1, <2>3 DEF Counted
<1> QED
  BY <1>12, <1>13, <1>14

LEMMA RoundKeepsShort == ASSUME GridInv, ShortInv, Round PROVE ShortInv'
<1>1. PICK at, k, op, cl :
        /\ at = MinFIndex(open) /\ k = open[at] /\ cl = <<k>> \o closed
        /\ op = SubSeq(open, 1, at - 1) \o SubSeq(open, at + 1, Len(open))
  OBVIOUS
<1>2. IsMove(k, op, cl)
  BY <1>1, Moved DEF Round
<1>3. PICK new, imp : new = NewCells(k, op, cl) /\ imp = Improved(k, op, cl)
  OBVIOUS
<1>4. /\ pc = "search" /\ closed' = cl /\ open # <<>>
      /\ begin' = begin /\ end' = end /\ blocked' = blocked
      /\ AStarTypes /\ k \in DOMAIN node /\ Ordered /\ NextCounted /\ Counted
  BY <1>1, <1>2 DEF Round, IsMove, GridInv, ShortInv
<1>5. k \in Members(open) /\ \A o \in Members(open) : FValue(k) <= FValue(o)
  BY <1>1, <1>4, MinFIndexIn DEF Members
<1>6. CASE node[k].cell = end
  <2>1. pc' = "found" /\ node' = node
    BY <1>1, <1>6 DEF Round
  <2>2. cl[1] = k
    <3>1. <<k>> \in Seq(DOMAIN node) /\ closed \in Seq(DOMAIN node)
      BY <1>4 DEF AStarTypes
    <3> QED
      BY <1>1, <3>1
  <2>3. PICK g : g = node[k].g
    OBVIOUS
  <2>4. end \in Reached[g] /\ (g > 0 => end \notin Reached[g-1])
    BY <1>4, <1>5, <1>6, <2>3, RoundFinds
  <2>5. Reached' = Reached
    BY <1>4 DEF Reached, Around, IsNeighbour, Distance, Cells
  <2>6. FoundIsShortest'
    BY <1>4, <1>6, <2>1, <2>2, <2>3, <2>4, <2>5 DEF FoundIsShortest
  <2> QED
    BY <2>1, <2>6 DEF ShortInv
<1>7. CASE node[k].cell # end
  <2>1. /\ node' = [o \in 1..Len(node) + Len(new) |->
                      IF o > Len(node)
                      THEN [cell |-> new[o - Len(node)], g |-> node[k].g + 1, parent |-> k]
                      ELSE IF o \in imp THEN [cell |-> node[o].cell, g |-> node[k].g + 1,
                                              parent |-> k]
                      ELSE node[o]]
        /\ open' = op \o [p \in 1..Len(new) |-> Len(node) + p]
        /\ pc' \in {"search", "crashed"}
    BY <1>1, <1>3, <1>4, <1>7 DEF Round
  <2>2. new \in Seq(Cells)
    BY <1>3, <1>4, NewCellsAre
  <2>3. IsGrown(k, new, imp)
    BY <1>4, <2>1, <2>2, Grown
  <2>4. Len(node') <= Cardinality(Cells) + 1
    <3>1. GridInv'
      BY RoundStep
    <3>2. (GridInv => NodesSuffice)'
      BY InvNodes, PTL
    <3> QED
      BY <3>1, <3>2 DEF NodesSuffice, Cells
  <2>5. Ordered' /\ NextCounted' /\ Counted'
    BY <1>2, <1>3, <1>4, <1>5, <2>1, <2>3, <2>4, RoundKeepsCounts
  <2>6. FoundIsShortest'
    BY <2>1 DEF FoundIsShortest
  <2> QED
    BY <2>5, <2>6 DEF ShortInv
<1> QED
  BY <1>6, <1>7

\* A search begins with a node that counts no steps.
LEMMA BeginsShort == FindPath => ShortInv'
<1> SUFFICES ASSUME FindPath PROVE ShortInv'
  OBVIOUS
<1>1. /\ node' = <<[cell |-> begin', g |-> 0, parent |-> 0]>> /\ closed' = <<>>
      /\ begin' \in Cells /\ pc' \in {"search", "crashed"} /\ DOMAIN <<>> = {}
  BY DEF FindPath
<1>2. DOMAIN node' = {1} /\ node'[1].cell = begin' /\ node'[1].g = 0
  BY <1>1
<1>3. Members(closed)' = {}
  BY <1>1 DEF Members
<1>4. Ordered' /\ NextCounted'
  BY <1>3 DEF Ordered, NextCounted
<1>5. (begin \in Cells => Reached[0] = {begin})'
  BY ReachedAtOnce, PTL
<1>6. Counted'
  <2>1. Reached'[0] = {begin'}
    BY <1>1, <1>5 DEF Cells
  <2> QED
    BY <1>2, <2>1 DEF Counted
<1> QED
  BY <1>1, <1>4, <1>6 DEF ShortInv, FoundIsShortest

\* Every step on the grid keeps it.
LEMMA ShortStep == ASSUME GridInv, ShortInv, [AStarNext]_avars PROVE ShortInv'
<1>1. CASE Load \/ Recycle \/ Clear \/ NoPath
  <2>1. pc' \in {"idle", "cleared", "nopath"}
    BY <1>1 DEF Load, Recycle, Clear, NoPath
  <2> QED
    BY <2>1 DEF ShortInv, FoundIsShortest
<1>2. CASE FindPath
  BY <1>2, BeginsShort
<1>3. CASE Round
  BY <1>3, RoundKeepsShort
<1>4. CASE UNCHANGED avars
  <2>1. /\ blocked' = blocked /\ begin' = begin /\ end' = end /\ node' = node
        /\ open' = open /\ closed' = closed /\ pc' = pc
    BY <1>4 DEF avars
  <2>2. Reached' = Reached
    BY <2>1 DEF Reached, Around, IsNeighbour, Distance, Cells
  <2>3. Members(closed)' = Members(closed) /\ Members(open)' = Members(open)
    BY <2>1 DEF Members
  <2>4. Ordered => Ordered'
    <3>1. \A o : FValue(o)' = FValue(o)
      BY <2>1 DEF FValue, HValue, Distance
    <3> QED
      BY <2>3, <3>1 DEF Ordered
  <2>5. NextCounted => NextCounted'
    BY <2>1, <2>3 DEF NextCounted, IsNeighbour, Distance, Cells
  <2>6. (Counted => Counted') /\ FoundIsShortest'
    BY <2>1, <2>2 DEF Counted, ShortInv, FoundIsShortest
  <2> QED
    BY <2>1, <2>4, <2>5, <2>6 DEF ShortInv
<1> QED
  BY <1>1, <1>2, <1>3, <1>4 DEF AStarNext

LEMMA ShortStart == AStarInit => ShortInv
BY DEF AStarInit, ShortInv, FoundIsShortest

LEMMA InvShort == ShortInv => FoundIsShortest
BY DEF ShortInv

-----------------------------------------------------------------------------
(* The searches *)

\* Whatever was searched before, the nodes of a search form a tree with begin at its root,
\* whose steps g counts: get_result_list ends, with a path of g steps (hs_astar.cpp:150-160,
\* 274-296).
THEOREM GridTree == AStarSpec => []ParentsLeadBack
<1> QED
  BY GridStart, GridStep, InvParents, PTL DEF AStarSpec

\* A search on any map that gives up has visited all that can be reached, and not the end
\* (hs_astar.cpp:223-225, 263-284).
THEOREM GridNoPath == AStarSpec => []NoPathIsRight
<1> QED
  BY GridStart, GridStep, InvNoPath, PTL DEF AStarSpec

\* A search needs at most one node for each cell and one more, although is_in_closed does not
\* look at the oldest node of the closed list (hs_astar.cpp:44-53, 268-270).
THEOREM GridNodes == AStarSpec => []NodesSuffice
<1> QED
  BY GridStart, GridStep, InvNodes, PTL DEF AStarSpec

\* A search that finds its end gives a path without blocked cells that is as short as any
\* (hs_astar.cpp:225-234, 263-284).
THEOREM GridShortest == AStarSpec => []FoundIsShortest
<1> QED
  BY GridStart, GridStep, ShortStart, ShortStep, InvShort, PTL DEF AStarSpec

\* A step of both searches is one on the grid, or leaves it alone.
LEMMA GridOfSearches == [InGraph \/ OnGrid]_<<dvars, avars>> => [AStarNext]_avars
BY DEF InGraph, OnGrid

\* The parents lead back to begin beside the search in a graph, too (hs_astar.cpp:150-160).
THEOREM SearchesTree == SearchesSpec => []ParentsLeadBack
<1> QED
  BY GridStart, GridStep, GridOfSearches, InvParents, PTL DEF SearchesSpec, SearchesInit

\* So does a search that gives up rightly (hs_astar.cpp:223-225).
THEOREM SearchesNoPath == SearchesSpec => []NoPathIsRight
<1> QED
  BY GridStart, GridStep, GridOfSearches, InvNoPath, PTL DEF SearchesSpec, SearchesInit

\* And so does the number of nodes (hs_astar.cpp:44-53).
THEOREM SearchesNodes == SearchesSpec => []NodesSuffice
<1> QED
  BY GridStart, GridStep, GridOfSearches, InvNodes, PTL DEF SearchesSpec, SearchesInit

\* And the path that is found is as short as any (hs_astar.cpp:225-234).
THEOREM SearchesShortest == SearchesSpec => []FoundIsShortest
<1> QED
  BY GridStart, GridStep, ShortStart, ShortStep, GridOfSearches, InvShort, PTL
     DEF SearchesSpec, SearchesInit

\* A step of both searches is one in the graph, or leaves it alone.
LEMMA GraphOfSearches == [InGraph \/ OnGrid]_<<dvars, avars>> => [DijkstraNext]_dvars
BY DEF InGraph, OnGrid

\* Beside the search on the grid, too, the nodes settled in the graph have their shortest
\* paths, and so has the next (hs_Dijkstra.cpp:85-124).
THEOREM SearchesSettled == SearchesSpec => []SettledIsFinal
<1>1. DijkstraInv => SettledIsFinal
  BY CacheIsShortest
<1> QED
  BY <1>1, StartsRight, GraphStep, GraphOfSearches, PTL DEF SearchesSpec, SearchesInit

\* And when its loop ends, all paths in the graph are shortest (hs_Dijkstra.cpp:80-132).
THEOREM SearchesResult == SearchesSpec => []ResultIsShortest
<1>1. DijkstraInv => ResultIsShortest
  BY CacheIsShortest
<1> QED
  BY <1>1, StartsRight, GraphStep, GraphOfSearches, PTL DEF SearchesSpec, SearchesInit
=============================================================================
