-------------------------- MODULE Dijkstra_proofs --------------------------
(***************************************************************************)
(* The paths that dijkstra_get_path returns are shortest, whatever the     *)
(* graph.  A path that is found is one by construction; that there is none *)
(* shorter is shown by a bound from below: lengths that no edge shortens   *)
(* (NoneIsShorter) are nowhere more than the distances.                    *)
(***************************************************************************)
EXTENDS Dijkstra, SequenceTheorems, WellFoundedInduction, TLAPS

-----------------------------------------------------------------------------
(* Least elements and induction *)

\* Every set of natural numbers with an element has a least one.
LEMMA HasLeast ==
  ASSUME NEW S \in SUBSET Nat, S # {}
  PROVE  \E x \in S : \A y \in S : x <= y
<1> DEFINE Less == {ss \in Nat \X Nat : ss[1] < ss[2]}
<1>1. IsWellFoundedOn(Less, Nat)
  BY NatLessThanWellFounded, Zenon DEF OpToRel
<1>2. \E x \in S : \A y \in S : <<y, x>> \notin Less
  <2> HIDE DEF Less
  <2> QED
    BY <1>1, WFMin, Zenon
<1>3. ASSUME NEW x \in S, \A y \in S : <<y, x>> \notin Less
      PROVE  \A y \in S : x <= y
  <2> TAKE y \in S
  <2>1. <<y, x>> \in Nat \X Nat /\ x \in Nat /\ y \in Nat
    OBVIOUS
  <2>2. ~(<<y, x>>[1] < <<y, x>>[2])
    BY <1>3, <2>1
  <2> QED
    BY <2>1, <2>2
<1> QED
  BY <1>2, <1>3

\* Induction over an interval, by the least number outside a set
LEMMA Stepwise ==
  ASSUME NEW a \in Nat, NEW b \in Nat, NEW S,
         a \in S, \A k \in a+1..b : k - 1 \in S => k \in S
  PROVE  \A k \in a..b : k \in S
<1> DEFINE out == {k \in a..b : k \notin S}
<1>1. SUFFICES ASSUME out # {} PROVE FALSE
  OBVIOUS
<1>2. out \in SUBSET Nat
  OBVIOUS
<1>3. PICK x \in out : \A y \in out : x <= y
  <2> HIDE DEF out
  <2> QED
    BY <1>1, <1>2, HasLeast
<1>4. x \in a+1..b /\ x - 1 \in a..b /\ x - 1 \notin out
  BY <1>3
<1> QED
  BY <1>3, <1>4

\* The function on a..b that a recursive definition describes
Iterates(f, x, G, a, b) == f = [k \in a..b |-> IF k = a THEN x ELSE G[k][f[k-1]]]

\* A recursive definition on an interval has a solution, and it stays in the set that
\* its steps stay in.
LEMMA Iterated ==
  ASSUME NEW A, NEW x \in A, NEW a \in Nat, NEW b \in Nat, a <= b, NEW G,
         \A k \in a+1..b, y \in A : G[k][y] \in A
  PROVE  \E f \in [a..b -> A] : Iterates(f, x, G, a, b)
<1> DEFINE Solves(f, m) == f = [k \in a..m |-> IF k = a THEN x ELSE G[k][f[k-1]]]
           S == {m \in a..b : \E f \in [a..m -> A] : Solves(f, m)}
<1>1. a \in S
  <2> DEFINE f == [k \in a..a |-> x]
  <2>1. f \in [a..a -> A] /\ Solves(f, a)
    OBVIOUS
  <2>2. a \in a..b
    OBVIOUS
  <2> HIDE DEF f, Solves
  <2> QED
    BY <2>1, <2>2
<1>2. ASSUME NEW m \in a+1..b, m - 1 \in S PROVE m \in S
  <2>1. PICK f \in [a..m-1 -> A] : Solves(f, m - 1)
    BY <1>2
  <2> DEFINE g == [k \in a..m |-> IF k = m THEN G[m][f[m-1]] ELSE f[k]]
  <2>2. /\ m \in Int /\ a \in Int /\ m - 1 \in a..m-1 /\ m # a
        /\ \A k \in a..m : k = m \/ k \in a..m-1
        /\ \A k \in a+1..m : k - 1 \in a..m-1 /\ k - 1 # m
    OBVIOUS
  <2>3. f[m-1] \in A
    BY <2>2
  <2>4. g \in [a..m -> A]
    BY <1>2, <2>2, <2>3
  <2>5. \A k \in a..m-1 : g[k] = f[k]
    BY <2>2
  <2>6. g[m] = G[m][f[m-1]]
    BY <2>2
  <2>7. \A k \in a..m-1 : f[k] = IF k = a THEN x ELSE G[k][f[k-1]]
    BY <2>1
  <2> HIDE DEF g
  <2>8. ASSUME NEW k \in a..m PROVE g[k] = IF k = a THEN x ELSE G[k][g[k-1]]
    <3>1. CASE k = m
      BY <2>2, <2>5, <2>6, <3>1
    <3>2. CASE k \in a..m-1 /\ k = a
      BY <2>5, <2>7, <3>2
    <3>3. CASE k \in a..m-1 /\ k # a
      <4>1. k - 1 \in a..m-1
        BY <3>3
      <4> QED
        BY <2>5, <2>7, <3>3, <4>1
    <3> QED
      BY <2>2, <3>1, <3>2, <3>3
  <2>9. Solves(g, m)
    BY <2>4, <2>8
  <2> HIDE DEF Solves
  <2> QED
    BY <2>4, <2>9
<1>3. b \in S
  <2> HIDE DEF S
  <2>1. \A k \in a..b : k \in S
    BY <1>1, <1>2, Stepwise
  <2>2. b \in a..b
    OBVIOUS
  <2> QED
    BY <2>1, <2>2
<1> QED
  BY <1>3 DEF Iterates

LEMMA MinIsLeast ==
  ASSUME NEW S \in SUBSET Nat, S # {}
  PROVE  Min(S) \in S /\ \A y \in S : Min(S) <= y
<1>1. \E x \in S : \A y \in S : x <= y
  BY HasLeast
<1> QED
  BY <1>1, Zenon DEF Min

-----------------------------------------------------------------------------
(* The distances *)

\* No edge leads back to beginNode, and a path of N-1 edges fits an int32_t.
WeightsFit == \A m, n \in Nodes :
  /\ weight[m][n] \in Int /\ weight[m][beginNode] <= 0
  /\ weight[m][n] > 0 => weight[m][n] * (N - 1) <= IntMax

LEMMA InfiniteIsNat == Infinite \in Nat
<1>1. N \in Nat /\ IntMax \in Nat
  BY DijkstraAssumption
<1>2. N * IntMax \in Nat
  BY <1>1
<1> QED
  BY <1>2 DEF Infinite

\* What an edge more does to the lengths
LEMMA OneEdge ==
  ASSUME WeightsFit, NEW prev \in [Nodes -> Nat]
  PROVE  /\ OneMoreEdge(prev) \in [Nodes -> Nat]
         /\ \A n \in Nodes :
              /\ OneMoreEdge(prev)[n] <= prev[n]
              /\ \A m \in Nodes : weight[m][n] > 0 /\ prev[m] # Infinite =>
                                    OneMoreEdge(prev)[n] <= prev[m] + weight[m][n]
              /\ \/ OneMoreEdge(prev)[n] = prev[n]
                 \/ \E m \in Nodes : /\ weight[m][n] > 0
                                     /\ OneMoreEdge(prev)[n] = prev[m] + weight[m][n]
<1> DEFINE Ways(n) == {prev[n]} \cup {prev[m] + weight[m][n] :
                          m \in {m \in Nodes : weight[m][n] > 0 /\ prev[m] # Infinite}}
<1>1. OneMoreEdge(prev) = [n \in Nodes |-> Min(Ways(n))]
  BY Zenon DEF OneMoreEdge
<1>2. ASSUME NEW n \in Nodes PROVE Ways(n) \in SUBSET Nat /\ Ways(n) # {}
  BY DEF WeightsFit
<1>3. ASSUME NEW n \in Nodes
      PROVE  /\ OneMoreEdge(prev)[n] = Min(Ways(n))
             /\ Min(Ways(n)) \in Ways(n) /\ \A y \in Ways(n) : Min(Ways(n)) <= y
  <2> HIDE DEF Ways
  <2>1. OneMoreEdge(prev)[n] = Min(Ways(n))
    BY <1>1
  <2> QED
    BY <1>2, <2>1, MinIsLeast
<1>4. OneMoreEdge(prev) \in [Nodes -> Nat]
  <2> HIDE DEF Ways
  <2>1. \A n \in Nodes : Min(Ways(n)) \in Nat
    BY <1>2, <1>3
  <2> QED
    BY <1>1, <2>1
<1>5. ASSUME NEW n \in Nodes
      PROVE  /\ prev[n] \in Ways(n)
             /\ \A m \in Nodes : weight[m][n] > 0 /\ prev[m] # Infinite => prev[m] + weight[m][n] \in Ways(n)
             /\ \A y \in Ways(n) : y = prev[n] \/ \E m \in Nodes : weight[m][n] > 0 /\ y = prev[m] + weight[m][n]
  BY Zenon
<1> HIDE DEF Ways
<1>6. ASSUME NEW n \in Nodes
      PROVE  /\ OneMoreEdge(prev)[n] <= prev[n]
             /\ \A m \in Nodes : weight[m][n] > 0 /\ prev[m] # Infinite =>
                                   OneMoreEdge(prev)[n] <= prev[m] + weight[m][n]
             /\ \/ OneMoreEdge(prev)[n] = prev[n]
                \/ \E m \in Nodes : /\ weight[m][n] > 0
                                    /\ OneMoreEdge(prev)[n] = prev[m] + weight[m][n]
  <2>1. PICK y \in Ways(n) : OneMoreEdge(prev)[n] = y /\ \A z \in Ways(n) : y <= z
    BY <1>3, Zenon
  <2>2. y <= prev[n]
    BY <1>5, <2>1
  <2>3. \A m \in Nodes : weight[m][n] > 0 /\ prev[m] # Infinite => y <= prev[m] + weight[m][n]
    BY <1>5, <2>1
  <2>4. y = prev[n] \/ \E m \in Nodes : weight[m][n] > 0 /\ y = prev[m] + weight[m][n]
    BY <1>5
  <2> QED
    BY <2>1, <2>2, <2>3, <2>4
<1> QED
  BY <1>4, <1>6, Zenon

\* The lengths of no edge, and how those of paths with an edge more follow
LEMMA DistancesSteps ==
  ASSUME WeightsFit
  PROVE  /\ DistancesWithin \in [0..N-1 -> [Nodes -> Nat]]
         /\ DistancesWithin[0] = [n \in Nodes |-> IF n = beginNode THEN 0 ELSE Infinite]
         /\ \A k \in 1..N-1 : DistancesWithin[k] = OneMoreEdge(DistancesWithin[k-1])
<1> DEFINE A == [Nodes -> Nat]
           none == [n \in Nodes |-> IF n = beginNode THEN 0 ELSE Infinite]
           G == [k \in 1..N-1 |-> [y \in A |-> OneMoreEdge(y)]]
           Steps(f) == f = [k \in 0..N-1 |-> IF k = 0 THEN none ELSE OneMoreEdge(f[k-1])]
<1>1. N - 1 \in Nat /\ 0 <= N - 1 /\ 0 + 1 = 1 /\ 0 \in Nat
  BY DijkstraAssumption
<1>2. none \in A
  BY InfiniteIsNat
<1>3. \A k \in 1..N-1, y \in A : G[k][y] = OneMoreEdge(y) /\ G[k][y] \in A
  BY OneEdge
<1>4. \E f \in [0..N-1 -> A] : Iterates(f, none, G, 0, N - 1)
  <2> HIDE DEF A, none, G
  <2>1. \A k \in 0+1..N-1, y \in A : G[k][y] \in A
    BY <1>1, <1>3
  <2> QED
    BY <1>1, <1>2, <2>1, Iterated
<1>5. PICK f \in [0..N-1 -> A] : f = [k \in 0..N-1 |-> IF k = 0 THEN none ELSE G[k][f[k-1]]]
  BY <1>4, Zenon DEF Iterates
<1> HIDE DEF A, none, G
<1>6. \A k \in 0..N-1 : k = 0 \/ (k # 0 /\ k \in 1..N-1 /\ k - 1 \in 0..N-1)
  BY <1>1
<1>7. Steps(f)
  <2>1. \A k \in 0..N-1 : (IF k = 0 THEN none ELSE G[k][f[k-1]]) = IF k = 0 THEN none ELSE OneMoreEdge(f[k-1])
    <3> TAKE k \in 0..N-1
    <3>1. CASE k = 0
      BY <3>1
    <3>2. CASE k # 0
      <4>1. k \in 1..N-1 /\ f[k-1] \in A
        BY <1>5, <1>6, <3>2
      <4> QED
        BY <1>3, <3>2, <4>1
    <3> QED
      BY <3>1, <3>2
  <2> QED
    BY <1>5, <2>1
<1>8. Steps(DistancesWithin)
  <2>1. DistancesWithin = CHOOSE g : Steps(g)
    BY Zenon DEF DistancesWithin, none
  <2> HIDE DEF Steps
  <2> QED
    BY <1>7, <2>1
<1>9. /\ DistancesWithin[0] = none
      /\ \A k \in 1..N-1 : DistancesWithin[k] = OneMoreEdge(DistancesWithin[k-1])
  BY <1>1, <1>8
<1>10. \A k \in 0..N-1 : DistancesWithin[k] \in A
  <2> DEFINE S == {k \in 0..N-1 : DistancesWithin[k] \in A}
  <2>1. 0 \in S
    BY <1>1, <1>2, <1>9
  <2>2. \A k \in 0+1..N-1 : k - 1 \in S => k \in S
    <3> SUFFICES ASSUME NEW k \in 1..N-1, k - 1 \in S PROVE k \in S
      OBVIOUS
    <3>1. OneMoreEdge(DistancesWithin[k-1]) \in A
      BY OneEdge DEF A
    <3> QED
      BY <1>9, <3>1
  <2>3. 0 \in Nat
    OBVIOUS
  <2> HIDE DEF S
  <2>4. \A k \in 0..N-1 : k \in S
    BY <1>1, <2>1, <2>2, <2>3, Stepwise
  <2> QED
    BY <2>4 DEF S
<1>11. DistancesWithin \in [0..N-1 -> A]
  BY <1>8, <1>10
<1> QED
  BY <1>9, <1>11 DEF A, none

\* What holds of the lengths of no edge, and of those of an edge more when it holds of
\* the ones before, holds of the distances.
LEMMA DistancesAre ==
  ASSUME WeightsFit, NEW S,
         [n \in Nodes |-> IF n = beginNode THEN 0 ELSE Infinite] \in S,
         \A d \in [Nodes -> Nat] : d \in S => OneMoreEdge(d) \in S
  PROVE  Distances \in S /\ Distances \in [Nodes -> Nat]
<1> DEFINE T == {k \in 0..N-1 : DistancesWithin[k] \in S}
<1>1. N - 1 \in Nat /\ 0 \in 0..N-1 /\ N - 1 \in 0..N-1
  BY DijkstraAssumption
<1>2. \A k \in 0..N-1 : DistancesWithin[k] \in [Nodes -> Nat]
  BY DistancesSteps
<1>3. 0 \in T
  BY <1>1, DistancesSteps
<1>4. \A k \in 0+1..N-1 : k - 1 \in T => k \in T
  <2> SUFFICES ASSUME NEW k \in 1..N-1, k - 1 \in T PROVE k \in T
    OBVIOUS
  <2>1. k - 1 \in 0..N-1 /\ k \in 0..N-1 /\ DistancesWithin[k-1] \in S
    OBVIOUS
  <2>2. OneMoreEdge(DistancesWithin[k-1]) \in S
    BY <1>2, <2>1
  <2> QED
    BY <2>1, <2>2, DistancesSteps
<1>5. \A k \in 0..N-1 : k \in T
  <2> HIDE DEF T
  <2>1. 0 \in Nat
    OBVIOUS
  <2> QED
    BY <1>1, <1>3, <1>4, <2>1, Stepwise
<1> QED
  BY <1>1, <1>2, <1>5 DEF Distances

\* The bound from below: lengths that no edge makes shorter
LEMMA NoneIsShorter ==
  ASSUME WeightsFit, beginNode \in Nodes,
         NEW L \in [Nodes -> Int], L[beginNode] <= 0, \A n \in Nodes : L[n] <= Infinite,
         \A m, n \in Nodes : weight[m][n] > 0 => L[n] <= L[m] + weight[m][n]
  PROVE  \A n \in Nodes : L[n] <= Distances[n]
<1> DEFINE S == {d \in [Nodes -> Nat] : \A n \in Nodes : L[n] <= d[n]}
<1>1. [n \in Nodes |-> IF n = beginNode THEN 0 ELSE Infinite] \in S
  BY InfiniteIsNat
<1>2. ASSUME NEW d \in [Nodes -> Nat], d \in S PROVE OneMoreEdge(d) \in S
  <2> DEFINE e == OneMoreEdge(d)
  <2>1. /\ e \in [Nodes -> Nat]
        /\ \A n \in Nodes : \/ e[n] = d[n]
                            \/ \E m \in Nodes : weight[m][n] > 0 /\ e[n] = d[m] + weight[m][n]
    BY OneEdge
  <2> HIDE DEF e
  <2>2. ASSUME NEW n \in Nodes PROVE L[n] <= e[n]
    <3>1. CASE e[n] = d[n]
      BY <1>2, <3>1
    <3>2. ASSUME NEW m \in Nodes, weight[m][n] > 0, e[n] = d[m] + weight[m][n] PROVE L[n] <= e[n]
      <4>1. L[m] <= d[m] /\ L[n] <= L[m] + weight[m][n]
        BY <1>2, <3>2
      <4>2. L[m] \in Int /\ L[n] \in Int /\ d[m] \in Nat /\ weight[m][n] \in Int
        BY DEF WeightsFit
      <4> QED
        BY <3>2, <4>1, <4>2
    <3> QED
      BY <2>1, <3>1, <3>2
  <2>3. e \in S
    BY <2>1, <2>2
  <2> QED
    BY <2>3 DEF e
<1> HIDE DEF S
<1>3. Distances \in S
  BY <1>1, <1>2, DistancesAre
<1> QED
  BY <1>3 DEF S

\* Nothing is farther than Infinite, and beginNode is where it is.
LEMMA DistancesBounded ==
  ASSUME WeightsFit, beginNode \in Nodes
  PROVE  /\ Distances \in [Nodes -> Nat] /\ Distances[beginNode] = 0
         /\ \A n \in Nodes : Distances[n] <= Infinite
<1> DEFINE S == {d \in [Nodes -> Nat] : d[beginNode] <= 0 /\ \A n \in Nodes : d[n] <= Infinite}
<1>1. [n \in Nodes |-> IF n = beginNode THEN 0 ELSE Infinite] \in S
  BY InfiniteIsNat
<1>2. ASSUME NEW d \in [Nodes -> Nat], d \in S PROVE OneMoreEdge(d) \in S
  <2> DEFINE e == OneMoreEdge(d)
  <2>1. e \in [Nodes -> Nat] /\ \A n \in Nodes : e[n] <= d[n]
    BY OneEdge
  <2> HIDE DEF e
  <2>2. e \in S
    BY <1>2, <2>1, InfiniteIsNat
  <2> QED
    BY <2>2 DEF e
<1> HIDE DEF S
<1>3. Distances \in S
  BY <1>1, <1>2, DistancesAre
<1>4. Distances \in [Nodes -> Nat] /\ Distances[beginNode] <= 0 /\ \A n \in Nodes : Distances[n] <= Infinite
  BY <1>3 DEF S
<1> QED
  BY <1>4

-----------------------------------------------------------------------------
(* Paths and their lengths *)

\* The lengths of the parts of a path
IsLengths(l, p) == /\ l \in [1..Len(p) -> Int] /\ l[1] = weight[beginNode][p[1]]
                   /\ \A k \in 2..Len(p) : l[k] = l[k-1] + weight[p[k-1]][p[k]]

LEMMA Lengths ==
  ASSUME WeightsFit, beginNode \in Nodes, NEW p \in Seq(Nodes), p # <<>>
  PROVE  \E l : IsLengths(l, p) /\ LengthOf(p) = l[Len(p)]
<1> DEFINE x == weight[beginNode][p[1]]
           G == [k \in 2..Len(p) |-> [y \in Int |-> y + weight[p[k-1]][p[k]]]]
           Steps(l) == l = [k \in 1..Len(p) |-> IF k = 1 THEN weight[beginNode][p[1]]
                                                ELSE l[k-1] + weight[p[k-1]][p[k]]]
<1>1. Len(p) \in Nat /\ 1 <= Len(p) /\ \A k \in 1..Len(p) : p[k] \in Nodes
  OBVIOUS
<1>2. 1 \in Nat /\ 1 + 1 = 2 /\ 1 \in 1..Len(p) /\ x \in Int
  BY <1>1 DEF WeightsFit
<1>3. ASSUME NEW k \in 2..Len(p) PROVE k \in 1..Len(p) /\ k - 1 \in 1..Len(p) /\ weight[p[k-1]][p[k]] \in Int
  <2>1. k \in 1..Len(p) /\ k - 1 \in 1..Len(p)
    BY <1>1
  <2> QED
    BY <1>1, <2>1 DEF WeightsFit
<1>4. \A k \in 2..Len(p), y \in Int : G[k][y] = y + weight[p[k-1]][p[k]] /\ G[k][y] \in Int
  BY <1>3
<1>5. PICK l \in [1..Len(p) -> Int] : Iterates(l, x, G, 1, Len(p))
  <2> HIDE DEF G, x
  <2>1. \A k \in 1+1..Len(p), y \in Int : G[k][y] \in Int
    BY <1>2, <1>4
  <2> QED
    BY <1>1, <1>2, <2>1, Iterated
<1>6. l = [k \in 1..Len(p) |-> IF k = 1 THEN x ELSE G[k][l[k-1]]]
  BY <1>5, Zenon DEF Iterates
<1> HIDE DEF G
<1>7. ASSUME NEW k \in 2..Len(p) PROVE l[k] = l[k-1] + weight[p[k-1]][p[k]]
  <2>1. k \in 1..Len(p) /\ k # 1 /\ l[k-1] \in Int
    BY <1>3
  <2>2. l[k] = G[k][l[k-1]]
    BY <1>6, <2>1
  <2> QED
    BY <1>4, <2>1, <2>2
<1>8. l[1] = x
  BY <1>2, <1>6
<1>9. \A k \in 1..Len(p) : k = 1 \/ k \in 2..Len(p)
  BY <1>1
<1>10. Steps(l)
  <2>1. \A k \in 1..Len(p) : l[k] = IF k = 1 THEN weight[beginNode][p[1]] ELSE l[k-1] + weight[p[k-1]][p[k]]
    BY <1>7, <1>8, <1>9
  <2> QED
    BY <2>1
<1> DEFINE f == CHOOSE l_1 : Steps(l_1)
<1>11. LengthOf(p) = f[Len(p)]
  BY Zenon DEF LengthOf
<1>12. Steps(f)
  <2> HIDE DEF Steps
  <2> QED
    BY <1>10, Zenon
<1>13. IsLengths(l, p)
  BY <1>5, <1>7, <1>8 DEF IsLengths
<1>14. /\ f[1] = weight[beginNode][p[1]]
       /\ \A k \in 2..Len(p) : f[k] = f[k-1] + weight[p[k-1]][p[k]]
  <2> HIDE DEF f
  <2>1. \A k \in 2..Len(p) : k \in 1..Len(p) /\ k # 1
    BY <1>1
  <2> QED
    BY <1>2, <1>12, <2>1
<1> HIDE DEF f
<1>15. f[Len(p)] = l[Len(p)]
  <2> DEFINE S == {k \in 1..Len(p) : f[k] = l[k]}
  <2>1. 1 \in S
    BY <1>2, <1>8, <1>14
  <2>2. \A k \in 1+1..Len(p) : k - 1 \in S => k \in S
    <3> SUFFICES ASSUME NEW k \in 2..Len(p), k - 1 \in S PROVE k \in S
      OBVIOUS
    <3> QED
      BY <1>3, <1>7, <1>14
  <2> HIDE DEF S
  <2>3. \A k \in 1..Len(p) : k \in S
    BY <1>1, <1>2, <2>1, <2>2, Stepwise
  <2>4. Len(p) \in 1..Len(p)
    BY <1>1
  <2> QED
    BY <2>3, <2>4 DEF S
<1> QED
  BY <1>11, <1>13, <1>15

\* The lengths of the parts that two paths share are the same.
LEMMA SameLengths ==
  ASSUME NEW p \in Seq(Nodes), p # <<>>, NEW q \in Seq(Nodes), Len(p) <= Len(q),
         \A k \in 1..Len(p) : q[k] = p[k],
         NEW l, IsLengths(l, p), NEW h, IsLengths(h, q)
  PROVE  h[Len(p)] = l[Len(p)]
<1> DEFINE S == {k \in 1..Len(p) : h[k] = l[k]}
<1>1. Len(p) \in Nat /\ Len(q) \in Nat /\ 1 \in 1..Len(p) /\ Len(p) \in 1..Len(p) /\ 1 \in Nat
  OBVIOUS
<1>2. 1 \in S
  BY <1>1 DEF IsLengths
<1>3. \A k \in 1+1..Len(p) : k - 1 \in S => k \in S
  <2> SUFFICES ASSUME NEW k \in 2..Len(p), k - 1 \in S PROVE k \in S
    OBVIOUS
  <2>1. k \in 1..Len(p) /\ k - 1 \in 1..Len(p) /\ k \in 2..Len(q)
    BY <1>1
  <2>2. /\ l[k] = l[k-1] + weight[p[k-1]][p[k]]
        /\ h[k] = h[k-1] + weight[q[k-1]][q[k]]
    BY <2>1 DEF IsLengths
  <2> QED
    BY <2>1, <2>2
<1> HIDE DEF S
<1>4. \A k \in 1..Len(p) : k \in S
  BY <1>1, <1>2, <1>3, Stepwise
<1> QED
  BY <1>1, <1>4 DEF S

\* A path with an edge more: m is where the path ends, or beginNode when it has no edge.
LEMMA PathExtends ==
  ASSUME WeightsFit, beginNode \in Nodes,
         NEW p \in Seq(Nodes), NEW m \in Nodes, NEW n \in Nodes, NEW len \in Nat, weight[m][n] > 0,
         \/ p = <<>> /\ m = beginNode /\ len = 0
         \/ IsPathTo(p, m) /\ LengthOf(p) = len
  PROVE  /\ Append(p, n) \in Seq(Nodes) /\ Len(Append(p, n)) = Len(p) + 1
         /\ IsPathTo(Append(p, n), n) /\ LengthOf(Append(p, n)) = len + weight[m][n]
<1> DEFINE q == Append(p, n)
<1>1. /\ q \in Seq(Nodes) /\ Len(q) = Len(p) + 1 /\ q[Len(p) + 1] = n
      /\ \A k \in 1..Len(p) : q[k] = p[k]
  BY AppendProperties
<1> HIDE DEF q
<1>2. Len(p) \in Nat /\ q # <<>> /\ weight[m][n] \in Int
  BY <1>1 DEF WeightsFit
<1>3. PICK h : IsLengths(h, q) /\ LengthOf(q) = h[Len(q)]
  BY <1>1, <1>2, Lengths
<1>4. CASE p = <<>> /\ m = beginNode /\ len = 0
  <2>1. Len(q) = 1 /\ q[1] = n
    BY <1>1, <1>4
  <2>2. IsPathTo(q, n)
    BY <1>2, <1>4, <2>1 DEF IsPathTo
  <2>3. LengthOf(q) = weight[m][n]
    BY <1>3, <1>4, <2>1 DEF IsLengths
  <2> QED
    BY <1>1, <1>2, <1>4, <2>2, <2>3 DEF q
<1>5. CASE IsPathTo(p, m) /\ LengthOf(p) = len
  <2>1. /\ p # <<>> /\ Len(p) >= 1 /\ p[Len(p)] = m /\ weight[beginNode][p[1]] > 0
        /\ \A k \in 1..Len(p)-1 : weight[p[k]][p[k+1]] > 0
    BY <1>2, <1>5 DEF IsPathTo
  <2>2. PICK l : IsLengths(l, p) /\ LengthOf(p) = l[Len(p)]
    BY <2>1, Lengths
  <2>3. h[Len(p)] = len
    BY <1>1, <1>2, <1>3, <1>5, <2>1, <2>2, SameLengths
  <2>4. q[Len(p)] = m /\ q[1] = p[1] /\ Len(q) \in 2..Len(q) /\ Len(q) - 1 = Len(p)
    BY <1>1, <1>2, <2>1
  <2>5. LengthOf(q) = len + weight[m][n]
    <3>1. h[Len(q)] = h[Len(q) - 1] + weight[q[Len(q) - 1]][q[Len(q)]]
      BY <1>3, <2>4 DEF IsLengths
    <3> QED
      BY <1>1, <1>3, <2>3, <2>4, <3>1
  <2>6. ASSUME NEW k \in 1..Len(q)-1 PROVE weight[q[k]][q[k+1]] > 0
    <3>1. k \in 1..Len(p) /\ (k = Len(p) \/ (k \in 1..Len(p)-1 /\ k + 1 \in 1..Len(p)))
      BY <1>2, <2>4
    <3>2. CASE k = Len(p)
      BY <1>1, <2>4, <3>2
    <3>3. CASE k \in 1..Len(p)-1 /\ k + 1 \in 1..Len(p)
      BY <1>1, <2>1, <3>1, <3>3
    <3> QED
      BY <3>1, <3>2, <3>3
  <2>7. IsPathTo(q, n)
    BY <1>1, <1>2, <2>1, <2>4, <2>6 DEF IsPathTo
  <2> QED
    BY <1>1, <2>5, <2>7 DEF q
<1> QED
  BY <1>4, <1>5

\* The bound from above: a path of N-1 edges at most
LEMMA PathIsLonger ==
  ASSUME WeightsFit, beginNode \in Nodes, NEW n \in Nodes,
         NEW p \in Seq(Nodes), IsPathTo(p, n), Len(p) <= N - 1
  PROVE  Distances[n] <= LengthOf(p) /\ LengthOf(p) < Infinite
<1>1. /\ p # <<>> /\ Len(p) \in Nat /\ Len(p) >= 1 /\ p[Len(p)] = n /\ weight[beginNode][p[1]] > 0
      /\ \A k \in 1..Len(p)-1 : weight[p[k]][p[k+1]] > 0
      /\ \A k \in 1..Len(p) : p[k] \in Nodes
  BY DEF IsPathTo
<1>2. N \in Nat /\ IntMax \in Nat /\ N - 1 \in Nat /\ N - 1 >= 1 /\ Len(p) \in 1..N-1 /\ 0 \in 0..N-1
  BY <1>1, DijkstraAssumption
<1>3. PICK l : IsLengths(l, p) /\ LengthOf(p) = l[Len(p)]
  BY <1>1, Lengths
\* The ends of the k-th edge, and the length before it
<1> DEFINE From(k) == IF k = 1 THEN beginNode ELSE p[k-1]
           Before(k) == IF k = 1 THEN 0 ELSE l[k-1]
<1>4. ASSUME NEW k \in 1..Len(p)
      PROVE  /\ From(k) \in Nodes /\ p[k] \in Nodes /\ weight[From(k)][p[k]] > 0
             /\ weight[From(k)][p[k]] \in Nat /\ weight[From(k)][p[k]] * (N - 1) <= IntMax
             /\ l[k] \in Int /\ Before(k) \in Int
             /\ l[k] = Before(k) + weight[From(k)][p[k]]
  <2>1. CASE k = 1
    <3>1. From(k) \in Nodes /\ p[k] \in Nodes /\ weight[From(k)][p[k]] > 0
      BY <1>1, <2>1
    <3>2. weight[From(k)][p[k]] \in Int /\ weight[From(k)][p[k]] * (N - 1) <= IntMax
      BY <3>1 DEF WeightsFit
    <3>3. l[k] \in Int /\ l[k] = weight[From(k)][p[k]] /\ Before(k) = 0
      BY <1>3, <2>1 DEF IsLengths
    <3> QED
      BY <3>1, <3>2, <3>3
  <2>2. CASE k # 1
    <3>1. k \in 2..Len(p) /\ k - 1 \in 1..Len(p)-1 /\ k - 1 \in 1..Len(p) /\ k - 1 + 1 = k
      BY <1>1, <2>2
    <3>2. From(k) = p[k-1] /\ Before(k) = l[k-1]
      BY <2>2
    <3>3. From(k) \in Nodes /\ p[k] \in Nodes /\ weight[From(k)][p[k]] > 0
      BY <1>1, <3>1, <3>2
    <3>4. weight[From(k)][p[k]] \in Int /\ weight[From(k)][p[k]] * (N - 1) <= IntMax
      BY <3>3 DEF WeightsFit
    <3>5. l[k] \in Int /\ l[k-1] \in Int /\ l[k] = l[k-1] + weight[From(k)][p[k]]
      BY <1>3, <3>1, <3>2 DEF IsLengths
    <3> QED
      BY <3>2, <3>3, <3>4, <3>5
  <2> QED
    BY <2>1, <2>2
\* Each edge adds IntMax \div (N-1) at most.
<1>5. \A k \in 1..Len(p) : l[k] * (N - 1) <= k * IntMax
  <2> DEFINE S == {k \in 1..Len(p) : l[k] * (N - 1) <= k * IntMax}
  <2>1. 1 \in S
    <3>1. 1 \in 1..Len(p)
      BY <1>1
    <3>2. l[1] = weight[From(1)][p[1]] /\ weight[From(1)][p[1]] * (N - 1) <= IntMax
      BY <1>4, <3>1
    <3> QED
      BY <1>2, <3>1, <3>2
  <2>2. ASSUME NEW k \in 2..Len(p), k - 1 \in S PROVE k \in S
    <3> DEFINE w == weight[From(k)][p[k]]
    <3>1. k \in 1..Len(p) /\ k - 1 \in 1..Len(p)
      BY <1>1
    <3>2. w \in Nat /\ w * (N - 1) <= IntMax /\ l[k-1] \in Int /\ l[k] = l[k-1] + w
      BY <1>4, <3>1
    <3>3. l[k-1] * (N - 1) <= (k - 1) * IntMax
      BY <2>2
    <3> HIDE DEF w
    <3>4. (l[k-1] + w) * (N - 1) = l[k-1] * (N - 1) + w * (N - 1) /\ (k - 1) * IntMax + IntMax = k * IntMax
      BY <1>2, <3>2
    <3>5. l[k-1] * (N - 1) \in Int /\ w * (N - 1) \in Int /\ (k - 1) * IntMax \in Int
      BY <1>2, <3>2
    <3> QED
      BY <1>2, <3>1, <3>2, <3>3, <3>4, <3>5
  <2> HIDE DEF S
  <2>3. 1 \in Nat /\ \A k \in 1+1..Len(p) : k - 1 \in S => k \in S
    BY <2>2
  <2>4. \A k \in 1..Len(p) : k \in S
    BY <1>1, <2>1, <2>3, Stepwise
  <2> QED
    BY <2>4 DEF S
<1>6. \A k \in 1..Len(p) : l[k] <= IntMax
  <2> TAKE k \in 1..Len(p)
  <2>1. l[k] \in Int /\ k \in Int /\ k <= N - 1 /\ l[k] * (N - 1) <= k * IntMax
    BY <1>2, <1>4, <1>5
  <2>2. k * IntMax <= (N - 1) * IntMax
    BY <1>2, <2>1
  <2>3. l[k] * (N - 1) <= IntMax * (N - 1)
    <3>1. (N - 1) * IntMax = IntMax * (N - 1)
      BY <1>2
    <3>2. l[k] * (N - 1) \in Int /\ k * IntMax \in Int /\ IntMax * (N - 1) \in Int
      BY <1>2, <2>1
    <3>3. \A x, y, z \in Int : x <= y /\ y <= z => x <= z
      OBVIOUS
    <3>4. k * IntMax <= IntMax * (N - 1)
      BY <2>2, <3>1
    <3> QED
      BY <2>1, <3>2, <3>3, <3>4
  <2>4. \A b, c \in Int : c >= 1 /\ b >= 1 => b * c >= 1
    OBVIOUS
  <2>5. (l[k] - IntMax) * (N - 1) = l[k] * (N - 1) - IntMax * (N - 1)
    BY <1>2, <2>1
  <2>6. l[k] * (N - 1) \in Int /\ IntMax * (N - 1) \in Int /\ l[k] - IntMax \in Int
    BY <1>2, <2>1
  <2>7. ~((l[k] - IntMax) * (N - 1) >= 1)
    BY <2>3, <2>5, <2>6
  <2>8. ~(l[k] - IntMax >= 1)
    BY <1>2, <2>4, <2>6, <2>7
  <2> QED
    BY <1>2, <2>1, <2>8
<1>7. IntMax < Infinite
  <2>1. IntMax <= N * IntMax
    BY <1>2
  <2> QED
    BY <1>2, <2>1 DEF Infinite
\* Lengths of k edges at most are no more than those of the parts of the path with k edges.
<1>8. \A k \in 0..N-1 : /\ DistancesWithin[k][beginNode] <= 0
                        /\ \A j \in 1..Len(p) : j <= k => DistancesWithin[k][p[j]] <= l[j]
  <2> DEFINE S == {k \in 0..N-1 : /\ DistancesWithin[k][beginNode] <= 0
                                  /\ \A j \in 1..Len(p) : j <= k => DistancesWithin[k][p[j]] <= l[j]}
  <2>1. 0 \in S
    BY <1>2, DistancesSteps
  <2>2. ASSUME NEW k \in 1..N-1, k - 1 \in S PROVE k \in S
    <3> DEFINE d == DistancesWithin[k-1]
               e == DistancesWithin[k]
    <3>1. k - 1 \in 0..N-1 /\ k \in 0..N-1
      BY <1>2
    <3>2. /\ d \in [Nodes -> Nat] /\ d[beginNode] <= 0
          /\ \A j \in 1..Len(p) : j <= k - 1 => d[p[j]] <= l[j]
      BY <2>2, <3>1, DistancesSteps
    <3>3. e = OneMoreEdge(d)
      BY DistancesSteps
    <3> HIDE DEF d, e
    <3>4. /\ e \in [Nodes -> Nat]
          /\ \A a \in Nodes :
               /\ e[a] <= d[a]
               /\ \A m \in Nodes : weight[m][a] > 0 /\ d[m] # Infinite => e[a] <= d[m] + weight[m][a]
      BY <3>2, <3>3, OneEdge
    <3>5. e[beginNode] <= 0
      BY <3>2, <3>4
    <3>6. ASSUME NEW j \in 1..Len(p), j <= k PROVE e[p[j]] <= l[j]
      <4>0. p[j] \in Nodes /\ From(j) \in Nodes
        BY <1>4
      <4>1. CASE j <= k - 1
        <5>1. d[p[j]] <= l[j] /\ e[p[j]] <= d[p[j]]
          BY <3>2, <3>4, <4>0, <4>1
        <5> QED
          BY <1>4, <3>2, <3>4, <4>0, <5>1
      <4>2. CASE j = k
        <5>1. d[From(j)] <= Before(j) /\ Before(j) <= IntMax
          <6>1. CASE j = 1
            BY <1>2, <3>2, <6>1
          <6>2. CASE j # 1
            <7>1. j - 1 \in 1..Len(p) /\ j - 1 <= k - 1
              BY <1>1, <4>2, <6>2
            <7> QED
              BY <1>6, <3>2, <6>2, <7>1
          <6> QED
            BY <6>1, <6>2
        <5> DEFINE a == From(j)
                   b == Before(j)
                   w == weight[From(j)][p[j]]
        <5>2. a \in Nodes /\ b \in Int /\ w \in Nat /\ w > 0 /\ l[j] \in Int /\ l[j] = b + w
          BY <1>4
        <5>3. d[a] <= b /\ b <= IntMax /\ weight[a][p[j]] = w
          BY <5>1
        <5> HIDE DEF a, b, w
        <5>4. d[a] # Infinite
          BY <1>2, <1>7, <3>2, <5>2, <5>3, InfiniteIsNat
        <5>5. e[p[j]] <= d[a] + w
          BY <3>4, <4>0, <5>2, <5>3, <5>4
        <5>6. e[p[j]] \in Nat /\ d[a] \in Nat
          BY <3>2, <3>4, <4>0, <5>2
        <5> QED
          BY <5>2, <5>3, <5>5, <5>6
      <4> QED
        BY <1>2, <3>6, <4>1, <4>2
    <3> QED
      BY <3>1, <3>5, <3>6 DEF e
  <2> HIDE DEF S
  <2>3. 0 \in Nat /\ \A k \in 0+1..N-1 : k - 1 \in S => k \in S
    BY <2>2
  <2>4. \A k \in 0..N-1 : k \in S
    BY <1>2, <2>1, <2>3, Stepwise
  <2> QED
    BY <2>4 DEF S
<1>9. Distances[n] <= LengthOf(p)
  <2>1. N - 1 \in 0..N-1 /\ Len(p) \in 1..Len(p) /\ Len(p) <= N - 1
    BY <1>1, <1>2
  <2> QED
    BY <1>1, <1>3, <1>8, <2>1 DEF Distances
<1>10. LengthOf(p) < Infinite
  <2>1. Len(p) \in 1..Len(p) /\ l[Len(p)] \in Int
    BY <1>1, <1>4
  <2> QED
    BY <1>2, <1>3, <1>6, <1>7, <2>1, InfiniteIsNat
<1> QED
  BY <1>9, <1>10

-----------------------------------------------------------------------------
(* The inductive invariant *)

Settled == {used[k] : k \in 1..i-1}

Reaches(n) == cache[n] # Unreached

\* Each node has one place.
Permutation == /\ used \in [Nodes -> Nodes]
               /\ \A j, k \in Nodes : used[j] = used[k] => j = k
               /\ \A n \in Nodes : \E k \in Nodes : used[k] = n

Rounds == /\ i \in 1..N+1 /\ beginNode \in Nodes
          /\ IF i = 1 THEN \A n \in Nodes : ~Reaches(n)
             ELSE beginNode \in Settled /\ \A n \in Settled \ {beginNode} : Reaches(n)

\* What is in the cache is a path and its length, and none leads back to beginNode.
PathsKept == /\ cache \in [Nodes -> [nodes : Seq(Nodes), len : Nat]]
             /\ ~Reaches(beginNode)
             /\ \A n \in Nodes : Reaches(n) =>
                  /\ cache[n].len > 0
                  /\ \E p \in Seq(Nodes) : p = cache[n].nodes /\ IsPathTo(p, n) /\ LengthOf(p) = cache[n].len

\* A path has at most one edge for each node settled before its last one.
FewEdges == /\ \A k \in 1..i-1 : Len(cache[used[k]].nodes) <= k - 1
            /\ \A n \in Nodes : Len(cache[n].nodes) <= i - 1

\* No edge from a settled node offers a shorter path.
RelaxedAll == \A m \in Settled, n \in Nodes : weight[m][n] > 0 =>
                Reaches(n) /\ cache[n].len <= cache[m].len + weight[m][n]

\* Settled nodes are not farther than the others.
Nearer == \A m \in Settled, n \in Nodes \ Settled : Reaches(n) => cache[m].len <= cache[n].len

\* The next node is the nearest of the rest, if a node of the rest is reached at all.
NextNearest ==
  IF i = 1 THEN use = beginNode
  ELSE /\ use = 0 => \A n \in Nodes \ Settled : ~Reaches(n)
       /\ use # 0 => /\ use \in Nodes \ Settled /\ Reaches(use)
                     /\ \A n \in Nodes \ Settled : Reaches(n) => cache[use].len <= cache[n].len

DijkstraInv == /\ WeightsFit /\ Permutation /\ Rounds /\ PathsKept /\ FewEdges
               /\ RelaxedAll /\ Nearer /\ NextNearest

-----------------------------------------------------------------------------
(* The first round starts from it. *)

LEMMA StartsRight == DijkstraInit => DijkstraInv
<1> SUFFICES ASSUME DijkstraInit PROVE DijkstraInv
  OBVIOUS
<1>1. /\ beginNode \in Begins /\ beginNode \in Nodes /\ N \in Nat /\ N >= 1
      /\ used = [n \in Nodes |-> n] /\ cache = [n \in Nodes |-> Unreached]
      /\ use = beginNode /\ i = 1
  BY DijkstraAssumption DEF DijkstraInit, Nodes
<1>2. Settled = {} /\ Unreached \in [nodes : Seq(Nodes), len : Nat] /\ Len(Unreached.nodes) = 0
  BY <1>1 DEF Settled, Unreached
<1>3. \A n \in Nodes : cache[n] = Unreached
  BY <1>1
<1>4. WeightsFit
  <2>1. PICK w \in [EdgesFrom(beginNode) -> Weights] :
          weight = [n \in Nodes |-> [m \in Nodes |->
                      IF <<n, m>> \in EdgesFrom(beginNode) THEN w[<<n, m>>] ELSE 0]]
    BY DEF DijkstraInit
  <2>2. ASSUME NEW m \in Nodes, NEW n \in Nodes
        PROVE  weight[m][n] \in Int /\ (weight[m][n] > 0 => weight[m][n] * (N - 1) <= IntMax)
    <3>1. CASE <<m, n>> \in EdgesFrom(beginNode)
      <4>1. PICK v \in Weights : weight[m][n] = v
        <5>1. w[<<m, n>>] \in Weights
          BY <2>1, <3>1
        <5>2. weight[m][n] = w[<<m, n>>]
          BY <2>1, <3>1
        <5> QED
          BY <5>1, <5>2
      <4>2. v \in Int /\ (N - 1) * v <= IntMax /\ (N - 1) * v = v * (N - 1)
        BY <1>1, DijkstraAssumption
      <4> QED
        BY <4>1, <4>2
    <3>2. CASE <<m, n>> \notin EdgesFrom(beginNode)
      BY <2>1, <3>2
    <3> QED
      BY <3>1, <3>2
  <2>3. ASSUME NEW m \in Nodes PROVE weight[m][beginNode] <= 0
    <3>1. <<m, beginNode>> \notin EdgesFrom(beginNode)
      BY DEF EdgesFrom
    <3> QED
      BY <1>1, <2>1, <3>1
  <2> QED
    BY <2>2, <2>3 DEF WeightsFit
<1>5. Permutation
  BY <1>1 DEF Permutation
<1>6. Rounds
  BY <1>1, <1>3 DEF Rounds, Reaches
<1>7. PathsKept
  BY <1>1, <1>2, <1>3 DEF PathsKept, Reaches
<1>8. FewEdges
  BY <1>1, <1>2, <1>3 DEF FewEdges
<1>9. RelaxedAll /\ Nearer /\ NextNearest
  BY <1>1, <1>2 DEF RelaxedAll, Nearer, NextNearest
<1> QED
  BY <1>4, <1>5, <1>6, <1>7, <1>8, <1>9 DEF DijkstraInv

-----------------------------------------------------------------------------
(* A round *)

\* The first of the nearest nodes from position k on, or none
LEMMA NearestIs ==
  ASSUME NEW u \in [Nodes -> Nodes], NEW c \in [Nodes -> [nodes : Seq(Nodes), len : Nat]],
         NEW k \in Nat \ {0}
  PROVE  \/ Nearest(u, c, k) = 0 /\ \A p \in k..N : ~(c[u[p]].len > 0)
         \/ \E p \in k..N : /\ Nearest(u, c, k) = u[p] /\ c[u[p]].len > 0
                            /\ \A q \in k..N : c[u[q]].len > 0 => c[u[p]].len <= c[u[q]].len
<1> DEFINE reached == {p \in k..N : c[u[p]].len > 0}
           least   == {p \in reached : \A q \in reached : c[u[p]].len <= c[u[q]].len}
           lens    == {c[u[p]].len : p \in reached}
<1>1. Nearest(u, c, k) = IF reached = {} THEN 0 ELSE u[Min(least)]
  BY Zenon DEF Nearest
<1>2. \A p \in k..N : p \in Nat /\ p \in Nodes /\ u[p] \in Nodes /\ c[u[p]].len \in Nat
  <2> TAKE p \in k..N
  <2>1. p \in Nat /\ p \in Nodes
    BY DijkstraAssumption DEF Nodes
  <2>2. u[p] \in Nodes
    BY <2>1
  <2>3. c[u[p]] \in [nodes : Seq(Nodes), len : Nat]
    BY <2>2
  <2> QED
    BY <2>1, <2>2, <2>3
<1>3. CASE reached = {}
  BY <1>1, <1>3
<1>4. CASE reached # {}
  <2>1. lens \in SUBSET Nat /\ lens # {}
    <3>1. \A p \in reached : c[u[p]].len \in Nat
      BY <1>2
    <3>2. PICK p \in reached : TRUE
      BY <1>4
    <3>3. c[u[p]].len \in lens
      BY <3>2
    <3>4. \A x \in lens : x \in Nat
      BY <3>1
    <3> HIDE DEF lens
    <3> QED
      BY <3>3, <3>4
  <2>2. PICK x \in lens : \A y \in lens : x <= y
    <3> HIDE DEF lens
    <3> QED
      BY <2>1, HasLeast
  <2>3. least # {}
    <3>1. PICK p \in reached : c[u[p]].len = x
      OBVIOUS
    <3>2. \A q \in reached : c[u[p]].len <= c[u[q]].len
      BY <2>2, <3>1
    <3> QED
      BY <3>1, <3>2, Zenon
  <2>4. least \in SUBSET Nat
    BY <1>2
  <2>5. Min(least) \in least
    <3> HIDE DEF least
    <3> QED
      BY <2>3, <2>4, MinIsLeast
  <2>6. PICK p \in least : Nearest(u, c, k) = u[p]
    <3>1. Nearest(u, c, k) = u[Min(least)]
      BY <1>1, <1>4, Zenon
    <3> QED
      BY <2>5, <3>1, Zenon
  <2> QED
    BY <2>6
<1> QED
  BY <1>3, <1>4

\* What is cached for a node says whether the node is reached.
LEMMA ReachedOrNot ==
  ASSUME PathsKept, NEW n \in Nodes
  PROVE  /\ cache[n] \in [nodes : Seq(Nodes), len : Nat]
         /\ Reaches(n) => /\ n # beginNode /\ cache[n].nodes # <<>> /\ cache[n].len > 0
                          /\ IsPathTo(cache[n].nodes, n) /\ LengthOf(cache[n].nodes) = cache[n].len
         /\ ~Reaches(n) => cache[n].nodes = <<>> /\ cache[n].len = 0
<1>1. cache[n] \in [nodes : Seq(Nodes), len : Nat]
  BY DEF PathsKept
<1>2. ASSUME Reaches(n)
      PROVE  /\ n # beginNode /\ cache[n].len > 0
             /\ IsPathTo(cache[n].nodes, n) /\ LengthOf(cache[n].nodes) = cache[n].len
  BY <1>2, Zenon DEF PathsKept
<1>3. ASSUME Reaches(n) PROVE cache[n].nodes # <<>>
  BY <1>2, <1>3, Zenon DEF IsPathTo
<1>4. ASSUME ~Reaches(n) PROVE cache[n].nodes = <<>> /\ cache[n].len = 0
  BY <1>4 DEF Reaches, Unreached
<1> QED
  BY <1>1, <1>2, <1>3, <1>4

\* The places of the nodes after a round
LEMMA RoundPlaces ==
  ASSUME DijkstraInv, SettleNode
  PROVE  /\ i \in 1..N /\ i' = i + 1 /\ use \in Nodes \ Settled
         /\ Permutation' /\ used'[i] = use /\ \A k \in 1..i-1 : used'[k] = used[k]
         /\ Settled' = Settled \cup {use}
         /\ {used'[j] : j \in i+1..N} = Nodes \ (Settled \cup {use})
<1>1. /\ i <= N /\ use # 0 /\ used' = SetUsedNodeToPos(used, use, i) /\ i' = i + 1
      /\ N \in Nat /\ i \in 1..N+1 /\ beginNode \in Nodes
  BY DijkstraAssumption DEF SettleNode, DijkstraInv, Rounds
<1>2. N \in Nat /\ i \in 1..N /\ i \in Nodes /\ i - 1 \in Nat
  BY <1>1 DEF Nodes
<1>3. use \in Nodes \ Settled
  BY <1>1 DEF DijkstraInv, NextNearest, Settled
<1>4. /\ used \in [Nodes -> Nodes]
      /\ \A j, k \in Nodes : used[j] = used[k] => j = k
      /\ \A n \in Nodes : \E k \in Nodes : used[k] = n
  BY DEF DijkstraInv, Permutation
<1>5. PICK at \in i..N : used[at] = use /\ used' = [used EXCEPT ![i] = use, ![at] = used[i]]
  <2>1. \E k \in i..N : used[k] = use
    <3>1. PICK k \in Nodes : used[k] = use
      BY <1>3, <1>4
    <3>2. k \notin 1..i-1
      BY <1>3, <3>1 DEF Settled
    <3>3. k \in i..N
      BY <1>2, <3>2 DEF Nodes
    <3> QED
      BY <3>1, <3>3
  <2> DEFINE c == CHOOSE k \in i..N : used[k] = use
  <2>2. c \in i..N /\ used[c] = use
    BY <2>1, Zenon
  <2>3. used' = [used EXCEPT ![i] = use, ![c] = used[i]]
    BY <1>1, Zenon DEF SetUsedNodeToPos
  <2> HIDE DEF c
  <2> QED
    BY <2>2, <2>3
<1>6. at \in Nodes
  BY <1>2 DEF Nodes
\* used' is used with the positions i and at swapped.
<1> DEFINE s == [k \in Nodes |-> IF k = i THEN at ELSE IF k = at THEN i ELSE k]
<1>7. /\ s \in [Nodes -> Nodes] /\ \A k \in Nodes : s[s[k]] = k
      /\ s[i] = at /\ s[at] = i /\ \A k \in Nodes : k # i /\ k # at => s[k] = k
  BY <1>2, <1>6
<1>8. used' \in [Nodes -> Nodes] /\ \A k \in Nodes : used'[k] = used[s[k]]
  BY <1>2, <1>3, <1>4, <1>5, <1>6
<1> HIDE DEF s
<1>9. \A k \in 1..i-1 : k \in Nodes /\ s[k] = k /\ used'[k] = used[k]
  <2>1. \A k \in 1..i-1 : k \in Nodes /\ k # i /\ k # at
    BY <1>2 DEF Nodes
  <2> QED
    BY <1>7, <1>8, <2>1
<1>10. used'[i] = use
  BY <1>2, <1>5, <1>7, <1>8
<1>11. /\ \A j, k \in Nodes : used'[j] = used'[k] => j = k
       /\ \A n \in Nodes : \E k \in Nodes : used'[k] = n
  <2>1. ASSUME NEW j \in Nodes, NEW k \in Nodes, used'[j] = used'[k] PROVE j = k
    <3>1. s[j] = s[k]
      BY <1>4, <1>7, <1>8, <2>1
    <3> QED
      BY <1>7, <3>1
  <2>2. ASSUME NEW n \in Nodes PROVE \E k \in Nodes : used'[k] = n
    <3>1. PICK k \in Nodes : used[k] = n
      BY <1>4
    <3>2. s[k] \in Nodes /\ used'[s[k]] = n
      BY <1>7, <1>8, <3>1
    <3> QED
      BY <3>2
  <2> QED
    BY <2>1, <2>2
<1>12. Permutation'
  BY <1>8, <1>11 DEF Permutation, Nodes
<1>13. Settled' = {used'[k] : k \in 1..i}
  BY <1>1, <1>2 DEF Settled
<1>14. 1..i = (1..i-1) \cup {i}
  BY <1>2
<1>15. Settled' = Settled \cup {use}
  <2>1. {used'[k] : k \in 1..i-1} = Settled
    BY <1>9 DEF Settled
  <2> QED
    BY <1>10, <1>13, <1>14, <2>1
<1>16. {used'[j] : j \in i+1..N} = Nodes \ Settled'
  <2>1. \A j \in i+1..N : j \in Nodes /\ j \notin 1..i
    BY <1>2 DEF Nodes
  <2>2. \A j \in Nodes : j \in 1..i \/ j \in i+1..N
    BY <1>2 DEF Nodes
  <2>3. \A k \in 1..i : k \in Nodes
    BY <1>2 DEF Nodes
  <2>4. \A j \in i+1..N : used'[j] \in Nodes /\ used'[j] \notin Settled'
    BY <1>8, <1>11, <1>13, <2>1, <2>3
  <2>5. ASSUME NEW n \in Nodes \ Settled' PROVE n \in {used'[j] : j \in i+1..N}
    <3>1. PICK j \in Nodes : used'[j] = n
      BY <1>11
    <3> QED
      BY <1>13, <2>2, <2>5, <3>1
  <2> QED
    BY <2>4, <2>5
<1> QED
  BY <1>1, <1>2, <1>3, <1>9, <1>10, <1>12, <1>15, <1>16

\* The path over the node just settled is taken for n.
Taken(n) == n \in Nodes \ (Settled \cup {use}) /\ weight[use][n] > 0 /\ Better(cache[n], weight[use][n])

\* A round leaves a node its path, or gives it a shorter one over the node just settled.
LEMMA RoundPaths ==
  ASSUME DijkstraInv, SettleNode
  PROVE  \A n \in Nodes :
           /\ cache'[n] \in [nodes : Seq(Nodes), len : Nat]
           /\ Taken(n) => /\ n # beginNode /\ IsPathTo(cache'[n].nodes, n)
                          /\ Len(cache'[n].nodes) = Len(cache[use].nodes) + 1
                          /\ LengthOf(cache'[n].nodes) = cache'[n].len
                          /\ cache'[n].len = cache[use].len + weight[use][n]
           /\ ~Taken(n) => cache'[n] = cache[n]
<1> DEFINE rest == Nodes \ (Settled \cup {use})
<1>1. /\ use \in Nodes \ Settled /\ {used'[j] : j \in i+1..N} = rest
      /\ WeightsFit /\ beginNode \in Nodes /\ PathsKept
  BY RoundPlaces DEF DijkstraInv, Rounds
<1>2. cache' = Relaxed(rest)
  BY <1>1 DEF SettleNode
<1> HIDE DEF rest
<1>3. \A n \in Nodes :
        cache'[n] = IF n \in rest /\ weight[use][n] > 0 /\ Better(cache[n], weight[use][n])
                    THEN [nodes |-> Append(cache[use].nodes, n), len |-> cache[use].len + weight[use][n]]
                    ELSE cache[n]
  BY <1>2, Zenon DEF Relaxed
<1>4. /\ cache[use] \in [nodes : Seq(Nodes), len : Nat]
      /\ \/ cache[use].nodes = <<>> /\ use = beginNode /\ cache[use].len = 0
         \/ IsPathTo(cache[use].nodes, use) /\ LengthOf(cache[use].nodes) = cache[use].len
  <2>1. CASE Reaches(use)
    BY <1>1, <2>1, ReachedOrNot
  <2>2. CASE ~Reaches(use)
    <3>1. use = beginNode
      BY <2>2 DEF DijkstraInv, NextNearest, SettleNode
    <3> QED
      BY <1>1, <2>2, <3>1, ReachedOrNot
  <2> QED
    BY <2>1, <2>2
<1>5. cache[use].nodes \in Seq(Nodes) /\ cache[use].len \in Nat
  BY <1>4
<1>6. ASSUME NEW n \in Nodes
      PROVE  /\ cache'[n] \in [nodes : Seq(Nodes), len : Nat]
             /\ Taken(n) => /\ n # beginNode /\ IsPathTo(cache'[n].nodes, n)
                            /\ Len(cache'[n].nodes) = Len(cache[use].nodes) + 1
                            /\ LengthOf(cache'[n].nodes) = cache'[n].len
                            /\ cache'[n].len = cache[use].len + weight[use][n]
             /\ ~Taken(n) => cache'[n] = cache[n]
  <2>1. CASE Taken(n)
    <3>1. /\ n \in rest /\ weight[use][n] > 0 /\ weight[use][n] \in Int
          /\ cache'[n] = [nodes |-> Append(cache[use].nodes, n), len |-> cache[use].len + weight[use][n]]
      BY <1>1, <1>3, <2>1 DEF Taken, WeightsFit, rest
    <3>2. n # beginNode
      BY <1>1, <3>1 DEF WeightsFit
    <3> DEFINE p == cache[use].nodes
               l == cache[use].len
    <3>3. p \in Seq(Nodes) /\ l \in Nat
      BY <1>5
    <3>4. (p = <<>> /\ use = beginNode /\ l = 0) \/ (IsPathTo(p, use) /\ LengthOf(p) = l)
      BY <1>4
    <3>5. cache'[n].nodes = Append(p, n) /\ cache'[n].len = l + weight[use][n]
      BY <3>1
    <3>6. cache'[n] = [nodes |-> Append(p, n), len |-> l + weight[use][n]]
      BY <3>1
    <3> HIDE DEF p, l
    <3>7. /\ Append(p, n) \in Seq(Nodes) /\ Len(Append(p, n)) = Len(p) + 1
          /\ IsPathTo(Append(p, n), n) /\ LengthOf(Append(p, n)) = l + weight[use][n]
      BY <1>1, <3>1, <3>3, <3>4, PathExtends
    <3>8. l + weight[use][n] \in Nat
      BY <3>1, <3>3
    <3>9. cache'[n] \in [nodes : Seq(Nodes), len : Nat]
      BY <3>6, <3>7, <3>8
    <3>10. /\ IsPathTo(cache'[n].nodes, n) /\ Len(cache'[n].nodes) = Len(p) + 1
           /\ LengthOf(cache'[n].nodes) = cache'[n].len
      BY <3>5, <3>7, Zenon
    <3> QED
      BY <2>1, <3>2, <3>5, <3>9, <3>10 DEF p, l
  <2>2. CASE ~Taken(n)
    <3>1. cache'[n] = cache[n]
      BY <1>3, <2>2 DEF Taken, rest
    <3> QED
      BY <1>1, <2>2, <3>1, ReachedOrNot
  <2> QED
    BY <2>1, <2>2
<1> QED
  BY <1>6

\* A round keeps what is cached a path, of as many edges as nodes are settled at most.
LEMMA RoundKeepsPaths ==
  ASSUME DijkstraInv, SettleNode
  PROVE  PathsKept' /\ FewEdges' /\ \A n \in Nodes : Reaches(n)' <=> Reaches(n) \/ Taken(n)
<1>1. /\ i \in 1..N /\ N \in Nat /\ i' = i + 1 /\ use \in Nodes \ Settled /\ beginNode \in Nodes
      /\ used'[i] = use /\ \A k \in 1..i-1 : used'[k] = used[k]
      /\ used \in [Nodes -> Nodes] /\ PathsKept /\ FewEdges /\ WeightsFit
  BY RoundPlaces, DijkstraAssumption DEF DijkstraInv, Permutation, Rounds
<1>2. weight' = weight /\ beginNode' = beginNode
  BY DEF SettleNode
<1>3. ASSUME NEW p, NEW n PROVE (IsPathTo(p, n)' <=> IsPathTo(p, n)) /\ LengthOf(p)' = LengthOf(p)
  BY <1>2 DEF IsPathTo, LengthOf
<1>4. ASSUME NEW n \in Nodes, Taken(n) PROVE cache'[n].len > 0 /\ Reaches(n)'
  <2>1. cache'[n].len = cache[use].len + weight[use][n] /\ weight[use][n] > 0 /\ weight[use][n] \in Int
    BY <1>1, <1>4, RoundPaths DEF Taken, WeightsFit
  <2>2. cache[use].len \in Nat
    BY <1>1, ReachedOrNot
  <2>3. cache'[n].len > 0
    BY <2>1, <2>2
  <2> QED
    BY <2>3 DEF Reaches, Unreached
<1>5. \A n \in Nodes : Reaches(n)' <=> Reaches(n) \/ Taken(n)
  <2> TAKE n \in Nodes
  <2>1. ~Taken(n) => cache'[n] = cache[n]
    BY RoundPaths
  <2> QED
    BY <1>4, <2>1 DEF Reaches
<1>6. cache' \in [Nodes -> [nodes : Seq(Nodes), len : Nat]]
  <2>1. \A n \in Nodes : cache'[n] \in [nodes : Seq(Nodes), len : Nat]
    BY RoundPaths
  <2>2. cache' = [n \in Nodes |-> cache'[n]]
    BY DEF SettleNode, Relaxed
  <2> QED
    BY <2>1, <2>2
<1>7. ASSUME NEW n \in Nodes, Reaches(n)'
      PROVE  /\ n # beginNode /\ IsPathTo(cache'[n].nodes, n) /\ cache'[n].len > 0
             /\ LengthOf(cache'[n].nodes) = cache'[n].len
  <2>1. CASE Taken(n)
    BY <1>4, <2>1, RoundPaths
  <2>2. CASE ~Taken(n)
    <3>1. Reaches(n) /\ cache'[n] = cache[n]
      BY <1>5, <1>7, <2>2, RoundPaths
    <3> QED
      BY <1>1, <3>1, ReachedOrNot
  <2> QED
    BY <2>1, <2>2
<1>8. PathsKept'
  <2>1. ~Reaches(beginNode)'
    BY <1>1, <1>2, <1>7
  <2>2. ASSUME NEW n \in Nodes, Reaches(n)'
        PROVE  \E p \in Seq(Nodes) : p = cache'[n].nodes /\ IsPathTo(p, n)' /\ LengthOf(p)' = cache'[n].len
    <3>1. PICK p \in Seq(Nodes) : p = cache'[n].nodes
      BY <1>6
    <3>2. IsPathTo(p, n)' /\ LengthOf(p)' = cache'[n].len
      BY <1>3, <1>7, <2>2, <3>1
    <3> QED
      BY <3>1, <3>2, Zenon
  <2> QED
    <3>1. Nodes' = Nodes
      BY DEF Nodes
    <3>2. \A n \in Nodes : Reaches(n)' => cache'[n].len > 0
      BY <1>7
    <3> QED
      BY <1>6, <2>1, <2>2, <3>1, <3>2, Zenon DEF PathsKept
<1>9. FewEdges'
  <2>1. ASSUME NEW n \in Settled \cup {use} PROVE cache'[n] = cache[n]
    <3>1. n \in Nodes
      <4>1. \A k \in 1..i-1 : k \in Nodes
        BY <1>1 DEF Nodes
      <4> QED
        BY <1>1, <2>1, <4>1 DEF Settled
    <3>2. ~Taken(n)
      BY <2>1 DEF Taken
    <3> QED
      BY <3>1, <3>2, RoundPaths
  <2>2. ASSUME NEW k \in 1..i PROVE Len(cache'[used'[k]].nodes) <= k - 1
    <3>1. CASE k = i
      <4>1. cache'[used'[k]] = cache[use]
        BY <1>1, <2>1, <3>1
      <4>2. Len(cache[use].nodes) <= i - 1
        BY <1>1 DEF FewEdges
      <4> QED
        BY <3>1, <4>1, <4>2
    <3>2. CASE k \in 1..i-1
      <4>1. used'[k] = used[k] /\ used[k] \in Settled
        BY <1>1, <3>2, Zenon DEF Settled
      <4>2. cache'[used'[k]] = cache[used[k]]
        BY <2>1, <4>1
      <4> QED
        BY <1>1, <3>2, <4>2 DEF FewEdges
    <3>3. k = i \/ k \in 1..i-1
      BY <1>1
    <3> QED
      BY <3>1, <3>2, <3>3
  <2>3. ASSUME NEW n \in Nodes PROVE Len(cache'[n].nodes) <= i
    <3>1. Len(cache[n].nodes) <= i - 1 /\ Len(cache[use].nodes) <= i - 1
      BY <1>1 DEF FewEdges
    <3>2. Len(cache[n].nodes) \in Nat /\ Len(cache[use].nodes) \in Nat
      <4>1. cache[n].nodes \in Seq(Nodes) /\ cache[use].nodes \in Seq(Nodes)
        BY <1>1, ReachedOrNot
      <4> QED
        BY <4>1, LenProperties
    <3>3. CASE Taken(n)
      <4>1. Len(cache'[n].nodes) = Len(cache[use].nodes) + 1
        BY <3>3, RoundPaths
      <4> QED
        BY <1>1, <3>1, <3>2, <4>1
    <3>4. CASE ~Taken(n)
      <4>1. cache'[n] = cache[n]
        BY <3>4, RoundPaths
      <4> QED
        BY <1>1, <3>1, <3>2, <4>1
    <3> QED
      BY <3>3, <3>4
  <2>4. i' - 1 = i
    BY <1>1
  <2> QED
    BY <2>2, <2>3, <2>4 DEF FewEdges, Nodes
<1> QED
  BY <1>5, <1>8, <1>9

\* Paths to settled nodes stay, those to others only get shorter, and none is shorter
\* than that to the node just settled.
LEMMA RoundOrder ==
  ASSUME DijkstraInv, SettleNode
  PROVE  /\ \A n \in Settled \cup {use} : n \in Nodes /\ cache'[n] = cache[n]
         /\ \A n \in Nodes : Reaches(n) => Reaches(n)' /\ cache'[n].len <= cache[n].len
         /\ \A n \in Settled : (Reaches(n) \/ n = beginNode) /\ cache[n].len <= cache[use].len
         /\ \A n \in Nodes \ (Settled \cup {use}) : Reaches(n)' => cache[use].len <= cache'[n].len
<1>1. /\ use \in Nodes \ Settled /\ PathsKept /\ WeightsFit /\ Nearer /\ NextNearest /\ Rounds
      /\ used \in [Nodes -> Nodes] /\ N \in Nat /\ i \in 1..N /\ use # 0
  BY RoundPlaces, DijkstraAssumption DEF DijkstraInv, Permutation, SettleNode
<1>2. \A n \in Nodes : (Reaches(n)' <=> Reaches(n) \/ Taken(n)) /\ cache[n].len \in Nat
  BY <1>1, RoundKeepsPaths, ReachedOrNot
<1>3. ASSUME NEW n \in Settled \cup {use} PROVE n \in Nodes /\ cache'[n] = cache[n]
  <2>1. n \in Nodes
    <3>1. \A k \in 1..i-1 : k \in Nodes
      BY <1>1 DEF Nodes
    <3> QED
      BY <1>1, <1>3, <3>1 DEF Settled
  <2>2. ~Taken(n)
    BY <1>3 DEF Taken
  <2> QED
    BY <2>1, <2>2, RoundPaths
<1>4. ASSUME NEW n \in Nodes, Reaches(n) PROVE Reaches(n)' /\ cache'[n].len <= cache[n].len
  <2>1. CASE Taken(n)
    <3>1. cache'[n].len = cache[use].len + weight[use][n] /\ weight[use][n] \in Int
      BY <1>1, <2>1, RoundPaths DEF WeightsFit
    <3>2. cache[n].len > cache[use].len + weight[use][n]
      <4>1. cache[n].nodes # <<>>
        BY <1>1, <1>4, ReachedOrNot
      <4> QED
        BY <2>1, <4>1 DEF Taken, Better
    <3> QED
      BY <1>1, <1>2, <1>4, <3>1, <3>2
  <2>2. CASE ~Taken(n)
    <3>1. cache'[n] = cache[n]
      BY <2>2, RoundPaths
    <3> QED
      BY <1>2, <1>4, <3>1
  <2> QED
    BY <2>1, <2>2
<1>5. ASSUME NEW n \in Settled PROVE (Reaches(n) \/ n = beginNode) /\ cache[n].len <= cache[use].len
  <2>1. i # 1
    BY <1>5 DEF Settled
  <2>2. Reaches(n) \/ n = beginNode
    BY <1>1, <2>1 DEF Rounds
  <2>3. Reaches(use)
    BY <1>1, <2>1 DEF NextNearest
  <2> QED
    BY <1>1, <2>2, <2>3 DEF Nearer
<1>6. ASSUME NEW n \in Nodes \ (Settled \cup {use}), Reaches(n)' PROVE cache[use].len <= cache'[n].len
  <2>1. CASE Taken(n)
    <3>1. cache'[n].len = cache[use].len + weight[use][n] /\ weight[use][n] \in Int /\ weight[use][n] > 0
      BY <1>1, <2>1, RoundPaths DEF WeightsFit, Taken
    <3> QED
      BY <1>1, <1>2, <3>1
  <2>2. CASE ~Taken(n)
    <3>1. Reaches(n) /\ cache'[n] = cache[n]
      BY <1>2, <1>6, <2>2, RoundPaths
    <3>2. i # 1
      BY <1>1, <3>1 DEF Rounds
    <3>3. cache[use].len <= cache[n].len
      BY <1>1, <3>1, <3>2 DEF NextNearest
    <3> QED
      BY <3>1, <3>3
  <2> QED
    BY <2>1, <2>2
<1> QED
  BY <1>3, <1>4, <1>5, <1>6

\* The invariant is inductive.
LEMMA RoundKeepsInv ==
  ASSUME DijkstraInv, SettleNode
  PROVE  DijkstraInv'
<1> DEFINE done == Settled \cup {use}
<1>1. /\ i \in 1..N /\ N \in Nat /\ i' = i + 1 /\ use \in Nodes \ Settled /\ beginNode \in Nodes
      /\ Permutation' /\ Settled' = done /\ {used'[j] : j \in i+1..N} = Nodes \ done
      /\ PathsKept /\ WeightsFit /\ RelaxedAll /\ Rounds /\ NextNearest
      /\ weight' = weight /\ beginNode' = beginNode
  BY RoundPlaces, DijkstraAssumption DEF DijkstraInv, Rounds, SettleNode
<1>2. PathsKept' /\ FewEdges' /\ \A n \in Nodes : Reaches(n)' <=> Reaches(n) \/ Taken(n)
  BY RoundKeepsPaths
<1>3. /\ \A n \in done : n \in Nodes /\ cache'[n] = cache[n]
      /\ \A n \in Nodes : Reaches(n) => Reaches(n)' /\ cache'[n].len <= cache[n].len
      /\ \A n \in Settled : (Reaches(n) \/ n = beginNode) /\ cache[n].len <= cache[use].len
      /\ \A n \in Nodes \ done : Reaches(n)' => cache[use].len <= cache'[n].len
  BY RoundOrder
<1>4. \A n \in Nodes : /\ cache[n].len \in Nat /\ cache'[n].len \in Nat
                       /\ Reaches(n)' => cache'[n].len > 0
                       /\ ~Reaches(n)' => cache'[n].len = 0
                       /\ Reaches(n) => n # beginNode
  <2> TAKE n \in Nodes
  <2>1. cache'[n] \in [nodes : Seq(Nodes), len : Nat]
    BY RoundPaths
  <2>2. Reaches(n)' => cache'[n].len > 0
    BY <1>2 DEF PathsKept, Nodes
  <2>3. ~Reaches(n)' => cache'[n].len = 0
    BY DEF Reaches, Unreached
  <2> QED
    BY <1>1, <2>1, <2>2, <2>3, ReachedOrNot
<1>5. \A m, n \in Nodes : weight[m][n] \in Int /\ (weight[m][n] > 0 => n # beginNode)
  BY <1>1 DEF WeightsFit
<1>6. Reaches(use) \/ use = beginNode
  BY <1>1 DEF NextNearest, SettleNode
<1>7. use \in done /\ Settled \subseteq done
  OBVIOUS
<1>8. beginNode \in done
  BY <1>1 DEF Rounds, NextNearest
<1> HIDE DEF done
<1>9. Rounds'
  <2>1. i' \in 1..N+1 /\ i' # 1
    BY <1>1
  <2>2. \A n \in done : n # beginNode => Reaches(n)'
    BY <1>3, <1>6 DEF done
  <2>3. beginNode' \in Settled' /\ beginNode' \in Nodes
    BY <1>1, <1>8
  <2>4. \A n \in Settled' \ {beginNode'} : Reaches(n)'
    BY <1>1, <2>2
  <2> QED
    BY <2>1, <2>3, <2>4 DEF Rounds, Nodes
<1>10. RelaxedAll'
  <2>1. ASSUME NEW m \in done, NEW n \in Nodes, weight[m][n] > 0
        PROVE  Reaches(n)' /\ cache'[n].len <= cache'[m].len + weight[m][n]
    <3>0. m \in Nodes /\ cache'[m] = cache[m] /\ cache[m].len \in Nat /\ n # beginNode
          /\ weight[m][n] \in Int /\ cache'[n].len \in Nat /\ cache[n].len \in Nat
      BY <1>3, <1>4, <1>5, <2>1
    <3>1. CASE m \in Settled
      <4>1. Reaches(n) /\ cache[n].len <= cache[m].len + weight[m][n]
        BY <1>1, <2>1, <3>1 DEF RelaxedAll
      <4> QED
        BY <1>3, <3>0, <4>1
    <3>2. CASE m = use /\ n \in Settled
      <4>1. Reaches(n) /\ cache[n].len <= cache[use].len
        BY <1>3, <3>0, <3>2
      <4> QED
        BY <1>3, <2>1, <3>0, <3>2, <4>1
    <3>3. CASE m = use /\ n = use
      BY <1>3, <1>6, <2>1, <3>0, <3>3
    <3>4. CASE m = use /\ n \notin done
      <4>1. CASE Taken(n)
        <5>1. cache'[n].len = cache[use].len + weight[use][n]
          BY <4>1, RoundPaths
        <5> QED
          BY <1>2, <3>0, <3>4, <4>1, <5>1
      <4>2. CASE ~Taken(n)
        <5>1. ~Better(cache[n], weight[use][n])
          BY <2>1, <3>4, <4>2 DEF Taken, done
        <5>2. cache[n].nodes # <<>> /\ cache[n].len <= cache[use].len + weight[use][n]
          BY <3>0, <3>4, <5>1 DEF Better
        <5>3. Reaches(n)
          BY <1>1, <5>2, ReachedOrNot
        <5> QED
          BY <1>3, <3>0, <3>4, <5>2, <5>3
      <4> QED
        BY <4>1, <4>2
    <3> QED
      BY <2>1, <3>1, <3>2, <3>3, <3>4 DEF done
  <2> QED
    BY <1>1, <2>1 DEF RelaxedAll, Nodes
<1>11. Nearer'
  <2>1. ASSUME NEW m \in done, NEW n \in Nodes \ done, Reaches(n)' PROVE cache'[m].len <= cache'[n].len
    <3>1. cache[m].len <= cache[use].len
      BY <1>1, <1>3, <1>4 DEF done
    <3>2. cache[use].len <= cache'[n].len /\ cache'[m] = cache[m] /\ m \in Nodes
      BY <1>3, <2>1
    <3> QED
      BY <1>1, <1>4, <3>1, <3>2
  <2> QED
    BY <1>1, <2>1 DEF Nearer, Nodes
<1>12. NextNearest'
  <2>1. use' = Nearest(used', cache', i + 1) /\ i' # 1
    BY <1>1 DEF SettleNode
  <2>2. /\ used' \in [Nodes -> Nodes] /\ cache' \in [Nodes -> [nodes : Seq(Nodes), len : Nat]]
        /\ i + 1 \in Nat \ {0} /\ 0 \notin Nodes
    <3>1. used' \in [Nodes -> Nodes]
      BY <1>1 DEF Permutation, Nodes
    <3>2. cache' \in [Nodes -> [nodes : Seq(Nodes), len : Nat]]
      BY <1>2 DEF PathsKept, Nodes
    <3>3. i + 1 \in Nat \ {0} /\ 0 \notin Nodes
      BY <1>1 DEF Nodes
    <3> QED
      BY <3>1, <3>2, <3>3
  <2>3. /\ \A p \in i+1..N : used'[p] \in Nodes \ done
        /\ \A n \in Nodes \ done : \E p \in i+1..N : used'[p] = n
    BY <1>1, Zenon
  <2>4. ASSUME NEW p \in i+1..N, use' = used'[p], cache'[used'[p]].len > 0,
               \A q \in i+1..N : cache'[used'[q]].len > 0 => cache'[used'[p]].len <= cache'[used'[q]].len
        PROVE  /\ use' # 0 /\ use' \in Nodes \ done /\ Reaches(use)'
               /\ \A n \in Nodes \ done : Reaches(n)' => cache'[use'].len <= cache'[n].len
    <3>1. use' \in Nodes \ done /\ use' # 0 /\ cache'[use'].len > 0
      BY <2>2, <2>3, <2>4
    <3>2. Reaches(use)'
      BY <3>1 DEF Reaches, Unreached
    <3>3. ASSUME NEW n \in Nodes \ done, Reaches(n)' PROVE cache'[use'].len <= cache'[n].len
      <4>1. PICK q \in i+1..N : used'[q] = n
        BY <2>3
      <4>2. cache'[n].len > 0
        BY <1>4, <3>3
      <4> QED
        BY <2>4, <4>1, <4>2
    <3> QED
      BY <3>1, <3>2, <3>3
  <2>5. ASSUME use' = 0, \A p \in i+1..N : ~(cache'[used'[p]].len > 0)
        PROVE  \A n \in Nodes \ done : ~Reaches(n)'
    <3> SUFFICES ASSUME NEW n \in Nodes \ done, Reaches(n)' PROVE FALSE
      OBVIOUS
    <3>1. PICK q \in i+1..N : used'[q] = n
      BY <2>3
    <3>2. cache'[n].len > 0
      BY <1>4
    <3> QED
      BY <2>5, <3>1, <3>2
  <2>6. \/ /\ use' # 0 /\ use' \in Nodes \ done /\ Reaches(use)'
           /\ \A n \in Nodes \ done : Reaches(n)' => cache'[use'].len <= cache'[n].len
        \/ use' = 0 /\ \A n \in Nodes \ done : ~Reaches(n)'
    <3>1. PICK u, c, k : u = used' /\ c = cache' /\ k = i + 1
      BY Zenon
    <3>2. \/ Nearest(u, c, k) = 0 /\ \A p \in k..N : ~(c[u[p]].len > 0)
          \/ \E p \in k..N : /\ Nearest(u, c, k) = u[p] /\ c[u[p]].len > 0
                             /\ \A q \in k..N : c[u[q]].len > 0 => c[u[p]].len <= c[u[q]].len
      BY <2>2, <3>1, NearestIs, Zenon
    <3> QED
      BY <2>1, <2>4, <2>5, <3>1, <3>2, Zenon
  <2> QED
    BY <1>1, <2>1, <2>6 DEF NextNearest, Nodes
<1>13. WeightsFit'
  BY <1>1 DEF WeightsFit, Nodes
<1> QED
  BY <1>1, <1>2, <1>9, <1>10, <1>11, <1>12, <1>13 DEF DijkstraInv

-----------------------------------------------------------------------------
(* What the invariant says *)

\* No path within reach is shorter than the one cached: the lengths in the cache, and
\* the length of the nearest for all that are not settled, are made shorter by no edge.
LEMMA CacheIsLeast ==
  ASSUME DijkstraInv
  PROVE  /\ \A n \in Settled : cache[n].len <= Distances[n]
         /\ use # 0 => cache[use].len <= Distances[use]
         /\ use = 0 => \A n \in Nodes \ Settled : Infinite <= Distances[n]
         /\ \A n \in Nodes : Reaches(n) => Distances[n] <= cache[n].len /\ cache[n].len < Infinite
<1> DEFINE most == IF use = 0 THEN Infinite ELSE cache[use].len
           L == [n \in Nodes |-> IF n \in Settled THEN cache[n].len ELSE most]
<1>1. /\ i \in 1..N+1 /\ N \in Nat /\ beginNode \in Nodes /\ 0 \notin Nodes
      /\ used \in [Nodes -> Nodes] /\ \A n \in Nodes : \E k \in Nodes : used[k] = n
      /\ PathsKept /\ WeightsFit /\ FewEdges /\ RelaxedAll /\ Nearer /\ NextNearest /\ Rounds
      /\ Infinite \in Nat
  <2>1. N \in Nat /\ 0 \notin Nodes
    BY DijkstraAssumption DEF Nodes
  <2>2. PathsKept /\ WeightsFit /\ FewEdges /\ RelaxedAll /\ Nearer /\ NextNearest /\ Rounds /\ Permutation
    BY DEF DijkstraInv
  <2>3. i \in 1..N+1 /\ beginNode \in Nodes
    BY <2>2 DEF Rounds
  <2>4. used \in [Nodes -> Nodes] /\ \A n \in Nodes : \E k \in Nodes : used[k] = n
    BY <2>2 DEF Permutation
  <2> QED
    BY <2>1, <2>2, <2>3, <2>4, InfiniteIsNat
<1>2. \A n \in Nodes : cache[n].len \in Nat /\ (~Reaches(n) => cache[n].len = 0)
  BY <1>1, ReachedOrNot
<1>3. \A n \in Settled : n \in Nodes
  BY <1>1 DEF Settled, Nodes
<1>4. ASSUME NEW n \in Nodes, Reaches(n)
      PROVE  Distances[n] <= cache[n].len /\ cache[n].len < Infinite
  <2>1. cache[n].nodes \in Seq(Nodes) /\ IsPathTo(cache[n].nodes, n) /\ LengthOf(cache[n].nodes) = cache[n].len
    BY <1>1, <1>4, ReachedOrNot
  <2>2. Len(cache[n].nodes) <= N - 1
    <3>1. Len(cache[n].nodes) \in Nat
      BY <2>1, LenProperties
    <3>2. CASE i \in 1..N
      <4>1. Len(cache[n].nodes) <= i - 1
        BY <1>1 DEF FewEdges
      <4> QED
        BY <1>1, <3>1, <3>2, <4>1
    <3>3. CASE i = N + 1
      <4>1. PICK k \in Nodes : used[k] = n
        BY <1>1
      <4>2. k \in 1..i-1 /\ k \in 1..N
        BY <1>1, <3>3 DEF Nodes
      <4>3. Len(cache[n].nodes) <= k - 1
        BY <1>1, <4>1, <4>2 DEF FewEdges
      <4>4. k <= N /\ k \in Int /\ N \in Int
        BY <1>1, <4>2
      <4> QED
        BY <3>1, <4>3, <4>4
    <3> QED
      BY <1>1, <3>2, <3>3
  <2>3. PICK p \in Seq(Nodes) : p = cache[n].nodes
    BY <2>1
  <2>4. Distances[n] <= LengthOf(p) /\ LengthOf(p) < Infinite
    BY <1>1, <2>1, <2>2, <2>3, PathIsLonger
  <2> QED
    BY <2>1, <2>3, <2>4
<1>5. most \in Nat /\ most <= Infinite /\ (use # 0 => use \in Nodes \ Settled)
  <2>1. CASE use = 0
    BY <1>1, <2>1
  <2>2. CASE use # 0
    <3>1. use \in Nodes \ Settled
      BY <1>1, <2>2 DEF NextNearest, Settled
    <3>2. cache[use].len <= Infinite
      BY <1>1, <1>2, <1>4, <3>1
    <3> QED
      BY <1>2, <2>2, <3>1, <3>2
  <2> QED
    BY <2>1, <2>2
\* What most is to the settled nodes and to the others
<1>6. /\ \A n \in Settled : cache[n].len <= most
      /\ \A n \in Nodes \ Settled : Reaches(n) => most <= cache[n].len
  <2>1. CASE use = 0
    <3>1. \A n \in Nodes \ Settled : ~Reaches(n)
      BY <1>1, <2>1 DEF NextNearest
    <3>2. \A n \in Settled : cache[n].len <= Infinite
      BY <1>1, <1>2, <1>3, <1>4
    <3> QED
      BY <2>1, <3>1, <3>2
  <2>2. CASE use # 0 /\ i = 1
    <3>1. Settled = {} /\ \A n \in Nodes : ~Reaches(n)
      BY <1>1, <2>2 DEF Settled, Rounds
    <3> QED
      BY <3>1
  <2>3. CASE use # 0 /\ i # 1
    <3>1. Reaches(use) /\ use \in Nodes \ Settled
          /\ \A n \in Nodes \ Settled : Reaches(n) => cache[use].len <= cache[n].len
      BY <1>1, <2>3 DEF NextNearest
    <3>2. \A n \in Settled : cache[n].len <= cache[use].len
      BY <1>1, <3>1 DEF Nearer
    <3> QED
      BY <2>3, <3>1, <3>2
  <2> QED
    BY <2>1, <2>2, <2>3
<1>7. L[beginNode] <= 0
  <2>1. CASE beginNode \in Settled
    BY <1>1, <1>2, <2>1 DEF PathsKept
  <2>2. CASE beginNode \notin Settled
    <3>1. use = beginNode
      BY <1>1, <2>2 DEF Rounds, NextNearest
    <3>2. cache[use].len = 0
      BY <1>1, <1>2, <3>1 DEF PathsKept
    <3> QED
      BY <1>1, <2>2, <3>1, <3>2
  <2> QED
    BY <2>1, <2>2
<1> HIDE DEF most
<1>8. L \in [Nodes -> Int] /\ \A n \in Nodes : L[n] <= Infinite
  <2>1. \A n \in Nodes : cache[n].len \in Int /\ most \in Int
    BY <1>2, <1>5
  <2>2. L \in [Nodes -> Int]
    BY <2>1
  <2>3. \A n \in Settled : cache[n].len <= Infinite
    BY <1>1, <1>2, <1>3, <1>5, <1>6
  <2> QED
    BY <1>5, <2>2, <2>3
<1>9. \A n \in Nodes : (n \in Settled => L[n] = cache[n].len) /\ (n \notin Settled => L[n] = most)
  OBVIOUS
<1> HIDE DEF L
<1>10. ASSUME NEW m \in Nodes, NEW n \in Nodes, weight[m][n] > 0
       PROVE  L[n] <= L[m] + weight[m][n]
  <2>1. weight[m][n] \in Int /\ cache[m].len \in Nat /\ cache[n].len \in Nat
    BY <1>1, <1>2 DEF WeightsFit
  <2>2. CASE m \in Settled
    <3>1. Reaches(n) /\ cache[n].len <= cache[m].len + weight[m][n] /\ L[m] = cache[m].len
      BY <1>1, <1>9, <1>10, <2>2 DEF RelaxedAll
    <3>2. L[n] <= cache[n].len
      BY <1>6, <1>9, <2>1, <3>1
    <3> QED
      BY <1>8, <2>1, <3>1, <3>2
  <2>3. CASE m \notin Settled
    <3>1. L[m] = most /\ L[n] <= most
      BY <1>5, <1>6, <1>9, <2>3
    <3> QED
      BY <1>5, <1>8, <1>10, <2>1, <3>1
  <2> QED
    BY <2>2, <2>3
<1>11. \A n \in Nodes : L[n] <= Distances[n]
  BY <1>1, <1>7, <1>8, <1>10, NoneIsShorter
<1>12. \A n \in Settled : cache[n].len <= Distances[n]
  BY <1>3, <1>9, <1>11
<1>13. use # 0 => cache[use].len <= Distances[use]
  BY <1>5, <1>9, <1>11 DEF most
<1>14. use = 0 => \A n \in Nodes \ Settled : Infinite <= Distances[n]
  BY <1>9, <1>11 DEF most
<1> QED
  BY <1>4, <1>12, <1>13, <1>14

LEMMA CacheIsShortest ==
  ASSUME DijkstraInv
  PROVE  ResultIsShortest /\ SettledIsFinal
<1>1. /\ i \in 1..N+1 /\ N \in Nat /\ beginNode \in Nodes /\ 0 \notin Nodes
      /\ used \in [Nodes -> Nodes] /\ \A n \in Nodes : \E k \in Nodes : used[k] = n
      /\ PathsKept /\ WeightsFit /\ NextNearest /\ Rounds
  <2>1. N \in Nat /\ 0 \notin Nodes
    BY DijkstraAssumption DEF Nodes
  <2>2. PathsKept /\ WeightsFit /\ NextNearest /\ Rounds /\ Permutation
    BY DEF DijkstraInv
  <2>3. i \in 1..N+1 /\ beginNode \in Nodes
    BY <2>2 DEF Rounds
  <2>4. used \in [Nodes -> Nodes] /\ \A n \in Nodes : \E k \in Nodes : used[k] = n
    BY <2>2 DEF Permutation
  <2> QED
    BY <2>1, <2>2, <2>3, <2>4
<1>2. /\ \A n \in Settled : cache[n].len <= Distances[n]
      /\ use # 0 => cache[use].len <= Distances[use]
      /\ use = 0 => \A n \in Nodes \ Settled : Infinite <= Distances[n]
      /\ \A n \in Nodes : Reaches(n) => Distances[n] <= cache[n].len /\ cache[n].len < Infinite
  BY CacheIsLeast
<1>3. /\ Distances \in [Nodes -> Nat] /\ Distances[beginNode] = 0
      /\ \A n \in Nodes : Distances[n] <= Infinite /\ cache[n].len \in Nat
      /\ Infinite \in Nat /\ cache[beginNode].len = 0
  BY <1>1, DistancesBounded, InfiniteIsNat, ReachedOrNot DEF PathsKept
<1>4. \A n \in Settled : n \in Nodes /\ (Reaches(n) \/ n = beginNode)
  BY <1>1 DEF Settled, Rounds, Nodes
<1>5. use # 0 => use \in Nodes \ Settled /\ (Reaches(use) \/ use = beginNode)
  BY <1>1 DEF NextNearest, Settled
<1>6. \A n \in Settled : cache[n].len = Distances[n]
  BY <1>2, <1>3, <1>4
<1>7. use # 0 => cache[use].len = Distances[use]
  BY <1>2, <1>3, <1>5
<1>8. SettledIsFinal
  <2>1. \A k \in 1..i-1 : used[k] \in Settled
    BY DEF Settled
  <2> QED
    BY <1>1, <1>6, <1>7, <2>1 DEF SettledIsFinal, Nodes
<1>9. ASSUME i > N \/ use = 0, NEW n \in Nodes \ {beginNode}
      PROVE  /\ Distances[n] = Infinite => cache[n] = Unreached
             /\ Distances[n] # Infinite =>
                  /\ cache[n].len = Distances[n]
                  /\ IsPathTo(cache[n].nodes, n) /\ LengthOf(cache[n].nodes) = cache[n].len
  <2>1. use = 0 /\ (i > N => n \in Settled)
    <3>1. ASSUME i > N, NEW m \in Nodes PROVE m \in Settled
      <4>1. PICK k \in Nodes : used[k] = m
        BY <1>1
      <4>2. k \in 1..i-1
        BY <1>1, <3>1 DEF Nodes
      <4> QED
        BY <4>1, <4>2 DEF Settled
    <3> QED
      BY <1>5, <1>9, <3>1
  <2>2. CASE n \in Settled
    <3>1. Reaches(n) /\ cache[n].len = Distances[n] /\ Distances[n] # Infinite
      BY <1>2, <1>3, <1>4, <1>6, <2>2
    <3> QED
      BY <1>1, <3>1, ReachedOrNot
  <2>3. CASE n \notin Settled
    <3>1. ~Reaches(n)
      <4>1. i = 1 => use = beginNode
        BY <1>1 DEF NextNearest
      <4>2. i # 1
        BY <1>1, <2>1, <4>1
      <4> QED
        BY <1>1, <1>9, <2>1, <2>3, <4>2 DEF NextNearest
    <3>2. Distances[n] = Infinite
      BY <1>2, <1>3, <2>1, <2>3
    <3> QED
      BY <3>1, <3>2 DEF Reaches
  <2> QED
    BY <2>2, <2>3
<1>10. ResultIsShortest
  BY <1>9, Zenon DEF ResultIsShortest
<1> QED
  BY <1>8, <1>10

-----------------------------------------------------------------------------
(* The search *)

\* A round keeps the invariant, and so does a step that leaves the search alone.
LEMMA GraphStep == DijkstraInv /\ [DijkstraNext]_dvars => DijkstraInv'
<1> SUFFICES ASSUME DijkstraInv, [DijkstraNext]_dvars PROVE DijkstraInv'
  OBVIOUS
<1>1. CASE SettleNode
  BY <1>1, RoundKeepsInv
<1>2. CASE UNCHANGED dvars
  <2>1. /\ weight' = weight /\ beginNode' = beginNode /\ used' = used /\ cache' = cache
        /\ use' = use /\ i' = i /\ Nodes' = Nodes
    BY <1>2 DEF dvars, Nodes
  <2>2. Settled' = Settled /\ \A n : Reaches(n)' <=> Reaches(n)
    BY <2>1 DEF Settled, Reaches
  <2>3. WeightsFit' /\ Permutation' /\ FewEdges'
    BY <2>1 DEF DijkstraInv, WeightsFit, Permutation, FewEdges
  <2>4. Rounds'
    BY <2>1, <2>2 DEF DijkstraInv, Rounds
  <2>5. RelaxedAll' /\ Nearer'
    BY <2>1, <2>2 DEF DijkstraInv, RelaxedAll, Nearer
  <2>6. NextNearest'
    BY <2>1, <2>2 DEF DijkstraInv, NextNearest
  <2>7. PathsKept'
    <3>1. ASSUME NEW p, NEW n PROVE (IsPathTo(p, n)' <=> IsPathTo(p, n)) /\ LengthOf(p)' = LengthOf(p)
      BY <2>1 DEF IsPathTo, LengthOf
    <3> QED
      BY <2>1, <2>2, <3>1 DEF DijkstraInv, PathsKept
  <2> QED
    BY <2>3, <2>4, <2>5, <2>6, <2>7 DEF DijkstraInv
<1> QED
  BY <1>1, <1>2 DEF DijkstraNext

LEMMA SearchKeepsInv == DijkstraSpec => []DijkstraInv
<1> QED
  BY StartsRight, GraphStep, PTL DEF DijkstraSpec

\* A node that is settled, and the one that is settled next, has its shortest path already,
\* so that no later round need look at it (hs_Dijkstra.cpp:85-124).
THEOREM SettledStays == DijkstraSpec => []SettledIsFinal
<1>1. DijkstraInv => SettledIsFinal
  BY CacheIsShortest
<1> QED
  BY <1>1, SearchKeepsInv, PTL

\* When the loop of dijkstra_get_path ends, the cache has a shortest path to each node
\* that can be reached from beginNode, and none to the others (hs_Dijkstra.cpp:80-132).
THEOREM PathsAreShortest == DijkstraSpec => []ResultIsShortest
<1>1. DijkstraInv => ResultIsShortest
  BY CacheIsShortest
<1> QED
  BY <1>1, SearchKeepsInv, PTL
=============================================================================
