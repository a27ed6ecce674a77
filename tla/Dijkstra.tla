------------------------------ MODULE Dijkstra ------------------------------
(***************************************************************************)
(* dijkstra_get_path (hs_Dijkstra.cpp): the shortest paths from a node to  *)
(* the others in a graph of at most MAX_NODE_NUM nodes given by its matrix *)
(* of weights, where a weight of 0 or less means that there is no edge.    *)
(* A step is one round of the outer loop.                                  *)
(***************************************************************************)
EXTENDS Integers, Sequences, FiniteSetsExt

CONSTANTS N,        \* node_list->len
          Weights,  \* the entries of the matrix
          Begins,   \* values of begin_node
          IntMax    \* the largest int32_t

\* The sums of weights stay within an int32_t; the code does not check that.
ASSUME DijkstraAssumption == /\ N \in Nat \ {0} /\ Weights \subseteq Int /\ IntMax \in Nat
                             /\ Begins \subseteq 1..N
                             /\ \A w \in Weights : (N - 1) * w <= IntMax

Nodes == 1..N

VARIABLES
  weight,   \* nodes[].weight[]
  beginNode, \* begin_node
  used,     \* used_nodes_id: the settled nodes, then the others
  cache,    \* all_path_cache: the nodes of the path after begin, and its length
  use, i    \* use_node, 0 for none, and the round

dvars == <<weight, beginNode, used, cache, use, i>>

Unreached == [nodes |-> <<>>, len |-> 0]

\* The entries that are ever read: beginNode is settled first, and no round looks at
\* an edge back to a settled node.
EdgesFrom(b) == {e \in Nodes \X Nodes : e[1] # e[2] /\ e[2] # b}

DijkstraInit ==
  /\ beginNode \in Begins
  /\ \E w \in [EdgesFrom(beginNode) -> Weights] :
       weight = [n \in Nodes |-> [m \in Nodes |->
                   IF <<n, m>> \in EdgesFrom(beginNode) THEN w[<<n, m>>] ELSE 0]]
  /\ used = [n \in Nodes |-> n]
  /\ cache = [n \in Nodes |-> Unreached]
  /\ use = beginNode /\ i = 1

\* set_used_node_to_pos: node changes places with the one at position pos.
SetUsedNodeToPos(u, node, pos) ==
  LET at == CHOOSE k \in pos..N : u[k] = node
  IN  [u EXCEPT ![pos] = node, ![at] = u[pos]]

\* Mutant of Better: a path that is there is never replaced.
FirstPathStays(old, w) == old.nodes = <<>>

\* Is the path over the node just settled, with an edge of weight w, taken?
Better(old, w) == old.nodes = <<>> \/ old.len > cache[use].len + w

\* The inner loop: the paths to the nodes that are not settled
Relaxed(rest) ==
  [n \in Nodes |->
     IF n \in rest /\ weight[use][n] > 0 /\ Better(cache[n], weight[use][n])
     THEN [nodes |-> Append(cache[use].nodes, n), len |-> cache[use].len + weight[use][n]]
     ELSE cache[n]]

\* Mutant of Nearest: the first node that is reached.
FirstReached(u, c, k) ==
  LET reached == {p \in k..N : c[u[p]].len > 0}
  IN  IF reached = {} THEN 0 ELSE u[Min(reached)]

\* The first of the positions from k on whose node is reached at the least length
Nearest(u, c, k) ==
  LET reached == {p \in k..N : c[u[p]].len > 0}
      least   == {p \in reached : \A q \in reached : c[u[p]].len <= c[u[q]].len}
  IN  IF reached = {} THEN 0 ELSE u[Min(least)]

SettleNode ==
  /\ i <= N /\ use # 0
  /\ used' = SetUsedNodeToPos(used, use, i)
  /\ cache' = Relaxed({used'[j] : j \in i+1..N})
  /\ use' = Nearest(used', cache', i + 1)
  /\ i' = i + 1
  /\ UNCHANGED <<weight, beginNode>>

DijkstraNext == SettleNode

DijkstraSpec == DijkstraInit /\ [][DijkstraNext]_dvars

-----------------------------------------------------------------------------
(* What shortest means, by paths of at most k edges *)

Infinite == N * IntMax + 1

\* The lengths of shortest paths from the lengths of those with an edge less
OneMoreEdge(prev) ==
  [n \in Nodes |-> Min({prev[n]} \cup {prev[m] + weight[m][n] :
                          m \in {m \in Nodes : weight[m][n] > 0 /\ prev[m] # Infinite}})]

\* The lengths of shortest paths of 0, 1, ... edges from beginNode to each node
DistancesWithin ==
  LET d[k \in 0..N-1] ==
        IF k = 0 THEN [n \in Nodes |-> IF n = beginNode THEN 0 ELSE Infinite]
        ELSE LET prev == d[k-1] IN OneMoreEdge(prev)
  IN  d

\* A shortest path has N-1 edges at most.
Distances == DistancesWithin[N-1]

\* A sequence of nodes that follows edges from beginNode to n, and its length
IsPathTo(p, n) == /\ p # <<>> /\ p[Len(p)] = n
                  /\ weight[beginNode][p[1]] > 0
                  /\ \A k \in 1..Len(p)-1 : weight[p[k]][p[k+1]] > 0

LengthOf(p) ==
  LET l[k \in 1..Len(p)] == IF k = 1 THEN weight[beginNode][p[1]] ELSE l[k-1] + weight[p[k-1]][p[k]]
  IN  l[Len(p)]

\* When the loop ends, the cache holds a shortest path for every other node that can
\* be reached, and none for the rest: then get_path says -1.
ResultIsShortest ==
  (i > N \/ use = 0) =>
    LET dist == Distances IN
    \A n \in Nodes \ {beginNode} :
      IF dist[n] = Infinite THEN cache[n] = Unreached
      ELSE /\ cache[n].len = dist[n]
           /\ IsPathTo(cache[n].nodes, n) /\ LengthOf(cache[n].nodes) = cache[n].len

\* The nodes put at the front of used_nodes_id are settled: their paths are shortest
\* already, each node is listed once, and the next one is the nearest of the rest.
SettledIsFinal ==
  /\ \A n \in Nodes : \E k \in 1..N : used[k] = n
  /\ LET dist == Distances IN
     /\ \A k \in 1..i-1 : cache[used[k]].len = dist[used[k]]
     /\ use # 0 => cache[use].len = dist[use]
=============================================================================
