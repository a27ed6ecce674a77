-------------------------------- MODULE AStar --------------------------------
(***************************************************************************)
(* hs_astar_find_path (hs_astar.cpp) on a map of Width x Height cells: the *)
(* open and the closed list, the nodes with their parents, and the node    *)
(* allocator, which only hs_astar_recycle and hs_astar_load_data reset.    *)
(* A step of a search is one round of its while loop.                      *)
(***************************************************************************)
EXTENDS Integers, Sequences, FiniteSets

CONSTANTS Width, Height,  \* of the map
          Capacity,       \* nodes the allocator has
          MaxFinds        \* bound: searches

ASSUME AStarAssumption == /\ Width \in Nat \ {0} /\ Height \in Nat \ {0}
                          /\ Capacity \in Nat /\ MaxFinds \in Nat

Cells == (0..Width-1) \X (0..Height-1)

VARIABLES
  blocked,       \* cells whose value is 1
  begin, end,    \* the ends of the search
  node,          \* the nodes of the search: cell, g, and the number of the parent, 0 for none
  open, closed,  \* the lists of node numbers; closed has its newest node first
  allocated,     \* nodes allocated since the last recycle
  pc,            \* "unloaded", "idle", "search", "found", "nopath", "cleared" or "crashed"
  finds          \* searches so far

avars == <<blocked, begin, end, node, open, closed, allocated, pc, finds>>

AStarInit == /\ blocked = {}
             /\ begin = <<0, 0>> /\ end = <<0, 0>>
             /\ node = <<>> /\ open = <<>> /\ closed = <<>>
             /\ allocated = 0 /\ pc = "unloaded" /\ finds = 0

-----------------------------------------------------------------------------
Distance(a, b) == IF a <= b THEN b - a ELSE a - b

\* calc_hvalue and f of a node
HValue(c) == Distance(c[1], end[1]) + Distance(c[2], end[2])
FValue(k) == node[k].g + HValue(node[k].cell)

\* Mutant of MinFIndex: the newest node, whatever its f.
LastIndex(l) == Len(l)

\* get_min_f_index: the last position with the least f.
MinFIndex(l) ==
  CHOOSE p \in DOMAIN l : \A q \in DOMAIN l : \/ FValue(l[p]) < FValue(l[q])
                                              \/ FValue(l[p]) = FValue(l[q]) /\ q <= p

IsBlocked(c) == c \notin Cells \/ c \in blocked

IsIn(l, c) == \E p \in DOMAIN l : node[l[p]].cell = c

\* Mutant of InClosed: the closed list is not looked at.
NeverClosed(l, c) == FALSE

\* is_in_closed is given the list from one place before its newest node on, so the
\* oldest of its closed_num nodes is not looked at.
InClosed(l, c) == IsIn(SubSeq(l, 1, Len(l) - 1), c)

\* Mutant of Neighbours: the fourth is the third once more.
ThirdTwice(c) == <<<<c[1], c[2] - 1>>, <<c[1], c[2] + 1>>,
                   <<c[1] - 1, c[2]>>, <<c[1] - 1, c[2]>>>>

Neighbours(c) == <<<<c[1], c[2] - 1>>, <<c[1], c[2] + 1>>,
                   <<c[1] - 1, c[2]>>, <<c[1] + 1, c[2]>>>>

\* The cells of a round that get a new node, when node k is closed, and the nodes that
\* are reached over k on a shorter way than before
NewCells(k, op, cl) ==
  LET At(d) == LET c == Neighbours(node[k].cell)[d] IN
               IF IsBlocked(c) \/ InClosed(cl, c) \/ IsIn(op, c) THEN <<>> ELSE <<c>>
  IN  At(1) \o At(2) \o At(3) \o At(4)

\* Mutant of Improved: nodes that are not next to the one just closed count, too.
AllImproved(k, op, cl) == {o \in {op[p] : p \in DOMAIN op} : node[o].g > node[k].g}

Improved(k, op, cl) ==
  {o \in {op[p] : p \in DOMAIN op} :
     /\ \E d \in DOMAIN Neighbours(node[k].cell) : Neighbours(node[k].cell)[d] = node[o].cell
     /\ ~IsBlocked(node[o].cell) /\ ~InClosed(cl, node[o].cell)
     /\ node[o].g > node[k].g + 1}

-----------------------------------------------------------------------------
\* No search: its variables are locals of hs_astar_find_path.
NoSearch == /\ begin' = <<0, 0>> /\ end' = <<0, 0>>
            /\ node' = <<>> /\ open' = <<>> /\ closed' = <<>>
            /\ UNCHANGED finds

\* hs_astar_load_data: a map, and all nodes of the allocator are free again.  (A map after
\* the last search would be loaded for nothing.)
Load == /\ pc \notin {"search", "crashed"} /\ finds < MaxFinds
        /\ blocked' \in SUBSET Cells
        /\ allocated' = 0 /\ pc' = "idle"
        /\ NoSearch

\* hs_astar_find_path up to its loop: the allocator's null pointer is not checked, nor
\* that it has memory at all.
FindPath ==
  /\ pc \in {"idle", "found", "nopath", "cleared"} /\ finds < MaxFinds
  /\ finds' = finds + 1
  /\ begin' \in Cells /\ end' \in Cells
  /\ node' = <<[cell |-> begin', g |-> 0, parent |-> 0]>>
  /\ open' = <<1>> /\ closed' = <<>>
  /\ IF allocated < Capacity /\ pc # "cleared"
     THEN pc' = "search" /\ allocated' = allocated + 1
     ELSE pc' = "crashed" /\ allocated' = allocated
  /\ UNCHANGED blocked

\* The open list is empty.
NoPath == /\ pc = "search" /\ open = <<>>
          /\ pc' = "nopath"
          /\ UNCHANGED <<blocked, begin, end, node, open, closed, allocated, finds>>

\* The node with the least f is closed; it is the end, or its neighbours are visited.
Round ==
  /\ pc = "search" /\ open # <<>>
  /\ LET at  == MinFIndex(open)
         k   == open[at]
         op  == SubSeq(open, 1, at - 1) \o SubSeq(open, at + 1, Len(open))
         cl  == <<k>> \o closed
         new == NewCells(k, op, cl)
         imp == Improved(k, op, cl)
     IN  /\ closed' = cl
         /\ IF node[k].cell = end
            THEN pc' = "found" /\ open' = op /\ UNCHANGED <<node, allocated>>
            ELSE /\ node' = [o \in 1..Len(node) + Len(new) |->
                               IF o > Len(node)
                               THEN [cell |-> new[o - Len(node)], g |-> node[k].g + 1, parent |-> k]
                               ELSE IF o \in imp THEN [cell |-> node[o].cell, g |-> node[k].g + 1,
                                                       parent |-> k]
                               ELSE node[o]]
                 /\ open' = op \o [p \in 1..Len(new) |-> Len(node) + p]
                 /\ allocated' = allocated + Len(new)
                 /\ pc' = IF allocated' <= Capacity THEN pc ELSE "crashed"
  /\ UNCHANGED <<blocked, begin, end, finds>>

\* hs_astar_recycle: all nodes are free again, in new memory if there is none.
Recycle == /\ pc \in {"found", "nopath", "cleared"}
           /\ allocated' = 0 /\ pc' = "idle"
           /\ NoSearch
           /\ UNCHANGED blocked

\* hs_astar_clear: the allocator gives its memory back.
Clear == /\ pc \in {"idle", "found", "nopath"}
         /\ allocated' = 0 /\ pc' = "cleared"
         /\ NoSearch
         /\ UNCHANGED blocked

AStarNext == Load \/ FindPath \/ NoPath \/ Round \/ Recycle \/ Clear

AStarSpec == AStarInit /\ [][AStarNext]_avars

-----------------------------------------------------------------------------
(* What a shortest path is *)

IsNeighbour(a, b) == Distance(a[1], b[1]) + Distance(a[2], b[2]) = 1

\* Cells, and those one step over free cells away
Around(cells) ==
  {c \in Cells : c \in cells \/ (c \notin blocked /\ \E b \in cells : IsNeighbour(b, c))}

\* What 0, 1, ... steps from begin reach
Reached ==
  LET r[k \in 0..Cardinality(Cells)] ==
        IF k = 0 THEN {begin} ELSE LET prev == r[k-1] IN Around(prev)
  IN  r

\* The result list: the cells from the end's node up to the node without a parent.
\* A search that has found its end gives a path without blocked cells that is as
\* short as any, although nodes are closed in the order of an estimate.
FoundIsShortest ==
  pc = "found" =>
    LET g == node[closed[1]].g IN
    /\ node[closed[1]].cell = end
    /\ end \in Reached[g]
    /\ g > 0 => end \notin Reached[g - 1]

\* The parents lead back to begin by single steps, over fewer and fewer of them, so
\* the walk that builds the result ends with the path that g counts.
ParentsLeadBack ==
  \A k \in DOMAIN node :
    IF node[k].parent = 0 THEN node[k].cell = begin /\ node[k].g = 0
    ELSE LET p == node[node[k].parent] IN
         IsNeighbour(node[k].cell, p.cell) /\ node[k].g = p.g + 1

\* A search that gives up was asked for a cell that cannot be reached: begin lies in a
\* set of cells that is closed under steps over free cells and does not have the end.
NoPathIsRight ==
  pc = "nopath" =>
    LET seen == {node[k].cell : k \in DOMAIN node}
    IN  /\ begin \in seen /\ end \notin seen
        /\ \A c \in seen, d \in Cells \ blocked : IsNeighbour(c, d) => d \in seen

\* A search never needs more than one node for each cell and one more, so it ends.
NodesSuffice == Len(node) <= Cardinality(Cells) + 1
=============================================================================
