---------------------------- MODULE PathSearches ----------------------------
(***************************************************************************)
(* The two path searches of the library, hs_Dijkstra and hs_astar.  They   *)
(* share no state, so it is enough to see each of them with the other at   *)
(* rest: graphs are searched before a map is loaded, and a map is loaded   *)
(* beside one graph only, which nobody searches.                           *)
(***************************************************************************)
EXTENDS Dijkstra, AStar

AtRest == /\ weight = [n \in Nodes |-> [m \in Nodes |-> 0]]
          /\ beginNode = Min(Begins) /\ i = 1

SearchesInit == DijkstraInit /\ AStarInit

InGraph == pc = "unloaded" /\ DijkstraNext /\ UNCHANGED avars

OnGrid == AtRest /\ AStarNext /\ UNCHANGED dvars

SearchesSpec == SearchesInit /\ [][InGraph \/ OnGrid]_<<dvars, avars>>
=============================================================================
