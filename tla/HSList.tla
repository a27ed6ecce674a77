------------------------------- MODULE HSList -------------------------------
(***************************************************************************)
(* HSList (hs_list.hpp): the singly linked list HSODBC queues requests in. *)
(* Nodes are numbered in the order they are allocated and never freed;     *)
(* Null is the null pointer.                                               *)
(***************************************************************************)
EXTENDS Integers, Sequences

Null == 0

EmptyList == [head |-> Null, tail |-> Null, recycled |-> Null, count |-> 0, node |-> <<>>]

Total(l) == Len(l.node)                  \* total_count_

HasHead(l)   == l.head # Null            \* what GetHeadValue returns
HeadValue(l) == l.node[l.head].value     \* and what it points to

\* GetTailNextValue: the tail is followed by a node that can be used again.
TailNext(l) == IF l.tail = Null THEN Null ELSE l.node[l.tail].next

\* PushValue: a value for the node after the tail if there is one (no count of
\* that node, no new tail), else a new node at the end.
PushValue(l, v) ==
  LET n      == Total(l) + 1
      linked == IF l.count = 0 THEN l.node ELSE [l.node EXCEPT ![l.tail].next = n]
  IN  IF TailNext(l) # Null
      THEN [l EXCEPT !.node[TailNext(l)].value = v, !.count = l.count + 1]
      ELSE [l EXCEPT !.node = Append(linked, [value |-> v, next |-> Null]),
                     !.head = IF l.count = 0 THEN n ELSE l.head,
                     !.tail = n, !.count = l.count + 1]

\* Mutant of MoveHead2Tail: nothing is moved.
MoveNothing(l) == l

\* MoveHead2Tail: the head is cut off and hung behind the recycled tail; head_ changes
\* only when nothing is left, although new_head is computed.
MoveHead2Tail(l) ==
  LET cut  == [l.node EXCEPT ![l.head].next = Null]
      hung == IF l.recycled = Null THEN cut ELSE [cut EXCEPT ![l.recycled].next = l.head]
  IN  [l EXCEPT !.node = hung,
                !.recycled = IF l.recycled = Null THEN l.head ELSE l.recycled,
                !.head = IF l.count = 1 THEN Null ELSE l.head,
                !.count = l.count - 1]

RemoveHead(l) == IF l.count = 0 THEN l ELSE MoveHead2Tail(l)
=============================================================================
