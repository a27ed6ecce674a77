------------------------------- MODULE HSODBC -------------------------------
(***************************************************************************)
(* HSODBC (hs_odbc.cpp): a few statement handles on which queries run      *)
(* asynchronously, a list of the queries that found no free handle, and    *)
(* Doing(), called by the main loop, which collects results, calls the     *)
(* callbacks and starts queries from the list.                             *)
(*                                                                         *)
(* A query is its number.  Callbacks may call ExecuteQuery; a callback     *)
(* that ExecuteQuery calls itself, before it returns, is part of its step, *)
(* for ExecuteQuery changes nothing after it.                              *)
(***************************************************************************)
EXTENDS HSList

CONSTANTS NumHandles,  \* statement handles, 2 in the code
          MaxQueries,  \* bound: queries
          MaxQueued    \* the application never has more queries in the list

ASSUME ODBCAssumption == /\ NumHandles \in Nat \ {0}
                         /\ MaxQueries \in Nat /\ MaxQueued \in Nat

Handles == 1..NumHandles
Queries == 1..MaxQueries
NoQuery == 0

VARIABLES
  doing, cb,   \* doing_ and callback_ of each handle
  run, stmt,   \* what the driver runs on each handle, and how far it is
  list,        \* callback_list_
  pc, idx,     \* where Doing is, and the handle its loop has come to
  issued,      \* queries given to ExecuteQuery by the application
  calls,       \* how often the callback of each query was called, 2 for more
  failed,      \* queries whose asynchronous run ended with SQL_ERROR
  giving       \* the query whose callback Doing is in, NoQuery for none

odbcvars == <<doing, cb, run, stmt, list, pc, idx, issued, calls, failed, giving>>

Init == /\ doing = [h \in Handles |-> FALSE] /\ cb = [h \in Handles |-> NoQuery]
        /\ run = [h \in Handles |-> NoQuery] /\ stmt = [h \in Handles |-> "done"]
        /\ list = EmptyList /\ pc = "idle" /\ idx = 1 /\ issued = 0
        /\ calls = [q \in Queries |-> 0] /\ failed = {} /\ giving = NoQuery

-----------------------------------------------------------------------------
FreeHandles == {h \in Handles : ~doing[h]}

\* Mutant of CanUseHandle: the first handle, free or not.
FirstHandle == 1

\* GetCanUseHandleIndex, when there is a free handle
CanUseHandle == CHOOSE h \in FreeHandles : \A g \in FreeHandles : h <= g

\* The callback of query q is called.
Called(q) == calls' = [calls EXCEPT ![q] = IF @ < 2 THEN @ + 1 ELSE 2]

\* Mutant of RunAsync: the handle is not marked busy.
RunAsyncNotDoing(q, h) == /\ cb' = [cb EXCEPT ![h] = q]
                          /\ run' = [run EXCEPT ![h] = q]
                          /\ stmt' = [stmt EXCEPT ![h] = "executing"]
                          /\ UNCHANGED <<doing, calls>>

\* SQLExecDirect returns SQL_STILL_EXECUTING: the handle is busy and keeps the callback.
RunAsync(q, h) == /\ doing' = [doing EXCEPT ![h] = TRUE]
                  /\ cb' = [cb EXCEPT ![h] = q]
                  /\ run' = [run EXCEPT ![h] = q]
                  /\ stmt' = [stmt EXCEPT ![h] = "executing"]
                  /\ UNCHANGED calls

\* Mutant of RunAtOnce: the handle keeps the callback before the result is looked at.
RunAtOnceKeeps(q, h) == /\ run' = [run EXCEPT ![h] = q]
                        /\ stmt' = [stmt EXCEPT ![h] = "done"]
                        /\ Called(q)
                        /\ cb' = [cb EXCEPT ![h] = q]
                        /\ UNCHANGED doing

\* It returns a result, good or bad: the callback is called at once.
RunAtOnce(q, h) == /\ run' = [run EXCEPT ![h] = q]
                   /\ stmt' = [stmt EXCEPT ![h] = "done"]
                   /\ Called(q)
                   /\ UNCHANGED <<doing, cb>>

\* ExecuteQuery, called by the application from its loop or from a callback
MayExecute == pc \in {"idle", "scanCallback", "drainCallback"} /\ issued < MaxQueries

ExecuteOnHandle ==
  /\ MayExecute /\ FreeHandles # {}
  /\ issued' = issued + 1
  /\ RunAsync(issued', CanUseHandle) \/ RunAtOnce(issued', CanUseHandle)
  /\ UNCHANGED <<list, pc, idx, failed, giving>>

ExecuteQueued ==
  /\ MayExecute /\ FreeHandles = {} /\ list.count < MaxQueued
  /\ issued' = issued + 1
  /\ list' = PushValue(list, issued')
  /\ UNCHANGED <<doing, cb, run, stmt, pc, idx, calls, failed, giving>>

-----------------------------------------------------------------------------
(* Doing *)

Doing == /\ pc = "idle"
         /\ pc' = "scan" /\ idx' = 1
         /\ UNCHANGED <<doing, cb, run, stmt, list, issued, calls, failed, giving>>

\* The loop over the handles: nothing to collect, SQL_ERROR, or a result.
ScanNothing ==
  /\ pc = "scan" /\ idx \in Handles
  /\ ~doing[idx] \/ stmt[idx] = "executing"
  /\ idx' = idx + 1
  /\ UNCHANGED <<doing, cb, run, stmt, list, pc, issued, calls, failed, giving>>

ScanError ==
  /\ pc = "scan" /\ idx \in Handles /\ doing[idx] /\ stmt[idx] = "error"
  /\ doing' = [doing EXCEPT ![idx] = FALSE]
  /\ idx' = idx + 1
  /\ failed' = failed \cup {run[idx]}
  /\ UNCHANGED <<cb, run, stmt, list, pc, issued, calls, giving>>

\* Mutant of ScanResult: the handle stays busy.
ScanResultStaysBusy ==
  /\ pc = "scan" /\ idx \in Handles /\ doing[idx] /\ stmt[idx] = "done"
  /\ Called(cb[idx]) /\ giving' = cb[idx]
  /\ pc' = "scanCallback"
  /\ UNCHANGED <<doing, cb, run, stmt, list, idx, issued, failed>>

\* The handle is free again before its callback runs.
ScanResult ==
  /\ pc = "scan" /\ idx \in Handles /\ doing[idx] /\ stmt[idx] = "done"
  /\ doing' = [doing EXCEPT ![idx] = FALSE]
  /\ Called(cb[idx]) /\ giving' = cb[idx]
  /\ pc' = "scanCallback"
  /\ UNCHANGED <<cb, run, stmt, list, idx, issued, failed>>

ScanCallbackReturn ==
  /\ pc = "scanCallback"
  /\ pc' = "scan" /\ idx' = idx + 1 /\ giving' = NoQuery
  /\ UNCHANGED <<doing, cb, run, stmt, list, issued, calls, failed>>

ScanEnd ==
  /\ pc = "scan" /\ idx \notin Handles
  /\ pc' = "drain"
  /\ UNCHANGED <<doing, cb, run, stmt, list, idx, issued, calls, failed, giving>>

\* The loop over the list: its head is executed first and removed afterwards.
DrainAsync ==
  /\ pc = "drain" /\ list.count > 0 /\ HasHead(list) /\ FreeHandles # {}
  /\ RunAsync(HeadValue(list), CanUseHandle)
  /\ list' = RemoveHead(list)
  /\ UNCHANGED <<pc, idx, issued, failed, giving>>

DrainAtOnce ==
  /\ pc = "drain" /\ list.count > 0 /\ HasHead(list) /\ FreeHandles # {}
  /\ RunAtOnce(HeadValue(list), CanUseHandle)
  /\ pc' = "drainCallback" /\ giving' = HeadValue(list)
  /\ UNCHANGED <<list, idx, issued, failed>>

DrainCallbackReturn ==
  /\ pc = "drainCallback"
  /\ list' = RemoveHead(list)
  /\ pc' = "drain" /\ giving' = NoQuery
  /\ UNCHANGED <<doing, cb, run, stmt, idx, issued, calls, failed>>

DrainEnd ==
  /\ pc = "drain"
  /\ list.count = 0 \/ (HasHead(list) /\ FreeHandles = {})
  /\ pc' = "idle"
  /\ UNCHANGED <<doing, cb, run, stmt, list, idx, issued, calls, failed, giving>>

-----------------------------------------------------------------------------
\* The driver finishes a query.
DriverDone ==
  /\ \E h \in Handles, r \in {"done", "error"} :
       stmt[h] = "executing" /\ stmt' = [stmt EXCEPT ![h] = r]
  /\ UNCHANGED <<doing, cb, run, list, pc, idx, issued, calls, failed, giving>>

InDoing == \/ ScanNothing \/ ScanError \/ ScanResult \/ ScanCallbackReturn \/ ScanEnd
           \/ DrainAsync \/ DrainAtOnce \/ DrainCallbackReturn \/ DrainEnd

Next == ExecuteOnHandle \/ ExecuteQueued \/ Doing \/ InDoing \/ DriverDone

Spec == Init /\ [][Next]_odbcvars

\* The main loop calls Doing again and again, and the driver finishes its queries.
FairSpec == Spec /\ WF_odbcvars(Doing) /\ WF_odbcvars(InDoing) /\ WF_odbcvars(DriverDone)

-----------------------------------------------------------------------------
(* Properties *)

\* A busy handle runs the query whose callback it keeps, and no other handle does.
HandleOwnsQuery == \A h \in Handles : doing[h] =>
  /\ cb[h] = run[h] /\ stmt[h] \in {"executing", "done", "error"}
  /\ \A g \in Handles : doing[g] /\ run[g] = run[h] => g = h

\* No callback is called twice, although callbacks start queries while Doing is in the
\* middle of its loops, and the head of the list is removed after it was executed.
CalledAtMostOnce == \A q \in Queries : calls[q] <= 1

\* The parameters a callback is given are pointers into the handle's copy or into the
\* head of the list (hs_odbc.cpp:198-199, 210).  What the callback executes at once, on
\* another handle, or puts into the list leaves them alone.  What it executes on the
\* handle it was collected from, and asynchronously, takes their place: there, and only
\* there, the callback loses its own parameters.
OthersKeepParams == /\ pc = "scanCallback" /\ ~doing[idx] => cb[idx] = giving
                    /\ pc = "drainCallback" => HasHead(list) /\ HeadValue(list) = giving

\* Doing returns: its second loop ends.
DoingReturns == pc # "idle" ~> pc = "idle"

\* Every query's callback is called, unless its asynchronous run failed.
CalledOrFailed == \A q \in Queries : issued >= q ~> calls[q] > 0 \/ q \in failed
=============================================================================
