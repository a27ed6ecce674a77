------------------------------ MODULE HSServer ------------------------------
(***************************************************************************)
(* HSClientServer (hs_server.h): an HSAcceptor without a fixed session id  *)
(* and the map of sessions HSSessionMgr keeps.  A session is seen through  *)
(* its id and how far it has come; HSSession models what it does.          *)
(* Sessions are numbered in the order they are made.                       *)
(***************************************************************************)
EXTENDS Integers, Sequences

CONSTANTS Ids,          \* ids an unsigned int can hold, 2^32 in the code
          MaxSessions   \* bound: sessions made

ASSUME ServerAssumption == Ids \in Nat \ {0} /\ MaxSessions \in Nat

VARIABLES
  currId,    \* curr_id_
  sessions,  \* sessions_: id to session
  id, st,    \* of each session: its id, and how far it is
  running    \* FALSE when a handler has thrown

svars == <<currId, sessions, id, st, running>>

Init == /\ currId = 0 /\ sessions = [i \in {} |-> 0]
        /\ id = <<>> /\ st = <<>> /\ running = TRUE

\* Mutant of NextId: the counter is not moved on.
CurrentId == currId

\* ++curr_id_ of an unsigned int
NextId == (currId + 1) % Ids

\* insert() leaves an entry that is there.
Inserted(m, i, s) == [j \in DOMAIN m \cup {i} |-> IF j \in DOMAIN m THEN m[j] ELSE s]

\* new_session and HSAcceptor::start, which waits for the next client with it
StartAccept(states) ==
  /\ currId' = NextId
  /\ sessions' = Inserted(sessions, NextId, Len(id) + 1)
  /\ id' = Append(id, NextId)
  /\ st' = Append(states, "accepting")

\* HSClientServer::start.  The acceptor binds its port, which throws when it cannot.
Start == /\ running /\ id = <<>> /\ MaxSessions > 0
         /\ \/ StartAccept(st) /\ UNCHANGED running
            \/ running' = FALSE /\ UNCHANGED <<currId, sessions, id, st>>

\* The session that waits for a client is always the newest.
Newest == Len(st)

Becomes(s, from, to) == st[s] = from /\ st' = [st EXCEPT ![s] = to]

\* handle_accept without error: the session comes up and the next accept is started.
HandleAccept ==
  /\ running /\ st # <<>> /\ st[Newest] = "accepted" /\ Len(st) < MaxSessions
  /\ StartAccept([st EXCEPT ![Newest] = "up"])
  /\ UNCHANGED running

\* The client has gone again: remote_endpoint() throws before start() is called.
HandleAcceptGone ==
  /\ running /\ st # <<>> /\ Becomes(Newest, "left", "up")
  /\ running' = FALSE
  /\ UNCHANGED <<currId, sessions, id>>

\* Mutant of HandleAcceptError: the handler returns without starting the next accept.
HandleAcceptErrorReturns ==
  /\ running /\ st # <<>> /\ Becomes(Newest, "failed", "gone")
  /\ UNCHANGED <<currId, sessions, id, running>>

\* handle_accept with an error: the next accept, with another session.
HandleAcceptError ==
  /\ running /\ st # <<>> /\ st[Newest] = "failed" /\ Len(st) < MaxSessions
  /\ StartAccept(st)
  /\ UNCHANGED running

\* onDisconnect: the application removes the session it is told of.
RemoveOnDisconnect ==
  /\ running
  /\ \E s \in DOMAIN st :
       /\ Becomes(s, "broken", "gone")
       /\ sessions' = [i \in DOMAIN sessions \ {id[s]} |-> sessions[i]]
  /\ UNCHANGED <<currId, id, running>>

-----------------------------------------------------------------------------
(* The clients *)

ClientConnects == /\ st # <<>> /\ Becomes(Newest, "accepting", "accepted")
                  /\ UNCHANGED <<currId, sessions, id, running>>

AcceptFails == /\ st # <<>> /\ Becomes(Newest, "accepting", "failed")
               /\ UNCHANGED <<currId, sessions, id, running>>

ClientLeaves == /\ \E s \in DOMAIN st : Becomes(s, "accepted", "left") \/ Becomes(s, "up", "broken")
                /\ UNCHANGED <<currId, sessions, id, running>>

Next == \/ Start \/ HandleAccept \/ HandleAcceptGone \/ HandleAcceptError \/ RemoveOnDisconnect
        \/ ClientConnects \/ AcceptFails \/ ClientLeaves

Spec == Init /\ [][Next]_svars

-----------------------------------------------------------------------------
(* Properties *)

\* A client's session is found under the id onConnect, onReceive and onDisconnect give
\* for it, until it is removed; removing one session never removes another
\* (hs_acceptor.h:22: the manager allocates an id by itself).
LookupFindsOwn ==
  \A s \in DOMAIN st : st[s] \in {"accepting", "accepted", "left", "up", "broken"} =>
    id[s] \in DOMAIN sessions /\ sessions[id[s]] = s
=============================================================================
