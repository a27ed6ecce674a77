-------------------------- MODULE GameServer_proofs --------------------------
(***************************************************************************)
(* What the server and the channel guarantee, alone and as the parts of a  *)
(* program.                                                                *)
(***************************************************************************)
EXTENDS GameServer, TLAPS

(***************************************************************************)
(* The server.  As long as fewer sessions are made than an unsigned int    *)
(* has values, every session is found under its own id.  Ids are then the  *)
(* numbers of the sessions, so no two of them share an entry of the map.   *)
(***************************************************************************)

States == {"accepting", "accepted", "up", "left", "broken", "gone", "failed"}
Live   == {"accepting", "accepted", "left", "up", "broken"}

\* The counter has not wrapped, and every id is the number of its session.
Numbered == /\ id \in Seq(Nat) /\ st \in Seq(States) /\ Len(id) = Len(st)
            /\ Len(id) <= MaxSessions
            /\ currId = Len(id)
            /\ \A s \in 1..Len(id) : id[s] = s

\* The map has entries of sessions that were made, under their own ids, and those of
\* all that live.
Mapped == /\ \A i \in DOMAIN sessions : i \in 1..Len(id) /\ sessions[i] = i
          /\ \A s \in 1..Len(st) : st[s] \in Live => s \in DOMAIN sessions

IInv == Numbered /\ Mapped

\* The inductive invariant says what the property asks for.
LEMMA InvLookup == IInv => LookupFindsOwn
BY DEF IInv, Numbered, Mapped, LookupFindsOwn, Live

\* A new session gets the next number, and its entry does not meet another.
LEMMA StartAcceptInv ==
  ASSUME IInv, NEW states \in Seq(States), Len(states) = Len(st),
         \A s \in 1..Len(st) : states[s] \in Live => st[s] \in Live,
         Len(st) < MaxSessions, MaxSessions < Ids,
         StartAccept(states)
  PROVE  IInv'
<1> USE ServerAssumption
<1> DEFINE n == Len(id) + 1
<1>1. n \in Nat /\ n > 0 /\ n < Ids /\ n <= MaxSessions /\ Len(st) = n - 1
  BY DEF IInv, Numbered
<1>2. NextId = n
  BY <1>1 DEF IInv, Numbered, NextId
<1>3. /\ id' = Append(id, n) /\ st' = Append(states, "accepting") /\ currId' = n
      /\ sessions' = Inserted(sessions, n, n)
  BY <1>2 DEF StartAccept
<1>4. Numbered'
  <2>1. id' \in Seq(Nat) /\ Len(id') = n /\ \A s \in 1..Len(id) : id'[s] = id[s]
    BY <1>1, <1>3 DEF IInv, Numbered
  <2>2. id'[n] = n
    BY <1>1, <1>3 DEF IInv, Numbered
  <2>3. st' \in Seq(States) /\ Len(st') = n
    BY <1>1, <1>3 DEF States
  <2> QED
    BY <1>1, <1>3, <2>1, <2>2, <2>3 DEF IInv, Numbered
<1>5. Mapped'
  <2>1. Len(id') = n /\ Len(st') = n
    BY <1>1, <1>3 DEF IInv, Numbered, States
  <2>2. /\ DOMAIN sessions' = DOMAIN sessions \cup {n}
        /\ \A i \in DOMAIN sessions : sessions'[i] = sessions[i]
        /\ n \notin DOMAIN sessions => sessions'[n] = n
    BY <1>3 DEF Inserted
  <2>3. n \notin DOMAIN sessions
    BY <1>1 DEF IInv, Mapped, Numbered
  <2>4. ASSUME NEW s \in 1..Len(st'), st'[s] \in Live PROVE s \in DOMAIN sessions'
    <3>1. CASE s = n
      BY <3>1, <2>2
    <3>2. CASE s # n
      <4>1. s \in 1..Len(st) /\ st'[s] = states[s]
        BY <3>2, <1>1, <1>3, <2>1
      <4> QED
        BY <4>1, <2>2, <2>4 DEF IInv, Mapped
    <3> QED
      BY <3>1, <3>2
  <2> QED
    BY <1>1, <2>1, <2>2, <2>3, <2>4 DEF IInv, Mapped
<1> QED
  BY <1>4, <1>5 DEF IInv

\* A session that goes on, and does not come back to life, changes nothing else.
LEMMA BecomesInv ==
  ASSUME IInv, NEW s \in DOMAIN st, NEW from \in States, NEW to \in States,
         from \in Live, Becomes(s, from, to),
         UNCHANGED <<currId, id>>,
         \/ sessions' = sessions
         \/ to \notin Live /\ sessions' = [i \in DOMAIN sessions \ {id[s]} |-> sessions[i]]
  PROVE  IInv'
<1>1. st' \in Seq(States) /\ Len(st') = Len(st) /\ DOMAIN st = 1..Len(st)
      /\ st'[s] = to /\ \A r \in DOMAIN st : r # s => st'[r] = st[r]
  BY DEF Becomes, IInv, Numbered
<1>2. Numbered'
  BY <1>1 DEF IInv, Numbered
<1>3. id[s] = s
  BY <1>1 DEF IInv, Numbered
<1>4. Mapped'
  BY <1>1, <1>3 DEF IInv, Mapped, Becomes
<1> QED
  BY <1>2, <1>4 DEF IInv

\* Initially there are no sessions.
LEMMA InitInv == Init => IInv
BY ServerAssumption DEF Init, IInv, Numbered, Mapped

\* Every action keeps the inductive invariant.
LEMMA NextInv == ASSUME IInv, [Next]_svars, MaxSessions < Ids PROVE IInv'
<1> USE DEF States, Live
<1>0. Len(st) = Len(id) /\ Len(st) \in Nat /\ DOMAIN st = 1..Len(st) /\ st \in Seq(States)
      /\ (st # <<>> => Newest \in DOMAIN st)
  BY DEF IInv, Numbered, Newest
<1>1. CASE Start
  <2>1. Len(st) < MaxSessions
    BY <1>1, <1>0, ServerAssumption DEF Start
  <2>2. CASE StartAccept(st)
    BY <2>2, <1>0, <2>1, StartAcceptInv
  <2>3. CASE UNCHANGED <<currId, sessions, id, st>>
    BY <2>3 DEF IInv, Numbered, Mapped
  <2> QED
    BY <1>1, <2>2, <2>3 DEF Start
<1>2. CASE HandleAccept
  <2> DEFINE states == [st EXCEPT ![Newest] = "up"]
  <2>1. states \in Seq(States) /\ Len(states) = Len(st)
        /\ \A s \in 1..Len(st) : states[s] \in Live => st[s] \in Live
    BY <1>2, <1>0 DEF HandleAccept
  <2> QED
    BY <1>2, <2>1, StartAcceptInv DEF HandleAccept
<1>3. CASE HandleAcceptGone
  BY <1>3, <1>0, BecomesInv DEF HandleAcceptGone
<1>4. CASE HandleAcceptError
  BY <1>4, <1>0, StartAcceptInv DEF HandleAcceptError
<1>5. CASE RemoveOnDisconnect
  BY <1>5, <1>0, BecomesInv DEF RemoveOnDisconnect
<1>6. CASE ClientConnects
  BY <1>6, <1>0, BecomesInv DEF ClientConnects
<1>7. CASE AcceptFails
  BY <1>7, <1>0, BecomesInv DEF AcceptFails
<1>8. CASE ClientLeaves
  BY <1>8, <1>0, BecomesInv DEF ClientLeaves
<1>9. CASE UNCHANGED svars
  BY <1>9 DEF svars, IInv, Numbered, Mapped
<1> QED
  BY <1>1, <1>2, <1>3, <1>4, <1>5, <1>6, <1>7, <1>8, <1>9 DEF Next

\* With room for the ids of all sessions, every session is found under its id until it
\* is removed, and no removal takes another's entry (hs_sessionmgr.cpp:8-31).
THEOREM LookupCorrect == ASSUME MaxSessions < Ids PROVE Spec => []LookupFindsOwn
<1>1. Init => IInv
  BY InitInv
<1>2. IInv /\ [Next]_svars => IInv'
  BY NextInv
<1>3. IInv => LookupFindsOwn
  BY InvLookup
<1> QED
  BY <1>1, <1>2, <1>3, PTL DEF Spec

-----------------------------------------------------------------------------
(***************************************************************************)
(* The channel.  However often connect() and listen() are called, a        *)
(* session that says it is connected has a socket that was, unless the     *)
(* handler of an earlier connect said so.                                  *)
(*                                                                         *)
(* The connect and the accepts share one socket, and nothing in the code   *)
(* keeps them apart.  What the argument needs is that a handler with a     *)
(* success of the present connect finds the socket it is about: clear()    *)
(* makes every such handler an old one, an accept leaves an open socket    *)
(* alone, and no connect is outstanding on a socket that is up.            *)
(***************************************************************************)

Handlers == {"timer", "connectOk", "oldConnectOk", "connectError", "acceptOk", "acceptError",
             "lost"}

\* A success of the present connect waits in the queue q.
Succeeded(q) == \E i \in 1..Len(q) : q[i] = "connectOk"

ChannelTypes == connecting \in BOOLEAN /\ timer \in BOOLEAN /\ ready \in Seq(Handlers)

LinkInv == /\ ChannelTypes
           /\ connecting => sock = "opened"
           /\ Succeeded(ready) => sock \in {"up", "dead"} /\ ~connecting
           /\ ConnectedOwnsSocket

-----------------------------------------------------------------------------
(* The queue of handlers *)

\* Another handler at the end of the queue is no success of a connect, unless it is that.
LEMMA Appended ==
  ASSUME NEW q \in Seq(Handlers), NEW h \in Handlers
  PROVE  /\ Append(q, h) \in Seq(Handlers)
         /\ h # "connectOk" => (Succeeded(Append(q, h)) <=> Succeeded(q))
<1> DEFINE p == Append(q, h)
<1>1. /\ p \in Seq(Handlers) /\ Len(p) = Len(q) + 1 /\ Len(q) \in Nat /\ p[Len(p)] = h
      /\ \A i \in 1..Len(q) : p[i] = q[i]
  OBVIOUS
<1> HIDE DEF p
<1>2. \A i \in 1..Len(p) : i = Len(p) \/ i \in 1..Len(q)
  BY <1>1
<1>3. \A i \in 1..Len(q) : i \in 1..Len(p)
  BY <1>1
<1>4. h # "connectOk" => (Succeeded(p) <=> Succeeded(q))
  BY <1>1, <1>2, <1>3 DEF Succeeded
<1> QED
  BY <1>1, <1>4 DEF p

\* The same when there may be no such handler
LEMMA MadeReady ==
  ASSUME NEW q \in Seq(Handlers), NEW c \in BOOLEAN, NEW h \in Handlers \ {"connectOk"}
  PROVE  /\ Ready(q, c, h) \in Seq(Handlers)
         /\ Succeeded(Ready(q, c, h)) <=> Succeeded(q)
BY Appended DEF Ready

\* The first handler is taken out of the queue.
LEMMA TakenOut ==
  ASSUME NEW q \in Seq(Handlers), q # <<>>
  PROVE  /\ Tail(q) \in Seq(Handlers)
         /\ Succeeded(Tail(q)) => Succeeded(q)
         /\ Head(q) = "connectOk" => Succeeded(q)
<1> DEFINE p == Tail(q)
<1>1. /\ p \in Seq(Handlers) /\ Len(q) \in Nat \ {0} /\ q[1] = Head(q) /\ 1 \in 1..Len(q)
      /\ \A i \in 1..Len(p) : p[i] = q[i + 1] /\ i + 1 \in 1..Len(q)
  OBVIOUS
<1> HIDE DEF p
<1>2. Succeeded(p) => Succeeded(q)
  BY <1>1 DEF Succeeded
<1>3. Head(q) = "connectOk" => Succeeded(q)
  BY <1>1 DEF Succeeded
<1> QED
  BY <1>1, <1>2, <1>3 DEF p

\* After clear() every success that waits is an old one.
LEMMA NothingNew ==
  ASSUME NEW q \in Seq(Handlers), connecting \in BOOLEAN
  PROVE  Cleared(q) \in Seq(Handlers) /\ ~Succeeded(Cleared(q))
<1> DEFINE p == [i \in DOMAIN q |-> IF q[i] = "connectOk" THEN "oldConnectOk" ELSE q[i]]
<1>1. DOMAIN q = 1..Len(q) /\ Len(q) \in Nat /\ \A i \in 1..Len(q) : q[i] \in Handlers
  OBVIOUS
<1>2. /\ DOMAIN p = 1..Len(q)
      /\ \A i \in 1..Len(q) : p[i] \in Handlers /\ p[i] # "connectOk"
  BY <1>1 DEF Handlers
<1> HIDE DEF p
<1>3. p = [i \in 1..Len(q) |-> p[i]]
  BY <1>1, <1>2 DEF p
<1>4. p \in Seq(Handlers) /\ Len(p) = Len(q)
  BY <1>1, <1>2, <1>3
<1>5. ~Succeeded(p)
  BY <1>2, <1>4 DEF Succeeded
<1>6. Ready(p, connecting, "connectError") \in Seq(Handlers)
      /\ ~Succeeded(Ready(p, connecting, "connectError"))
  BY <1>4, <1>5, MadeReady DEF Handlers
<1> QED
  BY <1>6 DEF Cleared, p

-----------------------------------------------------------------------------
(* The steps *)

\* start() of the acceptor, after the handlers in q, leaves the socket alone.
LEMMA AcceptorStarts ==
  ASSUME NEW q \in Seq(Handlers), NEW conn \in BOOLEAN, AcceptorStart(q, conn)
  PROVE  ready' \in Seq(Handlers) /\ (Succeeded(ready') <=> Succeeded(q))
BY MadeReady DEF AcceptorStart, Handlers

\* listen() leaves it alone, too.
LEMMA Listens ==
  ASSUME LinkInv, Listen, UNCHANGED <<timer, connected, sock, connecting, overtaken>>
  PROVE  LinkInv'
<1>1. ready' \in Seq(Handlers) /\ (Succeeded(ready') <=> Succeeded(ready))
  <2>1. CASE AcceptorStart(ready, connected)
    <3>1. \/ ready' = ready
          \/ ready' = Append(ready, "acceptError")
      BY <2>1 DEF AcceptorStart, Ready
    <3> QED
      BY <3>1, Appended DEF LinkInv, ChannelTypes, Handlers
  <2>2. CASE ready' = ready
    BY <2>2 DEF LinkInv, ChannelTypes
  <2> QED
    BY <2>1, <2>2 DEF Listen
<1> QED
  BY <1>1 DEF LinkInv, ChannelTypes, ConnectedOwnsSocket

\* A failed connect, or a timer, is noted after the handlers in q.
LEMMA TimeoutNoted ==
  ASSUME LinkInv, NEW q \in Seq(Handlers), Succeeded(q) => Succeeded(ready),
         HandleTimeout(q), UNCHANGED <<connected, sock, connecting, overtaken>>
  PROVE  LinkInv'
<1>1. ready' \in Seq(Handlers) /\ (Succeeded(ready') <=> Succeeded(q))
  BY MadeReady DEF HandleTimeout, LinkInv, ChannelTypes, Handlers
<1> QED
  BY <1>1 DEF HandleTimeout, LinkInv, ChannelTypes, ConnectedOwnsSocket

\* What the application's loop does
LEMMA LoopStep == ASSUME LinkInv, Loop PROVE LinkInv'
<1> USE DEF LinkInv, ChannelTypes, ConnectedOwnsSocket
<1>1. ready \in Seq(Handlers) /\ connecting \in BOOLEAN /\ timer \in BOOLEAN
  OBVIOUS
<1>2. CASE AppListen \/ PollFailed
  BY <1>2, Listens DEF AppListen, PollFailed
<1>3. CASE AppConnect
  <2>1. Cleared(ready) \in Seq(Handlers) /\ ~Succeeded(Cleared(ready))
    BY <1>1, NothingNew
  <2>2. ready' \in Seq(Handlers) /\ ~Succeeded(ready')
    BY <1>1, <1>3, <2>1, MadeReady DEF AppConnect, ConnectorConnect, Handlers
  <2> QED
    BY <1>3, <2>2 DEF AppConnect, ConnectorConnect
<1>4. CASE AppConnectConnected \/ Poll \/ PollReturn \/ RunAcceptGone
  BY <1>4 DEF AppConnectConnected, Poll, PollReturn, RunAcceptGone
<1>5. CASE WriteFails
  <2>1. ready' \in Seq(Handlers) /\ (Succeeded(ready') <=> Succeeded(ready))
    BY <1>1, <1>5, Appended DEF WriteFails, Handlers
  <2> QED
    BY <1>5, <2>1 DEF WriteFails, Quiet
<1>6. ASSUME NEW h, Running(h)
      PROVE  /\ Tail(ready) \in Seq(Handlers)
             /\ Succeeded(Tail(ready)) => Succeeded(ready)
             /\ h = "connectOk" => Succeeded(ready)
  BY <1>1, <1>6, TakenOut DEF Running
<1>7. CASE RunTimer \/ RunConnectError
  BY <1>6, <1>7, TimeoutNoted DEF RunTimer, RunConnectError
<1>8. CASE RunConnectOk
  BY <1>6, <1>8 DEF RunConnectOk, HandleConnect
<1>9. CASE RunOldConnectOk
  BY <1>6, <1>9 DEF RunOldConnectOk, HandleConnect
<1>10. CASE RunAcceptOk
  <2>1. ready' \in Seq(Handlers) /\ (Succeeded(ready') => Succeeded(ready))
    BY <1>6, <1>10, AcceptorStarts DEF RunAcceptOk
  <2> QED
    BY <1>10, <2>1 DEF RunAcceptOk
<1>11. CASE RunAcceptError
  <2>1. \/ ready' = Tail(ready)
        \/ ready' = Append(Tail(ready), "acceptError")
    BY <1>11 DEF RunAcceptError, AcceptorStart, Ready
  <2>2. Tail(ready) \in Seq(Handlers) /\ (Succeeded(Tail(ready)) => Succeeded(ready))
    BY <1>6, <1>11 DEF RunAcceptError
  <2>3. /\ Append(Tail(ready), "acceptError") \in Seq(Handlers)
        /\ Succeeded(Append(Tail(ready), "acceptError")) => Succeeded(ready)
    BY <2>2, Appended DEF Handlers
  <2>4. ready' \in Seq(Handlers) /\ (Succeeded(ready') => Succeeded(ready))
    BY <2>1, <2>2, <2>3
  <2> QED
    BY <1>11, <2>4 DEF RunAcceptError
<1>12. CASE RunLost
  <2>1. ready' \in Seq(Handlers) /\ ~Succeeded(ready')
    BY <1>1, <1>6, <1>12, NothingNew DEF RunLost
  <2> QED
    BY <1>12, <2>1 DEF RunLost
<1> QED
  BY <1>2, <1>3, <1>4, <1>5, <1>7, <1>8, <1>9, <1>10, <1>11, <1>12 DEF Loop, RunHandler

\* What the network and the timer do
LEMMA NetworkKeeps == ASSUME LinkInv, Network PROVE LinkInv'
<1> USE DEF LinkInv, ChannelTypes, ConnectedOwnsSocket, Quiet
<1>1. \A h \in Handlers :
        /\ Append(ready, h) \in Seq(Handlers)
        /\ h # "connectOk" => (Succeeded(Append(ready, h)) <=> Succeeded(ready))
  BY Appended
<1>2. CASE ConnectOk
  BY <1>1, <1>2 DEF ConnectOk, Handlers
<1>3. CASE ConnectFails
  BY <1>1, <1>3 DEF ConnectFails, Handlers
<1>4. CASE TimerFires
  BY <1>1, <1>4 DEF TimerFires, Handlers
<1>5. CASE PeerConnects
  BY <1>1, <1>5 DEF PeerConnects, Handlers
<1>6. CASE PeerDrops
  BY <1>1, <1>6 DEF PeerDrops, Ready, Handlers
<1> QED
  BY <1>2, <1>3, <1>4, <1>5, <1>6 DEF Network

\* Every step of the channel keeps the inductive invariant.
LEMMA LinkStep == ASSUME LinkInv, [ChannelNext]_chvars PROVE LinkInv'
<1>1. CASE UNCHANGED chvars
  BY <1>1 DEF chvars, LinkInv, ChannelTypes, ConnectedOwnsSocket
<1> QED
  BY <1>1, LoopStep, NetworkKeeps DEF ChannelNext

\* At first nothing has the socket.
LEMMA LinkInit == ChannelInit => LinkInv
<1>1. <<>> \in Seq(Handlers) /\ ~Succeeded(<<>>)
  <2> Len(<<>>) = 0
    OBVIOUS
  <2> QED
    BY DEF Succeeded
<1> QED
  BY <1>1 DEF ChannelInit, LinkInv, ChannelTypes, ConnectedOwnsSocket

-----------------------------------------------------------------------------
(* The program *)

\* What the program does is, for each of its two parts, a step of that part or none.
LEMMA PartsStep == [GameNext]_gvars => [Next]_svars /\ [ChannelNext]_chvars
BY DEF GameNext, gvars, ServerAccept, ServerOther, Clients, ChannelWork, LinkNetwork, AtServer,
       Next, ChannelNext

\* However often connect() and listen() are called, and in whatever order timers, accepts,
\* breaks and handlers come: a session that says it is connected has a socket that was, and
\* no connect is outstanding on it.  The one exception is a session that a handle_connect
\* of an earlier connect() marked, left waiting when clear() closed its socket
\* (hs_connector.h:26-53, hs_acceptor.h:24-57, hs_session.cpp:23-30).
THEOREM SocketOwned == ChannelSpec => []ConnectedOwnsSocket
<1>1. ChannelInit => LinkInv
  BY LinkInit
<1>2. LinkInv /\ [ChannelNext]_chvars => LinkInv'
  BY LinkStep
<1>3. LinkInv => ConnectedOwnsSocket
  BY DEF LinkInv
<1> QED
  BY <1>1, <1>2, <1>3, PTL DEF ChannelSpec

\* The same in a program whose main loop also polls a server (hs_channel.h:57-97).
THEOREM ProgramOwnsSocket == GameSpec => []ConnectedOwnsSocket
<1>1. GameInit => LinkInv
  BY LinkInit DEF GameInit
<1>2. LinkInv /\ [GameNext]_gvars => LinkInv'
  BY PartsStep, LinkStep
<1>3. LinkInv => ConnectedOwnsSocket
  BY DEF LinkInv
<1> QED
  BY <1>1, <1>2, <1>3, PTL DEF GameSpec

\* The server's sessions are found in that program as they are in the server alone
\* (hs_sessionmgr.cpp:8-31): neither a poll of the channel nor an exception changes them.
THEOREM ProgramLooksUp == ASSUME MaxSessions < Ids PROVE GameSpec => []LookupFindsOwn
<1>1. GameInit => IInv
  BY InitInv DEF GameInit
<1>2. IInv /\ [GameNext]_gvars => IInv'
  BY PartsStep, NextInv
<1>3. IInv => LookupFindsOwn
  BY InvLookup
<1> QED
  BY <1>1, <1>2, <1>3, PTL DEF GameSpec
=============================================================================
