----------------------------- MODULE HSChannel -----------------------------
(***************************************************************************)
(* HSChannel (hs_channel.h) with its HSConnector and HSAcceptor and the    *)
(* one local session of HSSessionMgr that both work on: a link to another  *)
(* server that is first connected to and, if that fails, listened for.     *)
(*                                                                         *)
(* The session is seen here only through its socket and its connected_     *)
(* flag; HSSession models what it does in between.  The io_service is the  *)
(* queue of the completion handlers that are ready, run by poll().         *)
(***************************************************************************)
EXTENDS Integers, Sequences

CONSTANTS MaxCalls,    \* bound: calls of connect() and listen()
          OtherWork    \* whether something else keeps the io_service from running out of work

ASSUME ChannelAssumption == MaxCalls \in Nat /\ OtherWork \in BOOLEAN

VARIABLES
  state,       \* state_: 0 none, 1 connecting, 2 listening
  failed,      \* connected_failed_ of the connector
  timer,       \* connect_timer_ has a wait outstanding
  bound,       \* acceptor_ is there, its port bound
  connected,   \* connected_ of the local session
  sock,        \* its socket: "closed", "opened" (not connected), "up", "dead" (peer gone)
  connecting, reading,   \* a connect and a read of it are outstanding
  accepting,   \* how many accepts into it are
  ready,       \* the handlers that are ready to run, oldest first: "timer", "connectOk",
               \* "oldConnectOk" (of a connect whose socket has been closed since),
               \* "connectError", "acceptOk", "acceptError" or "lost"
  stopped,     \* the io_service has run out of work and stopped
  pc,          \* "idle", "polling" (inside io_service.poll()) or "crashed"
  calls,       \* calls of connect() and listen()
  overtaken    \* history: connected_ was last set by the handler of such an old connect

chvars == <<state, failed, timer, bound, connected, sock, connecting, accepting, reading,
            ready, stopped, pc, calls, overtaken>>

ChannelInit == /\ state = 0 /\ failed = FALSE /\ timer = FALSE /\ bound = FALSE
               /\ connected = FALSE /\ sock = "closed"
               /\ connecting = FALSE /\ accepting = 0 /\ reading = FALSE
               /\ ready = <<>> /\ stopped = FALSE /\ pc = "idle"
               /\ calls = 0 /\ overtaken = FALSE

\* The handler h is made ready when condition c holds.
Ready(q, c, h) == IF c THEN Append(q, h) ELSE q

-----------------------------------------------------------------------------
(* What the calls do to the session and the queue *)

\* HSSession::clear() closes the socket: an outstanding connect is aborted, and what a
\* handler still has to say of one that succeeded is about a socket that is gone.  An
\* accept is the acceptor's and goes on.
Cleared(q) ==
  Ready([i \in DOMAIN q |-> IF q[i] = "connectOk" THEN "oldConnectOk" ELSE q[i]],
        connecting, "connectError")

\* HSAcceptor::start: no session while the local one is connected, and then no accept;
\* an accept into a socket that is already open fails at once.
AcceptorStart(q, conn) ==
  /\ accepting' = IF ~conn /\ sock = "closed" THEN accepting + 1 ELSE accepting
  /\ ready' = Ready(q, ~conn /\ sock # "closed", "acceptError")

\* Mutant of HandleTimeout: connected_failed_ is not set.
HandleTimeoutForgets(q) == /\ UNCHANGED failed /\ timer' = FALSE
                           /\ ready' = Ready(q, timer, "timer")

\* HSConnector::handle_timeout: failure is noted and the timer cancelled, which makes
\* the handler of an outstanding wait ready.
HandleTimeout(q) == /\ failed' = TRUE /\ timer' = FALSE
                    /\ ready' = Ready(q, timer, "timer")

\* HSChannel::listen.  The acceptor made by the first one binds its port, which throws
\* when it cannot.
Listen ==
  \/ /\ AcceptorStart(ready, connected)
     /\ state' = 2 /\ bound' = TRUE /\ pc' = pc
  \/ /\ ~bound /\ pc' = "crashed"
     /\ UNCHANGED <<state, bound, accepting, ready>>

-----------------------------------------------------------------------------
(* The application's loop *)

MayCall == /\ pc = "idle" /\ calls < MaxCalls
           /\ calls' = calls + 1

AppListen == /\ MayCall
             /\ Listen
             /\ UNCHANGED <<failed, timer, connected, sock, connecting, reading, stopped,
                            overtaken>>

\* HSConnector::connect: clear() of the session, and the timer set anew, which cancels an
\* outstanding wait.
ConnectorConnect ==
  /\ ready' = Ready(Cleared(ready), timer, "timer")
  /\ sock' = "opened" /\ connecting' = TRUE /\ timer' = TRUE
  /\ failed' = FALSE

\* HSChannel::connect, also while an earlier connect() or an accept is under way
AppConnect ==
  /\ MayCall /\ ~connected
  /\ ConnectorConnect
  /\ state' = 1
  /\ UNCHANGED <<bound, connected, accepting, reading, stopped, pc, overtaken>>

\* new_local_session has no session to give while the local one is connected; the
\* connector calls is_connected() of a null pointer.
AppConnectConnected ==
  /\ MayCall /\ connected
  /\ pc' = "crashed"
  /\ UNCHANGED <<state, failed, timer, bound, connected, sock, connecting, accepting, reading,
                 ready, stopped, overtaken>>

\* HSChannel::poll: a failed connect turns into listening, and nothing is run.
PollFailed == /\ pc = "idle" /\ state = 1 /\ failed
              /\ Listen
              /\ UNCHANGED <<failed, timer, connected, sock, connecting, reading, stopped,
                             calls, overtaken>>

\* What keeps the io_service going
Work(q) == \/ OtherWork \/ q # <<>>
           \/ timer' \/ connecting' \/ accepting' > 0 \/ reading'

\* Mutant of Poll: a listening channel is not polled.
PollConnectorOnly ==
  /\ pc = "idle" /\ state = 1 /\ ~failed /\ ~stopped
  /\ UNCHANGED <<state, failed, timer, bound, connected, sock, connecting, accepting,
                 reading, ready, calls, overtaken>>
  /\ IF Work(ready) THEN pc' = "polling" /\ stopped' = stopped
                    ELSE pc' = pc /\ stopped' = TRUE

\* Otherwise the connector or the acceptor polls the io_service.  A stopped one runs
\* nothing; one without work stops.
Poll == /\ pc = "idle" /\ ((state = 1 /\ ~failed) \/ state = 2)
        /\ ~stopped
        /\ UNCHANGED <<state, failed, timer, bound, connected, sock, connecting, accepting,
                       reading, ready, calls, overtaken>>
        /\ IF Work(ready) THEN pc' = "polling" /\ stopped' = stopped
                          ELSE pc' = pc /\ stopped' = TRUE

PollReturn == /\ pc = "polling" /\ (ready = <<>> \/ stopped)
              /\ pc' = "idle"
              /\ UNCHANGED <<state, failed, timer, bound, connected, sock, connecting, accepting,
                             reading, ready, stopped, calls, overtaken>>

-----------------------------------------------------------------------------
(* The handlers.  When the last work is done the io_service stops. *)

Running(h) == pc = "polling" /\ ~stopped /\ ready # <<>> /\ Head(ready) = h

Calling == <<state, bound, pc, calls>>

\* connect_timer_ has fired or was cancelled: handle_timeout cannot tell.
RunTimer == /\ Running("timer")
            /\ HandleTimeout(Tail(ready))
            /\ UNCHANGED <<Calling, connected, sock, connecting, accepting, reading, overtaken>>
            /\ stopped' = ~Work(ready')

\* handle_connect without error: connected(), and no start(): nothing is read, and the
\* timer is left running.
HandleConnect(late) ==
  /\ connected' = TRUE /\ overtaken' = late /\ ready' = Tail(ready)
  /\ UNCHANGED <<Calling, failed, timer, sock, connecting, accepting, reading>>
  /\ stopped' = ~Work(ready')

RunConnectOk == Running("connectOk") /\ HandleConnect(FALSE)

\* It does not ask which connect it is told of.
RunOldConnectOk == Running("oldConnectOk") /\ HandleConnect(TRUE)

RunConnectError == /\ Running("connectError")
                   /\ HandleTimeout(Tail(ready))
                   /\ UNCHANGED <<Calling, connected, sock, connecting, accepting, reading,
                                  overtaken>>
                   /\ stopped' = ~Work(ready')

\* handle_accept without error: connected(), start() of the session, and start() again,
\* which finds the session connected.
RunAcceptOk == /\ Running("acceptOk") /\ sock = "up"
               /\ connected' = TRUE /\ overtaken' = FALSE /\ reading' = TRUE
               /\ AcceptorStart(Tail(ready), TRUE)
               /\ UNCHANGED <<Calling, failed, timer, sock, connecting>>
               /\ stopped' = ~Work(ready')

\* The peer has gone again, or its socket was closed by connect(): remote_endpoint()
\* throws, and nothing catches it.
RunAcceptGone == /\ Running("acceptOk") /\ sock # "up"
                 /\ pc' = "crashed"
                 /\ UNCHANGED <<state, failed, timer, bound, connected, sock, connecting, accepting,
                                reading, ready, stopped, calls, overtaken>>

\* handle_accept with an error: start() again.
RunAcceptError == /\ Running("acceptError")
                  /\ AcceptorStart(Tail(ready), connected)
                  /\ UNCHANGED <<Calling, failed, timer, connected, sock, connecting, reading,
                                 overtaken>>
                  /\ stopped' = ~Work(ready')

\* Mutant of RunLost: clear() closes the socket but keeps connected_.
RunLostKeepsFlag == /\ Running("lost")
                    /\ sock' = "closed" /\ ready' = Cleared(Tail(ready)) /\ connecting' = FALSE
                    /\ UNCHANGED <<Calling, failed, timer, connected, accepting, reading,
                                   overtaken>>
                    /\ stopped' = ~Work(ready')

\* The session's handler of a broken connection: onDisconnect and clear().
RunLost == /\ Running("lost")
           /\ connected' = FALSE /\ overtaken' = FALSE
           /\ sock' = "closed" /\ ready' = Cleared(Tail(ready)) /\ connecting' = FALSE
           /\ UNCHANGED <<Calling, failed, timer, accepting, reading>>
           /\ stopped' = ~Work(ready')

-----------------------------------------------------------------------------
(* The network and the timer *)

Quiet == <<state, failed, bound, connected, stopped, pc, calls, overtaken>>

ConnectOk == /\ connecting
             /\ connecting' = FALSE /\ sock' = "up" /\ ready' = Append(ready, "connectOk")
             /\ UNCHANGED <<timer, accepting, reading, Quiet>>

ConnectFails == /\ connecting
                /\ connecting' = FALSE /\ ready' = Append(ready, "connectError")
                /\ UNCHANGED <<timer, sock, accepting, reading, Quiet>>

TimerFires == /\ timer
              /\ timer' = FALSE /\ ready' = Append(ready, "timer")
              /\ UNCHANGED <<sock, connecting, accepting, reading, Quiet>>

\* A peer's connection is put into the session's socket, unless that is open by now.
PeerConnects == /\ accepting > 0
                /\ accepting' = accepting - 1
                /\ sock' = IF sock = "closed" THEN "up" ELSE sock
                /\ ready' = Append(ready, IF sock = "closed" THEN "acceptOk" ELSE "acceptError")
                /\ UNCHANGED <<timer, connecting, reading, Quiet>>

\* The connection breaks; only an outstanding read makes that known.
PeerDrops == /\ sock = "up"
             /\ sock' = "dead" /\ reading' = FALSE
             /\ ready' = Ready(ready, reading, "lost")
             /\ UNCHANGED <<timer, connecting, accepting, Quiet>>

\* The application writes to a connected session whose socket is broken, closed or not
\* connected at all, and nothing has noticed: an error comes back.
WriteFails == /\ pc = "idle" /\ sock # "up" /\ connected
              /\ \A i \in DOMAIN ready : ready[i] # "lost"
              /\ ready' = Append(ready, "lost")
              /\ UNCHANGED <<timer, sock, connecting, accepting, reading, Quiet>>

-----------------------------------------------------------------------------
RunHandler == \/ RunTimer \/ RunConnectOk \/ RunOldConnectOk \/ RunConnectError
              \/ RunAcceptOk \/ RunAcceptGone \/ RunAcceptError \/ RunLost

\* What the application's loop does with the channel, and what the network does to it
Loop == \/ AppListen \/ AppConnect \/ AppConnectConnected \/ PollFailed \/ Poll \/ PollReturn
        \/ RunHandler \/ WriteFails

Network == ConnectOk \/ ConnectFails \/ TimerFires \/ PeerConnects \/ PeerDrops

ChannelNext == Loop \/ Network

ChannelSpec == ChannelInit /\ [][ChannelNext]_chvars

\* The main loop keeps polling, handlers that are ready run, the timer fires in the
\* end, and the peer keeps trying to connect.
ChannelFairSpec == /\ ChannelSpec
                   /\ WF_chvars(PollFailed) /\ WF_chvars(Poll) /\ WF_chvars(PollReturn)
                   /\ WF_chvars(RunHandler)
                   /\ WF_chvars(TimerFires) /\ WF_chvars(PeerConnects)

-----------------------------------------------------------------------------
(* Properties *)

\* The session that says it is connected has a socket that was, and keeps it until the
\* break has been handled, however connect(), listen(), timers, accepts and late handlers
\* come together.  One case is excepted, and it is the only one: a handle_connect that was
\* still waiting when connect() or clear() closed its socket sets connected_ of whatever
\* socket there is now (hs_connector.h:43-47, hs_session.cpp:23-30).
ConnectedOwnsSocket == connected /\ ~overtaken => sock \in {"up", "dead"} /\ ~connecting

\* handle_connect_failed() listens instead (hs_channel.h:81-84, 89-90): a peer that
\* keeps trying to connect gets through.
FallbackAccepts == state = 1 /\ failed /\ ~connected ~> connected \/ pc = "crashed"
=============================================================================
