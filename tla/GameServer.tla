----------------------------- MODULE GameServer -----------------------------
(***************************************************************************)
(* A server program as the library is made for: one main loop polls an     *)
(* HSClientServer, which accepts clients, and an HSChannel, the link to    *)
(* another server, each on an io_service of its own.  What one poll does   *)
(* not return from, and what a handler throws, holds up the other.         *)
(***************************************************************************)
EXTENDS HSServer, HSChannel

gvars == <<svars, chvars>>

GameInit == Init /\ ChannelInit

\* The main loop is between two polls of the channel.
AtServer == pc = "idle" /\ UNCHANGED chvars

ServerAccept == (HandleAccept \/ HandleAcceptGone \/ HandleAcceptError) /\ AtServer

ServerOther == (Start \/ RemoveOnDisconnect) /\ AtServer

Clients == (ClientConnects \/ AcceptFails \/ ClientLeaves) /\ UNCHANGED chvars

\* What the thread does at the channel, as long as nothing has thrown
ChannelWork(A) == A /\ running /\ UNCHANGED svars

LinkNetwork == Network /\ UNCHANGED svars

GameNext == ServerAccept \/ ServerOther \/ Clients \/ ChannelWork(Loop) \/ LinkNetwork

\* The loop comes to the server again and again (strong fairness: between the
\* channel's polls), the rest as for the channel alone.
GameSpec == /\ GameInit /\ [][GameNext]_gvars
            /\ SF_gvars(ServerAccept)
            /\ WF_gvars(ChannelWork(PollFailed)) /\ WF_gvars(ChannelWork(Poll))
            /\ WF_gvars(ChannelWork(PollReturn)) /\ WF_gvars(ChannelWork(RunHandler))
            /\ WF_gvars(TimerFires /\ UNCHANGED svars) /\ WF_gvars(PeerConnects /\ UNCHANGED svars)

-----------------------------------------------------------------------------
(* Properties *)

\* An exception has left poll(), or a null pointer was used.
Down == ~running \/ pc = "crashed"

\* A failed connect leaves the socket open, and an accept into it fails, is started anew
\* and fails again: poll() does not return (hs_acceptor.h:35, 56).
Spinning == /\ pc = "polling" /\ failed /\ sock = "opened"
            /\ \E i \in DOMAIN ready : ready[i] = "acceptError"

\* A connect() was called on an io_service that had run out of work and stopped: nothing
\* restarts it.
StoppedBefore == stopped /\ connecting

\* A call of connect() ends: the session is connected or the channel listens, also when
\* connect and timer both complete before the next poll (hs_channel.h:86-98).  Excepted
\* are an io_service that had already stopped and a poll() that goes on for ever with
\* accepts that fail.
ConnectSettles ==
  state = 1 /\ ~stopped ~> state = 2 \/ connected \/ StoppedBefore \/ Spinning \/ Down

\* An accept that is waiting, on an io_service that has not stopped, ends in a connected
\* session once a peer comes, unless a connect() takes the socket (hs_acceptor.h:39-47).
AcceptSettles == accepting > 0 /\ sock = "closed" /\ ~stopped
                   ~> connected \/ sock = "opened" \/ Down

\* The server waits for the next client again, whatever became of the last one, until
\* the program is down or the failed connect of the channel keeps its poll from
\* returning (hs_acceptor.h:39-57).
KeepsAccepting ==
  st # <<>> ~> \/ st # <<>> /\ st[Newest] = "accepting"
               \/ Len(st) = MaxSessions \/ Down \/ Spinning
=============================================================================
