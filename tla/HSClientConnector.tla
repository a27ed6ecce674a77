-------------------------- MODULE HSClientConnector --------------------------
(***************************************************************************)
(* HSClientConnector with its HSSendDataPacker (hs_client_connector.h and  *)
(* .cpp): the client's end of a connection, polled by Tick() from the      *)
(* application's loop, on a non-blocking Winsock socket.                   *)
(*                                                                         *)
(* OnConnect and OnDisconnect are the last thing Connect and Tick do, so   *)
(* what the application calls inside of them is the same as what it calls  *)
(* after they have returned.                                               *)
(*                                                                         *)
(* Nothing asks for the state but Tick: Init() and Connect() may come at   *)
(* any time, also over a connection that is there.                         *)
(*                                                                         *)
(* recv() is given the used part of the receive buffer, which is always    *)
(* empty: nothing is ever received, HSRecvDataUnpacker::Process is never   *)
(* reached, and of the receive buffer nothing is to be seen here.          *)
(***************************************************************************)
EXTENDS HSBuffer, HSPacketWorker

CONSTANTS
  DefaultLen,   \* the size a send buffer is made with
  ClientLen,    \* send_buff_len of Init()
  DataSizes,    \* sizes of the data given to Send()
  MaxInits      \* bound: calls of Init()

ASSUME ClientAssumption == /\ DefaultLen \in Nat \ {0} /\ ClientLen \in Nat \ {0}
                           /\ DataSizes \subseteq Nat /\ MaxInits \in Nat

VARIABLES
  clientState,  \* state_: "NotInitialized", "Unconnect", "Connecting" or "Connected"
  handle,       \* sock_: "none" (0), "open", "blocking" (open, and never made non-blocking)
                \* or "invalid" (closed, or none was to be had)
  packing,      \* packer_ has a buffer
  sendBuf,      \* send_buffer_; which bytes are in it does not matter
  link,         \* the connection of sock_: "none", "asked", "refused", "up", "finished" (the
                \* peer has closed its end), "broken" or "shut" (by the client)
  told,         \* what the application knows: "never", "up", "down", "closed" by itself, or
                \* "replaced" by itself, with an Init() over the connection it was told of
  reached,      \* how far into send_buffer_ the connection has carried bytes
  refused,      \* size of the data Send() last had no room for, NoData if it had
  inits         \* calls of Init()

clientVars == <<clientState, handle, packing, sendBuf, link, told, reached, refused, inits>>

NoData == -1

ClientInit == /\ clientState = "NotInitialized" /\ handle = "none" /\ packing = FALSE
              /\ sendBuf = NewSendBuffer(DefaultLen)
              /\ link = "none" /\ told = "never"
              /\ reached = 0 /\ refused = NoData /\ inits = 0

-----------------------------------------------------------------------------
(* The application's calls *)

\* Init() puts a new socket into sock_, in whatever state, and does not close the old one.
NewSocket(h) == /\ inits < MaxInits /\ inits' = inits + 1
                /\ handle' = h /\ link' = "none" /\ reached' = 0
                /\ told' = IF told = "up" THEN "replaced" ELSE told
                /\ UNCHANGED refused

InitSocket == /\ NewSocket("open")
              /\ clientState' = "Unconnect" /\ packing' = TRUE
              /\ sendBuf' = SetLength(sendBuf, ClientLen)

\* socket() fails, and its result is kept all the same; or ioctlsocket() does.
InitFails == /\ \E h \in {"invalid", "blocking"} : NewSocket(h)
             /\ UNCHANGED <<clientState, packing, sendBuf>>

OnConnect == clientState' = "Connected" /\ told' = "up"

\* connect() succeeds at once, or goes on; when it fails, as for a socket that is
\* connecting or connected, nothing changes.
MayConnect == link \in {"none", "refused"}

ConnectAtOnce == /\ handle \in {"open", "blocking"} /\ MayConnect
                 /\ link' = "up"
                 /\ OnConnect
                 /\ UNCHANGED <<handle, packing, sendBuf, reached, refused, inits>>

ConnectGoesOn == /\ handle = "open" /\ MayConnect
                 /\ link' = "asked" /\ clientState' = "Connecting"
                 /\ UNCHANGED <<handle, packing, sendBuf, told, reached, refused, inits>>

\* Mutant of Released: the state stays what it was.
KeptState == /\ sendBuf' = FreeSend /\ packing' = FALSE
             /\ handle' = "invalid" /\ link' = "none" /\ refused' = NoData
             /\ UNCHANGED clientState

\* What Close() does: buffers and socket are released.  sock_ keeps its value.
Released == /\ sendBuf' = FreeSend /\ packing' = FALSE
            /\ handle' = "invalid" /\ link' = "none" /\ refused' = NoData
            /\ clientState' = "NotInitialized"

Close == /\ handle # "none"
         /\ Released
         /\ told' = IF told = "up" THEN "closed" ELSE told
         /\ UNCHANGED <<reached, inits>>

Disconnect == /\ link \in {"up", "finished"}
              /\ link' = "shut"
              /\ UNCHANGED <<clientState, handle, packing, sendBuf, told, reached, refused, inits>>

-----------------------------------------------------------------------------
(* Sending *)

CanCarry == link \in {"up", "finished"}

\* HSSendDataPacker::Process of buffer b, when send() takes n bytes: always the first
\* ones, for nothing calls Sent().
Carried(b, n) == /\ CanCarry /\ n \in 1..GetCanSendSize(b)
                 /\ reached' = IF n > reached THEN n ELSE reached
                 /\ sendBuf' = b

\* send() may fail on a good connection, too, when the socket takes nothing more.
NotCarried(b) == GetCanSendSize(b) > 0 /\ reached' = reached /\ sendBuf' = b

\* Send() that finds room.  It says -1 when nothing is carried, and keeps the packet.
Send ==
  \E n \in DataSizes :
    /\ packing /\ EncodePacket(n, GetLeftInSize(sendBuf)) = 1
    /\ \/ \E k \in 1..sendBuf.in + HDR + n : Carried(DataIn(sendBuf, HDR + n), k)
       \/ NotCarried(DataIn(sendBuf, HDR + n))
    /\ refused' = NoData
    /\ UNCHANGED <<clientState, handle, packing, link, told, inits>>

\* Send() without room, to be called again later
SendRefused ==
  \E n \in DataSizes :
    /\ packing /\ EncodePacket(n, GetLeftInSize(sendBuf)) = 0
    /\ refused' = n
    /\ UNCHANGED <<clientState, handle, packing, sendBuf, link, told, reached, inits>>

-----------------------------------------------------------------------------
(* Tick *)

\* The socket has become writable.  A refused connect never makes it so.
TickConnecting ==
  /\ clientState = "Connecting" /\ link \in {"up", "finished", "broken", "shut"}
  /\ OnConnect
  /\ UNCHANGED <<handle, packing, sendBuf, link, reached, refused, inits>>

OnDisconnect == /\ Released
                /\ told' = "down"
                /\ UNCHANGED <<reached, inits>>

\* select() or recv() reports an error.  The end of a peer's stream is none, and a socket
\* that was never connected has nothing to report.
TickReadFails == /\ clientState = "Connected"
                 /\ link \in {"broken", "shut"} \/ handle = "invalid"
                 /\ OnDisconnect

TickSends(n) == /\ clientState = "Connected" /\ packing
                /\ Carried(sendBuf, n)
                /\ UNCHANGED <<clientState, handle, packing, link, told, refused, inits>>

TickSendsAll == TickSends(GetCanSendSize(sendBuf))

TickSendsPart == \E n \in 1..GetCanSendSize(sendBuf) - 1 : TickSends(n)

\* The packer has something to send, or no buffer to take it from.
SendMayFail == /\ clientState = "Connected" /\ handle # "invalid"
               /\ ~packing \/ GetCanSendSize(sendBuf) > 0

\* Mutant of TickSendFails: the error is only logged.
TickSendFailsQuietly == SendMayFail /\ UNCHANGED clientVars

TickSendFails == SendMayFail /\ OnDisconnect

-----------------------------------------------------------------------------
(* The network *)

Becoming(from, to) ==
  /\ link \in from /\ link' = to
  /\ UNCHANGED <<clientState, handle, packing, sendBuf, told, reached, refused, inits>>

NetworkStep == \/ Becoming({"asked"}, "up") \/ Becoming({"asked"}, "refused")
               \/ Becoming({"up"}, "finished") \/ Becoming({"up", "finished"}, "broken")

ClientNext == \/ InitSocket \/ InitFails \/ ConnectAtOnce \/ ConnectGoesOn \/ Close \/ Disconnect
              \/ Send \/ SendRefused
              \/ TickConnecting \/ TickReadFails \/ TickSendsAll \/ TickSendsPart \/ TickSendFails
              \/ NetworkStep

\* Tick is called again and again: on a good connection the socket takes all the bytes
\* some time, unless the connection ends; on one that is over send() fails, and on a
\* handle that is none select().
ClientFairness == /\ WF_clientVars(TickConnecting) /\ WF_clientVars(TickSendsAll)
                  /\ WF_clientVars(~CanCarry /\ TickSendFails)
                  /\ WF_clientVars(handle = "invalid" /\ TickReadFails)

ClientSpec == ClientInit /\ [][ClientNext]_clientVars /\ ClientFairness

-----------------------------------------------------------------------------
(* Properties *)

\* The application that was told of a connection, and not of its end, has the connection
\* Tick works on; and Tick works on none it was not told of.  So no beginning is reported
\* while another is believed in, no end without a beginning or twice, and none is lost
\* over a Close(), a second Connect() or a failed one.  One case is excepted: Init() over
\* a connection replaces its socket and tells nobody (hs_client_connector.h:200-287,
\* hs_client_connector.cpp:67-112).
ToldTruth ==
  /\ told = "up" => clientState = "Connected" /\ link \in {"up", "finished", "broken", "shut"}
  /\ clientState = "Connected" => told \in {"up", "replaced"}

\* Queued bytes reach the connection, unless it ends (hs_client_connector.h:279-283).
QueuedIsSent == \A n \in 1..ClientLen :
  clientState = "Connected" /\ sendBuf.in >= n ~> reached >= n \/ clientState # "Connected"

\* A connection that breaks or is shut down while bytes are queued is reported
\* (hs_client_connector.h:279-283).
BrokenIsReported == told = "up" /\ ~CanCarry /\ sendBuf.in > 0 ~> told # "up"

\* Data that Send() had no room for can be sent later (hs_client_connector.cpp:36),
\* unless the connection ends.
RoomComesBack == \A n \in DataSizes :
  clientState = "Connected" /\ refused = n
    ~> EncodePacket(n, GetLeftInSize(sendBuf)) = 1 \/ clientState # "Connected"
=============================================================================
