---------------------------- MODULE FrameStream ----------------------------
(***************************************************************************)
(* What HSSession promises its application: as long as the connection is   *)
(* open, onReceive gets the packets of the peer's stream one by one, in    *)
(* order, each exactly once, and none at or after a malformed one.         *)
(***************************************************************************)
EXTENDS HSPacketWorker

VARIABLES up,            \* "new", "open" or "closed"
          frames, slen,  \* where packets start and what they claim; length of the stream
          next           \* start of the packet to be delivered next

fvars == <<up, frames, slen, next>>

FInit == up = "new" /\ frames = [p \in {} |-> 0] /\ slen = 0 /\ next = 0

FOpen == up = "new" /\ up' = "open" /\ UNCHANGED <<frames, slen, next>>

FClose == up = "open" /\ up' = "closed" /\ UNCHANGED <<frames, slen, next>>

\* The peer writes one more packet, or a malformed header and then no packet.
FWrite == /\ \A p \in DOMAIN frames : frames[p] \in Payloads
          /\ \E c \in Claims :
               /\ frames' = [p \in DOMAIN frames \cup {slen} |->
                               IF p = slen THEN c ELSE frames[p]]
               /\ slen' = slen + HDR + (IF c \in Payloads THEN c ELSE 0)
          /\ UNCHANGED <<up, next>>

FDeliver == /\ up = "open" /\ next \in DOMAIN frames /\ frames[next] \in Payloads
            /\ next' = next + HDR + frames[next]
            /\ UNCHANGED <<up, frames, slen>>

FNext == FOpen \/ FClose \/ FWrite \/ FDeliver

FSpec == FInit /\ [][FNext]_fvars
=============================================================================
