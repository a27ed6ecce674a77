--------------------------- MODULE HSPacketWorker ---------------------------
(***************************************************************************)
(* HSPacketWorker (hs_packetworker.cpp): the framing of packets.  A packet *)
(* is a header (payload length and identification number) of HDR bytes and *)
(* its payload; with its header it has at most MAXPKT bytes.               *)
(*                                                                         *)
(* What a header says is one number, its claim: the payload length, or     *)
(* BadMagic when the length is acceptable but the identification number is *)
(* wrong.  One value, Oversize, stands for all the lengths above the       *)
(* maximum, which DecodePacket treats alike.                               *)
(***************************************************************************)
EXTENDS Integers

CONSTANTS HDR,     \* HS_NET_PACKET_HEADER_LENGTH + sizeof the identification number
          MAXPKT   \* HS_NET_PACKET_MAX_SIZE

ASSUME PacketAssumption == /\ HDR \in Nat \ {0}
                           /\ MAXPKT \in Nat
                           /\ HDR <= MAXPKT

MaxPayload == MAXPKT - HDR
BadMagic   == -1
Oversize   == MaxPayload + 1
Payloads   == 0..MaxPayload
Claims     == Payloads \cup {BadMagic, Oversize}

\* Mutants of DecodePacket: the header's numbers are not checked; a packet that
\* exactly fills the block counts as incomplete.
DecodePacketUnchecked(size, claim) ==
  IF size < HDR \/ size < claim + HDR THEN 0 ELSE 1

DecodePacketOneMore(size, claim) ==
  CASE size < HDR             -> 0
    [] size >= HDR /\ claim \notin Payloads -> -1
    [] size >= HDR /\ claim \in Payloads /\ size <= claim + HDR -> 0
    [] OTHER                  -> 1

\* DecodePacket of a block of size bytes that begins with a header claiming
\* claim: 0 wait for more, -1 malformed, 1 a packet whose payload has claim bytes.
DecodePacket(size, claim) ==
  CASE size < HDR                                 -> 0
    [] size >= HDR /\ claim \notin Payloads       -> -1
    [] size >= HDR /\ claim \in Payloads
                   /\ size < claim + HDR          -> 0
    [] OTHER                                      -> 1

\* EncodePacket of size bytes of user data into left bytes of buffer:
\* -1 too large for a packet, 0 no room, 1 written.
EncodePacket(size, left) ==
  CASE size + HDR > MAXPKT                        -> -1
    [] size + HDR <= MAXPKT /\ size + HDR > left  -> 0
    [] OTHER                                      -> 1
=============================================================================
