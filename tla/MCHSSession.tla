---------------------------- MODULE MCHSSession ----------------------------
(***************************************************************************)
(* HSSession for TLC: headers of 2 bytes, packets of at most 4, and the    *)
(* sets the configurations use.                                            *)
(***************************************************************************)
EXTENDS HSSession

HeaderSize == 2
PacketSize == 4

\* send() with nothing, with as much as a packet holds, and with more
SendEdges == {0, PacketSize - HeaderSize, PacketSize - HeaderSize + 1}
=============================================================================
