--------------------------- MODULE MCSerialRing ---------------------------
(***************************************************************************)
(* SerialRing for TLC: a buffer of five bytes, packets that fill it or     *)
(* not, and reads smaller and larger than a packet.                        *)
(***************************************************************************)
EXTENDS SerialRing

MCPacketLengths == {1, 3, 4}
MCReadSizes     == {2, 5}
=============================================================================
