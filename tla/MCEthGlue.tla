----------------------------- MODULE MCEthGlue -----------------------------
(***************************************************************************)
(* EthGlue for TLC: cables to a router, to a PC and to a switch with both. *)
(* The router's network is the segment the LAN may begin with.             *)
(***************************************************************************)
EXTENDS EthGlue

MCCables == {{Server}, {Client}, {Server, Client}}
MCSegments == {1, 2, 3}
=============================================================================
