--------------------------- MODULE MCBridgeNetif ---------------------------
(***************************************************************************)
(* BridgeNetif for TLC: a softAP and an SPI LAN netif, with a station and  *)
(* an Ethernet port outside.                                               *)
(***************************************************************************)
EXTENDS BridgeNetif

MCLan  == <<"WIFI_AP_DEF", "SPI_LAN">>
MCWans == <<"ETH_WAN", "WIFI_STA_DEF">>

\* Prefix 8 has the segments 8..15, prefix 4 has 4..7: never too few for two
\* LAN and two WAN netifs.
MCPrefixes == {4, 8}

\* WAN networks as large as a segment
MCSameMask == [w \in WAN |-> 1]

\* Where the first two LAN netifs go to, and a segment of the other prefix
MCWanSegments    == {8, 11, 4}
MCCustomSegments == {11}

\* Two checks are registered, and one segment has a special address.
MCChecks  == << {9}, {12} >>
MCSpecial == {10}
=============================================================================
