---------------------------- MODULE HostChannel ----------------------------
(***************************************************************************)
(* What the network adapter promises the host, whatever queues, tasks and  *)
(* interrupts it is built from: one FIFO channel per priority class, all   *)
(* merged onto one wire.  The firmware announces itself before it sends    *)
(* anything else; nothing is duplicated, reordered within a class or       *)
(* invented.  Over SDIO, where the host can close the data path and the    *)
(* driver can refuse a packet, the head of a channel may be discarded;     *)
(* over SPI an accepted packet is never lost.                              *)
(***************************************************************************)
EXTENDS Naturals, Sequences

CONSTANTS
    Class,      \* the priority classes
    Packet,     \* what producers may submit
    Startup     \* the startup event that opens the conversation

VARIABLES
    lossy,      \* may an accepted packet be discarded?
    channel,    \* class -> accepted packets not yet on the wire, oldest first
    wire        \* everything handed to the bus so far, oldest first

Init ==
    /\ lossy \in BOOLEAN
    /\ channel = [c \in Class |-> <<>>]
    /\ wire = <<>>

Announce ==
    /\ wire = <<>>
    /\ wire' = <<Startup>>
    /\ UNCHANGED <<lossy, channel>>

Accept(c, p) ==
    /\ wire # <<>>
    /\ channel' = [channel EXCEPT ![c] = Append(@, p)]
    /\ UNCHANGED <<lossy, wire>>

Deliver(c) ==
    /\ channel[c] # <<>>
    /\ wire' = Append(wire, Head(channel[c]))
    /\ channel' = [channel EXCEPT ![c] = Tail(@)]
    /\ UNCHANGED lossy

Discard(c) ==
    /\ lossy
    /\ channel[c] # <<>>
    /\ channel' = [channel EXCEPT ![c] = Tail(@)]
    /\ UNCHANGED <<lossy, wire>>

Next ==
    \/ Announce
    \/ \E c \in Class : \/ \E p \in Packet : Accept(c, p)
                        \/ Deliver(c)
                        \/ Discard(c)

vars == <<lossy, channel, wire>>

Spec == Init /\ [][Next]_vars
=============================================================================
