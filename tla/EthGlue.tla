------------------------------ MODULE EthGlue ------------------------------
(***************************************************************************)
(* One Ethernet port that is a WAN or a LAN "automatically": the port has  *)
(* two netifs, ETH_WAN with a DHCP client and ETH_LAN with a DHCP server,  *)
(* and the glue of src/esp_eth_netif_glue_wrap.c takes one of them down    *)
(* when the other has proved to be the right one.  src/bridge_eth.c        *)
(* creates the netifs (the SPI Ethernet variant, of which the others are   *)
(* special cases) and resets the PHY whenever the LAN's DNS server or its  *)
(* network segment has changed, so that clients ask for a new lease.       *)
(*                                                                         *)
(* The main task creates the netifs, the event task runs the handlers of   *)
(* one event after the other in the order they were posted, and the driver *)
(* polls the link.  A handler is registered once per glue and so runs twice*)
(* for an event; the second run finds nothing to do and is not a step of   *)
(* its own.  esp_eth_stop() is called nowhere, so the handler of           *)
(* ETHERNET_EVENT_STOP never runs.                                         *)
(***************************************************************************)
EXTENDS Integers, Sequences, FiniteSets

CONSTANTS
    Lan, Wan,           \* ETH_LAN and ETH_WAN
    Server, Client,     \* what a cable may lead to: a DHCP server, a DHCP client
    Cables,             \* the sets of these the user plugs in
    DefaultDns,         \* CONFIG_BRIDGE_STATIC_DNS_SERVER_MAIN
    ServerDns,          \* the DNS server the Ethernet's DHCP server names
    StationDns,         \* ... and the one the station's network names
    Segments,           \* network segments the LAN may use
    ServerSegment,      \* the one the DHCP server's network uses
    QueueSize,          \* bound: events waiting for the event task
    MaxUnplug,          \* bound: how often the cable is pulled
    MaxStationIp,       \* bound: how often the station gets an address
    MaxFail             \* bound: failed driver installations, and restarts

Netif == {Lan, Wan}

ASSUME EthGlueAssumption ==
    /\ Lan # Wan /\ Server # Client
    /\ Cables \subseteq SUBSET {Server, Client}
    /\ IsFiniteSet(Segments) /\ Cardinality(Segments) > 2 /\ ServerSegment \in Segments
    /\ QueueSize \in Nat \ {0, 1} /\ MaxUnplug \in Nat /\ MaxStationIp \in Nat /\ MaxFail \in Nat

VARIABLES
    main,       \* where the main task is: the netif being created, and the step
    created,    \* eth_lan_netif and eth_wan_netif, those that are set
    listed,     \* the netifs in bridge_link
    attached,   \* the netifs with a glue
    installed,  \* eth_handle_spi # NULL
    started,    \* eth_driver_started
    state,      \* the glue's idea of the link
    up,         \* esp_netif_is_netif_up()
    dhcpc,      \* the DHCP client of ETH_WAN
    lanDns, lanSegment,  \* what ETH_LAN tells its clients
    cable,      \* what the cable leads to, {} when it is not plugged in
    resetting,  \* the PHY is being reset
    reported,   \* the link as the driver last reported it
    met,        \* what the cable has led to since the driver reported "up"
    queue,      \* events waiting for the event task
    flapped,    \* a "disconnected" was handled after both netifs were created
    unplugs, stationIps, fails

portVars == <<created, listed, attached, installed, started>>
glueVars == <<state, up, dhcpc, flapped>>
lanVars  == <<lanDns, lanSegment>>
lineVars == <<cable, resetting, reported, met>>
budgets  == <<unplugs, stationIps, fails>>
vars == <<main, portVars, glueVars, lanVars, lineVars, queue, budgets>>

Event == {"start", "connected", "disconnected", "gotIp", "assigned", "stationIp"}

TypeOK ==
    /\ main \in {"new", "install", "attach", "start", "up"} \X Netif \cup {<<"done", Wan>>}
    /\ created \subseteq Netif /\ listed \subseteq created /\ attached \subseteq created
    /\ {installed, started, resetting, reported, flapped} \subseteq BOOLEAN
    /\ state \in {"UP", "DOWN"}
    /\ up \in [Netif -> BOOLEAN]
    /\ dhcpc \in {"init", "started", "bound"}
    /\ lanDns \in {DefaultDns, ServerDns, StationDns} /\ lanSegment \in Segments
    /\ cable \in Cables \cup {{}} /\ met \subseteq {Server, Client}
    /\ queue \in Seq(Event) /\ Len(queue) <= QueueSize
    /\ unplugs \in 0..MaxUnplug /\ stationIps \in 0..MaxStationIp /\ fails \in 0..MaxFail

Init ==
    /\ main = <<"new", Lan>> /\ created = {} /\ listed = {} /\ attached = {}
    /\ installed = FALSE /\ started = FALSE /\ state = "DOWN" /\ up = [n \in Netif |-> FALSE]
    /\ dhcpc = "init" /\ flapped = FALSE
    /\ lanDns = DefaultDns /\ lanSegment \in Segments
    /\ resetting = FALSE /\ reported = FALSE /\ met = {} /\ queue = <<>>
    /\ cable \in Cables \cup {{}}
    /\ unplugs = 0 /\ stationIps = 0 /\ fails = 0

\* Operators named Bug_... are plausible mistakes in the operation they stand
\* beside; no action uses them.

-----------------------------------------------------------------------------
(* esp_netif: what the calls of the glue do to a netif *)

Bug_Post(e) == queue' = Append(queue, e)

Post(e) == Len(queue) < QueueSize /\ queue' = Append(queue, e)

\* esp_netif_down(): a DHCP client stops, and forgets its address.
Down(ns) ==
    /\ up' = [n \in Netif |-> up[n] /\ n \notin ns]
    /\ dhcpc' = IF Wan \in ns /\ Wan \in created THEN "init" ELSE dhcpc

\* esp_netif_up() and esp_netif_action_connected(), which starts a DHCP client
\* that is not running.
Connect(ns) ==
    /\ up' = [n \in Netif |-> up[n] \/ n \in ns]
    /\ dhcpc' = IF Wan \in ns /\ dhcpc = "init" THEN "started" ELSE dhcpc

-----------------------------------------------------------------------------
(* esp_bridge_create_eth_netif(), first for the LAN, then for the WAN *)

At(pc, n)   == main = <<pc, n>>
Goto(pc, n) == main' = <<pc, n>>

\* ... up to esp_netif_action_stop()
New(n) ==
    /\ At("new", n) /\ Goto("install", n)
    /\ created' = created \cup {n}
    /\ up' = [up EXCEPT ![n] = FALSE]
    /\ UNCHANGED <<listed, attached, installed, started, state, dhcpc, flapped, lanVars, lineVars,
                   queue, budgets>>

\* esp_bridge_eth_spi_init(): the driver is installed once.  Without one the
\* netif is not attached, and nobody looks at the error.
Install(n) ==
    /\ At("install", n)
    /\ \/ Goto("attach", n) /\ installed' = TRUE /\ UNCHANGED fails
       \/ /\ ~installed /\ fails < MaxFail /\ fails' = fails + 1
          /\ Goto("up", n) /\ UNCHANGED installed
    /\ UNCHANGED <<created, listed, attached, started, glueVars, lanVars, lineVars, queue,
                   unplugs, stationIps>>

\* esp_bridge_eth_new_netif_glue() and esp_eth_post_attach()
Attach(n) ==
    /\ At("attach", n) /\ Goto("start", n)
    /\ attached' = attached \cup {n}
    /\ IF state = "UP" THEN Connect({n}) ELSE UNCHANGED <<up, dhcpc>>
    /\ UNCHANGED <<created, listed, installed, started, state, flapped, lanVars, lineVars, queue,
                   budgets>>

\* Without memory for the glue or for one of its handlers there is none, and
\* ESP_ERROR_CHECK(esp_netif_attach()) restarts the chip.
AttachFails(n) ==
    /\ At("attach", n) /\ fails < MaxFail /\ fails' = fails + 1
    /\ Goto("new", Lan) /\ created' = {} /\ listed' = {} /\ attached' = {}
    /\ installed' = FALSE /\ started' = FALSE /\ state' = "DOWN"
    /\ up' = [m \in Netif |-> FALSE] /\ dhcpc' = "init" /\ flapped' = FALSE
    /\ lanDns' = DefaultDns /\ lanSegment' \in Segments
    /\ resetting' = FALSE /\ reported' = FALSE /\ met' = {} /\ queue' = <<>>
    /\ UNCHANGED <<cable, unplugs, stationIps>>

\* esp_eth_start(), once
Start(n) ==
    /\ At("start", n) /\ Goto("up", n)
    /\ IF started THEN UNCHANGED queue ELSE Post("start")
    /\ started' = TRUE
    /\ UNCHANGED <<created, listed, attached, installed, glueVars, lanVars, lineVars, budgets>>

\* esp_netif_up(), esp_bridge_netif_list_add() and esp_netif_dhcps_start()
Up(n) ==
    /\ At("up", n) /\ IF n = Lan THEN Goto("new", Wan) ELSE Goto("done", Wan)
    /\ up' = [up EXCEPT ![n] = TRUE]
    /\ listed' = listed \cup {n}
    /\ UNCHANGED <<created, attached, installed, started, state, dhcpc, flapped, lanVars, lineVars,
                   queue, budgets>>

Create == \E n \in Netif : New(n) \/ Install(n) \/ Attach(n) \/ AttachFails(n) \/ Start(n) \/ Up(n)

-----------------------------------------------------------------------------
(* The event task *)

\* The event at the head of the queue is e; the glues' handlers are there.
Handles(e) == queue # <<>> /\ Head(queue) = e /\ queue' = Tail(queue)

\* eth_action_start(): the netifs were started when they were created.
ActionStart ==
    /\ Handles("start")
    /\ UNCHANGED <<main, portVars, glueVars, lanVars, lineVars, budgets>>

\* eth_action_connected(): only a netif that is down is connected.
ActionConnected ==
    /\ Handles("connected")
    /\ Connect({n \in created : ~up[n]})
    /\ state' = "UP"
    /\ UNCHANGED <<main, portVars, flapped, lanVars, lineVars, budgets>>

\* eth_action_disconnected()
ActionDisconnected ==
    /\ Handles("disconnected")
    /\ Down({n \in created : up[n]})
    /\ state' = "DOWN"
    /\ flapped' = (flapped \/ main[1] = "done")
    /\ UNCHANGED <<main, portVars, lanVars, lineVars, budgets>>

\* esp_bridge_netif_request_ip(): a segment no netif uses
Unused == Segments \ ({lanSegment} \cup IF dhcpc = "bound" THEN {ServerSegment} ELSE {})

Bug_UpdateLan(dns, conflict) ==
    /\ lanDns' = IF Lan \in created THEN dns ELSE lanDns
    /\ lanSegment' \in IF conflict THEN Unused ELSE {lanSegment}
    /\ resetting' = (resetting \/ (Lan \in listed /\ installed))

\* esp_bridge_update_dns_info() and ..._network_segment_conflict_update(): what
\* they change on the LAN they follow with its callback, which resets the PHY.
UpdateLan(dns, conflict) ==
    /\ lanDns' = IF Lan \in created THEN dns ELSE lanDns
    /\ lanSegment' \in IF conflict THEN Unused ELSE {lanSegment}
    /\ resetting' = (resetting \/ (Lan \in listed /\ installed /\ (lanDns # dns \/ conflict)))

Conflict == Lan \in listed /\ lanSegment = ServerSegment

Bug_ActionGotIp ==
    /\ Handles("gotIp")
    /\ UpdateLan(ServerDns, Conflict)
    /\ Down({Wan})
    /\ UNCHANGED <<main, portVars, state, flapped, cable, reported, met, budgets>>

\* got_ip_event_handler(), registered first, then eth_action_got_ip()
ActionGotIp ==
    /\ Handles("gotIp")
    /\ UpdateLan(ServerDns, Conflict)
    /\ Down({Lan})
    /\ UNCHANGED <<main, portVars, state, flapped, cable, reported, met, budgets>>

\* eth_action_assigned_ip()
ActionAssigned ==
    /\ Handles("assigned")
    /\ Down({Wan})
    /\ UNCHANGED <<main, portVars, state, flapped, lanVars, lineVars, budgets>>

\* The station's GOT_IP handler updates every data-forwarding netif, and moves
\* the LAN when the station's network, which may be any, is the LAN's segment.
StationGotIp ==
    /\ Handles("stationIp")
    /\ \E conflict \in BOOLEAN : (conflict => Lan \in listed) /\ UpdateLan(StationDns, conflict)
    /\ UNCHANGED <<main, portVars, glueVars, cable, reported, met, budgets>>

EventTask == ActionStart \/ ActionConnected \/ ActionDisconnected \/ ActionGotIp \/ ActionAssigned
             \/ StationGotIp

-----------------------------------------------------------------------------
(* The driver, the line and the station *)

Link == cable # {} /\ ~resetting

\* The driver polls the PHY and reports a link that has changed.
Poll ==
    /\ started /\ Link # reported
    /\ reported' = Link
    /\ Post(IF Link THEN "connected" ELSE "disconnected")
    /\ met' = IF Link THEN cable ELSE met
    /\ UNCHANGED <<main, portVars, glueVars, lanVars, cable, resetting, budgets>>

\* esp_bridge_eth_reset_phy(): autonegotiation takes longer than a poll.
PhyIsBack ==
    /\ resetting /\ ~reported
    /\ resetting' = FALSE
    /\ UNCHANGED <<main, portVars, glueVars, lanVars, cable, reported, met, queue, budgets>>

Unplug ==
    /\ cable # {} /\ unplugs < MaxUnplug /\ unplugs' = unplugs + 1
    /\ cable' = {}
    /\ UNCHANGED <<main, portVars, glueVars, lanVars, resetting, reported, met, queue, stationIps, fails>>

\* A cable may be swapped without the driver seeing it.
Plug ==
    /\ cable = {}
    /\ \E c \in Cables \ {{}} : cable' = c /\ met' = met \cup c
    /\ UNCHANGED <<main, portVars, glueVars, lanVars, resetting, reported, queue, budgets>>

\* eth_input_to_netif(): each netif that is up gets the frame.  The DHCP server
\* answers a request, once the LAN can transmit ...
InputRequest ==
    /\ Client \in cable /\ Link /\ reported
    /\ up[Lan] /\ Lan \in attached
    /\ Post("assigned")
    /\ UNCHANGED <<main, portVars, glueVars, lanVars, lineVars, budgets>>

\* ... and the DHCP client takes the answer to its own.
InputAck ==
    /\ Server \in cable /\ Link /\ reported
    /\ up[Wan] /\ dhcpc = "started" /\ Wan \in attached
    /\ dhcpc' = "bound"
    /\ Post("gotIp")
    /\ UNCHANGED <<main, portVars, state, up, flapped, lanVars, lineVars, budgets>>

StationIp ==
    /\ stationIps < MaxStationIp /\ stationIps' = stationIps + 1
    /\ Post("stationIp")
    /\ UNCHANGED <<main, portVars, glueVars, lanVars, lineVars, unplugs, fails>>

Environment == Unplug \/ Plug \/ StationIp

Next == Create \/ EventTask \/ Poll \/ PhyIsBack \/ InputRequest \/ InputAck \/ Environment

Spec == Init /\ [][Next]_vars

\* Tasks that are ready run, the driver polls and the PHY renegotiates; a DHCP
\* client repeats its request until it is answered, here and at the other end.
\* The event queue gives way to every poster in turn.
Fairness ==
    /\ WF_vars(Create) /\ WF_vars(EventTask) /\ SF_vars(Poll) /\ WF_vars(PhyIsBack)
    /\ SF_vars(InputRequest) /\ SF_vars(InputAck)

FairSpec == Spec /\ Fairness

-----------------------------------------------------------------------------
(* Properties *)

Ready == main[1] = "done"

\* The event task has handled every change of the link the driver reported.
LinkSettled ==
    /\ reported = (state = "UP")
    /\ \A i \in DOMAIN queue : queue[i] \notin {"connected", "disconnected"}

\* While the link is up a netif is down only because the other proved right for
\* what the cable has led to since the link came up: an address got, or assigned,
\* on another cable takes no netif down (eth_action_got_ip(), _assigned_ip(),
\* _connected()).
RoleFollowsCable ==
    Ready /\ LinkSettled /\ state = "UP" =>
        (up[Wan] \/ Client \in met) /\ (up[Lan] \/ Server \in met)

\* Once the link has been seen to go down both netifs are down until it is up
\* again, so that the next "connected" starts both afresh.
DownWithTheLink == flapped /\ LinkSettled /\ state = "DOWN" => \A n \in Netif : ~up[n]

\* When the bridge's own DHCP client has its address and the event task has
\* heard of it, the port's DHCP server is off that network.
OneDhcpRole ==
    dhcpc = "bound" /\ "gotIp" \notin {queue[i] : i \in DOMAIN queue} => ~up[Lan]

\* The two netifs of a port never contradict the cable, the link or each other.
RolesConsistent == RoleFollowsCable /\ DownWithTheLink /\ OneDhcpRole

\* A port on a DHCP server's network that has seen the link go down and come up
\* becomes a WAN for good, unless the cable was swapped between two polls: the
\* PHY resets that its own address brings about come to an end.
BecomesWan ==
    <>[](flapped /\ cable = {Server} /\ met = cable /\ Wan \in attached)
        => <>[](dhcpc = "bound" /\ ~up[Lan])

\* Likewise a port with only DHCP clients becomes a LAN for good.
BecomesLan ==
    <>[](cable = {Client} /\ met = cable /\ Lan \in attached)
        => <>[](up[Lan] /\ ~up[Wan])

\* Either way the port's role settles.
RoleSettles == BecomesWan /\ BecomesLan
=============================================================================
