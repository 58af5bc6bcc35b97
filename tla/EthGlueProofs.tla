--------------------------- MODULE EthGlueProofs ---------------------------
(***************************************************************************)
(* Proofs about EthGlue, for any cables, segments and bounds: type         *)
(* correctness, and that the two netifs of the port never contradict the   *)
(* cable, the link or each other (RolesConsistent).                        *)
(*                                                                         *)
(* The argument is about the event queue.  The driver's link events in it  *)
(* alternate, beginning with the change of what the glue believes and      *)
(* ending with what the driver last reported (LinkEvents), so that no      *)
(* "connected" is handled twice in a row; and an address event that no     *)
(* link event follows is about what was plugged in since the link came up  *)
(* (NoStaleRole).                                                          *)
(***************************************************************************)
EXTENDS EthGlue, TLAPS

-----------------------------------------------------------------------------
(* The inductive invariant *)

LinkState == {"UP", "DOWN"}
LinkEvent == {"connected", "disconnected"}

\* How far the main task is says which netifs there are.
Creation ==
    /\ main[1] # "new" => main[2] \in created
    /\ main[2] = Wan => Lan \in listed
    /\ main = <<"new", Lan>> => Lan \notin created
    /\ main[2] = Lan \/ main = <<"new", Wan>> => Wan \notin created
    /\ Ready => Wan \in listed

\* A netif that is up was created, and a DHCP client that runs does so on a
\* netif that is up, on a link the glue knows to be up.
ClientRuns ==
    /\ \A n \in Netif : up[n] => n \in created
    /\ dhcpc # "init" => up[Wan] /\ state = "UP"

\* A "disconnected" counts as a flap only when both netifs exist, and leaves them
\* down until the glue hears "connected".
Flapped == flapped => Ready /\ (state = "DOWN" => \A n \in Netif : ~up[n])

\* The link events of q alternate, from state s of the link to state t: know[i]
\* is what the glue believes after i events.
Alternates(q, s, t) ==
    \E know \in [0..Len(q) -> LinkState] :
        /\ know[0] = s /\ know[Len(q)] = t
        /\ \A i \in 1..Len(q) :
            /\ q[i] = "connected" => know[i - 1] = "DOWN" /\ know[i] = "UP"
            /\ q[i] = "disconnected" => know[i - 1] = "UP" /\ know[i] = "DOWN"
            /\ q[i] \notin LinkEvent => know[i] = know[i - 1]

LinkEvents == Alternates(queue, state, IF reported THEN "UP" ELSE "DOWN")

\* No link event waits in q behind event i.
LastLink(q, i) == \A j \in 1..Len(q) : j > i => q[j] \notin LinkEvent

\* The address events of q that no link event follows are about what is in m.
About(q, m) ==
    \A i \in 1..Len(q) : LastLink(q, i) =>
        /\ q[i] = "gotIp" => Server \in m
        /\ q[i] = "assigned" => Client \in m

NoStaleRole == reported => cable \subseteq met /\ About(queue, met)

\* RoleFollowsCable, for each netif as soon as it is in bridge_link
ListedFollows ==
    LinkSettled /\ state = "UP" =>
        /\ Lan \in listed => up[Lan] \/ Server \in met
        /\ Wan \in listed => up[Wan] \/ Client \in met

Inv == /\ TypeOK /\ Creation /\ ClientRuns /\ Flapped /\ LinkEvents /\ NoStaleRole
       /\ ListedFollows /\ OneDhcpRole

-----------------------------------------------------------------------------
(* The event queue *)

\* The events of a queue, and whether none of them is a link event
Waiting(q) == {q[i] : i \in DOMAIN q}
Settled(q) == \A i \in 1..Len(q) : q[i] \notin LinkEvent

\* Taking the first event moves the others forward by one.
LEMMA TakeFirst ==
    ASSUME NEW q \in Seq(Event), q # <<>>
    PROVE  /\ Tail(q) \in Seq(Event) /\ Len(Tail(q)) = Len(q) - 1 /\ Len(q) \in Nat \ {0}
           /\ Head(q) = q[1] /\ Head(q) \in Event
           /\ \A i \in 1..(Len(q) - 1) : Tail(q)[i] = q[i + 1]
  OBVIOUS

\* Posting one leaves the others where they are.
LEMMA PutLast ==
    ASSUME NEW q \in Seq(Event), NEW e \in Event
    PROVE  /\ Append(q, e) \in Seq(Event) /\ Len(Append(q, e)) = Len(q) + 1 /\ Len(q) \in Nat
           /\ Append(q, e)[Len(q) + 1] = e
           /\ \A i \in 1..Len(q) : Append(q, e)[i] = q[i]
  OBVIOUS

\* Handling an event takes the first step of an alternation ...
LEMMA AlternatesTake ==
    ASSUME NEW q \in Seq(Event), q # <<>>, NEW s \in LinkState, NEW t \in LinkState,
           Alternates(q, s, t)
    PROVE  /\ Head(q) = "connected" => s = "DOWN" /\ Alternates(Tail(q), "UP", t)
           /\ Head(q) = "disconnected" => s = "UP" /\ Alternates(Tail(q), "DOWN", t)
           /\ Head(q) \notin LinkEvent => Alternates(Tail(q), s, t)
<1>1. PICK know \in [0..Len(q) -> LinkState] :
        /\ know[0] = s /\ know[Len(q)] = t
        /\ \A i \in 1..Len(q) :
            /\ q[i] = "connected" => know[i - 1] = "DOWN" /\ know[i] = "UP"
            /\ q[i] = "disconnected" => know[i - 1] = "UP" /\ know[i] = "DOWN"
            /\ q[i] \notin LinkEvent => know[i] = know[i - 1]
  BY DEF Alternates
<1> DEFINE later == [i \in 0..Len(Tail(q)) |-> know[i + 1]]
<1>2. Alternates(Tail(q), know[1], t)
  <2>1. later \in [0..Len(Tail(q)) -> LinkState] /\ later[0] = know[1] /\ later[Len(Tail(q))] = t
    BY <1>1, TakeFirst
  <2>2. ASSUME NEW i \in 1..Len(Tail(q))
        PROVE  /\ i + 1 \in 1..Len(q) /\ Tail(q)[i] = q[i + 1]
               /\ later[i] = know[i + 1] /\ later[i - 1] = know[(i + 1) - 1]
    BY <2>2, TakeFirst
  <2>3. \A i \in 1..Len(Tail(q)) :
            /\ Tail(q)[i] = "connected" => later[i - 1] = "DOWN" /\ later[i] = "UP"
            /\ Tail(q)[i] = "disconnected" => later[i - 1] = "UP" /\ later[i] = "DOWN"
            /\ Tail(q)[i] \notin LinkEvent => later[i] = later[i - 1]
    BY <1>1, <2>2
  <2> QED BY <2>1, <2>3 DEF Alternates
<1>3. 1 \in 1..Len(q) /\ q[1] = Head(q) /\ 1 - 1 = 0
  BY TakeFirst
<1> QED BY <1>1, <1>2, <1>3

\* ... and posting one adds a last step.
LEMMA AlternatesPut ==
    ASSUME NEW q \in Seq(Event), NEW e \in Event, NEW s \in LinkState, NEW t \in LinkState,
           NEW u \in LinkState, Alternates(q, s, t),
           e = "connected" => t = "DOWN" /\ u = "UP",
           e = "disconnected" => t = "UP" /\ u = "DOWN",
           e \notin LinkEvent => u = t
    PROVE  Alternates(Append(q, e), s, u)
<1>1. PICK know \in [0..Len(q) -> LinkState] :
        /\ know[0] = s /\ know[Len(q)] = t
        /\ \A i \in 1..Len(q) :
            /\ q[i] = "connected" => know[i - 1] = "DOWN" /\ know[i] = "UP"
            /\ q[i] = "disconnected" => know[i - 1] = "UP" /\ know[i] = "DOWN"
            /\ q[i] \notin LinkEvent => know[i] = know[i - 1]
  BY DEF Alternates
<1> DEFINE n == Len(q) + 1
           longer == [i \in 0..n |-> IF i = n THEN u ELSE know[i]]
<1>2. Len(Append(q, e)) = n /\ Len(q) \in Nat /\ Append(q, e)[n] = e
  BY PutLast
<1>3. longer \in [0..n -> LinkState] /\ longer[0] = s /\ longer[n] = u /\ longer[n - 1] = t
  BY <1>1, <1>2
<1>4. ASSUME NEW i \in 1..Len(q)
      PROVE  Append(q, e)[i] = q[i] /\ longer[i] = know[i] /\ longer[i - 1] = know[i - 1]
  BY <1>4, <1>2, PutLast
<1>5. \A i \in 1..n : i \in 1..Len(q) \/ i = n
  BY <1>2
<1> HIDE DEF longer, n
<1>6. \A i \in 1..n :
            /\ Append(q, e)[i] = "connected" => longer[i - 1] = "DOWN" /\ longer[i] = "UP"
            /\ Append(q, e)[i] = "disconnected" => longer[i - 1] = "UP" /\ longer[i] = "DOWN"
            /\ Append(q, e)[i] \notin LinkEvent => longer[i] = longer[i - 1]
  BY <1>1, <1>2, <1>3, <1>4, <1>5
<1> QED BY <1>2, <1>3, <1>6 DEF Alternates

\* Taking or posting an event, and what waits: the kinds of event, link events,
\* and what the address events are about.
LEMMA TakeEvents ==
    ASSUME NEW q \in Seq(Event), q # <<>>
    PROVE  /\ Waiting(q) = Waiting(Tail(q)) \cup {Head(q)}
           /\ Settled(Tail(q)) /\ Head(q) \notin LinkEvent => Settled(q)
           /\ \A m : About(q, m) =>
                /\ About(Tail(q), m)
                /\ Settled(Tail(q)) /\ Head(q) = "gotIp" => Server \in m
                /\ Settled(Tail(q)) /\ Head(q) = "assigned" => Client \in m
<1>1. /\ Tail(q) \in Seq(Event) /\ Len(Tail(q)) = Len(q) - 1 /\ Len(q) \in Nat \ {0}
      /\ Head(q) = q[1]
      /\ \A i \in 1..(Len(q) - 1) : Tail(q)[i] = q[i + 1]
  BY TakeFirst
<1>2. \A j \in 1..Len(q) : j # 1 => j - 1 \in 1..(Len(q) - 1) /\ q[j] = Tail(q)[j - 1]
  BY <1>1
<1>3. Waiting(q) = Waiting(Tail(q)) \cup {Head(q)}
  <2>1. DOMAIN q = 1..Len(q) /\ DOMAIN Tail(q) = 1..(Len(q) - 1) /\ 1 \in 1..Len(q)
    BY <1>1
  <2>2. \A i \in 1..(Len(q) - 1) : i + 1 \in 1..Len(q)
    BY <1>1
  <2>3. ASSUME NEW e \in Waiting(q) PROVE e \in Waiting(Tail(q)) \cup {Head(q)}
    <3>1. PICK j \in 1..Len(q) : e = q[j]
      BY <2>1, <2>3 DEF Waiting
    <3>2. j = 1 \/ (j - 1 \in DOMAIN Tail(q) /\ e = Tail(q)[j - 1])
      BY <1>2, <2>1, <3>1
    <3> QED BY <1>1, <3>1, <3>2 DEF Waiting
  <2>4. ASSUME NEW e \in Waiting(Tail(q)) PROVE e \in Waiting(q)
    <3>1. PICK i \in 1..(Len(q) - 1) : e = Tail(q)[i]
      BY <2>1, <2>4 DEF Waiting
    <3>2. i + 1 \in DOMAIN q /\ e = q[i + 1]
      BY <1>1, <2>1, <2>2, <3>1
    <3> QED BY <3>2 DEF Waiting
  <2>5. Head(q) \in Waiting(q)
    BY <1>1, <2>1 DEF Waiting
  <2> QED BY <2>3, <2>4, <2>5
<1>4. Settled(Tail(q)) /\ Head(q) \notin LinkEvent => Settled(q)
  BY <1>1, <1>2 DEF Settled
<1>5. \A i \in 1..(Len(q) - 1) : LastLink(Tail(q), i) => LastLink(q, i + 1)
  BY <1>1, <1>2 DEF LastLink
<1>6. Settled(Tail(q)) => LastLink(q, 1)
  BY <1>1, <1>2 DEF LastLink, Settled
<1>7. \A i \in 1..(Len(q) - 1) : i + 1 \in 1..Len(q)
  BY <1>1
<1> QED BY <1>1, <1>3, <1>4, <1>5, <1>6, <1>7 DEF About

LEMMA PutEvents ==
    ASSUME NEW q \in Seq(Event), NEW e \in Event
    PROVE  /\ Waiting(Append(q, e)) = Waiting(q) \cup {e}
           /\ Settled(Append(q, e)) => Settled(q) /\ e \notin LinkEvent
           /\ \A m : e \in LinkEvent => About(Append(q, e), m)
           /\ \A m : /\ About(q, m)
                     /\ e = "gotIp" => Server \in m
                     /\ e = "assigned" => Client \in m
                     => About(Append(q, e), m)
<1> DEFINE n == Len(q) + 1
<1>1. /\ Len(Append(q, e)) = n /\ Len(q) \in Nat /\ Append(q, e)[n] = e
      /\ DOMAIN q = 1..Len(q) /\ DOMAIN Append(q, e) = 1..n
  BY PutLast
<1>2. \A i \in 1..Len(q) : i \in 1..n /\ n > i /\ Append(q, e)[i] = q[i]
  BY <1>1, PutLast
<1>3. n \in 1..n /\ \A i \in 1..n : i \in 1..Len(q) \/ i = n
  BY <1>1
<1> HIDE DEF n
<1>4. Waiting(Append(q, e)) = Waiting(q) \cup {e}
  BY <1>1, <1>2, <1>3 DEF Waiting
<1>5. Settled(Append(q, e)) => Settled(q) /\ e \notin LinkEvent
  BY <1>1, <1>2, <1>3 DEF Settled
<1>6. \A i \in 1..Len(q) : LastLink(Append(q, e), i) => LastLink(q, i) /\ e \notin LinkEvent
  BY <1>1, <1>2, <1>3 DEF LastLink
<1>7. ASSUME NEW m, e \in LinkEvent
      PROVE  About(Append(q, e), m)
  <2>1. e # "gotIp" /\ e # "assigned"
    BY <1>7 DEF LinkEvent
  <2> QED BY <1>1, <1>2, <1>3, <1>6, <1>7, <2>1 DEF About
<1>8. ASSUME NEW m, About(q, m), e = "gotIp" => Server \in m, e = "assigned" => Client \in m
      PROVE  About(Append(q, e), m)
  BY <1>1, <1>2, <1>3, <1>6, <1>8 DEF About
<1> QED BY <1>4, <1>5, <1>7, <1>8

\* What is about m is about more.
LEMMA AboutMore ==
    ASSUME NEW q, NEW m, NEW l, m \subseteq l, About(q, m)
    PROVE  About(q, l)
  BY DEF About

\* A fresh queue has nothing in it.
LEMMA NothingWaits ==
    /\ <<>> \in Seq(Event) /\ Len(<<>>) = 0 /\ Waiting(<<>>) = {}
    /\ Alternates(<<>>, "DOWN", "DOWN") /\ \A m : About(<<>>, m)
<1>1. <<>> \in Seq(Event) /\ Len(<<>>) = 0 /\ DOMAIN <<>> = {}
  OBVIOUS
<1>2. Alternates(<<>>, "DOWN", "DOWN")
  <2> DEFINE know == [i \in 0..0 |-> "DOWN"]
  <2>1. know \in [0..0 -> LinkState] /\ know[0] = "DOWN"
    BY DEF LinkState
  <2>2. \A i \in 1..0 : FALSE
    OBVIOUS
  <2> QED BY <1>1, <2>1, <2>2 DEF Alternates
<1> QED BY <1>1, <1>2 DEF Waiting, About

-----------------------------------------------------------------------------
(* Which steps change what *)

\* The step of the main task that a pair of the program counter names
LEMMA MainAt ==
    ASSUME NEW p, NEW n, main = <<p, n>>
    PROVE  main[1] = p /\ main[2] = n
  OBVIOUS

\* The queue is left alone, emptied by a restart, or one event is posted to it or
\* taken from it; link events are posted and handled with the state they tell of.
LEMMA QueueSteps ==
    ASSUME TypeOK, [Next]_vars
    PROVE  \/ UNCHANGED <<queue, state, reported>>
           \/ queue' = <<>> /\ state' = "DOWN" /\ ~reported'
           \/ \E e \in {"start", "gotIp", "assigned", "stationIp"} :
                Post(e) /\ UNCHANGED <<state, reported>>
           \/ \E e \in {"start", "gotIp", "assigned", "stationIp"} :
                Handles(e) /\ UNCHANGED <<state, reported>>
           \/ ActionConnected \/ ActionDisconnected
           \/ Post("connected") /\ ~reported /\ reported' /\ state' = state
           \/ Post("disconnected") /\ reported /\ ~reported' /\ state' = state
<1> USE DEF glueVars, lineVars
<1>1. ASSUME NEW n \in Netif, New(n) \/ Install(n) \/ Attach(n) \/ Up(n)
      PROVE  UNCHANGED <<queue, state, reported>>
  BY <1>1 DEF New, Install, Attach, Up
<1>2. ASSUME NEW n \in Netif, AttachFails(n)
      PROVE  queue' = <<>> /\ state' = "DOWN" /\ ~reported'
  BY <1>2 DEF AttachFails
<1>3. ASSUME NEW n \in Netif, Start(n)
      PROVE  \/ UNCHANGED <<queue, state, reported>>
             \/ Post("start") /\ UNCHANGED <<state, reported>>
  BY <1>3 DEF Start
<1>4. ASSUME ActionStart \/ ActionGotIp \/ ActionAssigned \/ StationGotIp
      PROVE  \E e \in {"start", "gotIp", "assigned", "stationIp"} :
                Handles(e) /\ UNCHANGED <<state, reported>>
  BY <1>4 DEF ActionStart, ActionGotIp, ActionAssigned, StationGotIp
<1>5. CASE Poll
  <2>1. Link \in BOOLEAN /\ reported \in BOOLEAN
    BY DEF Link, TypeOK
  <2>2. CASE Link
    BY <1>5, <2>1, <2>2 DEF Poll
  <2>3. CASE ~Link
    BY <1>5, <2>1, <2>3 DEF Poll
  <2> QED BY <2>2, <2>3
<1>6. ASSUME InputRequest \/ InputAck \/ StationIp
      PROVE  \E e \in {"start", "gotIp", "assigned", "stationIp"} :
                Post(e) /\ UNCHANGED <<state, reported>>
  BY <1>6 DEF InputRequest, InputAck, StationIp
<1>7. CASE PhyIsBack \/ Unplug \/ Plug \/ UNCHANGED vars
  BY <1>7 DEF PhyIsBack, Unplug, Plug, vars
<1> QED
  BY <1>1, <1>2, <1>3, <1>4, <1>5, <1>6, <1>7
  DEF Next, Create, EventTask, Environment

-----------------------------------------------------------------------------
(* Type correctness *)

\* The events stay in the queue's bound.
LEMMA QueueType ==
    ASSUME TypeOK, [Next]_vars
    PROVE  queue' \in Seq(Event) /\ Len(queue') <= QueueSize
<1> USE EthGlueAssumption
<1>1. queue \in Seq(Event) /\ Len(queue) <= QueueSize /\ Len(queue) \in Nat /\ QueueSize \in Nat
  BY DEF TypeOK
<1>2. ASSUME NEW e \in Event, Post(e)
      PROVE  queue' \in Seq(Event) /\ Len(queue') <= QueueSize
  BY <1>1, <1>2, PutLast DEF Post
<1>3. ASSUME NEW e, Handles(e)
      PROVE  queue' \in Seq(Event) /\ Len(queue') <= QueueSize
  BY <1>1, <1>3, TakeFirst DEF Handles
<1>4. {"start", "gotIp", "assigned", "stationIp", "connected", "disconnected"} \subseteq Event
  BY DEF Event
<1>5. <<>> \in Seq(Event) /\ Len(<<>>) <= QueueSize
  BY <1>1
<1> QED BY <1>1, <1>2, <1>3, <1>4, <1>5, QueueSteps DEF ActionConnected, ActionDisconnected

LEMMA TypeInvariance == TypeOK /\ Creation /\ [Next]_vars => TypeOK'
<1> SUFFICES ASSUME TypeOK, Creation, [Next]_vars PROVE TypeOK'
  OBVIOUS
<1> USE DEF portVars, glueVars, lanVars, lineVars, budgets, At, Goto
<1> DEFINE Main == main' \in {"new", "install", "attach", "start", "up"} \X Netif
                            \cup {<<"done", Wan>>}
           Port == /\ created' \subseteq Netif /\ listed' \subseteq created'
                   /\ attached' \subseteq created' /\ {installed', started'} \subseteq BOOLEAN
           Glue == /\ state' \in {"UP", "DOWN"} /\ up' \in [Netif -> BOOLEAN]
                   /\ dhcpc' \in {"init", "started", "bound"} /\ flapped' \in BOOLEAN
           LanOK == lanDns' \in {DefaultDns, ServerDns, StationDns} /\ lanSegment' \in Segments
           Line == /\ cable' \in Cables \cup {{}} /\ met' \subseteq {Server, Client}
                   /\ {resetting', reported'} \subseteq BOOLEAN
           Budgets == /\ unplugs' \in 0..MaxUnplug /\ stationIps' \in 0..MaxStationIp
                      /\ fails' \in 0..MaxFail
<1>1. Main
  <2> USE DEF TypeOK, Netif
  <2>1. CASE Create
    BY <2>1 DEF Create, New, Install, Attach, AttachFails, Start, Up
  <2>2. CASE UNCHANGED main
    BY <2>2
  <2> QED BY <2>1, <2>2
          DEF Next, EventTask, Environment, ActionStart, ActionConnected, ActionDisconnected,
              ActionGotIp, ActionAssigned, StationGotIp, Poll, PhyIsBack, InputRequest, InputAck,
              Unplug, Plug, StationIp, vars
<1>2. Port
  <2> USE DEF TypeOK
  <2>1. ASSUME NEW n \in Netif, New(n) PROVE Port
    BY <2>1 DEF New
  <2>2. ASSUME NEW n \in Netif, Install(n) PROVE Port
    BY <2>2 DEF Install
  <2>3. ASSUME NEW n \in Netif, Attach(n) PROVE Port
    BY <2>3, MainAt DEF Attach, Creation
  <2>4. ASSUME NEW n \in Netif, AttachFails(n) PROVE Port
    BY <2>4 DEF AttachFails
  <2>5. ASSUME NEW n \in Netif, Start(n) PROVE Port
    BY <2>5 DEF Start
  <2>6. ASSUME NEW n \in Netif, Up(n) PROVE Port
    BY <2>6, MainAt DEF Up, Creation
  <2>7. CASE UNCHANGED portVars
    BY <2>7
  <2> QED BY <2>1, <2>2, <2>3, <2>4, <2>5, <2>6, <2>7
          DEF Next, Create, EventTask, Environment, ActionStart, ActionConnected,
              ActionDisconnected, ActionGotIp, ActionAssigned, StationGotIp, Poll, PhyIsBack,
              InputRequest, InputAck, Unplug, Plug, StationIp, vars
<1>3. Glue
  <2> USE DEF TypeOK
  <2>1. ASSUME NEW ns, Connect(ns)
        PROVE  up' \in [Netif -> BOOLEAN] /\ dhcpc' \in {"init", "started", "bound"}
    BY <2>1 DEF Connect
  <2>2. ASSUME NEW ns, Down(ns)
        PROVE  up' \in [Netif -> BOOLEAN] /\ dhcpc' \in {"init", "started", "bound"}
    BY <2>2 DEF Down
  <2>3. CASE Create
    <3>1. ASSUME NEW n \in Netif, New(n) PROVE Glue
      BY <3>1 DEF New
    <3>2. ASSUME NEW n \in Netif, Attach(n) PROVE Glue
      BY <2>1, <3>2 DEF Attach
    <3>3. ASSUME NEW n \in Netif, AttachFails(n) PROVE Glue
      BY <3>3 DEF AttachFails
    <3>4. ASSUME NEW n \in Netif, Up(n) PROVE Glue
      BY <3>4 DEF Up
    <3>5. ASSUME NEW n \in Netif, Install(n) \/ Start(n) PROVE Glue
      BY <3>5 DEF Install, Start
    <3> QED BY <2>3, <3>1, <3>2, <3>3, <3>4, <3>5 DEF Create
  <2>4. CASE ActionStart \/ StationGotIp
    BY <2>4 DEF ActionStart, StationGotIp
  <2>5. CASE ActionConnected
    BY <2>1, <2>5 DEF ActionConnected
  <2>6. CASE ActionDisconnected
    BY <2>2, <2>6 DEF ActionDisconnected
  <2>7. CASE ActionGotIp
    BY <2>2, <2>7 DEF ActionGotIp
  <2>8. CASE ActionAssigned
    BY <2>2, <2>8 DEF ActionAssigned
  <2>9. CASE InputAck
    BY <2>9 DEF InputAck
  <2>10. CASE UNCHANGED glueVars
    BY <2>10
  <2> QED BY <2>3, <2>4, <2>5, <2>6, <2>7, <2>8, <2>9, <2>10
          DEF Next, EventTask, Environment, Poll, PhyIsBack, InputRequest, Unplug, Plug,
              StationIp, vars
<1>4. LanOK
  <2> USE DEF TypeOK
  <2>1. ASSUME NEW dns \in {ServerDns, StationDns}, NEW conflict, UpdateLan(dns, conflict)
        PROVE  LanOK
    BY <2>1 DEF UpdateLan, Unused
  <2>2. ASSUME NEW n \in Netif, AttachFails(n) PROVE LanOK
    BY <2>2 DEF AttachFails
  <2>3. CASE ActionGotIp
    BY <2>1, <2>3 DEF ActionGotIp
  <2>4. CASE StationGotIp
    BY <2>1, <2>4 DEF StationGotIp
  <2>5. CASE UNCHANGED lanVars
    BY <2>5
  <2> QED BY <2>2, <2>3, <2>4, <2>5
          DEF Next, Create, New, Install, Attach, Start, Up, EventTask, Environment, ActionStart,
              ActionConnected, ActionDisconnected, ActionAssigned, Poll, PhyIsBack, InputRequest,
              InputAck, Unplug, Plug, StationIp, vars
<1>5. Line
  <2> USE DEF TypeOK
  <2>1. ASSUME NEW dns, NEW conflict \in BOOLEAN, UpdateLan(dns, conflict)
        PROVE  resetting' \in BOOLEAN
    BY <2>1 DEF UpdateLan
  <2>2. ASSUME NEW n \in Netif, AttachFails(n) PROVE Line
    BY <2>2 DEF AttachFails
  <2>3. CASE ActionGotIp
    BY <2>1, <2>3 DEF ActionGotIp, Conflict
  <2>4. CASE StationGotIp
    BY <2>1, <2>4 DEF StationGotIp
  <2>5. CASE Poll
    BY <2>5, EthGlueAssumption DEF Poll, Link
  <2>6. CASE PhyIsBack \/ Unplug
    BY <2>6 DEF PhyIsBack, Unplug
  <2>7. CASE Plug
    BY <2>7, EthGlueAssumption DEF Plug
  <2>8. CASE UNCHANGED lineVars
    BY <2>8
  <2> QED BY <2>2, <2>3, <2>4, <2>5, <2>6, <2>7, <2>8
          DEF Next, Create, New, Install, Attach, Start, Up, EventTask, Environment, ActionStart,
              ActionConnected, ActionDisconnected, ActionAssigned, InputRequest, InputAck,
              StationIp, vars
<1>6. Budgets
  <2> USE EthGlueAssumption DEF TypeOK
  <2>1. ASSUME NEW n \in Netif, Install(n) \/ AttachFails(n) PROVE Budgets
    BY <2>1 DEF Install, AttachFails
  <2>2. CASE Unplug
    BY <2>2 DEF Unplug
  <2>3. CASE StationIp
    BY <2>3 DEF StationIp
  <2>4. CASE UNCHANGED budgets
    BY <2>4
  <2> QED BY <2>1, <2>2, <2>3, <2>4
          DEF Next, Create, New, Attach, Start, Up, EventTask, Environment, ActionStart,
              ActionConnected, ActionDisconnected, ActionGotIp, ActionAssigned, StationGotIp, Poll,
              PhyIsBack, InputRequest, InputAck, Plug, vars
<1> QED BY <1>1, <1>2, <1>3, <1>4, <1>5, <1>6, QueueType DEF TypeOK
-----------------------------------------------------------------------------
(* The other conjuncts of Inv, one by one *)

LEMMA CreationHolds == Inv /\ [Next]_vars => Creation'
<1> SUFFICES ASSUME TypeOK, Creation, [Next]_vars PROVE Creation'
  BY DEF Inv
<1> USE DEF Creation, Ready, portVars, At, Goto
<1>1. Lan # Wan /\ created \subseteq Netif /\ listed \subseteq created
  BY EthGlueAssumption DEF TypeOK
<1>2. ASSUME NEW n \in Netif, New(n) PROVE Creation'
  BY <1>1, <1>2, MainAt DEF New, Netif
<1>3. ASSUME NEW n \in Netif, Install(n) PROVE Creation'
  BY <1>1, <1>3, MainAt DEF Install, Netif
<1>4. ASSUME NEW n \in Netif, Attach(n) PROVE Creation'
  BY <1>1, <1>4, MainAt DEF Attach, Netif
<1>5. ASSUME NEW n \in Netif, AttachFails(n) PROVE Creation'
  BY <1>1, <1>5 DEF AttachFails
<1>6. ASSUME NEW n \in Netif, Start(n) PROVE Creation'
  BY <1>1, <1>6, MainAt DEF Start, Netif
<1>7. ASSUME NEW n \in Netif, Up(n) PROVE Creation'
  BY <1>1, <1>7, MainAt DEF Up, Netif
<1>8. CASE UNCHANGED <<main, portVars>>
  BY <1>8
<1> QED BY <1>2, <1>3, <1>4, <1>5, <1>6, <1>7, <1>8
        DEF Next, Create, EventTask, Environment, ActionStart, ActionConnected,
            ActionDisconnected, ActionGotIp, ActionAssigned, StationGotIp, Poll, PhyIsBack,
            InputRequest, InputAck, Unplug, Plug, StationIp, vars

LEMMA ClientRunsHolds == Inv /\ [Next]_vars => ClientRuns'
<1> SUFFICES ASSUME TypeOK, Creation, ClientRuns, [Next]_vars PROVE ClientRuns'
  BY DEF Inv
<1> USE DEF ClientRuns, glueVars, portVars, At, Goto
<1>1. /\ Lan # Wan /\ Lan \in Netif /\ Wan \in Netif /\ up \in [Netif -> BOOLEAN]
      /\ state \in LinkState /\ queue \in Seq(Event)
  BY EthGlueAssumption DEF TypeOK, Netif, LinkState
<1>2. CASE Create
  <2>1. ASSUME NEW n \in Netif, New(n) PROVE ClientRuns'
    <3>1. n \notin created
      BY <1>1, <2>1, MainAt DEF New, Creation, Netif
    <3> QED BY <1>1, <2>1, <3>1 DEF New
  <2>2. ASSUME NEW n \in Netif, Attach(n) PROVE ClientRuns'
    <3>1. n \in created
      BY <2>2, MainAt DEF Attach, Creation
    <3> QED BY <1>1, <2>2, <3>1 DEF Attach, Connect
  <2>3. ASSUME NEW n \in Netif, AttachFails(n) PROVE ClientRuns'
    BY <1>1, <2>3 DEF AttachFails
  <2>4. ASSUME NEW n \in Netif, Up(n) PROVE ClientRuns'
    <3>1. n \in created
      BY <2>4, MainAt DEF Up, Creation
    <3> QED BY <1>1, <2>4, <3>1 DEF Up
  <2>5. ASSUME NEW n \in Netif, Install(n) \/ Start(n) PROVE ClientRuns'
    BY <2>5 DEF Install, Start
  <2> QED BY <1>2, <2>1, <2>2, <2>3, <2>4, <2>5 DEF Create
<1>3. CASE ActionConnected
  BY <1>1, <1>3 DEF ActionConnected, Connect
<1>4. ASSUME NEW ns, Down(ns), created' = created, state' = state \/ ns = {n \in created : up[n]}
      PROVE  ClientRuns'
  BY <1>1, <1>4 DEF Down
<1>5. CASE ActionDisconnected
  BY <1>4, <1>5 DEF ActionDisconnected
<1>6. CASE ActionGotIp
  BY <1>4, <1>6 DEF ActionGotIp
<1>7. CASE ActionAssigned
  BY <1>4, <1>7 DEF ActionAssigned
<1>8. CASE InputAck
  BY <1>8 DEF InputAck
<1>9. CASE UNCHANGED <<created, state, up, dhcpc>>
  BY <1>9
<1> QED BY <1>2, <1>3, <1>5, <1>6, <1>7, <1>8, <1>9
        DEF Next, EventTask, Environment, ActionStart, StationGotIp, Poll, PhyIsBack,
            InputRequest, Unplug, Plug, StationIp, vars

LEMMA FlappedHolds == Inv /\ [Next]_vars => Flapped'
<1> SUFFICES ASSUME TypeOK, Creation, ClientRuns, Flapped, [Next]_vars PROVE Flapped'
  BY DEF Inv
<1> USE DEF Flapped, Ready, glueVars, portVars, At, Goto
<1>1. Lan # Wan /\ up \in [Netif -> BOOLEAN] /\ flapped \in BOOLEAN
  BY EthGlueAssumption DEF TypeOK
<1>2. CASE Create
  <2>1. ASSUME NEW n \in Netif, AttachFails(n) PROVE Flapped'
    BY <1>1, <2>1 DEF AttachFails
  <2>2. ASSUME NEW n \in Netif, New(n) \/ Install(n) \/ Attach(n) \/ Start(n) \/ Up(n)
        PROVE  ~Ready /\ flapped' = flapped
    BY <2>2, MainAt DEF New, Install, Attach, Start, Up
  <2> QED BY <1>2, <2>1, <2>2 DEF Create
<1>3. CASE ActionConnected
  BY <1>3 DEF ActionConnected
<1>4. CASE ActionDisconnected
  BY <1>1, <1>4 DEF ActionDisconnected, Down, ClientRuns
<1>5. ASSUME NEW ns, Down(ns), UNCHANGED <<main, state, flapped>> PROVE Flapped'
  BY <1>1, <1>5 DEF Down
<1>6. CASE ActionGotIp
  BY <1>5, <1>6 DEF ActionGotIp
<1>7. CASE ActionAssigned
  BY <1>5, <1>7 DEF ActionAssigned
<1>8. CASE UNCHANGED <<main, state, up, flapped>>
  BY <1>8
<1> QED BY <1>2, <1>3, <1>4, <1>6, <1>7, <1>8
        DEF Next, EventTask, Environment, ActionStart, StationGotIp, Poll, PhyIsBack,
            InputRequest, InputAck, Unplug, Plug, StationIp, vars

LEMMA LinkEventsHolds == Inv /\ [Next]_vars => LinkEvents'
<1> SUFFICES ASSUME TypeOK, LinkEvents, [Next]_vars PROVE LinkEvents'
  BY DEF Inv
<1> DEFINE Reported == IF reported THEN "UP" ELSE "DOWN"
<1>1. queue \in Seq(Event) /\ state \in LinkState /\ Reported \in LinkState
  BY DEF TypeOK, LinkState
<1>2. Alternates(queue, state, Reported)
  BY DEF LinkEvents
<1>3. LinkEvents' <=> Alternates(queue', state', IF reported' THEN "UP" ELSE "DOWN")
  BY DEF LinkEvents, Alternates
<1>4. \A e \in {"start", "gotIp", "assigned", "stationIp"} : e \in Event /\ e \notin LinkEvent
  BY DEF Event, LinkEvent
<1>5. {"connected", "disconnected"} \subseteq Event /\ LinkState = {"UP", "DOWN"}
  BY DEF Event, LinkState
<1> HIDE DEF Reported
<1>6. CASE UNCHANGED <<queue, state, reported>>
  BY <1>2, <1>3, <1>6 DEF Reported
<1>7. CASE queue' = <<>> /\ state' = "DOWN" /\ ~reported'
  BY <1>3, <1>7, NothingWaits
<1>8. ASSUME NEW e \in {"start", "gotIp", "assigned", "stationIp"},
             Post(e), UNCHANGED <<state, reported>>
      PROVE  LinkEvents'
  <2>1. Alternates(Append(queue, e), state, Reported)
    BY <1>1, <1>2, <1>4, AlternatesPut DEF LinkEvent
  <2> QED BY <1>3, <1>8, <2>1 DEF Reported, Post
<1>9. ASSUME NEW e \in {"start", "gotIp", "assigned", "stationIp"},
             Handles(e), UNCHANGED <<state, reported>>
      PROVE  LinkEvents'
  <2>1. Alternates(Tail(queue), state, Reported)
    BY <1>1, <1>2, <1>4, <1>9, AlternatesTake DEF Handles
  <2> QED BY <1>3, <1>9, <2>1 DEF Reported, Handles
<1>10. CASE ActionConnected
  <2>1. Alternates(Tail(queue), "UP", Reported)
    BY <1>1, <1>2, <1>10, AlternatesTake DEF ActionConnected, Handles
  <2> QED BY <1>3, <1>10, <2>1 DEF Reported, ActionConnected, Handles, lineVars
<1>11. CASE ActionDisconnected
  <2>1. Alternates(Tail(queue), "DOWN", Reported)
    BY <1>1, <1>2, <1>11, AlternatesTake DEF ActionDisconnected, Handles
  <2> QED BY <1>3, <1>11, <2>1 DEF Reported, ActionDisconnected, Handles, lineVars
<1>12. CASE Post("connected") /\ ~reported /\ reported' /\ state' = state
  <2>1. Reported = "DOWN"
    BY <1>12 DEF Reported
  <2>2. Alternates(Append(queue, "connected"), state, "UP")
    BY <1>1, <1>2, <1>5, <2>1, AlternatesPut DEF LinkEvent
  <2> QED BY <1>3, <1>12, <2>2 DEF Post
<1>13. CASE Post("disconnected") /\ reported /\ ~reported' /\ state' = state
  <2>1. Reported = "UP"
    BY <1>13 DEF Reported
  <2>2. Alternates(Append(queue, "disconnected"), state, "DOWN")
    BY <1>1, <1>2, <1>5, <2>1, AlternatesPut DEF LinkEvent
  <2> QED BY <1>3, <1>13, <2>2 DEF Post
<1> QED BY <1>6, <1>7, <1>8, <1>9, <1>10, <1>11, <1>12, <1>13, QueueSteps

\* A "connected" is handled only when the glue believes the link to be down.
LEMMA ConnectedOnDown ==
    ASSUME TypeOK, LinkEvents, ActionConnected
    PROVE  state = "DOWN"
<1>1. queue \in Seq(Event) /\ state \in LinkState
      /\ (IF reported THEN "UP" ELSE "DOWN") \in LinkState
  BY DEF TypeOK, LinkState
<1> QED BY <1>1, AlternatesTake DEF LinkEvents, ActionConnected, Handles

LEMMA NoStaleRoleHolds == Inv /\ [Next]_vars => NoStaleRole'
<1> SUFFICES ASSUME TypeOK, NoStaleRole, [Next]_vars, reported'
             PROVE  (cable \subseteq met /\ About(queue, met))'
  BY DEF Inv, NoStaleRole
<1> USE DEF lineVars
<1>1. queue \in Seq(Event) /\ reported \in BOOLEAN
  BY DEF TypeOK
<1>2. (About(queue, met))' <=> About(queue', met')
  BY DEF About, LastLink
<1>3. /\ {"start", "gotIp", "assigned", "stationIp", "connected"} \subseteq Event
      /\ "connected" \in LinkEvent
  BY DEF Event, LinkEvent
<1>4. ASSUME NEW e \in {"start", "gotIp", "assigned", "stationIp"},
             Post(e), reported, UNCHANGED <<cable, met>>,
             e = "gotIp" => Server \in cable, e = "assigned" => Client \in cable
      PROVE  (cable \subseteq met /\ About(queue, met))'
  <2>1. About(Append(queue, e), met)
    BY <1>1, <1>3, <1>4, PutEvents DEF NoStaleRole
  <2> QED BY <1>2, <1>4, <2>1 DEF Post, NoStaleRole
<1>5. ASSUME NEW e, Handles(e), UNCHANGED <<reported, cable, met>>
      PROVE  (cable \subseteq met /\ About(queue, met))'
  <2>1. About(Tail(queue), met)
    BY <1>1, <1>5, TakeEvents DEF NoStaleRole, Handles
  <2> QED BY <1>2, <1>5, <2>1 DEF Handles, NoStaleRole
<1>6. CASE UNCHANGED <<queue, reported, cable, met>>
  BY <1>2, <1>6 DEF NoStaleRole
<1>7. ASSUME NEW n \in Netif, New(n) \/ Install(n) \/ Attach(n) \/ AttachFails(n) \/ Up(n)
      PROVE  UNCHANGED <<queue, reported, cable, met>>
  BY <1>7 DEF New, Install, Attach, AttachFails, Up
<1>8. ASSUME NEW n \in Netif, Start(n)
      PROVE  (cable \subseteq met /\ About(queue, met))'
  BY <1>4, <1>6, <1>8 DEF Start
<1>9. ASSUME \/ ActionStart \/ ActionConnected \/ ActionDisconnected \/ ActionGotIp
             \/ ActionAssigned \/ StationGotIp
      PROVE  \E e : Handles(e) /\ UNCHANGED <<reported, cable, met>>
  BY <1>9 DEF ActionStart, ActionConnected, ActionDisconnected, ActionGotIp, ActionAssigned,
              StationGotIp
<1>10. CASE Poll
  <2>1. Link /\ met' = cable /\ queue' = Append(queue, "connected") /\ cable' = cable
    BY <1>1, <1>10 DEF Poll, Post, Link
  <2>2. About(Append(queue, "connected"), cable)
    BY <1>1, <1>3, PutEvents
  <2> QED BY <1>2, <2>1, <2>2
<1>11. CASE Unplug
  BY <1>2, <1>11 DEF Unplug, NoStaleRole
<1>12. CASE Plug
  <2>1. PICK c : cable' = c /\ met' = met \cup c /\ queue' = queue /\ reported' = reported
    BY <1>12 DEF Plug
  <2>2. About(queue, met \cup c)
    BY <2>1, AboutMore DEF NoStaleRole
  <2> QED BY <1>2, <2>1, <2>2
<1>13. CASE InputRequest
  BY <1>4, <1>13 DEF InputRequest
<1>14. CASE InputAck
  BY <1>4, <1>14 DEF InputAck
<1>15. CASE StationIp
  BY <1>4, <1>15 DEF StationIp
<1>16. CASE PhyIsBack \/ UNCHANGED vars
  BY <1>6, <1>16 DEF PhyIsBack, vars
<1> QED BY <1>5, <1>6, <1>7, <1>8, <1>9, <1>10, <1>11, <1>12, <1>13, <1>14, <1>15, <1>16
        DEF Next, Create, EventTask, Environment

\* A netif that goes down while the link is up does so for an address event, and
\* that is about this link.
LEMMA ListedFollowsHolds == Inv /\ [Next]_vars => ListedFollows'
<1> SUFFICES ASSUME TypeOK, Creation, LinkEvents, NoStaleRole, ListedFollows, [Next]_vars,
                    Settled(queue'), reported', state' = "UP"
             PROVE  /\ Lan \in listed' => up'[Lan] \/ Server \in met'
                    /\ Wan \in listed' => up'[Wan] \/ Client \in met'
  <2>1. ASSUME TypeOK, [Next]_vars, LinkSettled', state' = "UP"
        PROVE  Settled(queue') /\ reported'
    <3>1. DOMAIN queue' = 1..Len(queue')
      BY <2>1, QueueType
    <3> QED BY <2>1, <3>1 DEF LinkSettled, Settled, LinkEvent
  <2> QED BY <2>1 DEF Inv, ListedFollows
<1> DEFINE Follows == /\ Lan \in listed' => up'[Lan] \/ Server \in met'
                      /\ Wan \in listed' => up'[Wan] \/ Client \in met'
<1> USE DEF glueVars, portVars, lineVars, At, Goto
<1>1. /\ queue \in Seq(Event) /\ reported \in BOOLEAN /\ up \in [Netif -> BOOLEAN]
      /\ Lan # Wan /\ Lan \in Netif /\ Wan \in Netif /\ listed \subseteq created
  BY EthGlueAssumption DEF TypeOK, Netif
<1>2. Settled(queue) /\ reported /\ state = "UP"
      => /\ Lan \in listed => up[Lan] \/ Server \in met
         /\ Wan \in listed => up[Wan] \/ Client \in met
  <2>1. DOMAIN queue = 1..Len(queue)
    BY <1>1
  <2> QED BY <2>1 DEF ListedFollows, LinkSettled, Settled, LinkEvent
<1>3. \A e \in {"start", "gotIp", "assigned", "stationIp"} : e \in Event /\ e \notin LinkEvent
  BY DEF Event, LinkEvent
<1>4. ASSUME NEW e \in {"start", "gotIp", "assigned", "stationIp"}, Post(e)
      PROVE  Settled(queue)
  BY <1>1, <1>3, <1>4, PutEvents DEF Post
<1>5. ASSUME NEW e \in {"start", "gotIp", "assigned", "stationIp"}, Handles(e)
      PROVE  Settled(queue)
  BY <1>1, <1>3, <1>5, TakeEvents DEF Handles
<1>6. CASE Create
  <2>1. ASSUME NEW n \in Netif, New(n) PROVE Follows
    <3>1. n \notin listed
      BY <1>1, <2>1, MainAt DEF New, Creation, Netif
    <3> QED BY <1>1, <1>2, <2>1, <3>1 DEF New
  <2>2. ASSUME NEW n \in Netif, Install(n) PROVE Follows
    BY <1>2, <2>2 DEF Install
  <2>3. ASSUME NEW n \in Netif, Attach(n) PROVE Follows
    BY <1>1, <1>2, <2>3 DEF Attach, Connect
  <2>4. ASSUME NEW n \in Netif, AttachFails(n) PROVE Follows
    BY <2>4 DEF AttachFails
  <2>5. ASSUME NEW n \in Netif, Start(n) PROVE Follows
    BY <1>2, <1>4, <2>5 DEF Start
  <2>6. ASSUME NEW n \in Netif, Up(n) PROVE Follows
    BY <1>1, <1>2, <2>6 DEF Up
  <2> QED BY <1>6, <2>1, <2>2, <2>3, <2>4, <2>5, <2>6 DEF Create
<1>7. CASE ActionStart \/ StationGotIp
  BY <1>2, <1>5, <1>7 DEF ActionStart, StationGotIp
<1>8. CASE ActionConnected
  BY <1>1, <1>8 DEF ActionConnected, Connect
<1>9. CASE ActionDisconnected
  BY <1>9 DEF ActionDisconnected
<1>10. CASE ActionGotIp
  <2>1. Settled(queue) /\ reported /\ Handles("gotIp") /\ met' = met
    BY <1>5, <1>10 DEF ActionGotIp
  <2>2. Server \in met
    BY <1>1, <2>1, TakeEvents DEF NoStaleRole, Handles
  <2> QED BY <1>1, <1>2, <1>10, <2>1, <2>2 DEF ActionGotIp, Down
<1>11. CASE ActionAssigned
  <2>1. Settled(queue) /\ reported /\ Handles("assigned") /\ met' = met
    BY <1>5, <1>11 DEF ActionAssigned
  <2>2. Client \in met
    BY <1>1, <2>1, TakeEvents DEF NoStaleRole, Handles
  <2> QED BY <1>1, <1>2, <1>11, <2>1, <2>2 DEF ActionAssigned, Down
<1>12. CASE Poll
  <2>1. \E e \in LinkEvent : queue' = Append(queue, e) /\ e \in Event
    BY <1>12 DEF Poll, Post, LinkEvent, Event
  <2> QED BY <1>1, <2>1, PutEvents
<1>13. CASE PhyIsBack \/ Unplug
  BY <1>2, <1>13 DEF PhyIsBack, Unplug
<1>14. CASE Plug
  BY <1>2, <1>14 DEF Plug
<1>15. CASE InputRequest \/ InputAck \/ StationIp
  BY <1>2, <1>4, <1>15 DEF InputRequest, InputAck, StationIp
<1>16. CASE UNCHANGED vars
  BY <1>2, <1>16 DEF vars
<1> QED BY <1>6, <1>7, <1>8, <1>9, <1>10, <1>11, <1>12, <1>13, <1>14, <1>15, <1>16
        DEF Next, EventTask, Environment

\* A bound client's address event is handled before the LAN can be up again.
LEMMA OneDhcpRoleHolds == Inv /\ [Next]_vars => OneDhcpRole'
<1> SUFFICES ASSUME TypeOK, Creation, ClientRuns, LinkEvents, OneDhcpRole, [Next]_vars,
                    dhcpc' = "bound", "gotIp" \notin Waiting(queue')
             PROVE  ~up'[Lan]
  BY DEF Inv, OneDhcpRole, Waiting
<1> USE DEF glueVars, portVars, At, Goto
<1>1. /\ queue \in Seq(Event) /\ up \in [Netif -> BOOLEAN]
      /\ Lan # Wan /\ Lan \in Netif /\ Wan \in Netif
  BY EthGlueAssumption DEF TypeOK, Netif
<1>2. dhcpc = "bound" /\ "gotIp" \notin Waiting(queue) => ~up[Lan]
  BY DEF OneDhcpRole, Waiting
<1>3. dhcpc = "bound" => Wan \in created /\ state = "UP"
  BY <1>1 DEF ClientRuns
<1>4. ASSUME NEW e \in Event, Post(e) PROVE "gotIp" \notin Waiting(queue) /\ e # "gotIp"
  BY <1>1, <1>4, PutEvents DEF Post
<1>5. ASSUME NEW e, Handles(e), e # "gotIp" PROVE "gotIp" \notin Waiting(queue)
  BY <1>1, <1>5, TakeEvents DEF Handles
<1>6. {"start", "connected", "disconnected", "gotIp", "assigned", "stationIp"} \subseteq Event
  BY DEF Event
<1>7. CASE Create
  <2>1. ASSUME NEW n \in Netif, New(n) PROVE ~up'[Lan]
    BY <1>1, <1>2, <2>1 DEF New
  <2>2. ASSUME NEW n \in Netif, Attach(n) PROVE ~up'[Lan]
    <3>1. dhcpc = "bound"
      BY <2>2 DEF Attach, Connect
    <3>2. n = Wan
      BY <1>3, <2>2, <3>1, MainAt DEF Attach, Creation, Netif
    <3> QED BY <1>1, <1>2, <2>2, <3>1, <3>2 DEF Attach, Connect
  <2>3. ASSUME NEW n \in Netif, AttachFails(n) PROVE ~up'[Lan]
    BY <2>3 DEF AttachFails
  <2>4. ASSUME NEW n \in Netif, Up(n) PROVE ~up'[Lan]
    <3>1. n = Wan
      BY <1>3, <2>4, MainAt DEF Up, Creation, Netif
    <3> QED BY <1>1, <1>2, <2>4, <3>1 DEF Up
  <2>5. ASSUME NEW n \in Netif, Start(n) PROVE ~up'[Lan]
    BY <1>2, <1>4, <1>6, <2>5 DEF Start
  <2>6. ASSUME NEW n \in Netif, Install(n) PROVE ~up'[Lan]
    BY <1>2, <2>6 DEF Install
  <2> QED BY <1>7, <2>1, <2>2, <2>3, <2>4, <2>5, <2>6 DEF Create
<1>8. CASE ActionStart \/ StationGotIp
  BY <1>2, <1>5, <1>8 DEF ActionStart, StationGotIp
<1>9. CASE ActionConnected
  BY <1>3, <1>9, ConnectedOnDown DEF ActionConnected, Connect
<1>10. CASE ActionDisconnected
  BY <1>1, <1>2, <1>3, <1>5, <1>10 DEF ActionDisconnected, Down
<1>11. CASE ActionGotIp
  BY <1>1, <1>11 DEF ActionGotIp, Down
<1>12. CASE ActionAssigned
  BY <1>3, <1>12 DEF ActionAssigned, Down
<1>13. CASE Poll
  BY <1>2, <1>4, <1>6, <1>13 DEF Poll
<1>14. CASE InputAck
  BY <1>4, <1>6, <1>14 DEF InputAck
<1>15. CASE InputRequest \/ StationIp
  BY <1>2, <1>4, <1>6, <1>15 DEF InputRequest, StationIp
<1>16. CASE PhyIsBack \/ Unplug \/ Plug \/ UNCHANGED vars
  BY <1>2, <1>16 DEF PhyIsBack, Unplug, Plug, vars
<1> QED BY <1>7, <1>8, <1>9, <1>10, <1>11, <1>12, <1>13, <1>14, <1>15, <1>16
        DEF Next, EventTask, Environment

-----------------------------------------------------------------------------
(* The theorems *)

LEMMA InitInv == Init => Inv
<1> SUFFICES ASSUME Init PROVE Inv
  OBVIOUS
<1> USE EthGlueAssumption DEF Init
<1>1. TypeOK
  <2>1. queue \in Seq(Event) /\ Len(queue) <= QueueSize
    BY NothingWaits
  <2>2. main \in {"new", "install", "attach", "start", "up"} \X Netif /\ 0 \in 0..MaxUnplug
        /\ 0 \in 0..MaxStationIp /\ 0 \in 0..MaxFail
    BY DEF Netif
  <2>3. up \in [Netif -> BOOLEAN]
    OBVIOUS
  <2> QED BY <2>1, <2>2, <2>3 DEF TypeOK
<1>2. Creation /\ ClientRuns /\ Flapped
  BY MainAt DEF Creation, ClientRuns, Flapped, Ready, Netif
<1>3. LinkEvents
  BY NothingWaits DEF LinkEvents
<1>4. NoStaleRole /\ ListedFollows /\ OneDhcpRole
  BY DEF NoStaleRole, ListedFollows, OneDhcpRole
<1> QED BY <1>1, <1>2, <1>3, <1>4 DEF Inv

LEMMA Invariance == Spec => []Inv
<1>1. Inv /\ [Next]_vars => Inv'
  BY TypeInvariance, CreationHolds, ClientRunsHolds, FlappedHolds, LinkEventsHolds,
     NoStaleRoleHolds, ListedFollowsHolds, OneDhcpRoleHolds DEF Inv
<1> QED BY <1>1, InitInv, PTL DEF Spec

\* What the handlers of src/esp_eth_netif_glue_wrap.c and the creation of the
\* netifs keep in the variables is always of its kind, and the event queue within
\* its bound.
THEOREM TypeCorrect == Spec => []TypeOK
BY Invariance, PTL DEF Inv

\* However link, address and station events interleave, whatever cables are
\* swapped and however often: while the link is up a netif is down only because
\* the other proved right, both are down with the link, and no DHCP server runs
\* beside a bound client whose event was handled (eth_action_connected(),
\* _disconnected(), _got_ip() and _assigned_ip()).
THEOREM RolesAreConsistent == Spec => []RolesConsistent
<1>1. Inv => RoleFollowsCable
  BY DEF Inv, RoleFollowsCable, ListedFollows, Creation, Ready, TypeOK
<1>2. Inv => DownWithTheLink
  BY DEF Inv, DownWithTheLink, Flapped
<1>3. Inv => RolesConsistent
  BY <1>1, <1>2 DEF Inv, RolesConsistent
<1> QED BY <1>3, Invariance, PTL
=============================================================================
