--------------------------- MODULE NetworkAdapter ---------------------------
(***************************************************************************)
(* The send side of the SPI/SDIO network adapter of the bridge firmware    *)
(* (drivers/src/network_adapter.c, with host_rcv_pkt of slave_bt.c): tasks *)
(* that submit packets for the host, the three priority queues and the     *)
(* "meta" queue that says which of them to read next, the send task that   *)
(* drains them into the bus driver, the initialisation of the adapter and  *)
(* the host's interrupts that open and close the data path.                *)
(*                                                                         *)
(* One action is one FreeRTOS queue operation, or the code between two of  *)
(* them; `datapath` is a volatile that the interrupt changes at any point. *)
(* The bus driver behind if_ops->write is abstract here: it takes a packet *)
(* or, over SDIO, may refuse it.                                           *)
(***************************************************************************)
EXTENDS Naturals, Sequences, FiniteSets

CONSTANTS
    TO_HOST_QUEUE_SIZE,  \* length of each priority queue
    NetTasks,            \* tasks that send frames: esp_netif's transmit
    ResetTasks,          \* tasks that reset the host's network card
    BtTasks,             \* the Bluetooth controller's tasks
    MallocFails,         \* the tasks whose malloc() may return NULL
    MaxCalls,            \* bound: calls each task makes
    MaxProbes            \* bound: times the SDIO host (un)loads its driver

Task == NetTasks \cup ResetTasks \cup BtTasks

ASSUME NetworkAdapterAssumption ==
    /\ TO_HOST_QUEUE_SIZE \in Nat \ {0}
    /\ MallocFails \subseteq Task
    /\ MaxCalls \in Nat
    /\ MaxProbes \in Nat
    /\ IsFiniteSet(Task)
    /\ NetTasks \cap (ResetTasks \cup BtTasks) = {}
    /\ ResetTasks \cap BtTasks = {}

PRIO_Q_SERIAL == 0
PRIO_Q_BT     == 1
PRIO_Q_OTHERS == 2
Prio == {PRIO_Q_SERIAL, PRIO_Q_BT, PRIO_Q_OTHERS}

Kind    == {"frame", "down", "up", "hci"}
Packet  == [kind : Kind, from : Task, call : 1..MaxCalls]
Startup == [kind |-> "startup"]

\* Operators named Bug_... are plausible mistakes in the operation they stand
\* beside; no action uses them.  Each breaks a property of this module.

(***************************************************************************)
(* The packets one call of a task sends, and the queue it uses:            *)
(* esp_bridge_network_card_reset() sends "link down", then "link up".      *)
(***************************************************************************)
Bug_ResetUpFirst(t) ==
    IF t \in ResetTasks THEN <<"up", "down">>
    ELSE IF t \in BtTasks THEN <<"hci">> ELSE <<"frame">>

Script(t) ==
    IF t \in ResetTasks THEN <<"down", "up">>
    ELSE IF t \in BtTasks THEN <<"hci">> ELSE <<"frame">>

PrioOf(t) == IF t \in BtTasks THEN PRIO_Q_BT ELSE PRIO_Q_OTHERS

VARIABLES
    transport,   \* "SPI" or "SDIO", fixed when the firmware is built
    datapath,    \* volatile uint8_t datapath
    ifHandle,    \* is if_handle set?
    ifState,     \* if_handle->state
    initStep,    \* progress of network_adapter_driver_init()
    isr,         \* the second half of event_handler(), still to run
    probes,      \* times the host has probed or removed the card
    toHost,      \* to_host_queue[]
    meta,        \* meta_to_host_queue
    pc,          \* task -> where it is in send_to_host_queue() or before
    script,      \* task -> packets its call has still to send
    buf,         \* task -> its local buf_handle
    calls,       \* task -> calls made so far
    spc,         \* where send_task is
    queueType,   \* send_task's local queue_type
    sendBuf,     \* send_task's local buf_handle
    wire         \* what the bus driver has accepted (history)

initVars == <<transport, ifHandle, initStep>>
hostVars == <<isr, probes>>
taskVars == <<script, calls>>
sendVars == <<spc, queueType, sendBuf>>
vars == <<transport, datapath, ifHandle, ifState, initStep, isr, probes, toHost, meta,
          pc, script, buf, calls, spc, queueType, sendBuf, wire>>

NoPacket == [kind |-> "none"]

Init ==
    /\ transport \in {"SPI", "SDIO"}
    /\ datapath = (transport = "SPI")
    /\ ifHandle = FALSE
    /\ ifState = "INIT"
    /\ initStep = "driver"
    /\ isr = "idle"
    /\ probes = 0
    /\ toHost = [q \in Prio |-> <<>>]
    /\ meta = <<>>
    /\ pc = [t \in Task |-> "idle"]
    /\ script = [t \in Task |-> <<>>]
    /\ buf = [t \in Task |-> NoPacket]
    /\ calls \in [Task -> 0..MaxCalls]   \* the calls of the bound that are not made
    /\ spc = "check"
    /\ queueType = PRIO_Q_SERIAL
    /\ sendBuf = NoPacket
    /\ wire = <<>>

-----------------------------------------------------------------------------
(* network_adapter_driver_init() *)

\* if_ops->init() has returned the handle; queues, recv_task and send_task
\* are created.
InterfaceReady ==
    /\ initStep = "driver"
    /\ ifHandle' = TRUE
    /\ initStep' = "waiting"
    /\ UNCHANGED <<transport, datapath, ifState, hostVars, toHost, meta, pc, taskVars, buf,
                   sendVars, wire>>

\* while (!datapath) sleep(1); generate_startup_event(): straight to the bus.
StartupEvent ==
    /\ initStep = "waiting"
    /\ datapath
    /\ initStep' = "announced"
    /\ wire' = Append(wire, Startup)
    /\ UNCHANGED <<transport, datapath, ifHandle, ifState, hostVars, toHost, meta, pc,
                   taskVars, buf, sendVars>>

\* init_done = true
InitDone ==
    /\ initStep = "announced"
    /\ initStep' = "done"
    /\ UNCHANGED <<transport, datapath, ifHandle, ifState, hostVars, toHost, meta, pc,
                   taskVars, buf, sendVars, wire>>

init_done == initStep = "done"

-----------------------------------------------------------------------------
(***************************************************************************)
(* event_handler(): the SDIO host interrupts the firmware when it has      *)
(* probed the card and when it removes it.  The handler runs beside the    *)
(* tasks, so each of its two assignments is a step.                        *)
(***************************************************************************)
HostInterrupt ==
    /\ transport = "SDIO"
    /\ isr = "idle"
    /\ probes < MaxProbes
    /\ probes' = probes + 1

OpenDataPath ==
    /\ HostInterrupt
    /\ probes % 2 = 0
    /\ IF ifHandle THEN ifState' = "ACTIVE" /\ isr' = "open"
                   ELSE UNCHANGED <<ifState, isr>>
    /\ UNCHANGED <<initVars, datapath, toHost, meta, pc, taskVars, buf, sendVars, wire>>

CloseDataPath ==
    /\ HostInterrupt
    /\ probes % 2 = 1
    /\ datapath' = FALSE
    /\ isr' = IF ifHandle THEN "close" ELSE "idle"
    /\ UNCHANGED <<initVars, ifState, toHost, meta, pc, taskVars, buf, sendVars, wire>>

EndOfInterrupt ==
    /\ isr # "idle"
    /\ isr' = "idle"
    /\ \/ isr = "open"  /\ datapath' = TRUE /\ UNCHANGED ifState
       \/ isr = "close" /\ ifState' = "DEACTIVE" /\ UNCHANGED datapath
    /\ UNCHANGED <<initVars, probes, toHost, meta, pc, taskVars, buf, sendVars, wire>>

-----------------------------------------------------------------------------
(* pkt_netif2driver(), esp_bridge_network_card_reset() and host_rcv_pkt() *)

\* The controller answers the host's HCI commands, and the host sends none
\* before the startup event has told it that Bluetooth is there.
Call(t) ==
    /\ pc[t] = "idle"
    /\ calls[t] < MaxCalls
    /\ t \in BtTasks => wire # <<>>
    /\ pc' = [pc EXCEPT ![t] = "compose"]
    /\ script' = [script EXCEPT ![t] = Script(t)]
    /\ calls' = [calls EXCEPT ![t] = @ + 1]
    /\ UNCHANGED <<initVars, datapath, ifState, hostVars, toHost, meta, buf, sendVars, wire>>

Bug_NoInitCheck(t) == t \in BtTasks \/ datapath

\* host_rcv_pkt() checks neither flag.
MaySend(t) == t \in BtTasks \/ (init_done /\ datapath)

\* The checks passed and the payload is copied to the heap.
Compose(t) ==
    /\ pc[t] = "compose"
    /\ script[t] # <<>>
    /\ MaySend(t)
    /\ buf' = [buf EXCEPT ![t] = [kind |-> Head(script[t]), from |-> t, call |-> calls[t]]]
    /\ script' = [script EXCEPT ![t] = Tail(@)]
    /\ pc' = [pc EXCEPT ![t] = "data"]
    /\ UNCHANGED <<initVars, datapath, ifState, hostVars, toHost, meta, calls, sendVars, wire>>

\* The packet is dropped: the adapter is not ready, the data path is closed,
\* or malloc() fails.  A card reset goes on to its second packet.
Skip(t) ==
    /\ pc[t] = "compose"
    /\ script[t] # <<>>
    /\ t \in MallocFails \/ ~MaySend(t)
    /\ script' = [script EXCEPT ![t] = Tail(@)]
    /\ pc' = [pc EXCEPT ![t] = IF Tail(script[t]) = <<>> THEN "idle" ELSE "compose"]
    /\ UNCHANGED <<initVars, datapath, ifState, hostVars, toHost, meta, buf, calls, sendVars,
                   wire>>

Bug_PushPastTheEnd(t) ==
    /\ pc[t] = "data"
    /\ Len(toHost[PrioOf(t)]) <= TO_HOST_QUEUE_SIZE
    /\ toHost' = [toHost EXCEPT ![PrioOf(t)] = Append(@, buf[t])]
    /\ pc' = [pc EXCEPT ![t] = "meta"]
    /\ UNCHANGED <<initVars, datapath, ifState, hostVars, meta, taskVars, buf, sendVars, wire>>

\* send_to_host_queue(): xQueueSend(to_host_queue[queue_type], portMAX_DELAY)
PushData(t) ==
    /\ pc[t] = "data"
    /\ Len(toHost[PrioOf(t)]) < TO_HOST_QUEUE_SIZE
    /\ toHost' = [toHost EXCEPT ![PrioOf(t)] = Append(@, buf[t])]
    /\ pc' = [pc EXCEPT ![t] = "meta"]
    /\ UNCHANGED <<initVars, datapath, ifState, hostVars, meta, taskVars, buf, sendVars, wire>>

Bug_MetaLikeOthers == TO_HOST_QUEUE_SIZE

MetaQueueSize == TO_HOST_QUEUE_SIZE * 3

\* ... then xQueueSend(meta_to_host_queue, portMAX_DELAY)
PushMeta(t) ==
    /\ pc[t] = "meta"
    /\ Len(meta) < MetaQueueSize
    /\ meta' = Append(meta, PrioOf(t))
    /\ pc' = [pc EXCEPT ![t] = IF script[t] = <<>> THEN "idle" ELSE "compose"]
    /\ UNCHANGED <<initVars, datapath, ifState, hostVars, toHost, taskVars, buf, sendVars, wire>>

-----------------------------------------------------------------------------
(* send_task() and process_tx_pkt() *)

SendCheck ==
    /\ spc = "check"
    /\ initStep # "driver"     \* the task exists
    /\ datapath
    /\ spc' = "meta"
    /\ UNCHANGED <<initVars, datapath, ifState, hostVars, toHost, meta, pc, taskVars, buf,
                   queueType, sendBuf, wire>>

Bug_PeekMeta ==
    /\ spc = "meta"
    /\ meta # <<>>
    /\ queueType' = Head(meta)
    /\ spc' = "buf"
    /\ UNCHANGED <<initVars, datapath, ifState, hostVars, toHost, meta, pc, taskVars, buf,
                   sendBuf, wire>>

ReceiveMeta ==
    /\ spc = "meta"
    /\ meta # <<>>
    /\ queueType' = Head(meta)
    /\ meta' = Tail(meta)
    /\ spc' = "buf"
    /\ UNCHANGED <<initVars, datapath, ifState, hostVars, toHost, pc, taskVars, buf, sendBuf,
                   wire>>

ReceiveBuf ==
    /\ spc = "buf"
    /\ toHost[queueType] # <<>>
    /\ sendBuf' = Head(toHost[queueType])
    /\ toHost' = [toHost EXCEPT ![queueType] = Tail(@)]
    /\ spc' = "process"
    /\ UNCHANGED <<initVars, datapath, ifState, hostVars, meta, pc, taskVars, buf, queueType,
                   wire>>

\* process_tx_pkt() looks at datapath once, before it writes.
ProcessTx ==
    /\ spc = "process"
    /\ spc' = IF datapath THEN "write" ELSE "check"
    /\ UNCHANGED <<initVars, datapath, ifState, hostVars, toHost, meta, pc, taskVars, buf,
                   queueType, sendBuf, wire>>

Accepted ==
    /\ transport = "SPI" \/ ifState = "ACTIVE"
    /\ wire' = Append(wire, sendBuf)

\* sdio_write() wants an active interface and a transmit buffer.
Refused ==
    /\ transport = "SDIO"
    /\ ifState # "ACTIVE" \/ MallocFails # {}
    /\ UNCHANGED wire

\* if_ops->write(), then the payload is freed
Write ==
    /\ spc = "write"
    /\ Accepted \/ Refused
    /\ spc' = "check"
    /\ UNCHANGED <<initVars, datapath, ifState, hostVars, toHost, meta, pc, taskVars, buf,
                   queueType, sendBuf>>

-----------------------------------------------------------------------------
Sender(t) ==
    \/ Compose(t)
    \/ Skip(t)
    \/ PushData(t)
    \/ PushMeta(t)

SendTask == SendCheck \/ ReceiveMeta \/ ReceiveBuf \/ ProcessTx \/ Write

Next ==
    \/ InterfaceReady
    \/ StartupEvent
    \/ InitDone
    \/ OpenDataPath
    \/ CloseDataPath
    \/ EndOfInterrupt
    \/ \E t \in Task : Call(t) \/ Sender(t)
    \/ SendTask

Spec == Init /\ [][Next]_vars

(***************************************************************************)
(* Fairness: FreeRTOS runs every task that is ready, an interrupt ends,    *)
(* and the bus driver's write returns (the host clocks its transactions).  *)
(* Nothing makes a task call the adapter, nor the host load its driver.    *)
(***************************************************************************)
Fairness ==
    /\ WF_vars(InterfaceReady)
    /\ WF_vars(StartupEvent)
    /\ WF_vars(InitDone)
    /\ WF_vars(EndOfInterrupt)
    /\ WF_vars(SendTask)
    /\ \A t \in Task : WF_vars(Sender(t))

FairSpec == Spec /\ Fairness

-----------------------------------------------------------------------------
TypeOK ==
    /\ transport \in {"SPI", "SDIO"}
    /\ datapath \in BOOLEAN
    /\ ifHandle \in BOOLEAN
    /\ ifState \in {"INIT", "ACTIVE", "DEACTIVE"}
    /\ initStep \in {"driver", "waiting", "announced", "done"}
    /\ isr \in {"idle", "open", "close"}
    /\ probes \in Nat
    /\ toHost \in [Prio -> Seq(Packet)]
    /\ meta \in Seq(Prio)
    /\ pc \in [Task -> {"idle", "compose", "data", "meta"}]
    /\ script \in [Task -> Seq(Kind)]
    /\ buf \in [Task -> Packet \cup {NoPacket}]
    /\ calls \in [Task -> 0..MaxCalls]
    /\ spc \in {"check", "meta", "buf", "process", "write"}
    /\ queueType \in Prio
    /\ sendBuf \in Packet \cup {NoPacket}
    /\ wire \in Seq(Packet \cup {Startup})
    /\ \A t \in Task : pc[t] # "idle" => calls[t] > 0
    /\ \A t \in Task : pc[t] = "data" => buf[t] \in Packet
    /\ spc \in {"process", "write"} => sendBuf \in Packet
    /\ \A q \in Prio : Len(toHost[q]) <= TO_HOST_QUEUE_SIZE

(***************************************************************************)
(* The two queues are written one after the other by many tasks and read   *)
(* one after the other by send_task, with no lock.  Every packet in a      *)
(* priority queue is accounted for: its token is in the meta queue, or its *)
(* producer is about to put it there, or send_task has just taken it.      *)
(***************************************************************************)
Tokens(q)  == {i \in DOMAIN meta : meta[i] = q}
Between(q) == {t \in Task : pc[t] = "meta" /\ PrioOf(t) = q}
Held(q)    == IF spc = "buf" /\ queueType = q THEN 1 ELSE 0

TokenInv ==
    \A q \in Prio :
        Len(toHost[q]) = Cardinality(Tokens(q)) + Cardinality(Between(q)) + Held(q)

\* The meta queue, sized for all three priority queues, never makes a
\* producer wait between its two xQueueSend()s: whoever got into a priority
\* queue has room for its token, and so does everyone who is there with it.
MetaNeverFull ==
    \A t \in Task : pc[t] = "meta" => Len(meta) < MetaQueueSize

\* A token read from the meta queue always finds a packet in the queue it
\* names, so send_task never sleeps on one queue while another fills up.
TokenFindsPacket ==
    spc = "buf" => toHost[queueType] # <<>>

\* The queues stay in step, and neither side waits between its two operations.
QueuesInStep == TokenInv /\ MetaNeverFull /\ TokenFindsPacket

(***************************************************************************)
(* The adapter is a HostChannel.  A class's channel is its priority queue, *)
(* preceded by the packet send_task has taken from it and not yet written. *)
(***************************************************************************)
InHand(q) ==
    IF spc \in {"process", "write"} /\ queueType = q THEN <<sendBuf>> ELSE <<>>

Channel == INSTANCE HostChannel WITH
    Class   <- Prio,
    lossy   <- (transport = "SDIO"),
    channel <- [q \in Prio |-> InHand(q) \o toHost[q]]

\* Packets of one class reach the bus in the order they were queued, none
\* twice, none before the startup event, and over SPI none is lost.
ImplementsHostChannel == Channel!Spec

-----------------------------------------------------------------------------
(* Liveness, under FairSpec *)

\* A task that has called the adapter gets out of it again if the host
\* leaves the data path open: xQueueSend() with portMAX_DELAY blocks no
\* netif task for ever.
SendersReturn ==
    <>[]datapath => \A t \in Task : (pc[t] # "idle") ~> (pc[t] = "idle")

\* What the last link packet on the wire said to the host's network card.
LinkPackets == {i \in DOMAIN wire : wire[i].kind \in {"down", "up"}}
HostLink ==
    IF LinkPackets = {} THEN "up"
    ELSE LET last == CHOOSE i \in LinkPackets : \A j \in LinkPackets : j <= i
         IN wire[last].kind

\* Over SPI a card reset that took the host's link down brings it up again,
\* however many tasks reset the card at once.
LinkComesBack ==
    (transport = "SPI" /\ HostLink = "down") ~> (HostLink = "up")
=============================================================================
