------------------------------ MODULE SpiHost ------------------------------
(***************************************************************************)
(* The Linux host driver over SPI: spi/esp_spi.c and what main.c does for  *)
(* the two network devices.  Writers queue packets and raise a semaphore;  *)
(* so do the rising edges of the ESP32's two lines; a kernel thread lowers *)
(* it and makes one transaction, or none, for each.  tx_pending counts the *)
(* network packets queued, to stop the devices' queues when they are too   *)
(* many and to wake them again.  When the ESP32 announces itself the       *)
(* receive thread sets the SPI device up anew with another clock.          *)
(*                                                                         *)
(* Serial and HCI packets take the same path and are one class, "prio".    *)
(* The driver sleeps 200 ms where it wants others to have finished; that   *)
(* they have is an assumption of this module (Slept).  The device is as in *)
(* SpiSlave, seen from its lines.                                          *)
(***************************************************************************)
EXTENDS Integers, Sequences, FiniteSets

CONSTANTS
    NetDev,         \* ethsta0 and ethap0
    TX_MAX_PENDING_COUNT, TX_RESUME_THRESHOLD,
    MaxNet,         \* bound: network packets the kernel sends
    MaxEvents       \* bound: other packets, INIT events, devices taken
                    \* down, the driver unloaded, things that fail

ASSUME SpiHostAssumption ==
    /\ IsFiniteSet(NetDev)
    /\ {TX_MAX_PENDING_COUNT, TX_RESUME_THRESHOLD} \subseteq Nat \ {0}
    /\ TX_RESUME_THRESHOLD <= TX_MAX_PENDING_COUNT
    /\ Cardinality(NetDev) < TX_RESUME_THRESHOLD    \* 2 < 20
    /\ {MaxNet, MaxEvents} \subseteq Nat

VARIABLES
    mode,           \* "ready", or how far spi_exit() has come
    data_path,
    tx_pending,
    txq,            \* packets in tx_q: network packets ("net"), others ("prio")
    rxq,            \* packets in rx_q[PRIO_Q_OTHERS], oldest first
    spi_sem,
    irq,            \* the two interrupts are requested and enabled
    opened, stopped,    \* per device: it is up, its queue is stopped
    xmit,           \* per device: where its write_packet() is
    spi,            \* the SPI thread: what it does, what it dequeued, rx_pending
    rx,             \* the receive thread
    handshake, toHost,  \* the ESP32: its line, the packets it has for the host
    deaf,           \* no semaphore given since the data path was opened, or since
                    \* the last one was lowered for a transaction that was not made
    nets, prios, clocks, others, faults

txVars  == <<tx_pending, txq, stopped>>
devVars == <<handshake, toHost>>
budgets == <<nets, prios, clocks, others, faults>>
vars == <<mode, data_path, txVars, rxq, spi_sem, irq, opened, xmit, spi, rx, devVars, deaf, budgets>>

SpiIdle == [pc |-> "idle", got |-> "none", rx |-> FALSE]

TypeOK ==
    /\ mode \in {"ready", "closing", "purged", "exited"}
    /\ {data_path, irq, handshake, deaf} \subseteq BOOLEAN
    /\ tx_pending \in Nat /\ spi_sem \in Nat
    /\ txq \in [{"net", "prio"} -> Nat]
    /\ rxq \in Seq({"init", "data"}) /\ toHost \in Seq({"init", "data"})
    /\ opened \in [NetDev -> BOOLEAN] /\ stopped \in [NetDev -> BOOLEAN]
    /\ xmit \in [NetDev -> {"idle", "check", "pause", "enqueue", "count"}]
    /\ spi \in [pc : {"idle", "dequeue", "dec", "resume", "transfer", "stopped"},
                got : {"none", "net", "prio"}, rx : BOOLEAN]
    /\ rx \in {"idle", "close", "closed", "opening"}
    /\ nets \in 0..MaxNet /\ {prios, clocks, others, faults} \subseteq 0..MaxEvents

\* spi_init() has run; the ESP32 was there before, or announces itself later.
Init ==
    /\ mode = "ready" /\ data_path = TRUE /\ tx_pending = 0
    /\ txq = [c \in {"net", "prio"} |-> 0] /\ rxq = <<>>
    /\ spi_sem = 0 /\ irq = TRUE
    /\ opened = [d \in NetDev |-> TRUE] /\ stopped = [d \in NetDev |-> FALSE]
    /\ xmit = [d \in NetDev |-> "idle"] /\ spi = SpiIdle /\ rx = "idle"
    /\ handshake \in BOOLEAN /\ toHost = <<>> /\ deaf = TRUE
    /\ nets = 0 /\ prios = 0 /\ clocks = 0 /\ others = 0 /\ faults = 0

\* Operators named Bug_... are plausible mistakes in the operation they stand
\* beside; no action uses them.

EventsLeft == prios + clocks + others + faults < MaxEvents

Fault == EventsLeft /\ faults' = faults + 1 /\ UNCHANGED <<nets, prios, clocks, others>>

\* up(&spi_sem)
GiveSem == spi_sem' = spi_sem + 1 /\ deaf' = FALSE

-----------------------------------------------------------------------------
(* The network devices: esp_hard_start_xmit(), write_packet() *)

Goto(d, pc) == xmit' = [xmit EXCEPT ![d] = pc]

\* The kernel calls a device that is up and not stopped, one packet at a time;
\* process_tx_packet() says NETDEV_TX_BUSY if the other one is stopped, and
\* write_packet() drops the packet if the data path is closed.
Xmit(d) ==
    /\ xmit[d] = "idle" /\ opened[d] /\ mode # "exited" /\ \A e \in NetDev : ~stopped[e]
    /\ nets < MaxNet /\ nets' = nets + 1
    /\ Goto(d, IF data_path THEN "check" ELSE "idle")
    /\ UNCHANGED <<mode, data_path, txVars, rxq, spi_sem, irq, opened, spi, rx, devVars, deaf,
                   prios, clocks, others, faults>>

Check(d) ==
    /\ xmit[d] = "check"
    /\ Goto(d, IF tx_pending >= TX_MAX_PENDING_COUNT THEN "pause" ELSE "enqueue")
    /\ UNCHANGED <<mode, data_path, txVars, rxq, spi_sem, irq, opened, spi, rx, devVars, deaf, budgets>>

\* esp_tx_pause(): the packet is dropped and both queues are stopped.
Pause(d) ==
    /\ xmit[d] = "pause" /\ Goto(d, "idle")
    /\ stopped' = [e \in NetDev |-> TRUE]
    /\ GiveSem
    /\ UNCHANGED <<mode, data_path, tx_pending, txq, rxq, irq, opened, spi, rx, devVars, budgets>>

Enqueue(d) ==
    /\ xmit[d] = "enqueue" /\ Goto(d, "count")
    /\ txq' = [txq EXCEPT !["net"] = @ + 1]
    /\ UNCHANGED <<mode, data_path, tx_pending, stopped, rxq, spi_sem, irq, opened, spi, rx, devVars,
                   deaf, budgets>>

Bug_Count(d) ==
    /\ xmit[d] = "count" /\ Goto(d, "idle")
    /\ tx_pending' = tx_pending + 1
    /\ UNCHANGED <<spi_sem, deaf>>
    /\ UNCHANGED <<mode, data_path, txq, stopped, rxq, irq, opened, spi, rx, devVars, budgets>>

\* atomic_inc(&tx_pending) and up(&spi_sem), after the packet is in the queue
Count(d) ==
    /\ xmit[d] = "count" /\ Goto(d, "idle")
    /\ tx_pending' = tx_pending + 1
    /\ GiveSem
    /\ UNCHANGED <<mode, data_path, txq, stopped, rxq, irq, opened, spi, rx, devVars, budgets>>

\* A serial or HCI packet is not counted and never refused.
WritePrio ==
    /\ data_path /\ EventsLeft /\ prios' = prios + 1
    /\ txq' = [txq EXCEPT !["prio"] = @ + 1]
    /\ GiveSem
    /\ UNCHANGED <<mode, data_path, tx_pending, stopped, rxq, irq, opened, xmit, spi, rx, devVars,
                   nets, clocks, others, faults>>

\* esp_stop() and esp_open()
IfDown(d) ==
    /\ opened[d] /\ xmit[d] = "idle" /\ mode = "ready" /\ EventsLeft /\ others' = others + 1
    /\ opened' = [opened EXCEPT ![d] = FALSE]
    /\ stopped' = [stopped EXCEPT ![d] = TRUE]
    /\ UNCHANGED <<mode, data_path, tx_pending, txq, rxq, spi_sem, irq, xmit, spi, rx, devVars, deaf,
                   nets, prios, clocks, faults>>

IfUp(d) ==
    /\ ~opened[d] /\ mode = "ready"
    /\ opened' = [opened EXCEPT ![d] = TRUE]
    /\ stopped' = [stopped EXCEPT ![d] = FALSE]
    /\ UNCHANGED <<mode, data_path, tx_pending, txq, rxq, spi_sem, irq, xmit, spi, rx, devVars, deaf,
                   budgets>>

Kernel ==
    \/ \E d \in NetDev : Xmit(d) \/ Check(d) \/ Pause(d) \/ Enqueue(d) \/ Count(d)
    \/ \E d \in NetDev : IfDown(d) \/ IfUp(d)
    \/ WritePrio

-----------------------------------------------------------------------------
(* esp_spi_thread() and esp_spi_transaction() *)

Bug_TakeSem ==
    /\ spi.pc = "idle" /\ spi_sem > 0
    /\ spi_sem' = spi_sem - 1
    /\ spi' = IF mode = "ready" THEN [SpiIdle EXCEPT !.pc = IF handshake THEN "dequeue" ELSE "stopped"]
              ELSE SpiIdle
    /\ UNCHANGED <<mode, data_path, txVars, rxq, irq, opened, xmit, rx, devVars, deaf, budgets>>

\* down_interruptible() and, when the adapter is ready, the two lines; without
\* the handshake line there is no transaction.
TakeSem ==
    /\ spi.pc = "idle" /\ spi_sem > 0
    /\ spi_sem' = spi_sem - 1
    /\ spi' = IF mode = "ready" /\ handshake THEN [SpiIdle EXCEPT !.pc = "dequeue", !.rx = toHost # <<>>]
              ELSE SpiIdle
    /\ UNCHANGED <<mode, data_path, txVars, rxq, irq, opened, xmit, rx, devVars, deaf, budgets>>

\* Chip select is still asserted: no line is read, and the semaphore is raised
\* again only for counted packets.
ChipSelected ==
    /\ spi.pc = "idle" /\ spi_sem > 0 /\ mode = "ready" /\ Fault
    /\ spi_sem' = IF tx_pending > 0 THEN spi_sem ELSE spi_sem - 1
    /\ deaf' = (deaf \/ spi_sem' = 0)
    /\ UNCHANGED <<mode, data_path, txVars, rxq, irq, opened, xmit, spi, rx, devVars>>

NextClass == IF txq["prio"] > 0 THEN "prio" ELSE IF txq["net"] > 0 THEN "net" ELSE "none"

Dequeue ==
    LET c == IF data_path THEN NextClass ELSE "none"
    IN  /\ spi.pc = "dequeue"
        /\ txq' = IF c = "none" THEN txq ELSE [txq EXCEPT ![c] = @ - 1]
        /\ spi' = IF c # "none" THEN [spi EXCEPT !.pc = "dec", !.got = c]
                  ELSE IF spi.rx THEN [spi EXCEPT !.pc = "transfer"] ELSE SpiIdle
        /\ UNCHANGED <<mode, data_path, tx_pending, stopped, rxq, spi_sem, irq, opened, xmit, rx,
                       devVars, deaf, budgets>>

Bug_DecrementUnchecked ==
    /\ spi.pc = "dec"
    /\ tx_pending' = tx_pending - 1
    /\ spi' = [spi EXCEPT !.pc = "resume"]
    /\ UNCHANGED <<mode, data_path, txq, stopped, rxq, spi_sem, irq, opened, xmit, rx, devVars, deaf,
                   budgets>>

\* Whatever was dequeued
Decrement ==
    /\ spi.pc = "dec"
    /\ tx_pending' = IF tx_pending > 0 THEN tx_pending - 1 ELSE 0
    /\ spi' = [spi EXCEPT !.pc = "resume"]
    /\ UNCHANGED <<mode, data_path, txq, stopped, rxq, spi_sem, irq, opened, xmit, rx, devVars, deaf,
                   budgets>>

\* esp_tx_resume() wakes both queues, also one of a device that is down.
Resume ==
    /\ spi.pc = "resume"
    /\ stopped' = IF tx_pending < TX_RESUME_THRESHOLD THEN [d \in NetDev |-> FALSE] ELSE stopped
    /\ spi' = [spi EXCEPT !.pc = "transfer"]
    /\ UNCHANGED <<mode, data_path, tx_pending, txq, rxq, spi_sem, irq, opened, xmit, rx, devVars,
                   deaf, budgets>>

\* spi_sync_transfer() and process_rx_buf(): what comes in while the data path
\* is closed is dropped.
Transfer ==
    /\ spi.pc = "transfer"
    /\ handshake' = FALSE
    /\ toHost' = IF toHost = <<>> THEN <<>> ELSE Tail(toHost)
    /\ rxq' = IF data_path /\ toHost # <<>> THEN Append(rxq, Head(toHost)) ELSE rxq
    /\ spi' = SpiIdle
    /\ UNCHANGED <<mode, data_path, txVars, spi_sem, irq, opened, xmit, rx, deaf, budgets>>

\* spi_sync_transfer() fails: the packet taken from the queue is lost, and the
\* ESP32's transaction and packet wait as before.
TransferFails ==
    /\ spi.pc = "transfer" /\ Fault
    /\ spi' = SpiIdle
    /\ deaf' = (deaf \/ spi_sem = 0)
    /\ UNCHANGED <<mode, data_path, txVars, rxq, spi_sem, irq, opened, xmit, rx, devVars>>

SpiFails == ChipSelected \/ TransferFails

SpiThread == TakeSem \/ Dequeue \/ Decrement \/ Resume \/ Transfer

-----------------------------------------------------------------------------
(* The receive thread: esp_get_packets(), process_init_event() *)

RxPacket ==
    /\ rx = "idle" /\ mode = "ready" /\ rxq # <<>>
    /\ rxq' = Tail(rxq)
    /\ rx' = IF Head(rxq) = "init" THEN "close" ELSE "idle"
    /\ UNCHANGED <<mode, data_path, txVars, spi_sem, irq, opened, xmit, spi, devVars, deaf, budgets>>

\* What 200 ms are for: transactions and writers have come to an end.
Slept ==
    /\ spi.pc \in {"idle", "stopped"} /\ (spi_sem = 0 \/ spi.pc = "stopped")
    /\ \A d \in NetDev : xmit[d] = "idle"

\* spi_reinit_spidev(): disable_irq(), close_data_path()
Close ==
    /\ rx = "close" /\ rx' = "closed"
    /\ irq' = FALSE /\ data_path' = FALSE
    /\ UNCHANGED <<mode, txVars, rxq, spi_sem, opened, xmit, spi, devVars, deaf, budgets>>

Bug_Reopen ==
    /\ rx = "closed" /\ Slept /\ rx' = "opening"
    /\ irq' = TRUE /\ tx_pending' = TX_MAX_PENDING_COUNT
    /\ UNCHANGED <<mode, data_path, txq, stopped, rxq, spi_sem, opened, xmit, spi, devVars, deaf, budgets>>

\* spi_dev_init() requests the interrupts; open_data_path() forgets what was
\* counted, though not what is queued.
Reopen ==
    /\ rx = "closed" /\ Slept /\ rx' = "opening"
    /\ irq' = TRUE /\ tx_pending' = 0
    /\ UNCHANGED <<mode, data_path, txq, stopped, rxq, spi_sem, opened, xmit, spi, devVars, deaf, budgets>>

\* spi_dev_init() fails, and adjust_spi_clock() goes on with spi_exit().
ReopenFails ==
    /\ rx = "closed" /\ Slept /\ Fault
    /\ rx' = "idle" /\ mode' = "closing"
    /\ UNCHANGED <<data_path, txVars, rxq, spi_sem, irq, opened, xmit, spi, devVars, deaf>>

Open ==
    /\ rx = "opening" /\ rx' = "idle"
    /\ data_path' = TRUE /\ deaf' = TRUE
    /\ UNCHANGED <<mode, txVars, rxq, spi_sem, irq, opened, xmit, spi, devVars, budgets>>

RxThread == RxPacket \/ Close \/ Reopen \/ Open

-----------------------------------------------------------------------------
(* spi_exit(), with the receive thread at rest *)

ExitClose ==
    /\ mode = "ready" /\ rx = "idle" /\ EventsLeft /\ others' = others + 1
    /\ mode' = "closing" /\ irq' = FALSE /\ data_path' = FALSE
    /\ UNCHANGED <<txVars, rxq, spi_sem, opened, xmit, spi, rx, devVars, deaf, nets, prios, clocks,
                   faults>>

ExitPurge ==
    /\ mode = "closing" /\ Slept
    /\ mode' = "purged" /\ rxq' = <<>> /\ txq' = [c \in {"net", "prio"} |-> 0]
    /\ UNCHANGED <<data_path, tx_pending, stopped, spi_sem, irq, opened, xmit, spi, rx, devVars, deaf,
                   budgets>>

\* kthread_stop() and esp_remove_card()
ExitStop ==
    /\ mode = "purged" /\ spi.pc = "idle"
    /\ mode' = "exited" /\ spi' = [SpiIdle EXCEPT !.pc = "stopped"]
    /\ opened' = [d \in NetDev |-> FALSE] /\ stopped' = [d \in NetDev |-> TRUE]
    /\ UNCHANGED <<data_path, tx_pending, txq, rxq, spi_sem, irq, xmit, rx, devVars, deaf, budgets>>

Unload == ExitClose \/ ExitPurge \/ ExitStop

-----------------------------------------------------------------------------
(* The ESP32 *)

\* spi_post_setup_cb() raises the handshake line.
Load ==
    /\ ~handshake /\ handshake' = TRUE
    /\ IF irq THEN GiveSem ELSE UNCHANGED <<spi_sem, deaf>>
    /\ UNCHANGED <<mode, data_path, txVars, rxq, irq, opened, xmit, spi, rx, toHost, budgets>>

\* The first packet queued raises the data-ready line.
Offer(p) ==
    /\ toHost' = Append(toHost, p)
    /\ IF irq /\ toHost = <<>> THEN GiveSem ELSE UNCHANGED <<spi_sem, deaf>>
    /\ UNCHANGED <<mode, data_path, txVars, rxq, irq, opened, xmit, spi, rx, handshake, nets, prios,
                   faults>>

Announce   == EventsLeft /\ clocks' = clocks + 1 /\ UNCHANGED others /\ Offer("init")
DeviceData == EventsLeft /\ others' = others + 1 /\ UNCHANGED clocks /\ Offer("data")

Device == Load \/ Announce \/ DeviceData

Next == Kernel \/ SpiThread \/ SpiFails \/ RxThread \/ ReopenFails \/ Unload \/ Device

Spec == Init /\ [][Next]_vars

\* The two threads run, a writer in the kernel goes on, and the ESP32 loads its
\* next transaction.  Nothing more is assumed to be written, no unloading, and
\* neither that anything fails nor that it does not.
Fairness ==
    /\ WF_vars(SpiThread) /\ WF_vars(RxThread) /\ WF_vars(Load)
    /\ \A d \in NetDev : WF_vars(Check(d) \/ Pause(d) \/ Enqueue(d) \/ Count(d))

FairSpec == Spec /\ Fairness

-----------------------------------------------------------------------------
(* Properties *)

Writers(pc) == Cardinality({d \in NetDev : xmit[d] = pc})

\* A packet dequeued, of which tx_pending does not know yet
InHand == IF spi.pc = "dec" /\ spi.got = "net" THEN 1 ELSE 0

\* tx_pending never runs away from the queue: a packet may be sent before it is
\* counted, and then its count stays, but not more often than there are devices.
\* So a device stopped for TX_MAX_PENDING_COUNT has a backlog that will wake it.
PendingHasPackets ==
    mode = "ready" => tx_pending + Writers("count") <= txq["net"] + Cardinality(NetDev) + InHand

\* The limit on tx_pending is one on the queue: the count falls behind the queue
\* only by one for each serial or HCI packet sent, whose count is taken from the
\* network packets', and by what is queued when the clock changes.
CountCoversQueue ==
    txq["net"] <= tx_pending + Writers("count") + prios
                  + clocks * (TX_MAX_PENDING_COUNT + Cardinality(NetDev) + prios)

\* Either way: the count and the queue, changed one after the other by writers,
\* the SPI thread and the opening of the data path, stay within reach.
CountFollowsQueue == PendingHasPackets /\ CountCoversQueue

\* While a transaction is possible and there is something to transfer, the SPI
\* thread is at work or about to be woken: no edge and no packet is forgotten.
\* It is not so while deaf: what came while the interrupts were off is noticed
\* only with the next semaphore given, and so is what a transaction left that
\* was not made, or failed, for the last semaphore.
WorkNoticed ==
    mode = "ready" /\ data_path /\ handshake /\ spi.pc = "idle" /\ ~deaf
    /\ (toHost # <<>> \/ txq["prio"] > 0 \/ txq["net"] > Writers("count"))
        => spi_sem > 0

\* A device stopped while packets are queued is woken, unless they stay because
\* the data path has just been opened, or the last transaction was not made, and
\* nothing happens that gives the semaphore.
StoppedResumes ==
    \A d \in NetDev :
        stopped[d] /\ opened[d] /\ txq["net"] > 0
            ~> ~stopped[d] \/ ~opened[d] \/ deaf \/ mode # "ready"
=============================================================================
