------------------------------ MODULE SdioLink ------------------------------
(***************************************************************************)
(* The SDIO link: the ESP32's sdio_slave_api.c and the Linux driver's      *)
(* sdio/esp_sdio.c.  Flow control is by two counters of the slave that     *)
(* only grow, modulo TxMax and RxMax, and the host's copies of them: the   *)
(* receive buffers loaded so far (a token each) and the bytes offered.     *)
(*                                                                         *)
(* The bus and the slave's peripheral are external: a block written takes  *)
(* one loaded buffer, a packet offered raises one interrupt bit, and       *)
(* sdio_slave_transmit() returns when the host has read it.  A process     *)
(* that has claimed the bus excludes the others.  Where esp_remove()       *)
(* sleeps 100 ms, the slave is taken to have finished (Slept).             *)
(***************************************************************************)
EXTENDS Integers, FiniteSets

CONSTANTS
    Writer,         \* tasks in write_packet(): network devices, serial device, HCI
    ESP_TX_BUFFER_MAX, ESP_RX_BYTE_MAX,
    ESP_MAX_BUF_CNT,        \* the buffers the host believes the slave has: BUFFER_NUM
    TX_MAX_PENDING_COUNT, TX_RESUME_THRESHOLD,
    Lengths,        \* of the slave's packets, in units of a block
    MaxPackets,     \* bound: packets of the host and of the slave together
    MaxFaults,      \* bound: bus errors, failed allocations, restarts of the slave
    MaxRemoves      \* bound: how often the card is removed

ASSUME SdioLinkAssumption ==
    /\ IsFiniteSet(Writer)
    /\ {ESP_TX_BUFFER_MAX, ESP_RX_BYTE_MAX, ESP_MAX_BUF_CNT, TX_MAX_PENDING_COUNT,
        TX_RESUME_THRESHOLD} \subseteq Nat \ {0}
    /\ ESP_MAX_BUF_CNT < ESP_TX_BUFFER_MAX
    /\ Lengths \subseteq 1..(ESP_RX_BYTE_MAX - 1)
    /\ {MaxPackets, MaxFaults, MaxRemoves} \subseteq Nat

VARIABLES
    \* the host
    probe,          \* how far esp_probe() or esp_remove() has come
    ready,          \* adapter.state is ESP_CONTEXT_READY
    tx_pending, queue_items, txq, stopped,
    writer,         \* per task: where its write_packet() is
    tx,             \* the tx thread: where it is, retries left
    buf_available,  \* static in is_sdio_write_buffer_available()
    tx_buffer_count, rx_byte_count,
    rx_sem, rx,     \* the receive thread
    isr,            \* esp_handle_isr() is between reading and clearing the status
    \* the slave
    intr,           \* the host's interrupt, not yet seen
    active,         \* if_handle->state is ACTIVE
    token, loaded, filled,  \* its receive buffers: loaded so far; now; filled
    reader, sender, \* recv_task, send_task
    len, out,       \* bytes offered so far; bytes of the packet offered, not read
    int,            \* the new-packet bit of its interrupt status
    \* history and bounds
    skew, sound,    \* what the host's count of free buffers is off by; always 0 so far
    missed,         \* a read of what is offered has failed, or an interrupt's transfer
    writes, offers, faults, removes

hostTx   == <<tx_pending, queue_items, txq, stopped>>
hostRx   == <<rx_byte_count, rx_sem, rx>>
slaveRx  == <<active, token, loaded, filled, reader>>
slaveTx  == <<sender, len, out>>
credit   == <<buf_available, tx_buffer_count>>
history  == <<skew, sound, missed>>
vars == <<probe, ready, hostTx, writer, tx, credit, hostRx, isr, intr, slaveRx, slaveTx, int,
          history, writes, offers, faults, removes>>

Token == 0..(ESP_TX_BUFFER_MAX - 1)
Bytes == 0..(ESP_RX_BYTE_MAX - 1)
TxIdle == [pc |-> "idle", retry |-> 0]

TypeOK ==
    /\ probe \in {"none", "init", "added", "card", "up", "closing", "sleep", "flush", "removing"}
    /\ {ready, stopped, isr, active, int, sound, missed} \subseteq BOOLEAN
    /\ {tx_pending, queue_items, txq, rx_sem} \subseteq Nat
    /\ writer \in [Writer -> {"idle", "pause", "count", "item", "queue"}]
    /\ tx \in [pc : {"idle", "dec", "avail", "write", "count"}, retry : 0..2]
    /\ {tx_buffer_count, token, skew, buf_available} \subseteq Token /\ {rx_byte_count, len, out} \subseteq Bytes
    /\ {loaded, filled} \subseteq 0..ESP_MAX_BUF_CNT
    /\ rx \in {"idle", "read"} /\ intr \in {"none", "open", "close"}
    /\ reader \in {"idle", "recv", "held"} /\ sender \in {"idle", "checked", "wait"}
    /\ {writes, offers} \subseteq 0..MaxPackets
    /\ faults \in 0..MaxFaults /\ removes \in 0..MaxRemoves

\* sdio_init() has run and the host's driver is loaded.  The slave's counters
\* are anywhere: an earlier host may have used it.
Init ==
    /\ probe = "none" /\ ready = FALSE
    /\ tx_pending = 0 /\ queue_items = 0 /\ txq = 0 /\ stopped = FALSE
    /\ writer = [w \in Writer |-> "idle"] /\ tx = TxIdle
    /\ buf_available = 0 /\ tx_buffer_count = 0 /\ rx_byte_count = 0
    /\ rx_sem = 0 /\ rx = "idle" /\ isr = FALSE
    /\ intr = "none" /\ active = FALSE
    /\ token \in Token /\ loaded = ESP_MAX_BUF_CNT /\ filled = 0
    /\ reader = "idle" /\ sender = "idle"
    /\ len \in Bytes /\ out = 0 /\ int = FALSE
    /\ skew = 0 /\ sound = TRUE /\ missed = FALSE
    /\ writes = 0 /\ offers = 0 /\ faults = 0 /\ removes = 0

\* Operators named Bug_... are plausible mistakes in the operation they stand
\* beside; no action uses them.

Fault == faults < MaxFaults /\ faults' = faults + 1

\* A fault for which a packet of the slave may stay where it is.
Miss == Fault /\ missed' = TRUE /\ UNCHANGED <<skew, sound>>

-----------------------------------------------------------------------------
(* write_packet() *)

Goto(w, pc) == writer' = [writer EXCEPT ![w] = pc]

writerUnchanged == <<probe, ready, tx, credit, hostRx, isr, intr, slaveRx, slaveTx, int, history,
                     offers, faults, removes>>

\* A stopped network device is not called; serial and HCI packets are (w is any).
Write(w) ==
    /\ writer[w] = "idle" /\ probe \in {"card", "up", "closing", "sleep", "flush", "removing"}
    /\ writes + offers < MaxPackets /\ writes' = writes + 1
    /\ Goto(w, IF tx_pending >= TX_MAX_PENDING_COUNT THEN "pause" ELSE "count")
    /\ UNCHANGED <<hostTx, writerUnchanged>>

\* esp_tx_pause(): the packet is dropped.
Pause(w) ==
    /\ writer[w] = "pause" /\ Goto(w, "idle")
    /\ stopped' = TRUE
    /\ UNCHANGED <<tx_pending, queue_items, txq, writes, writerUnchanged>>

Count(w) ==
    /\ writer[w] = "count" /\ Goto(w, "item")
    /\ tx_pending' = tx_pending + 1
    /\ UNCHANGED <<queue_items, txq, stopped, writes, writerUnchanged>>

Item(w) ==
    /\ writer[w] = "item" /\ Goto(w, "queue")
    /\ queue_items' = queue_items + 1
    /\ UNCHANGED <<tx_pending, txq, stopped, writes, writerUnchanged>>

Queue(w) ==
    /\ writer[w] = "queue" /\ Goto(w, "idle")
    /\ txq' = txq + 1
    /\ UNCHANGED <<tx_pending, queue_items, stopped, writes, writerUnchanged>>

WriterStep(w) == Pause(w) \/ Count(w) \/ Item(w) \/ Queue(w)

-----------------------------------------------------------------------------
(* tx_process() *)

txUnchanged == <<probe, ready, writer, hostRx, isr, intr, active, token, reader, slaveTx, int,
                 writes, offers, removes>>

Bug_Dequeue ==
    /\ tx.pc = "idle" /\ ready /\ probe \in {"added", "card", "up"} /\ queue_items > 0
    /\ queue_items' = queue_items - 1
    /\ txq' = IF txq > 0 THEN txq - 1 ELSE 0
    /\ tx' = IF txq > 0 THEN [TxIdle EXCEPT !.pc = "dec"] ELSE TxIdle
    /\ UNCHANGED <<tx_pending, stopped, credit, loaded, filled, history, faults, txUnchanged>>

\* With an item counted whose packet is not queued yet it looks again.
Dequeue ==
    /\ tx.pc = "idle" /\ ready /\ probe \in {"added", "card", "up"} /\ queue_items > 0 /\ txq > 0
    /\ queue_items' = queue_items - 1 /\ txq' = txq - 1
    /\ tx' = [TxIdle EXCEPT !.pc = "dec"]
    /\ UNCHANGED <<tx_pending, stopped, credit, loaded, filled, history, faults, txUnchanged>>

Decrement ==
    LET left == IF tx_pending > 0 THEN tx_pending - 1 ELSE 0
    IN  /\ tx.pc = "dec" /\ tx' = [pc |-> "avail", retry |-> 2]
        /\ tx_pending' = left
        /\ stopped' = (stopped /\ left >= TX_RESUME_THRESHOLD)
        /\ UNCHANGED <<queue_items, txq, credit, loaded, filled, history, faults, txUnchanged>>

\* esp_slave_get_tx_buffer_num()
Free == (token + ESP_TX_BUFFER_MAX - tx_buffer_count) % ESP_TX_BUFFER_MAX

Bug_AvailableAskOnce ==
    LET seen == IF buf_available < 1 /\ tx.retry > 1 THEN Free ELSE buf_available
    IN  /\ tx.pc = "avail" /\ ~isr
        /\ buf_available' = IF seen >= 1 THEN seen - 1 ELSE 0
        /\ tx' = IF seen >= 1 THEN [TxIdle EXCEPT !.pc = "write"]
                 ELSE IF tx.retry > 1 THEN [tx EXCEPT !.retry = 1] ELSE TxIdle
        /\ UNCHANGED <<hostTx, tx_buffer_count, loaded, filled, history, faults, txUnchanged>>

\* is_sdio_write_buffer_available(), which asks the slave only when it must:
\* twice, and then the packet is dropped.
Available ==
    LET seen == IF buf_available < 1 THEN Free ELSE buf_available
    IN  /\ tx.pc = "avail" /\ ~isr
        /\ buf_available' = IF seen >= 1 THEN seen - 1 ELSE 0
        /\ tx' = IF seen >= 1 THEN [TxIdle EXCEPT !.pc = "write"]
                 ELSE IF tx.retry > 1 THEN [tx EXCEPT !.retry = 1] ELSE TxIdle
        /\ UNCHANGED <<hostTx, tx_buffer_count, loaded, filled, history, faults, txUnchanged>>

\* The question fails, which counts as one of the two.
AvailableFails ==
    /\ tx.pc = "avail" /\ ~isr /\ buf_available < 1 /\ Fault
    /\ tx' = IF tx.retry > 1 THEN [tx EXCEPT !.retry = 1] ELSE TxIdle
    /\ UNCHANGED <<hostTx, credit, loaded, filled, history, txUnchanged>>

WriteBlock ==
    /\ tx.pc = "write" /\ ~isr /\ loaded > 0
    /\ loaded' = loaded - 1 /\ filled' = filled + 1
    /\ tx' = [tx EXCEPT !.pc = "count"]
    /\ UNCHANGED <<hostTx, credit, history, faults, txUnchanged>>

\* The packet is dropped and not counted, though the slave may have taken it.
\* Without a buffer the write cannot succeed.
WriteFails ==
    /\ tx.pc = "write" /\ ~isr /\ tx' = TxIdle
    /\ \/ loaded = 0 /\ UNCHANGED <<loaded, filled, history, faults>>
       \/ Fault /\ UNCHANGED <<loaded, filled, history>>
       \/ /\ loaded > 0 /\ Fault
          /\ loaded' = loaded - 1 /\ filled' = filled + 1
          /\ skew' = (skew + 1) % ESP_TX_BUFFER_MAX /\ sound' = FALSE /\ UNCHANGED missed
    /\ UNCHANGED <<hostTx, credit, txUnchanged>>

Bug_CountBufferNoWrap ==
    /\ tx.pc = "count" /\ tx' = TxIdle
    /\ tx_buffer_count' = tx_buffer_count + 1
    /\ UNCHANGED <<hostTx, buf_available, loaded, filled, history, faults, txUnchanged>>

CountBuffer ==
    /\ tx.pc = "count" /\ tx' = TxIdle
    /\ tx_buffer_count' = (tx_buffer_count + 1) % ESP_TX_BUFFER_MAX
    /\ UNCHANGED <<hostTx, buf_available, loaded, filled, history, faults, txUnchanged>>

TxStep == Decrement \/ Available \/ WriteBlock \/ (tx.pc = "write" /\ loaded = 0 /\ WriteFails) \/ CountBuffer

-----------------------------------------------------------------------------
(* esp_handle_isr(), the receive thread and read_packet() *)

rxUnchanged == <<probe, hostTx, writer, tx, credit, intr, slaveRx, sender, len, writes, offers,
                 removes>>

\* The interrupt's thread has the bus from here to IsrClear.
IsrRead ==
    /\ int /\ ~isr /\ ready /\ probe \notin {"none", "init"}
    /\ isr' = TRUE /\ rx_sem' = rx_sem + 1
    /\ UNCHANGED <<ready, rx_byte_count, rx, out, int, faults, history, rxUnchanged>>

\* The status is not read, and whatever the memory held is taken for it.
IsrReadFails ==
    /\ int /\ ~isr /\ ready /\ probe \notin {"none", "init"} /\ Miss
    /\ isr' = TRUE /\ rx_sem' \in {rx_sem, rx_sem + 1}
    /\ UNCHANGED <<ready, rx_byte_count, rx, out, int, rxUnchanged>>

IsrClear ==
    /\ isr /\ isr' = FALSE
    /\ int' = FALSE
    /\ UNCHANGED <<ready, hostRx, out, faults, history, rxUnchanged>>

\* The bit stays set, and the interrupt comes again.
IsrClearFails ==
    /\ isr /\ isr' = FALSE /\ Fault
    /\ UNCHANGED <<ready, hostRx, out, int, history, rxUnchanged>>

RxTake ==
    /\ rx = "idle" /\ rx_sem > 0
    /\ rx_sem' = rx_sem - 1
    /\ rx' = IF ready THEN "read" ELSE "idle"
    /\ UNCHANGED <<ready, rx_byte_count, isr, out, int, faults, history, rxUnchanged>>

Bug_Offered == IF len >= rx_byte_count THEN len - rx_byte_count ELSE len

\* esp_get_len_from_slave()
Offered == IF len >= rx_byte_count THEN (len + ESP_RX_BYTE_MAX - rx_byte_count) % ESP_RX_BYTE_MAX
           ELSE ESP_RX_BYTE_MAX - rx_byte_count + len

\* n bytes of what is offered
Read(n) ==
    /\ rx_byte_count' = (rx_byte_count + n) % ESP_RX_BYTE_MAX
    /\ out' = IF n < out THEN out - n ELSE 0

Bug_ReadOneBlock ==
    /\ rx = "read" /\ ~isr /\ rx' = "idle"
    /\ Read(IF Offered > 0 THEN 1 ELSE 0)
    /\ UNCHANGED <<ready, rx_sem, isr, int, faults, history, rxUnchanged>>

ReadPacket ==
    /\ rx = "read" /\ ~isr /\ rx' = "idle"
    /\ Read(Offered)
    /\ UNCHANGED <<ready, rx_sem, isr, int, faults, history, rxUnchanged>>

\* The length is not read, or there is no memory for the packet: it stays where
\* it is, and nothing makes the receive thread come back for it.
ReadNothing ==
    /\ rx = "read" /\ ~isr /\ rx' = "idle"
    /\ Miss
    /\ UNCHANGED <<ready, rx_byte_count, rx_sem, isr, out, int, rxUnchanged>>

\* The adapter is disabled for good, or until the card is probed again.
ReadFails ==
    /\ rx = "read" /\ ~isr /\ rx' = "idle"
    /\ Miss
    /\ \E n \in 0..(Offered - 1) : Read(n)
    /\ ready' = FALSE
    /\ UNCHANGED <<rx_sem, isr, int, rxUnchanged>>

-----------------------------------------------------------------------------
(* esp_probe() and esp_remove() *)

probeUnchanged == <<isr, slaveRx, sender, len, int, writes, offers>>

Bug_ProbeLen ==
    /\ probe = "none" /\ probe' = "init"
    /\ rx_byte_count' = len
    /\ UNCHANGED <<ready, tx_pending, queue_items, txq, stopped, writer, tx, credit, rx_sem, rx, intr,
                   out, history, faults, removes, probeUnchanged>>

\* Up to the first register read by init_context()
ProbeLen ==
    /\ probe = "none" /\ probe' = "init"
    /\ tx_pending' = 0 /\ rx_byte_count' = len
    /\ UNCHANGED <<ready, queue_items, txq, stopped, writer, tx, credit, rx_sem, rx, intr, out,
                   history, faults, removes, probeUnchanged>>

\* The second: the buffers sent so far are taken to be the tokens, less one for
\* each buffer of the slave.
ProbeToken ==
    LET count == IF token >= ESP_MAX_BUF_CNT THEN token - ESP_MAX_BUF_CNT ELSE 0
        off   == (token - count - loaded + ESP_TX_BUFFER_MAX) % ESP_TX_BUFFER_MAX
    IN  /\ probe = "init" /\ probe' = "added"
        /\ tx_buffer_count' = count /\ queue_items' = 0
        /\ skew' = off /\ sound' = (sound /\ off = 0) /\ UNCHANGED missed
        /\ UNCHANGED <<ready, tx_pending, txq, stopped, writer, tx, buf_available, hostRx, intr, out,
                       faults, removes, probeUnchanged>>

ProbeFails ==
    /\ probe = "init" /\ probe' = "none" /\ Fault
    /\ UNCHANGED <<ready, hostTx, writer, tx, credit, hostRx, intr, out, history, removes,
                   probeUnchanged>>

\* esp_add_card(), after the tx thread is made
AddCard ==
    /\ probe = "added" /\ probe' = "card"
    /\ stopped' = FALSE
    /\ UNCHANGED <<ready, tx_pending, queue_items, txq, writer, tx, credit, hostRx, intr, out,
                   history, faults, removes, probeUnchanged>>

\* generate_slave_intr(), whose failure nobody looks at
Interrupt(i) == intr' = i /\ UNCHANGED <<faults, history>>
InterruptFails == Miss /\ UNCHANGED intr

OpenDataPath ==
    /\ probe = "card" /\ probe' = "up"
    /\ ready' = TRUE /\ (Interrupt("open") \/ InterruptFails)
    /\ UNCHANGED <<hostTx, writer, tx, credit, hostRx, out, removes, probeUnchanged>>

\* kthread_stop() waits for the packet in hand.
StopThread ==
    /\ probe = "up" /\ tx.pc = "idle" /\ removes < MaxRemoves /\ removes' = removes + 1
    /\ probe' = "closing"
    /\ UNCHANGED <<ready, hostTx, writer, tx, credit, hostRx, intr, out, history, faults, probeUnchanged>>

CloseDataPath ==
    /\ probe = "closing" /\ intr = "none"
    /\ probe' = "sleep" /\ (Interrupt("close") \/ InterruptFails)
    /\ UNCHANGED <<ready, hostTx, writer, tx, credit, hostRx, out, removes, probeUnchanged>>

Slept ==
    /\ probe = "sleep" /\ intr = "none" /\ sender # "checked"
    /\ probe' = "flush"
    /\ UNCHANGED <<ready, hostTx, writer, tx, credit, hostRx, intr, out, history, faults, removes,
                   probeUnchanged>>

\* flush_sdio() reads until nothing is offered, or a read fails.
Flush ==
    /\ probe = "flush" /\ ~isr
    /\ \/ Offered > 0 /\ Read(Offered) /\ UNCHANGED <<probe, ready, faults, history>>
       \/ Offered = 0 /\ probe' = "removing" /\ UNCHANGED <<ready, faults, history, rx_byte_count, out>>
       \/ probe' = "removing" /\ Miss /\ UNCHANGED <<ready, rx_byte_count, out>>
       \/ Offered > 0 /\ probe' = "removing" /\ ready' = FALSE /\ Miss
          /\ \E n \in 0..(Offered - 1) : Read(n)
    /\ UNCHANGED <<hostTx, writer, tx, credit, rx_sem, rx, intr, removes, probeUnchanged>>

\* By now the receive thread has seen its semaphore; the context is cleared.
RemoveCard ==
    /\ probe = "removing" /\ rx = "idle" /\ rx_sem = 0 /\ ~isr
    /\ \A w \in Writer : writer[w] = "idle"
    /\ probe' = "none" /\ txq' = 0
    /\ tx_buffer_count' = 0 /\ rx_byte_count' = 0
    /\ UNCHANGED <<ready, tx_pending, queue_items, stopped, writer, tx, buf_available, rx_sem, rx,
                   intr, out, history, faults, removes, probeUnchanged>>

Prober == ProbeLen \/ ProbeToken \/ AddCard \/ OpenDataPath
Remover == CloseDataPath \/ Slept \/ Flush \/ RemoveCard

-----------------------------------------------------------------------------
(* The slave: event_cb(), recv_task with sdio_read() and sdio_read_done(),   *)
(* send_task with sdio_write()                                               *)

slaveUnchanged == <<probe, ready, hostTx, writer, tx, credit, hostRx, isr, history, writes, removes>>

EventCb ==
    /\ intr # "none" /\ intr' = "none"
    /\ active' = (intr = "open")
    /\ UNCHANGED <<token, loaded, filled, reader, slaveTx, int, offers, faults, slaveUnchanged>>

ReadCheck ==
    /\ reader = "idle" /\ active /\ reader' = "recv"
    /\ UNCHANGED <<active, token, loaded, filled, slaveTx, int, intr, offers, faults, slaveUnchanged>>

\* sdio_slave_recv() was called when the state was ACTIVE.
Recv ==
    /\ reader = "recv" /\ filled > 0
    /\ filled' = filled - 1 /\ reader' = "held"
    /\ UNCHANGED <<active, token, loaded, slaveTx, int, intr, offers, faults, slaveUnchanged>>

\* sdio_slave_recv_load_buf()
ReadDone ==
    /\ reader = "held" /\ reader' = "idle"
    /\ loaded' = loaded + 1 /\ token' = (token + 1) % ESP_TX_BUFFER_MAX
    /\ UNCHANGED <<active, filled, slaveTx, int, intr, offers, faults, slaveUnchanged>>

WriteCheck ==
    /\ sender = "idle" /\ active /\ writes + offers < MaxPackets /\ offers' = offers + 1
    /\ sender' = "checked"
    /\ UNCHANGED <<slaveRx, len, out, int, intr, faults, slaveUnchanged>>

Transmit ==
    /\ sender = "checked" /\ sender' = "wait"
    /\ \E n \in Lengths : len' = (len + n) % ESP_RX_BYTE_MAX /\ out' = n
    /\ int' = TRUE
    /\ UNCHANGED <<slaveRx, intr, offers, faults, slaveUnchanged>>

Transmitted ==
    /\ sender = "wait" /\ out = 0 /\ sender' = "idle"
    /\ UNCHANGED <<slaveRx, len, out, int, intr, offers, faults, slaveUnchanged>>

\* Seen by the host as another card: only between remove and probe.
Restart ==
    /\ probe = "none" /\ Fault
    /\ active' = FALSE /\ token' = ESP_MAX_BUF_CNT /\ loaded' = ESP_MAX_BUF_CNT /\ filled' = 0
    /\ reader' = "idle" /\ sender' = "idle" /\ len' = 0 /\ out' = 0 /\ int' = FALSE /\ intr' = "none"
    /\ UNCHANGED <<offers, slaveUnchanged>>

Slave == EventCb \/ ReadCheck \/ Recv \/ ReadDone \/ WriteCheck \/ Transmit \/ Transmitted

-----------------------------------------------------------------------------
RxFails == IsrReadFails \/ IsrClearFails \/ ReadNothing \/ ReadFails

Host ==
    \/ \E w \in Writer : Write(w) \/ WriterStep(w)
    \/ Dequeue \/ Decrement \/ Available \/ AvailableFails \/ WriteBlock \/ WriteFails \/ CountBuffer
    \/ IsrRead \/ IsrClear \/ RxTake \/ ReadPacket \/ RxFails
    \/ Prober \/ ProbeFails \/ StopThread \/ Remover

Next == Host \/ Slave \/ Restart

Spec == Init /\ [][Next]_vars

\* The host's two threads and its writers run and the interrupt is served.
\* Nobody must write, fail or remove the card, and nothing is asked of the slave.
Fairness ==
    /\ WF_vars(\E w \in Writer : WriterStep(w))
    /\ WF_vars(Dequeue \/ TxStep)
    /\ WF_vars(IsrRead \/ IsrClear) /\ WF_vars(RxTake \/ ReadPacket)

FairSpec == Spec /\ Fairness

-----------------------------------------------------------------------------
(* Properties *)

\* The host's counters follow the slave's buffers: tokens not used are buffers
\* loaded, but for the buffer of a block just written and the error the host
\* began with.
TokensMatchBuffers ==
    probe \in {"added", "card", "up", "closing", "sleep", "flush", "removing"} =>
        (token - tx_buffer_count - loaded - skew - (IF tx.pc = "count" THEN 1 ELSE 0))
            % ESP_TX_BUFFER_MAX = 0

\* A host whose count was never off writes only into a loaded buffer, although
\* it asks the slave once for many and remembers the rest beyond a removal.
WriteHasBuffer ==
    sound => buf_available + (IF tx.pc = "write" THEN 1 ELSE 0) <= loaded

\* A host whose count was never off, and that has an answer to its last question,
\* drops a packet only when every buffer is taken.
DropMeansFull ==
    [][sound /\ tx.pc = "avail" /\ tx'.pc = "idle" /\ faults' = faults => loaded = 0]_vars

\* What the host has not read of the bytes offered is what is left of the packet
\* the slave waits for: none is read twice, skipped or merged with another.  So
\* it is when a read fails; only a card removed or probed again after that may
\* find the rest of an earlier packet.
BytesMatch ==
    (missed => removes = 0) /\ probe # "none" => Offered = out

\* A packet offered is announced, by the interrupt or to the receive thread, as
\* long as no read and no interrupt's transfer fails.
OfferNoticed ==
    ~missed /\ out > 0 /\ ready /\ probe = "up" => int \/ rx_sem > 0 \/ rx = "read"

\* Host and slave, who see only each other's wrapping counters, agree on the
\* buffers and on the bytes between them.
CountersAgree == TokensMatchBuffers /\ WriteHasBuffer /\ BytesMatch /\ OfferNoticed

\* The host's count of its packets is exact, in every interleaving, once a card
\* is there.
PendingExact ==
    LET In(pcs) == Cardinality({w \in Writer : writer[w] \in pcs})
    IN  probe \notin {"none", "init"} =>
            /\ tx_pending = txq + In({"item", "queue"}) + (IF tx.pc = "dec" THEN 1 ELSE 0)
            /\ queue_items = txq + In({"queue"})

\* Unless a read or an interrupt's transfer fails, on the bus or for want of
\* memory, every packet of the slave is read, and send_task goes on; failed
\* writes and questions, and earlier restarts, are no excuse.
OfferIsRead == out > 0 /\ probe = "up" ~> out = 0 \/ probe # "up" \/ missed

\* A device stopped while packets are queued is woken: the tx thread comes to
\* every packet, though it reads two counters and a queue that are not in step.
StoppedResumes == stopped /\ txq > 0 /\ probe = "up" ~> ~stopped \/ probe # "up" \/ ~ready
=============================================================================
