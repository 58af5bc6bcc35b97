------------------------------ MODULE SpiSlave ------------------------------
(***************************************************************************)
(* The SPI driver of the firmware (drivers/src/spi_slave_api.c) and what   *)
(* it shares with the SPI host: the data-ready and handshake lines and the *)
(* bus.  Four processes run: the writer (the initialisation, then          *)
(* send_task, in esp_spi_write), the chain (queue_next_transaction, called *)
(* once by the initialisation and then by the post-process task for every  *)
(* finished transaction), the reader (recv_task, in esp_spi_read) and the  *)
(* host.  ESP-IDF's spi_slave driver and the bus are modelled from how the *)
(* file uses them.                                                         *)
(*                                                                         *)
(* Packets of a class are numbered 1..MaxId, over and over; MaxId above    *)
(* what the driver can hold makes a lost, repeated or overtaken packet     *)
(* visible without bounding how many are sent.                             *)
(***************************************************************************)
EXTENDS Integers, Sequences, FiniteSets

CONSTANTS
    SPI_TX_QUEUE_SIZE,
    SPI_RX_QUEUE_SIZE,
    CONFIG_ESP_CACHE_MALLOC,  \* are buffers taken from a fixed pool?
    HeapBlocks,               \* if not, how many the heap has room for
    TxClasses,                \* classes the firmware sends
    RxClasses,                \* classes the host sends
    MaxId                     \* packet numbers of a class

PRIO_Q_SERIAL == 0
PRIO_Q_BT     == 1
PRIO_Q_OTHERS == 2
Prio == {PRIO_Q_SERIAL, PRIO_Q_BT, PRIO_Q_OTHERS}

ASSUME SpiSlaveAssumption ==
    /\ SPI_TX_QUEUE_SIZE \in Nat \ {0}
    /\ SPI_RX_QUEUE_SIZE \in Nat \ {0}
    /\ CONFIG_ESP_CACHE_MALLOC \in BOOLEAN
    /\ HeapBlocks \in Nat
    /\ TxClasses \subseteq {PRIO_Q_BT, PRIO_Q_OTHERS}  \* esp_spi_write uses these
    /\ RxClasses \subseteq Prio
    /\ MaxId \in Nat \ {0}

Packet == [class : Prio, id : 1..MaxId]
NoData == [class |-> -1, id |-> 0]     \* a dummy buffer, or a zeroed one
Data   == Packet \cup {NoData}
Succ(i) == (i % MaxId) + 1

Transaction == [tx : Data, rx : Data]
None == [none |-> TRUE]

SPI_MEMPOOL_NUM_BLOCKS == (SPI_TX_QUEUE_SIZE + SPI_RX_QUEUE_SIZE) * 2
Blocks == IF CONFIG_ESP_CACHE_MALLOC THEN SPI_MEMPOOL_NUM_BLOCKS ELSE HeapBlocks

VARIABLES
    spi_tx_queue, spi_tx_sem,   \* firmware to host
    spi_rx_queue, spi_rx_sem,   \* host to firmware
    blocks,       \* buffers allocated and not yet freed
    dataready,    \* the data-ready line
    handshake,    \* the handshake line
    wpc, wbuf,    \* the writer: where it is, its tx_buf_handle
    cpc, cprio, ctx,   \* the chain: where it is, the queue it looks at, its tx_buffer
    cur,          \* the finished transaction the post-process task holds
    rpc, rprio, rbuf,  \* the reader: where it is, the queue, its buf_handle
    queued,       \* transactions queued in the spi_slave driver
    loaded,       \* the transaction the hardware will exchange next
    done,         \* finished transactions, for spi_slave_get_trans_result
    bus, mosi,    \* the bus: "idle", "active" or "ended", and what the host sends
    csEdge,       \* has CS fallen and the GPIO interrupt not run yet?
    crashed,      \* has an assert() failed?
    written, hostGot,   \* next numbers of a class: to write, due at the host
    hostSent, readNext  \* next numbers of a class: host's to send, due at the reader

txVars     == <<spi_tx_queue, spi_tx_sem>>
rxVars     == <<spi_rx_queue, spi_rx_sem>>
writerVars == <<wpc, wbuf, written>>
chainVars  == <<cpc, cprio, ctx, cur>>
readerVars == <<rpc, rprio, rbuf, readNext>>
busVars    == <<queued, loaded, done, bus, mosi, csEdge, handshake, hostGot, hostSent>>
vars == <<txVars, rxVars, blocks, dataready, writerVars, chainVars, readerVars, busVars, crashed>>

Init ==
    /\ spi_tx_queue = [q \in Prio |-> <<>>] /\ spi_tx_sem = 0
    /\ spi_rx_queue = [q \in Prio |-> <<>>] /\ spi_rx_sem = 0
    /\ blocks = 0
    /\ dataready = FALSE /\ handshake = FALSE
    /\ wpc = "boot" /\ wbuf = NoData
    /\ cpc = "boot" /\ cprio = PRIO_Q_SERIAL /\ ctx = NoData /\ cur = None
    /\ rpc = "take" /\ rprio = PRIO_Q_SERIAL /\ rbuf = NoData
    /\ queued = <<>> /\ loaded = None /\ done = <<>>
    /\ bus = "idle" /\ mosi = NoData /\ csEdge = FALSE
    /\ crashed = FALSE
    /\ written = [c \in Prio |-> 1] /\ hostGot = [c \in Prio |-> 1]
    /\ hostSent = [c \in Prio |-> 1] /\ readNext = [c \in Prio |-> 1]

\* hosted_mempool_alloc() of a buffer finds one.
CanAlloc == blocks < Blocks

\* Operators named Bug_... are plausible mistakes in the operation they stand
\* beside; no action uses them.  Each breaks a property of this module.

-----------------------------------------------------------------------------
(* esp_spi_write(), and generate_startup_event(), which does the same once *)

StartWrite(c) ==
    /\ CanAlloc
    /\ blocks' = blocks + 1
    /\ wbuf' = [class |-> c, id |-> written[c]]
    /\ written' = [written EXCEPT ![c] = Succ(@)]
    /\ wpc' = "push"
    /\ UNCHANGED <<txVars, rxVars, dataready, chainVars, readerVars, busVars, crashed>>

StartupEvent == wpc = "boot" /\ StartWrite(PRIO_Q_OTHERS)
Write(c)     == wpc = "idle" /\ StartWrite(c)

Bug_PushTxPastTheEnd ==
    /\ wpc = "push"
    /\ Len(spi_tx_queue[wbuf.class]) <= SPI_TX_QUEUE_SIZE
    /\ spi_tx_queue' = [spi_tx_queue EXCEPT ![wbuf.class] = Append(@, wbuf)]
    /\ wpc' = "give"
    /\ UNCHANGED <<spi_tx_sem, rxVars, blocks, dataready, wbuf, written, chainVars, readerVars,
                   busVars, crashed>>

PushTx ==
    /\ wpc = "push"
    /\ Len(spi_tx_queue[wbuf.class]) < SPI_TX_QUEUE_SIZE
    /\ spi_tx_queue' = [spi_tx_queue EXCEPT ![wbuf.class] = Append(@, wbuf)]
    /\ wpc' = "give"
    /\ UNCHANGED <<spi_tx_sem, rxVars, blocks, dataready, wbuf, written, chainVars, readerVars,
                   busVars, crashed>>

Bug_GiveNothing(sem, max) == sem
\* A counting semaphore stays at its maximum when given once more.
Give(sem, max) == IF sem < max THEN sem + 1 ELSE sem

GiveTx ==
    /\ wpc = "give"
    /\ spi_tx_sem' = Give(spi_tx_sem, SPI_TX_QUEUE_SIZE * 3)
    /\ wpc' = "ready"
    /\ UNCHANGED <<spi_tx_queue, rxVars, blocks, dataready, wbuf, written, chainVars, readerVars,
                   busVars, crashed>>

\* set_dataready_gpio(); generate_startup_event() goes on to start the chain,
\* and send_task has nothing to write before that is done.
SetDataReady ==
    /\ wpc = "ready"
    /\ dataready' = TRUE
    /\ wpc' = IF cpc = "boot" THEN "starting" ELSE "idle"
    /\ wbuf' = NoData
    /\ cpc' = IF cpc = "boot" THEN "take" ELSE cpc
    /\ UNCHANGED <<txVars, rxVars, blocks, written, cprio, ctx, cur, readerVars, busVars, crashed>>

Writer == StartupEvent \/ (\E c \in TxClasses : Write(c)) \/ PushTx \/ GiveTx \/ SetDataReady

-----------------------------------------------------------------------------
(* get_next_tx_buffer() and queue_next_transaction() *)

TakeTx ==
    /\ cpc = "take"
    /\ IF spi_tx_sem > 0
       THEN spi_tx_sem' = spi_tx_sem - 1 /\ cpc' = "pop"
       ELSE spi_tx_sem' = spi_tx_sem /\ cpc' = "clear"
    /\ cprio' = PRIO_Q_SERIAL
    /\ UNCHANGED <<spi_tx_queue, rxVars, blocks, dataready, writerVars, ctx, cur, readerVars,
                   busVars, crashed>>

\* One xQueueReceive() without waiting, of the queue cprio.
PopTx ==
    /\ cpc = "pop"
    /\ IF spi_tx_queue[cprio] # <<>>
       THEN /\ ctx' = Head(spi_tx_queue[cprio])
            /\ spi_tx_queue' = [spi_tx_queue EXCEPT ![cprio] = Tail(@)]
            /\ cpc' = "attach"
            /\ cprio' = cprio
       ELSE /\ UNCHANGED <<ctx, spi_tx_queue>>
            /\ cpc' = IF cprio = PRIO_Q_OTHERS THEN "clear" ELSE "pop"
            /\ cprio' = IF cprio = PRIO_Q_OTHERS THEN cprio ELSE cprio + 1
    /\ UNCHANGED <<spi_tx_sem, rxVars, blocks, dataready, writerVars, cur, readerVars, busVars,
                   crashed>>

\* reset_dataready_gpio()
ClearDataReady ==
    /\ cpc = "clear"
    /\ dataready' = FALSE
    /\ cpc' = "dummy"
    /\ UNCHANGED <<txVars, rxVars, blocks, writerVars, cprio, ctx, cur, readerVars, busVars,
                   crashed>>

\* Where queue_next_transaction() returns to.
Returned == IF cur = None THEN "await" ELSE "free"

Bug_NoDummy ==
    /\ cpc = "dummy"
    /\ cpc' = Returned
    /\ UNCHANGED <<txVars, rxVars, blocks, dataready, writerVars, cprio, ctx, cur, readerVars,
                   busVars, crashed>>

\* The empty buffer.  Without one, no transaction is queued.
DummyTx ==
    /\ cpc = "dummy"
    /\ ctx' = NoData
    /\ \/ CanAlloc  /\ blocks' = blocks + 1 /\ cpc' = "attach"
       \/ ~CanAlloc /\ blocks' = blocks     /\ cpc' = Returned
    /\ UNCHANGED <<txVars, rxVars, dataready, writerVars, cprio, cur, readerVars, busVars, crashed>>

\* The transaction and its receive buffer.  The pool of transactions has as
\* many blocks as that of buffers and is never short.
AttachRx ==
    /\ cpc = "attach"
    /\ CanAlloc
    /\ blocks' = blocks + 1
    /\ cpc' = "submit"
    /\ UNCHANGED <<txVars, rxVars, dataready, writerVars, cprio, ctx, cur, readerVars, busVars,
                   crashed>>

\* spi_slave_queue_trans()
Submit ==
    /\ cpc = "submit"
    /\ queued' = Append(queued, [tx |-> ctx, rx |-> NoData])
    /\ cpc' = Returned
    /\ ctx' = NoData
    /\ wpc' = IF wpc = "starting" THEN "idle" ELSE wpc
    /\ UNCHANGED <<txVars, rxVars, blocks, dataready, wbuf, written, cprio, cur, readerVars,
                   loaded, done, bus, mosi, csEdge, handshake, hostGot, hostSent, crashed>>

-----------------------------------------------------------------------------
(* spi_transaction_post_process_task() and process_spi_rx() *)

GetTransResult ==
    /\ cpc = "await"
    /\ done # <<>>
    /\ cur' = Head(done)
    /\ done' = Tail(done)
    /\ cpc' = "take"
    /\ UNCHANGED <<txVars, rxVars, blocks, dataready, writerVars, cprio, ctx, readerVars, queued,
                   loaded, bus, mosi, csEdge, handshake, hostGot, hostSent, crashed>>

Bug_EmptyNotFreed ==
    /\ cpc = "free"
    /\ blocks' = IF cur.rx = NoData THEN blocks ELSE blocks - 1
    /\ cpc' = IF cur.rx = NoData THEN "freeTrans" ELSE "pushRx"
    /\ UNCHANGED <<txVars, rxVars, dataready, writerVars, cprio, ctx, cur, readerVars, busVars,
                   crashed>>

\* The tx buffer goes; an empty rx buffer too.
FreeBuffers ==
    /\ cpc = "free"
    /\ blocks' = IF cur.rx = NoData THEN blocks - 2 ELSE blocks - 1
    /\ cpc' = IF cur.rx = NoData THEN "freeTrans" ELSE "pushRx"
    /\ UNCHANGED <<txVars, rxVars, dataready, writerVars, cprio, ctx, cur, readerVars, busVars,
                   crashed>>

Bug_PushRxNoWait ==
    /\ cpc = "pushRx"
    /\ IF Len(spi_rx_queue[cur.rx.class]) < SPI_RX_QUEUE_SIZE
       THEN /\ spi_rx_queue' = [spi_rx_queue EXCEPT ![cur.rx.class] = Append(@, cur.rx)]
            /\ cpc' = "giveRx" /\ blocks' = blocks
       ELSE spi_rx_queue' = spi_rx_queue /\ cpc' = "freeTrans" /\ blocks' = blocks - 1
    /\ UNCHANGED <<txVars, spi_rx_sem, dataready, writerVars, cprio, ctx, cur, readerVars, busVars,
                   crashed>>

PushRx ==
    /\ cpc = "pushRx"
    /\ Len(spi_rx_queue[cur.rx.class]) < SPI_RX_QUEUE_SIZE
    /\ spi_rx_queue' = [spi_rx_queue EXCEPT ![cur.rx.class] = Append(@, cur.rx)]
    /\ cpc' = "giveRx"
    /\ UNCHANGED <<txVars, spi_rx_sem, blocks, dataready, writerVars, cprio, ctx, cur, readerVars,
                   busVars, crashed>>

GiveRx ==
    /\ cpc = "giveRx"
    /\ spi_rx_sem' = Give(spi_rx_sem, SPI_RX_QUEUE_SIZE * 3)
    /\ cpc' = "freeTrans"
    /\ UNCHANGED <<txVars, spi_rx_queue, blocks, dataready, writerVars, cprio, ctx, cur,
                   readerVars, busVars, crashed>>

FreeTrans ==
    /\ cpc = "freeTrans"
    /\ cur' = None
    /\ cpc' = "await"
    /\ UNCHANGED <<txVars, rxVars, blocks, dataready, writerVars, cprio, ctx, readerVars, busVars,
                   crashed>>

Chain ==
    \/ TakeTx \/ PopTx \/ ClearDataReady \/ DummyTx \/ AttachRx \/ Submit
    \/ GetTransResult \/ FreeBuffers \/ PushRx \/ GiveRx \/ FreeTrans

-----------------------------------------------------------------------------
(* esp_spi_read() and recv_task() *)

TakeRx ==
    /\ rpc = "take"
    /\ spi_rx_sem > 0
    /\ spi_rx_sem' = spi_rx_sem - 1
    /\ rpc' = "pop"
    /\ rprio' = PRIO_Q_SERIAL
    /\ UNCHANGED <<txVars, spi_rx_queue, blocks, dataready, writerVars, chainVars, rbuf, readNext,
                   busVars, crashed>>

PopRx ==
    /\ rpc = "pop"
    /\ IF spi_rx_queue[rprio] # <<>>
       THEN /\ rbuf' = Head(spi_rx_queue[rprio])
            /\ spi_rx_queue' = [spi_rx_queue EXCEPT ![rprio] = Tail(@)]
            /\ rpc' = "process"
            /\ rprio' = rprio
       ELSE /\ UNCHANGED <<rbuf, spi_rx_queue>>
            /\ rpc' = IF rprio = PRIO_Q_OTHERS THEN "take" ELSE "pop"
            /\ rprio' = IF rprio = PRIO_Q_OTHERS THEN rprio ELSE rprio + 1
    /\ UNCHANGED <<txVars, spi_rx_sem, blocks, dataready, writerVars, chainVars, readNext, busVars,
                   crashed>>

\* process_rx_pkt() is done with the packet: esp_spi_read_done().
ReadDone ==
    /\ rpc = "process"
    /\ readNext' = [readNext EXCEPT ![rbuf.class] = Succ(rbuf.id)]
    /\ blocks' = blocks - 1
    /\ rbuf' = NoData
    /\ rpc' = "take"
    /\ UNCHANGED <<txVars, rxVars, dataready, writerVars, chainVars, rprio, busVars, crashed>>

Reader == TakeRx \/ PopRx \/ ReadDone

-----------------------------------------------------------------------------
(* The spi_slave driver's interrupts *)

Bug_NoHandshake ==
    /\ loaded = None
    /\ queued # <<>>
    /\ loaded' = Head(queued)
    /\ queued' = Tail(queued)
    /\ UNCHANGED <<txVars, rxVars, blocks, dataready, writerVars, chainVars, readerVars, done, bus,
                   mosi, csEdge, handshake, hostGot, hostSent, crashed>>

\* A queued transaction is loaded: spi_post_setup_cb().
LoadTransaction ==
    /\ loaded = None
    /\ queued # <<>>
    /\ loaded' = Head(queued)
    /\ queued' = Tail(queued)
    /\ handshake' = TRUE
    /\ UNCHANGED <<txVars, rxVars, blocks, dataready, writerVars, chainVars, readerVars, done, bus,
                   mosi, csEdge, hostGot, hostSent, crashed>>

\* The loaded transaction is finished: spi_post_trans_cb().
FinishTransaction ==
    /\ bus = "ended"
    /\ done' = Append(done, [loaded EXCEPT !.rx = mosi])
    /\ loaded' = None
    /\ handshake' = FALSE
    /\ bus' = "idle"
    /\ mosi' = NoData
    /\ UNCHANGED <<txVars, rxVars, blocks, dataready, writerVars, chainVars, readerVars, queued,
                   csEdge, hostGot, hostSent, crashed>>

\* gpio_disable_hs_isr_handler(), on the falling edge of CS
CsInterrupt ==
    /\ csEdge
    /\ csEdge' = FALSE
    /\ handshake' = FALSE
    /\ UNCHANGED <<txVars, rxVars, blocks, dataready, writerVars, chainVars, readerVars, queued,
                   loaded, done, bus, mosi, hostGot, hostSent, crashed>>

Interrupts == LoadTransaction \/ FinishTransaction \/ CsInterrupt

-----------------------------------------------------------------------------
(***************************************************************************)
(* The host, esp_spi_transaction(): it exchanges a buffer when it sees the *)
(* handshake high, and either has something to send or sees data-ready.    *)
(***************************************************************************)
HostBegins(x) ==
    /\ bus # "active"
    /\ handshake
    /\ bus' = "active"
    /\ mosi' = x
    /\ csEdge' = TRUE
    /\ UNCHANGED <<txVars, rxVars, blocks, dataready, writerVars, chainVars, readerVars, queued,
                   loaded, done, handshake, hostGot, crashed>>

HostReceives ==
    /\ dataready
    /\ HostBegins(NoData)
    /\ UNCHANGED hostSent

HostSends(c) ==
    /\ HostBegins([class |-> c, id |-> hostSent[c]])
    /\ hostSent' = [hostSent EXCEPT ![c] = Succ(@)]

\* All 1600 bytes have been clocked.  That takes far longer than an interrupt,
\* so the one of the falling edge has run.
HostEnds ==
    /\ bus = "active"
    /\ ~csEdge
    /\ bus' = "ended"
    /\ hostGot' = IF loaded.tx \in Packet
                  THEN [hostGot EXCEPT ![loaded.tx.class] = Succ(loaded.tx.id)]
                  ELSE hostGot
    /\ UNCHANGED <<txVars, rxVars, blocks, dataready, writerVars, chainVars, readerVars, queued,
                   loaded, done, mosi, csEdge, handshake, hostSent, crashed>>

Host == HostReceives \/ (\E c \in RxClasses : HostSends(c)) \/ HostEnds

-----------------------------------------------------------------------------
\* assert() on the buffer a writer, or a transaction's receive side, has asked
\* for: the firmware stops.
AssertFails ==
    /\ ~CanAlloc
    /\ wpc = "boot" \/ (wpc = "idle" /\ TxClasses # {}) \/ cpc = "attach"
    /\ crashed' = TRUE
    /\ UNCHANGED <<txVars, rxVars, blocks, dataready, writerVars, chainVars, readerVars, busVars>>

Next == ~crashed /\ (AssertFails \/ Writer \/ Chain \/ Reader \/ Interrupts \/ Host)

Spec == Init /\ [][Next]_vars

(***************************************************************************)
(* Fairness: the tasks run when they are ready, the interrupts are served, *)
(* and the host answers the data-ready line and ends what it has begun.    *)
(* Nobody is obliged to write, nor the host to send.                       *)
(***************************************************************************)
Fairness ==
    /\ WF_vars(~crashed /\ (StartupEvent \/ PushTx \/ GiveTx \/ SetDataReady))
    /\ WF_vars(~crashed /\ Chain)
    /\ WF_vars(~crashed /\ Reader)
    /\ WF_vars(~crashed /\ LoadTransaction)
    /\ WF_vars(~crashed /\ FinishTransaction)
    /\ WF_vars(~crashed /\ CsInterrupt)
    /\ WF_vars(~crashed /\ (HostReceives \/ HostEnds))

FairSpec == Spec /\ Fairness

-----------------------------------------------------------------------------
Pc == {"boot", "take", "pop", "clear", "dummy", "attach", "submit", "await", "free", "pushRx",
       "giveRx", "freeTrans"}

TxTypes ==
    /\ spi_tx_queue \in [Prio -> Seq(Packet)] /\ spi_tx_sem \in Nat
    /\ \A q \in Prio : Len(spi_tx_queue[q]) <= SPI_TX_QUEUE_SIZE

RxTypes ==
    /\ spi_rx_queue \in [Prio -> Seq(Packet)] /\ spi_rx_sem \in Nat
    /\ \A q \in Prio : Len(spi_rx_queue[q]) <= SPI_RX_QUEUE_SIZE

WriterTypes ==
    /\ wpc \in {"boot", "idle", "push", "give", "ready", "starting"} /\ wbuf \in Data
    /\ written \in [Prio -> 1..MaxId]

ChainTypes ==
    cpc \in Pc /\ cprio \in Prio /\ ctx \in Data /\ cur \in Transaction \cup {None}

ReaderTypes ==
    /\ rpc \in {"take", "pop", "process"} /\ rprio \in Prio /\ rbuf \in Data
    /\ readNext \in [Prio -> 1..MaxId]

BusTypes ==
    /\ queued \in Seq(Transaction) /\ loaded \in Transaction \cup {None} /\ done \in Seq(Transaction)
    /\ bus \in {"idle", "active", "ended"} /\ mosi \in Data
    /\ handshake \in BOOLEAN /\ csEdge \in BOOLEAN
    /\ hostGot \in [Prio -> 1..MaxId] /\ hostSent \in [Prio -> 1..MaxId]

\* Every variable keeps its type, and every queue its bound.
TypeOK ==
    /\ TxTypes /\ RxTypes /\ WriterTypes /\ ChainTypes /\ ReaderTypes /\ BusTypes
    /\ blocks \in Nat /\ dataready \in BOOLEAN /\ crashed \in BOOLEAN

Total(queue) ==
    Len(queue[PRIO_Q_SERIAL]) + Len(queue[PRIO_Q_BT]) + Len(queue[PRIO_Q_OTHERS])
One(b) == IF b THEN 1 ELSE 0

\* A counting semaphore stands for the packets in three queues, and both are
\* changed one after the other, without a lock, by two tasks.  Neither a
\* packet without a permit (it would stay for ever) nor a permit without a
\* packet is ever made.
PermitsMatchPackets ==
    /\ spi_tx_sem + One(wpc = "give") + One(cpc = "pop") = Total(spi_tx_queue)
    /\ spi_rx_sem + One(cpc = "giveRx") + One(rpc = "pop") = Total(spi_rx_queue)

\* The three receives of a pop are not atomic; still a permit that has been
\* taken finds its packet, in the queue looked at or one still to come.
PopFindsPacket ==
    /\ cpc = "pop" => \E q \in Prio : q >= cprio /\ spi_tx_queue[q] # <<>>
    /\ rpc = "pop" => \E q \in Prio : q >= rprio /\ spi_rx_queue[q] # <<>>

\* Every buffer taken from the pool is in exactly one place: none leaks and
\* none is freed twice, whichever way a transaction ends.
HeldByChain ==
    CASE cpc = "attach" -> 1 [] cpc = "submit" -> 2 [] OTHER -> 0
HeldByCurrent ==
    CASE cur = None -> 0
      [] cpc = "pushRx" -> 1
      [] cpc \in {"giveRx", "freeTrans"} -> 0
      [] OTHER -> 2
InDriver == Len(queued) + One(loaded # None) + Len(done)

BlocksConserved ==
    blocks = One(wpc = "push") + Total(spi_tx_queue) + HeldByChain + 2 * InDriver
               + HeldByCurrent + Total(spi_rx_queue) + One(rpc = "process")

\* One transaction is always with the spi_slave driver while the post-process
\* task waits for a result: the chain of transactions never breaks.
ChainAlive == cpc = "await" => InDriver = 1

\* The host, which looks only at the handshake line, never clocks a
\* transaction the slave has no buffers for: by the time a transfer ends the
\* line is low, and it rises only when the next transaction is loaded.
HandshakeMeansLoaded == handshake /\ bus # "active" => bus = "idle" /\ loaded # None

\* With enough buffers the chain never breaks, nor does the host run ahead of it.
ChainSound == ChainAlive /\ HandshakeMeansLoaded

\* In either direction packets of one class arrive in the order in which
\* they were sent, none lost and none twice.
InOrder ==
    /\ bus = "active" /\ loaded # None /\ loaded.tx \in Packet
          => loaded.tx.id = hostGot[loaded.tx.class]
    /\ rpc = "process" => rbuf.id = readNext[rbuf.class]

\* assert(tx_buf_handle.payload) and assert(spi_trans->rx_buffer) never fail.
NeverCrashes == ~crashed

\* A packet is queued, and the line that tells the host has been cleared as if
\* no real data were pending.
LostWakeup == Total(spi_tx_queue) > 0 /\ ~dataready

\* The post-process task always comes back to wait for a result: neither a
\* full receive queue nor, short of a failing assert(), a missing buffer stops it.
ChainReturns == cpc # "await" ~> cpc = "await" \/ crashed

\* Where a pool that is too small leads.
PoolEmpty == crashed \/ (cpc = "await" /\ InDriver = 0)

\* With a host that answers data-ready, the oldest HCI packet leaves its queue
\* unless data-ready was cleared with it waiting, or the pool ran out.
HciLeaves ==
    \A i \in 1..MaxId :
        spi_tx_queue[PRIO_Q_BT] # <<>> /\ spi_tx_queue[PRIO_Q_BT][1].id = i
            ~> \/ spi_tx_queue[PRIO_Q_BT] = <<>> \/ spi_tx_queue[PRIO_Q_BT][1].id # i
               \/ LostWakeup \/ PoolEmpty
=============================================================================
