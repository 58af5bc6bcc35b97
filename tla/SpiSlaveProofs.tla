--------------------------- MODULE SpiSlaveProofs ---------------------------
(***************************************************************************)
(* Theorems about SpiSlave, for every queue size, every number of buffers  *)
(* and every set of classes.                                               *)
(***************************************************************************)
EXTENDS SpiSlave, TLAPS

USE DEF PRIO_Q_SERIAL, PRIO_Q_BT, PRIO_Q_OTHERS, Prio

(***************************************************************************)
(* What the inductive invariant adds to the properties of SpiSlave.        *)
(***************************************************************************)

\* Which buffers the tasks hold where.
Held ==
    /\ wpc = "push" => wbuf \in Packet /\ wbuf.class # PRIO_Q_SERIAL
    /\ cpc \in {"boot", "await"} => cur = None
    /\ cpc \in {"free", "pushRx", "giveRx", "freeTrans"} => cur # None
    /\ cpc = "pushRx" => cur.rx \in Packet
    /\ rpc = "process" => rbuf \in Packet
    /\ spi_tx_queue[PRIO_Q_SERIAL] = <<>>

\* At most one transaction is with the spi_slave driver, and none until the
\* chain has queued the next one.
AtMostOne ==
    /\ InDriver <= 1
    /\ cpc \in {"boot", "take", "pop", "clear", "dummy", "attach", "submit"} => InDriver = 0

\* What the lines say of the bus.
Lines ==
    /\ bus = "idle" /\ handshake => loaded # None
    /\ bus # "idle" => loaded # None
    /\ bus = "active" /\ ~csEdge => ~handshake
    /\ bus = "ended" => ~handshake
    /\ csEdge => bus = "active"

\* A heap with room for all the buffers the driver can use at once, and for
\* the next one: see Limit below.
PoolLargeEnough == Blocks >= 2 * SPI_TX_QUEUE_SIZE + 3 * SPI_RX_QUEUE_SIZE + 6

(***************************************************************************)
(* Facts about the data the model is built from.                           *)
(***************************************************************************)

\* The number that follows one of 1..MaxId is one of them.
LEMMA SuccType == \A i \in 1..MaxId : Succ(i) \in 1..MaxId
  <1> SUFFICES ASSUME NEW i \in 1..MaxId PROVE Succ(i) \in 1..MaxId
    OBVIOUS
  <1>1. MaxId \in Nat \ {0} /\ i \in Nat
    BY SpiSlaveAssumption
  <1>2. (i % MaxId) \in 0..(MaxId - 1)
    BY <1>1
  <1> QED
    BY <1>1, <1>2 DEF Succ

\* A transaction is not the absence of one.
LEMMA NoneIsNone == None \notin Transaction
  <1>1. DOMAIN None = {"none"}
    BY DEF None
  <1>2. \A t \in Transaction : "tx" \in DOMAIN t
    BY DEF Transaction
  <1> QED
    BY <1>1, <1>2

\* The empty buffer is not a packet.
LEMMA NoDataIsNoPacket == NoData \notin Packet
  BY DEF NoData, Packet

\* Three queues hold a natural number of packets.
LEMMA TotalType ==
  ASSUME NEW queue \in [Prio -> Seq(Packet)]
  PROVE  /\ Total(queue) \in Nat
         /\ \A q \in Prio : Len(queue[q]) \in Nat
         /\ Total(queue) > 0 => \E q \in Prio : queue[q] # <<>>
  <1>1. \A q \in Prio : queue[q] \in Seq(Packet)
    OBVIOUS
  <1>2. \A q \in Prio : Len(queue[q]) \in Nat /\ (Len(queue[q]) > 0 => queue[q] # <<>>)
    BY <1>1
  <1> QED
    BY <1>2 DEF Total

\* A queue after a send, and after a receive.
Sent(queue, p, x)  == [queue EXCEPT ![p] = Append(@, x)]
Received(queue, p) == [queue EXCEPT ![p] = Tail(@)]

\* Sending to a queue adds one packet.
LEMMA PushTotal ==
  ASSUME NEW queue \in [Prio -> Seq(Packet)], NEW p \in Prio, NEW x \in Packet
  PROVE  /\ Sent(queue, p, x) \in [Prio -> Seq(Packet)]
         /\ Total(Sent(queue, p, x)) = Total(queue) + 1
         /\ Len(Sent(queue, p, x)[p]) = Len(queue[p]) + 1
         /\ Sent(queue, p, x)[p] # <<>>
         /\ \A q \in Prio : q # p => Sent(queue, p, x)[q] = queue[q]
  <1> SUFFICES ASSUME NEW next, next = [queue EXCEPT ![p] = Append(@, x)]
               PROVE  /\ next \in [Prio -> Seq(Packet)]
                      /\ Total(next) = Total(queue) + 1
                      /\ Len(next[p]) = Len(queue[p]) + 1
                      /\ next[p] # <<>>
                      /\ \A q \in Prio : q # p => next[q] = queue[q]
    BY DEF Sent
  <1>1. queue[p] \in Seq(Packet)
    OBVIOUS
  <1>2. /\ Append(queue[p], x) \in Seq(Packet)
        /\ Len(Append(queue[p], x)) = Len(queue[p]) + 1
        /\ Append(queue[p], x) # <<>>
    BY <1>1
  <1>3. next[p] = Append(queue[p], x) /\ \A q \in Prio : q # p => next[q] = queue[q]
    OBVIOUS
  <1>4. next \in [Prio -> Seq(Packet)]
    BY <1>2
  <1>5. \A q \in Prio : Len(queue[q]) \in Nat
    BY TotalType
  <1>6. Len(next[p]) = Len(queue[p]) + 1 /\ \A q \in Prio : q # p => Len(next[q]) = Len(queue[q])
    BY <1>2, <1>3
  <1>7. Total(next) = Total(queue) + 1
    <2>1. CASE p = PRIO_Q_SERIAL
      BY <1>5, <1>6, <2>1 DEF Total
    <2>2. CASE p = PRIO_Q_BT
      BY <1>5, <1>6, <2>2 DEF Total
    <2>3. CASE p = PRIO_Q_OTHERS
      BY <1>5, <1>6, <2>3 DEF Total
    <2> QED
      BY <2>1, <2>2, <2>3
  <1> QED
    BY <1>2, <1>3, <1>4, <1>6, <1>7

\* The same for the queues themselves, however the step is written.
LEMMA PushQueues ==
  ASSUME NEW queue \in [Prio -> Seq(Packet)], NEW p \in Prio, NEW x \in Packet,
         NEW next, next = Sent(queue, p, x)
  PROVE  /\ next \in [Prio -> Seq(Packet)] /\ next[p] # <<>> /\ Len(next[p]) = Len(queue[p]) + 1
         /\ \A q \in Prio : q # p => next[q] = queue[q]
  <1> HIDE DEF Prio
  <1> QED
    BY PushTotal

\* Receiving from a queue that is not empty takes one packet.
LEMMA PopTotal ==
  ASSUME NEW queue \in [Prio -> Seq(Packet)], NEW p \in Prio, queue[p] # <<>>
  PROVE  /\ Received(queue, p) \in [Prio -> Seq(Packet)]
         /\ Total(Received(queue, p)) = Total(queue) - 1
         /\ Len(Received(queue, p)[p]) = Len(queue[p]) - 1
         /\ Head(queue[p]) \in Packet
         /\ \A q \in Prio : q # p => Received(queue, p)[q] = queue[q]
  <1> SUFFICES ASSUME NEW next, next = [queue EXCEPT ![p] = Tail(@)]
               PROVE  /\ next \in [Prio -> Seq(Packet)]
                      /\ Total(next) = Total(queue) - 1
                      /\ Len(next[p]) = Len(queue[p]) - 1
                      /\ Head(queue[p]) \in Packet
                      /\ \A q \in Prio : q # p => next[q] = queue[q]
    BY DEF Received
  <1>1. queue[p] \in Seq(Packet)
    OBVIOUS
  <1>2. /\ Tail(queue[p]) \in Seq(Packet)
        /\ Len(Tail(queue[p])) = Len(queue[p]) - 1
        /\ Head(queue[p]) \in Packet
    BY <1>1
  <1>3. next[p] = Tail(queue[p]) /\ \A q \in Prio : q # p => next[q] = queue[q]
    OBVIOUS
  <1>4. next \in [Prio -> Seq(Packet)]
    BY <1>2
  <1>5. \A q \in Prio : Len(queue[q]) \in Nat
    BY TotalType
  <1>6. Len(next[p]) = Len(queue[p]) - 1 /\ \A q \in Prio : q # p => Len(next[q]) = Len(queue[q])
    BY <1>2, <1>3
  <1>7. Total(next) = Total(queue) - 1
    <2>1. CASE p = PRIO_Q_SERIAL
      BY <1>5, <1>6, <2>1 DEF Total
    <2>2. CASE p = PRIO_Q_BT
      BY <1>5, <1>6, <2>2 DEF Total
    <2>3. CASE p = PRIO_Q_OTHERS
      BY <1>5, <1>6, <2>3 DEF Total
    <2> QED
      BY <2>1, <2>2, <2>3
  <1> QED
    BY <1>2, <1>3, <1>4, <1>6, <1>7

-----------------------------------------------------------------------------
(***************************************************************************)
(* Which actions change which variables.                                   *)
(***************************************************************************)

\* The send queues and their semaphore.
LEMMA TxSteps ==
  Next => UNCHANGED txVars \/ PushTx \/ GiveTx \/ TakeTx \/ PopTx
  <1>1. Writer => UNCHANGED txVars \/ PushTx \/ GiveTx
    BY DEF Writer, StartupEvent, Write, SetDataReady, StartWrite, txVars
  <1>2. Chain => UNCHANGED txVars \/ TakeTx \/ PopTx
    BY DEF Chain, ClearDataReady, DummyTx, AttachRx, Submit, GetTransResult, FreeBuffers, PushRx,
           GiveRx, FreeTrans, txVars
  <1>3. Reader => UNCHANGED txVars
    BY DEF Reader, TakeRx, PopRx, ReadDone, txVars
  <1>4. Interrupts => UNCHANGED txVars
    BY DEF Interrupts, LoadTransaction, FinishTransaction, CsInterrupt, txVars
  <1>5. Host => UNCHANGED txVars
    BY DEF Host, HostReceives, HostSends, HostEnds, HostBegins, txVars
  <1>6. AssertFails => UNCHANGED txVars
    BY DEF AssertFails, txVars
  <1> QED
    BY <1>1, <1>2, <1>3, <1>4, <1>5, <1>6 DEF Next

\* The receive queues and their semaphore.
LEMMA RxSteps ==
  Next => UNCHANGED rxVars \/ PushRx \/ GiveRx \/ TakeRx \/ PopRx
  <1>1. Writer => UNCHANGED rxVars
    BY DEF Writer, StartupEvent, Write, PushTx, GiveTx, SetDataReady, StartWrite, rxVars
  <1>2. Chain => UNCHANGED rxVars \/ PushRx \/ GiveRx
    BY DEF Chain, TakeTx, PopTx, ClearDataReady, DummyTx, AttachRx, Submit, GetTransResult,
           FreeBuffers, FreeTrans, rxVars
  <1>3. Reader => UNCHANGED rxVars \/ TakeRx \/ PopRx
    BY DEF Reader, ReadDone, rxVars
  <1>4. Interrupts => UNCHANGED rxVars
    BY DEF Interrupts, LoadTransaction, FinishTransaction, CsInterrupt, rxVars
  <1>5. Host => UNCHANGED rxVars
    BY DEF Host, HostReceives, HostSends, HostEnds, HostBegins, rxVars
  <1>6. AssertFails => UNCHANGED rxVars
    BY DEF AssertFails, rxVars
  <1> QED
    BY <1>1, <1>2, <1>3, <1>4, <1>5, <1>6 DEF Next

\* The writer's own variables.
LEMMA WriterSteps ==
  Next => UNCHANGED writerVars \/ Writer \/ Submit
  <1>1. Chain => UNCHANGED writerVars \/ Submit
    BY DEF Chain, TakeTx, PopTx, ClearDataReady, DummyTx, AttachRx, GetTransResult, FreeBuffers,
           PushRx, GiveRx, FreeTrans, writerVars
  <1>2. Reader => UNCHANGED writerVars
    BY DEF Reader, TakeRx, PopRx, ReadDone, writerVars
  <1>3. Interrupts => UNCHANGED writerVars
    BY DEF Interrupts, LoadTransaction, FinishTransaction, CsInterrupt, writerVars
  <1>4. Host => UNCHANGED writerVars
    BY DEF Host, HostReceives, HostSends, HostEnds, HostBegins, writerVars
  <1>5. AssertFails => UNCHANGED writerVars
    BY DEF AssertFails, writerVars
  <1> QED
    BY <1>1, <1>2, <1>3, <1>4, <1>5 DEF Next

\* The chain's own variables.
LEMMA ChainSteps ==
  Next => UNCHANGED chainVars \/ SetDataReady \/ Chain
  <1>1. Writer => UNCHANGED chainVars \/ SetDataReady
    BY DEF Writer, StartupEvent, Write, PushTx, GiveTx, StartWrite, chainVars
  <1>2. Reader => UNCHANGED chainVars
    BY DEF Reader, TakeRx, PopRx, ReadDone, chainVars
  <1>3. Interrupts => UNCHANGED chainVars
    BY DEF Interrupts, LoadTransaction, FinishTransaction, CsInterrupt, chainVars
  <1>4. Host => UNCHANGED chainVars
    BY DEF Host, HostReceives, HostSends, HostEnds, HostBegins, chainVars
  <1>5. AssertFails => UNCHANGED chainVars
    BY DEF AssertFails, chainVars
  <1> QED
    BY <1>1, <1>2, <1>3, <1>4, <1>5 DEF Next

\* The reader's own variables.
LEMMA ReaderSteps ==
  Next => UNCHANGED readerVars \/ Reader
  <1>1. Writer => UNCHANGED readerVars
    BY DEF Writer, StartupEvent, Write, PushTx, GiveTx, SetDataReady, StartWrite, readerVars
  <1>2. Chain => UNCHANGED readerVars
    BY DEF Chain, TakeTx, PopTx, ClearDataReady, DummyTx, AttachRx, Submit, GetTransResult,
           FreeBuffers, PushRx, GiveRx, FreeTrans, readerVars
  <1>3. Interrupts => UNCHANGED readerVars
    BY DEF Interrupts, LoadTransaction, FinishTransaction, CsInterrupt, readerVars
  <1>4. Host => UNCHANGED readerVars
    BY DEF Host, HostReceives, HostSends, HostEnds, HostBegins, readerVars
  <1>5. AssertFails => UNCHANGED readerVars
    BY DEF AssertFails, readerVars
  <1> QED
    BY <1>1, <1>2, <1>3, <1>4, <1>5 DEF Next

\* The driver's queues and the bus.
LEMMA BusSteps ==
  Next => UNCHANGED busVars \/ Submit \/ GetTransResult \/ Interrupts \/ Host
  <1>1. Writer => UNCHANGED busVars
    BY DEF Writer, StartupEvent, Write, PushTx, GiveTx, SetDataReady, StartWrite, busVars
  <1>2. Chain => UNCHANGED busVars \/ Submit \/ GetTransResult
    BY DEF Chain, TakeTx, PopTx, ClearDataReady, DummyTx, AttachRx, FreeBuffers, PushRx, GiveRx,
           FreeTrans, busVars
  <1>3. Reader => UNCHANGED busVars
    BY DEF Reader, TakeRx, PopRx, ReadDone, busVars
  <1>4. AssertFails => UNCHANGED busVars
    BY DEF AssertFails, busVars
  <1> QED
    BY <1>1, <1>2, <1>3, <1>4 DEF Next

-----------------------------------------------------------------------------
(***************************************************************************)
(* The inductive invariant, one part after the other.                      *)
(***************************************************************************)
Inv ==
    /\ TypeOK /\ Held /\ AtMostOne /\ Lines
    /\ PermitsMatchPackets /\ PopFindsPacket /\ BlocksConserved

\* The send queues keep their type and their bound.
LEMMA NextTxTypes == Inv /\ Next => TxTypes'
  <1> SUFFICES ASSUME Inv, Next PROVE TxTypes'
    OBVIOUS
  <1>1. TxTypes /\ WriterTypes /\ ChainTypes /\ Held
    BY DEF Inv, TypeOK
  <1>2. SPI_TX_QUEUE_SIZE \in Nat \ {0}
    BY SpiSlaveAssumption
  <1>3. \A q \in Prio : Len(spi_tx_queue[q]) \in Nat
    BY <1>1, TotalType DEF TxTypes
  <1>4. CASE UNCHANGED txVars
    BY <1>1, <1>4 DEF TxTypes, txVars
  <1>5. CASE PushTx
    <2>1. /\ wbuf \in Packet /\ wbuf.class \in Prio
          /\ spi_tx_queue' = Sent(spi_tx_queue, wbuf.class, wbuf)
      BY <1>1, <1>5 DEF PushTx, Held, Packet, Sent
    <2>2. /\ spi_tx_queue' \in [Prio -> Seq(Packet)]
          /\ Len(spi_tx_queue'[wbuf.class]) = Len(spi_tx_queue[wbuf.class]) + 1
          /\ \A q \in Prio : q # wbuf.class => spi_tx_queue'[q] = spi_tx_queue[q]
      <3>1. spi_tx_queue \in [Prio -> Seq(Packet)]
        BY <1>1 DEF TxTypes
      <3> HIDE DEF Prio
      <3>2. \A p \in Prio, x \in Packet : spi_tx_queue' = Sent(spi_tx_queue, p, x) =>
               /\ spi_tx_queue' \in [Prio -> Seq(Packet)]
               /\ Len(spi_tx_queue'[p]) = Len(spi_tx_queue[p]) + 1
               /\ \A q \in Prio : q # p => spi_tx_queue'[q] = spi_tx_queue[q]
        BY <3>1, PushQueues
      <3> QED
        BY <2>1, <3>2
    <2>3. Len(spi_tx_queue[wbuf.class]) < SPI_TX_QUEUE_SIZE /\ spi_tx_sem' = spi_tx_sem
      BY <1>5 DEF PushTx
    <2>4. \A q \in Prio : Len(spi_tx_queue'[q]) <= SPI_TX_QUEUE_SIZE
      <3>1. \A q \in Prio : Len(spi_tx_queue[q]) <= SPI_TX_QUEUE_SIZE
        BY <1>1 DEF TxTypes
      <3> TAKE q \in Prio
      <3>2. CASE q = wbuf.class
        BY <1>2, <1>3, <2>1, <2>2, <2>3, <3>2
      <3>3. CASE q # wbuf.class
        BY <2>2, <3>1, <3>3
      <3> QED
        BY <3>2, <3>3
    <2> QED
      BY <1>1, <2>2, <2>3, <2>4 DEF TxTypes
  <1>6. CASE GiveTx
    BY <1>1, <1>6 DEF GiveTx, Give, TxTypes
  <1>7. CASE TakeTx
    BY <1>1, <1>7 DEF TakeTx, TxTypes
  <1>8. CASE PopTx
    <2>1. CASE spi_tx_queue[cprio] = <<>>
      BY <1>1, <1>8, <2>1 DEF PopTx, TxTypes
    <2>2. CASE spi_tx_queue[cprio] # <<>>
      <3>1. /\ cprio \in Prio /\ spi_tx_sem' = spi_tx_sem
            /\ spi_tx_queue' = Received(spi_tx_queue, cprio)
        BY <1>1, <1>8, <2>2 DEF PopTx, ChainTypes, Received
      <3>2. /\ spi_tx_queue' \in [Prio -> Seq(Packet)]
            /\ Len(spi_tx_queue'[cprio]) = Len(spi_tx_queue[cprio]) - 1
            /\ \A q \in Prio : q # cprio => spi_tx_queue'[q] = spi_tx_queue[q]
        <4>1. spi_tx_queue \in [Prio -> Seq(Packet)]
          BY <1>1 DEF TxTypes
        <4> QED
          BY <2>2, <3>1, <4>1, PopTotal
      <3> QED
        BY <1>1, <1>2, <1>3, <3>1, <3>2 DEF TxTypes
    <2> QED
      BY <2>1, <2>2
  <1> QED
    BY <1>4, <1>5, <1>6, <1>7, <1>8, TxSteps

\* The receive queues keep their type and their bound.
LEMMA NextRxTypes == Inv /\ Next => RxTypes'
  <1> SUFFICES ASSUME Inv, Next PROVE RxTypes'
    OBVIOUS
  <1>1. RxTypes /\ ReaderTypes /\ Held
    BY DEF Inv, TypeOK
  <1>2. SPI_RX_QUEUE_SIZE \in Nat \ {0}
    BY SpiSlaveAssumption
  <1>3. \A q \in Prio : Len(spi_rx_queue[q]) \in Nat
    BY <1>1, TotalType DEF RxTypes
  <1>4. CASE UNCHANGED rxVars
    BY <1>1, <1>4 DEF RxTypes, rxVars
  <1>5. CASE PushRx
    <2>1. /\ cur.rx \in Packet /\ cur.rx.class \in Prio
          /\ spi_rx_queue' = Sent(spi_rx_queue, cur.rx.class, cur.rx)
      BY <1>1, <1>5 DEF PushRx, Held, Packet, Sent
    <2>2. /\ spi_rx_queue' \in [Prio -> Seq(Packet)]
          /\ Len(spi_rx_queue'[cur.rx.class]) = Len(spi_rx_queue[cur.rx.class]) + 1
          /\ \A q \in Prio : q # cur.rx.class => spi_rx_queue'[q] = spi_rx_queue[q]
      <3>1. spi_rx_queue \in [Prio -> Seq(Packet)]
        BY <1>1 DEF RxTypes
      <3> HIDE DEF Prio
      <3>2. \A p \in Prio, x \in Packet : spi_rx_queue' = Sent(spi_rx_queue, p, x) =>
               /\ spi_rx_queue' \in [Prio -> Seq(Packet)]
               /\ Len(spi_rx_queue'[p]) = Len(spi_rx_queue[p]) + 1
               /\ \A q \in Prio : q # p => spi_rx_queue'[q] = spi_rx_queue[q]
        BY <3>1, PushQueues
      <3> QED
        BY <2>1, <3>2
    <2>3. Len(spi_rx_queue[cur.rx.class]) < SPI_RX_QUEUE_SIZE /\ spi_rx_sem' = spi_rx_sem
      BY <1>5 DEF PushRx
    <2>4. \A q \in Prio : Len(spi_rx_queue'[q]) <= SPI_RX_QUEUE_SIZE
      <3>1. \A q \in Prio : Len(spi_rx_queue[q]) <= SPI_RX_QUEUE_SIZE
        BY <1>1 DEF RxTypes
      <3> TAKE q \in Prio
      <3>2. CASE q = cur.rx.class
        BY <1>2, <1>3, <2>1, <2>2, <2>3, <3>2
      <3>3. CASE q # cur.rx.class
        BY <2>2, <3>1, <3>3
      <3> QED
        BY <3>2, <3>3
    <2> QED
      BY <1>1, <2>2, <2>3, <2>4 DEF RxTypes
  <1>6. CASE GiveRx
    BY <1>1, <1>6 DEF GiveRx, Give, RxTypes
  <1>7. CASE TakeRx
    BY <1>1, <1>7 DEF TakeRx, RxTypes
  <1>8. CASE PopRx
    <2>1. CASE spi_rx_queue[rprio] = <<>>
      BY <1>1, <1>8, <2>1 DEF PopRx, RxTypes
    <2>2. CASE spi_rx_queue[rprio] # <<>>
      <3>1. /\ rprio \in Prio /\ spi_rx_sem' = spi_rx_sem
            /\ spi_rx_queue' = Received(spi_rx_queue, rprio)
        BY <1>1, <1>8, <2>2 DEF PopRx, ReaderTypes, Received
      <3>2. /\ spi_rx_queue' \in [Prio -> Seq(Packet)]
            /\ Len(spi_rx_queue'[rprio]) = Len(spi_rx_queue[rprio]) - 1
            /\ \A q \in Prio : q # rprio => spi_rx_queue'[q] = spi_rx_queue[q]
        BY <1>1, <2>2, <3>1, PopTotal DEF RxTypes
      <3> QED
        BY <1>1, <1>2, <1>3, <3>1, <3>2 DEF RxTypes
    <2> QED
      BY <2>1, <2>2
  <1> QED
    BY <1>4, <1>5, <1>6, <1>7, <1>8, RxSteps

\* The writer's variables keep their types.
LEMMA NextWriterTypes == Inv /\ Next => WriterTypes'
  <1> SUFFICES ASSUME Inv, Next PROVE WriterTypes'
    OBVIOUS
  <1>1. WriterTypes
    BY DEF Inv, TypeOK
  <1>2. NoData \in Data
    BY DEF Data
  <1>3. ASSUME NEW c \in Prio, StartWrite(c) PROVE WriterTypes'
    <2>1. written[c] \in 1..MaxId /\ Succ(written[c]) \in 1..MaxId
      BY <1>1, SuccType DEF WriterTypes
    <2>2. [class |-> c, id |-> written[c]] \in Data
      BY <2>1 DEF Data, Packet
    <2> QED
      BY <1>1, <1>3, <2>1, <2>2 DEF StartWrite, WriterTypes
  <1>4. CASE StartupEvent
    BY <1>3, <1>4 DEF StartupEvent
  <1>5. CASE \E c \in TxClasses : Write(c)
    BY <1>3, <1>5, SpiSlaveAssumption DEF Write
  <1>6. CASE PushTx
    BY <1>1, <1>6 DEF PushTx, WriterTypes
  <1>7. CASE GiveTx
    BY <1>1, <1>7 DEF GiveTx, WriterTypes
  <1>8. CASE SetDataReady
    BY <1>1, <1>2, <1>8 DEF SetDataReady, WriterTypes
  <1>9. CASE Submit
    BY <1>1, <1>9 DEF Submit, WriterTypes
  <1>10. CASE UNCHANGED writerVars
    BY <1>1, <1>10 DEF WriterTypes, writerVars
  <1> QED
    BY <1>4, <1>5, <1>6, <1>7, <1>8, <1>9, <1>10, WriterSteps DEF Writer

\* The chain's variables keep their types.
LEMMA NextChainTypes == Inv /\ Next => ChainTypes'
  <1> SUFFICES ASSUME Inv, Next PROVE ChainTypes'
    OBVIOUS
  <1>1. ChainTypes /\ TxTypes /\ BusTypes
    BY DEF Inv, TypeOK
  <1>2. NoData \in Data /\ Packet \subseteq Data
    BY DEF Data
  <1>3. Returned \in Pc
    BY DEF Returned, Pc
  <1> USE DEF Pc
  <1>4. CASE UNCHANGED chainVars
    BY <1>1, <1>4 DEF ChainTypes, chainVars
  <1>5. CASE SetDataReady
    BY <1>1, <1>5 DEF SetDataReady, ChainTypes
  <1>6. CASE TakeTx
    BY <1>1, <1>6 DEF TakeTx, ChainTypes
  <1>7. CASE PopTx
    <2>1. spi_tx_queue[cprio] # <<>> => Head(spi_tx_queue[cprio]) \in Data
      BY <1>1, <1>2, PopTotal DEF TxTypes, ChainTypes
    <2>2. cprio # PRIO_Q_OTHERS => cprio + 1 \in Prio
      BY <1>1 DEF ChainTypes
    <2> QED
      BY <1>1, <1>7, <2>1, <2>2 DEF PopTx, ChainTypes
  <1>8. CASE ClearDataReady
    BY <1>1, <1>8 DEF ClearDataReady, ChainTypes
  <1>9. CASE DummyTx
    BY <1>1, <1>2, <1>3, <1>9 DEF DummyTx, ChainTypes
  <1>10. CASE AttachRx
    BY <1>1, <1>10 DEF AttachRx, ChainTypes
  <1>11. CASE Submit
    BY <1>1, <1>2, <1>3, <1>11 DEF Submit, ChainTypes
  <1>12. CASE GetTransResult
    <2>1. Head(done) \in Transaction
      BY <1>1, <1>12 DEF GetTransResult, BusTypes
    <2> QED
      BY <1>1, <1>12, <2>1 DEF GetTransResult, ChainTypes
  <1>13. CASE FreeBuffers
    BY <1>1, <1>13 DEF FreeBuffers, ChainTypes
  <1>14. CASE PushRx
    BY <1>1, <1>14 DEF PushRx, ChainTypes
  <1>15. CASE GiveRx
    BY <1>1, <1>15 DEF GiveRx, ChainTypes
  <1>16. CASE FreeTrans
    BY <1>1, <1>16 DEF FreeTrans, ChainTypes
  <1> QED
    BY <1>4, <1>5, <1>6, <1>7, <1>8, <1>9, <1>10, <1>11, <1>12, <1>13, <1>14, <1>15, <1>16,
       ChainSteps DEF Chain

\* The reader's variables keep their types.
LEMMA NextReaderTypes == Inv /\ Next => ReaderTypes'
  <1> SUFFICES ASSUME Inv, Next PROVE ReaderTypes'
    OBVIOUS
  <1>1. ReaderTypes /\ RxTypes /\ Held
    BY DEF Inv, TypeOK
  <1>2. NoData \in Data /\ Packet \subseteq Data
    BY DEF Data
  <1>3. CASE UNCHANGED readerVars
    BY <1>1, <1>3 DEF ReaderTypes, readerVars
  <1>4. CASE TakeRx
    BY <1>1, <1>4 DEF TakeRx, ReaderTypes
  <1>5. CASE PopRx
    <2>1. spi_rx_queue[rprio] # <<>> => Head(spi_rx_queue[rprio]) \in Data
      BY <1>1, <1>2, PopTotal DEF RxTypes, ReaderTypes
    <2>2. rprio # PRIO_Q_OTHERS => rprio + 1 \in Prio
      BY <1>1 DEF ReaderTypes
    <2> QED
      BY <1>1, <1>5, <2>1, <2>2 DEF PopRx, ReaderTypes
  <1>6. CASE ReadDone
    <2>1. Succ(rbuf.id) \in 1..MaxId
      BY <1>1, <1>6, SuccType DEF ReadDone, Held, Packet
    <2> QED
      BY <1>1, <1>2, <1>6, <2>1 DEF ReadDone, ReaderTypes
  <1> QED
    BY <1>3, <1>4, <1>5, <1>6, ReaderSteps DEF Reader

\* The driver's variables and the bus keep their types.
LEMMA NextBusTypes == Inv /\ Next => BusTypes'
  <1> SUFFICES ASSUME Inv, Next PROVE BusTypes'
    OBVIOUS
  <1>1. BusTypes /\ ChainTypes /\ Lines
    BY DEF Inv, TypeOK
  <1>2. NoData \in Data /\ Packet \subseteq Data
    BY DEF Data
  <1>3. CASE UNCHANGED busVars
    BY <1>1, <1>3 DEF BusTypes, busVars
  <1>4. CASE Submit
    <2>1. [tx |-> ctx, rx |-> NoData] \in Transaction
      BY <1>1, <1>2 DEF ChainTypes, Transaction
    <2>2. queued' \in Seq(Transaction)
      BY <1>1, <1>4, <2>1 DEF Submit, BusTypes
    <2> QED
      BY <1>1, <1>4, <2>2 DEF Submit, BusTypes
  <1>5. CASE GetTransResult
    <2>1. done' \in Seq(Transaction)
      BY <1>1, <1>5 DEF GetTransResult, BusTypes
    <2> QED
      BY <1>1, <1>5, <2>1 DEF GetTransResult, BusTypes
  <1>6. CASE LoadTransaction
    <2>1. Head(queued) \in Transaction /\ Tail(queued) \in Seq(Transaction)
      BY <1>1, <1>6 DEF LoadTransaction, BusTypes
    <2> QED
      BY <1>1, <1>6, <2>1 DEF LoadTransaction, BusTypes
  <1>7. CASE FinishTransaction
    <2>1. loaded \in Transaction /\ mosi \in Data
      BY <1>1, <1>7 DEF FinishTransaction, BusTypes, Lines
    <2>2. [loaded EXCEPT !.rx = mosi] \in Transaction
      BY <2>1 DEF Transaction
    <2>3. done' \in Seq(Transaction)
      BY <1>1, <1>7, <2>2 DEF FinishTransaction, BusTypes
    <2> QED
      BY <1>1, <1>2, <1>7, <2>3 DEF FinishTransaction, BusTypes
  <1>8. CASE CsInterrupt
    BY <1>1, <1>8 DEF CsInterrupt, BusTypes
  <1>9. CASE HostReceives
    BY <1>1, <1>2, <1>9 DEF HostReceives, HostBegins, BusTypes
  <1>10. CASE \E c \in RxClasses : HostSends(c)
    <2>1. PICK c \in RxClasses : HostSends(c)
      BY <1>10
    <2>2. c \in Prio
      BY SpiSlaveAssumption
    <2>3. hostSent[c] \in 1..MaxId /\ Succ(hostSent[c]) \in 1..MaxId
      BY <1>1, <2>2, SuccType DEF BusTypes
    <2>4. [class |-> c, id |-> hostSent[c]] \in Data
      BY <2>2, <2>3 DEF Data, Packet
    <2> QED
      BY <1>1, <2>1, <2>2, <2>3, <2>4 DEF HostSends, HostBegins, BusTypes
  <1>11. CASE HostEnds
    <2>1. hostGot' \in [Prio -> 1..MaxId]
      <3>1. CASE loaded.tx \in Packet
        <4>1. Succ(loaded.tx.id) \in 1..MaxId
          BY <3>1, SuccType DEF Packet
        <4> QED
          BY <1>1, <1>11, <3>1, <4>1 DEF HostEnds, BusTypes
      <3>2. CASE loaded.tx \notin Packet
        BY <1>1, <1>11, <3>2 DEF HostEnds, BusTypes
      <3> QED
        BY <3>1, <3>2
    <2> QED
      BY <1>1, <1>11, <2>1 DEF HostEnds, BusTypes
  <1> QED
    BY <1>3, <1>4, <1>5, <1>6, <1>7, <1>8, <1>9, <1>10, <1>11, BusSteps DEF Interrupts, Host

\* The number of buffers in use never falls below zero: the two places that
\* free buffers hold them.
LEMMA NextTypeOK == Inv /\ Next => TypeOK'
  <1> SUFFICES ASSUME Inv, Next PROVE TypeOK'
    OBVIOUS
  <1>1. TypeOK /\ Held /\ BlocksConserved
    BY DEF Inv
  <1>2. /\ Total(spi_tx_queue) \in Nat /\ Total(spi_rx_queue) \in Nat
        /\ InDriver \in Nat /\ HeldByChain \in Nat /\ HeldByCurrent \in Nat
    <2>1. Total(spi_tx_queue) \in Nat /\ Total(spi_rx_queue) \in Nat
      BY <1>1, TotalType DEF TypeOK, TxTypes, RxTypes
    <2>2. Len(queued) \in Nat /\ Len(done) \in Nat
      BY <1>1 DEF TypeOK, BusTypes
    <2>3. InDriver \in Nat
      BY <2>2 DEF InDriver, One
    <2> QED
      BY <2>1, <2>3 DEF HeldByChain, HeldByCurrent
  <1>3. blocks' \in {blocks, blocks + 1} \/ FreeBuffers \/ ReadDone
    <2>1. Writer => blocks' \in {blocks, blocks + 1}
      BY DEF Writer, StartupEvent, Write, StartWrite, PushTx, GiveTx, SetDataReady
    <2>2. Chain => blocks' \in {blocks, blocks + 1} \/ FreeBuffers
      BY DEF Chain, TakeTx, PopTx, ClearDataReady, DummyTx, AttachRx, Submit, GetTransResult,
             PushRx, GiveRx, FreeTrans
    <2>3. Reader => blocks' = blocks \/ ReadDone
      BY DEF Reader, TakeRx, PopRx
    <2>4. Interrupts => blocks' = blocks
      BY DEF Interrupts, LoadTransaction, FinishTransaction, CsInterrupt
    <2>5. Host => blocks' = blocks
      BY DEF Host, HostReceives, HostSends, HostBegins, HostEnds
    <2>6. AssertFails => blocks' = blocks
      BY DEF AssertFails
    <2> QED
      BY <2>1, <2>2, <2>3, <2>4, <2>5, <2>6 DEF Next
  <1>4. blocks' \in Nat
    <2>1. blocks \in Nat
      BY <1>1 DEF TypeOK
    <2>2. CASE FreeBuffers
      <3>1. cpc = "free" /\ HeldByCurrent = 2
        BY <1>1, <2>2 DEF FreeBuffers, Held, HeldByCurrent
      <3>2. blocks >= 2
        BY <1>1, <1>2, <2>1, <3>1 DEF BlocksConserved, One
      <3> QED
        BY <2>1, <2>2, <3>2 DEF FreeBuffers
    <2>3. CASE ReadDone
      <3>1. blocks >= 1
        BY <1>1, <1>2, <2>1, <2>3 DEF ReadDone, BlocksConserved, One
      <3> QED
        BY <2>1, <2>3, <3>1 DEF ReadDone
    <2> QED
      BY <1>3, <2>1, <2>2, <2>3
  <1>5. dataready' \in BOOLEAN /\ crashed' \in BOOLEAN
    <2>1. Writer => dataready' \in {dataready, TRUE} /\ crashed' = crashed
      BY DEF Writer, StartupEvent, Write, StartWrite, PushTx, GiveTx, SetDataReady
    <2>2. Chain => dataready' \in {dataready, FALSE} /\ crashed' = crashed
      BY DEF Chain, TakeTx, PopTx, ClearDataReady, DummyTx, AttachRx, Submit, GetTransResult,
             FreeBuffers, PushRx, GiveRx, FreeTrans
    <2>3. Reader => dataready' = dataready /\ crashed' = crashed
      BY DEF Reader, TakeRx, PopRx, ReadDone
    <2>4. Interrupts => dataready' = dataready /\ crashed' = crashed
      BY DEF Interrupts, LoadTransaction, FinishTransaction, CsInterrupt
    <2>5. Host => dataready' = dataready /\ crashed' = crashed
      BY DEF Host, HostReceives, HostSends, HostBegins, HostEnds
    <2>6. AssertFails => dataready' = dataready /\ crashed' = TRUE
      BY DEF AssertFails
    <2>7. dataready \in BOOLEAN /\ crashed \in BOOLEAN
      BY <1>1 DEF TypeOK
    <2> QED
      BY <2>1, <2>2, <2>3, <2>4, <2>5, <2>6, <2>7 DEF Next
  <1> QED
    BY <1>4, <1>5, NextTxTypes, NextRxTypes, NextWriterTypes, NextChainTypes, NextReaderTypes,
       NextBusTypes DEF TypeOK

\* Every step keeps the buffers where Held says.
LEMMA NextHeld == Inv /\ Next => Held'
  <1> SUFFICES ASSUME Inv, Next PROVE Held'
    OBVIOUS
  <1>1. TypeOK /\ Held /\ AtMostOne
    BY DEF Inv
  <1>2. (wpc = "push" => wbuf \in Packet /\ wbuf.class # PRIO_Q_SERIAL)'
    <2>1. ASSUME NEW c \in {PRIO_Q_BT, PRIO_Q_OTHERS}, StartWrite(c)
          PROVE  wbuf' \in Packet /\ wbuf'.class # PRIO_Q_SERIAL
      <3>1. written[c] \in 1..MaxId
        BY <1>1 DEF TypeOK, WriterTypes
      <3> QED
        BY <2>1, <3>1 DEF StartWrite, Packet
    <2>2. Writer => wpc' # "push" \/ \E c \in {PRIO_Q_BT, PRIO_Q_OTHERS} : StartWrite(c)
      BY SpiSlaveAssumption DEF Writer, StartupEvent, Write, PushTx, GiveTx, SetDataReady
    <2>3. Submit => wbuf' = wbuf /\ (wpc' = "push" => wpc = "push")
      BY DEF Submit
    <2> QED
      BY <1>1, <2>1, <2>2, <2>3, WriterSteps DEF Held, writerVars
  <1>3. /\ (cpc \in {"boot", "await"} => cur = None)'
        /\ (cpc \in {"free", "pushRx", "giveRx", "freeTrans"} => cur # None)'
        /\ (cpc = "pushRx" => cur.rx \in Packet)'
    <2> USE DEF Held
    <2>1. CASE UNCHANGED chainVars
      BY <1>1, <2>1 DEF chainVars
    <2>2. CASE SetDataReady
      BY <1>1, <2>2 DEF SetDataReady
    <2>3. CASE TakeTx
      BY <1>1, <2>3 DEF TakeTx
    <2>4. CASE PopTx
      BY <1>1, <2>4 DEF PopTx
    <2>5. CASE ClearDataReady
      BY <1>1, <2>5 DEF ClearDataReady
    <2>6. CASE DummyTx
      BY <1>1, <2>6 DEF DummyTx, Returned
    <2>7. CASE AttachRx
      BY <1>1, <2>7 DEF AttachRx
    <2>8. CASE Submit
      BY <1>1, <2>8 DEF Submit, Returned
    <2>9. CASE GetTransResult
      BY <1>1, <2>9 DEF GetTransResult
    <2>10. CASE FreeBuffers
      <3>1. cur \in Transaction
        BY <1>1, <2>10 DEF FreeBuffers, TypeOK, ChainTypes
      <3>2. cur.rx \in Packet \/ cur.rx = NoData
        BY <3>1 DEF Transaction, Data
      <3> QED
        BY <1>1, <2>10, <3>2 DEF FreeBuffers
    <2>11. CASE PushRx
      BY <1>1, <2>11 DEF PushRx
    <2>12. CASE GiveRx
      BY <1>1, <2>12 DEF GiveRx
    <2>13. CASE FreeTrans
      BY <1>1, <2>13 DEF FreeTrans
    <2> QED
      BY <2>1, <2>2, <2>3, <2>4, <2>5, <2>6, <2>7, <2>8, <2>9, <2>10, <2>11, <2>12, <2>13,
         ChainSteps DEF Chain
  <1>4. (rpc = "process" => rbuf \in Packet)'
    <2>1. PopRx => rpc' # "process" \/ rbuf' \in Packet
      BY <1>1, PopTotal DEF PopRx, TypeOK, RxTypes, ReaderTypes
    <2>2. TakeRx \/ ReadDone => rpc' # "process"
      BY DEF TakeRx, ReadDone
    <2> QED
      BY <1>1, <2>1, <2>2, ReaderSteps DEF Held, Reader, readerVars
  <1>5. (spi_tx_queue[PRIO_Q_SERIAL] = <<>>)'
    <2>1. TxTypes /\ ChainTypes /\ spi_tx_queue[PRIO_Q_SERIAL] = <<>>
      BY <1>1 DEF Held, TypeOK
    <2>2. CASE UNCHANGED txVars
      BY <2>1, <2>2 DEF txVars
    <2>3. CASE PushTx
      <3>1. wbuf \in Packet /\ wbuf.class \in Prio /\ wbuf.class # PRIO_Q_SERIAL
        BY <1>1, <2>3 DEF PushTx, Held, Packet
      <3> QED
        BY <2>1, <2>3, <3>1 DEF PushTx, TxTypes
    <2>4. CASE GiveTx \/ TakeTx
      BY <2>1, <2>4 DEF GiveTx, TakeTx
    <2>5. CASE PopTx
      BY <2>1, <2>5 DEF PopTx, TxTypes, ChainTypes
    <2> QED
      BY <2>2, <2>3, <2>4, <2>5, TxSteps
  <1> QED
    BY <1>2, <1>3, <1>4, <1>5 DEF Held

\* The transactions with the driver: one more when the chain submits one, one
\* less when the post-process task gets its result.
LEMMA DriverSteps ==
  Inv /\ Next => /\ InDriver \in Nat
                 /\ \/ Submit /\ InDriver' = InDriver + 1
                    \/ GetTransResult /\ InDriver' = InDriver - 1
                    \/ ~Submit /\ ~GetTransResult /\ InDriver' = InDriver
  <1> SUFFICES ASSUME Inv, Next
               PROVE  /\ InDriver \in Nat
                      /\ \/ Submit /\ InDriver' = InDriver + 1
                         \/ GetTransResult /\ InDriver' = InDriver - 1
                         \/ ~Submit /\ ~GetTransResult /\ InDriver' = InDriver
    OBVIOUS
  <1>1. BusTypes /\ ChainTypes /\ Lines
    BY DEF Inv, TypeOK
  <1>2. Len(queued) \in Nat /\ Len(done) \in Nat
    BY <1>1 DEF BusTypes
  <1>3. InDriver \in Nat
    BY <1>2 DEF InDriver, One
  <1>4. CASE Submit
    <2>1. Len(queued') = Len(queued) + 1
      BY <1>1, <1>4 DEF Submit, BusTypes
    <2>2. loaded' = loaded /\ done' = done
      BY <1>4 DEF Submit
    <2> QED
      BY <1>2, <1>3, <1>4, <2>1, <2>2 DEF InDriver, One
  <1>5. CASE GetTransResult
    <2>1. Len(done') = Len(done) - 1
      BY <1>1, <1>5 DEF GetTransResult, BusTypes
    <2>2. loaded' = loaded /\ queued' = queued
      BY <1>5 DEF GetTransResult
    <2> QED
      BY <1>2, <1>3, <1>5, <2>1, <2>2 DEF InDriver, One
  <1>6. CASE LoadTransaction
    <2>1. Len(queued') = Len(queued) - 1 /\ Head(queued) \in Transaction
      BY <1>1, <1>6 DEF LoadTransaction, BusTypes
    <2>2. loaded = None /\ loaded' # None /\ done' = done
      BY <1>6, <2>1, NoneIsNone DEF LoadTransaction
    <2>3. InDriver' = InDriver
      BY <1>2, <2>1, <2>2 DEF InDriver, One
    <2>4. ~Submit /\ ~GetTransResult
      BY <1>2, <1>6, <2>1, <2>2 DEF LoadTransaction, Submit, GetTransResult
    <2> QED
      BY <1>3, <2>3, <2>4
  <1>7. CASE FinishTransaction
    <2>1. Len(done') = Len(done) + 1
      <3>1. loaded \in Transaction /\ mosi \in Data
        BY <1>1, <1>7 DEF FinishTransaction, BusTypes, Lines
      <3>2. [loaded EXCEPT !.rx = mosi] \in Transaction
        BY <3>1 DEF Transaction
      <3> QED
        BY <1>1, <1>7, <3>2 DEF FinishTransaction, BusTypes
    <2>2. loaded # None /\ loaded' = None /\ queued' = queued
      BY <1>1, <1>7 DEF FinishTransaction, Lines
    <2>3. InDriver' = InDriver
      BY <1>2, <2>1, <2>2 DEF InDriver, One
    <2>4. ~Submit /\ ~GetTransResult
      BY <2>2 DEF Submit, GetTransResult
    <2> QED
      BY <1>3, <2>3, <2>4
  <1>8. CASE ~Submit /\ ~GetTransResult /\ ~LoadTransaction /\ ~FinishTransaction
    <2>1. UNCHANGED <<queued, loaded, done>>
      BY <1>8, BusSteps DEF Interrupts, CsInterrupt, Host, HostReceives, HostSends, HostBegins,
                            HostEnds, busVars
    <2> QED
      BY <1>3, <1>8, <2>1 DEF InDriver
  <1> QED
    BY <1>4, <1>5, <1>6, <1>7, <1>8

\* The chain queues a transaction only when the driver has none.
LEMMA NextAtMostOne == Inv /\ Next => AtMostOne'
  <1> SUFFICES ASSUME Inv, Next PROVE AtMostOne'
    OBVIOUS
  <1>1. AtMostOne /\ ChainTypes /\ InDriver \in Nat
    BY DriverSteps DEF Inv, TypeOK
  <1> DEFINE Before == {"boot", "take", "pop", "clear", "dummy", "attach", "submit"}
  <1>2. CASE Submit
    <2>1. cpc = "submit" /\ cpc' \notin Before
      BY <1>2 DEF Submit, Returned
    <2>2. InDriver = 0 /\ InDriver' = InDriver + 1
      BY <1>1, <1>2, <2>1, DriverSteps DEF AtMostOne, GetTransResult
    <2> QED
      BY <2>1, <2>2 DEF AtMostOne
  <1>3. CASE GetTransResult
    <2>1. InDriver' = InDriver - 1 /\ InDriver' \in Nat
      <3>1. InDriver' = InDriver - 1
        BY <1>3, DriverSteps DEF GetTransResult, Submit
      <3>2. Len(queued) \in Nat /\ Len(done) \in Nat /\ Len(done) > 0
        BY <1>3 DEF GetTransResult, Inv, TypeOK, BusTypes
      <3>3. InDriver > 0
        BY <3>2 DEF InDriver, One
      <3> QED
        BY <1>1, <3>1, <3>3
    <2> QED
      BY <1>1, <2>1 DEF AtMostOne
  <1>4. CASE ~Submit /\ ~GetTransResult
    <2>1. InDriver' = InDriver
      BY <1>4, DriverSteps
    <2>2. cpc' \in Before => cpc \in Before
      <3>1. Chain => (cpc' \in Before => cpc \in Before)
        BY <1>4 DEF Chain, TakeTx, PopTx, ClearDataReady, DummyTx, AttachRx, FreeBuffers, PushRx,
                    GiveRx, FreeTrans
      <3>2. SetDataReady => (cpc' \in Before => cpc \in Before)
        BY DEF SetDataReady
      <3> QED
        BY <3>1, <3>2, ChainSteps DEF chainVars
    <2> QED
      BY <1>1, <2>1, <2>2 DEF AtMostOne
  <1> QED
    BY <1>2, <1>3, <1>4

\* The lines keep telling of the bus what Lines says.
LEMMA NextLines == Inv /\ Next => Lines'
  <1> SUFFICES ASSUME Inv, Next PROVE Lines'
    OBVIOUS
  <1>1. Lines /\ BusTypes
    BY DEF Inv, TypeOK
  <1>2. CASE UNCHANGED busVars
    BY <1>1, <1>2 DEF Lines, busVars
  <1>3. CASE Submit \/ GetTransResult
    BY <1>1, <1>3 DEF Submit, GetTransResult, Lines
  <1>4. CASE LoadTransaction
    <2>1. Head(queued) \in Transaction
      BY <1>1, <1>4 DEF LoadTransaction, BusTypes
    <2> QED
      BY <1>1, <1>4, <2>1, NoneIsNone DEF LoadTransaction, Lines, BusTypes
  <1>5. CASE FinishTransaction
    BY <1>1, <1>5 DEF FinishTransaction, Lines
  <1>6. CASE CsInterrupt
    BY <1>1, <1>6 DEF CsInterrupt, Lines
  <1>7. CASE HostReceives \/ \E c \in RxClasses : HostSends(c)
    BY <1>1, <1>7 DEF HostReceives, HostSends, HostBegins, Lines, BusTypes
  <1>8. CASE HostEnds
    BY <1>1, <1>8 DEF HostEnds, Lines
  <1> QED
    BY <1>2, <1>3, <1>4, <1>5, <1>6, <1>7, <1>8, BusSteps DEF Interrupts, Host

\* A semaphore is below its maximum whenever it is given: the three queues
\* cannot hold more packets than its maximum.
LEMMA GiveNeverSaturates ==
  ASSUME NEW queue \in [Prio -> Seq(Packet)], NEW size \in Nat,
         \A q \in Prio : Len(queue[q]) <= size,
         NEW sem \in Nat, sem < Total(queue)
  PROVE  Give(sem, size * 3) = sem + 1
  <1>1. \A q \in Prio : Len(queue[q]) \in Nat
    BY TotalType
  <1>2. Total(queue) <= size * 3
    BY <1>1 DEF Total
  <1>3. Total(queue) \in Nat
    BY TotalType
  <1> QED
    BY <1>2, <1>3 DEF Give

\* Every step of the writer and the chain keeps permits and packets of the
\* send queues equal.
LEMMA NextTxPermits ==
  Inv /\ Next =>
    spi_tx_sem' + One(wpc' = "give") + One(cpc' = "pop") = Total(spi_tx_queue')
  <1> SUFFICES ASSUME Inv, Next
               PROVE  spi_tx_sem' + One(wpc' = "give") + One(cpc' = "pop") = Total(spi_tx_queue')
    OBVIOUS
  <1>1. TxTypes /\ ChainTypes /\ Held /\ PopFindsPacket
    BY DEF Inv, TypeOK
  <1>2. spi_tx_sem + One(wpc = "give") + One(cpc = "pop") = Total(spi_tx_queue)
    BY DEF Inv, PermitsMatchPackets
  <1>3. spi_tx_sem \in Nat /\ Total(spi_tx_queue) \in Nat
    BY <1>1, TotalType DEF TxTypes
  <1> USE DEF One
  <1>4. CASE PushTx
    <2>1. /\ wbuf \in Packet /\ wbuf.class \in Prio
          /\ spi_tx_queue' = Sent(spi_tx_queue, wbuf.class, wbuf)
      BY <1>1, <1>4 DEF PushTx, Held, Packet, Sent
    <2>2. Total(spi_tx_queue') = Total(spi_tx_queue) + 1
      BY <1>1, <2>1, PushTotal DEF TxTypes
    <2> QED
      BY <1>2, <1>3, <1>4, <2>2 DEF PushTx, chainVars
  <1>5. CASE GiveTx
    <2>1. spi_tx_sem < Total(spi_tx_queue)
      BY <1>2, <1>3, <1>5 DEF GiveTx
    <2>2. Give(spi_tx_sem, SPI_TX_QUEUE_SIZE * 3) = spi_tx_sem + 1
      BY <1>1, <1>3, <2>1, GiveNeverSaturates, SpiSlaveAssumption DEF TxTypes
    <2> QED
      BY <1>2, <1>3, <1>5, <2>2 DEF GiveTx, chainVars
  <1>6. CASE StartupEvent \/ \E c \in TxClasses : Write(c)
    BY <1>2, <1>6 DEF StartupEvent, Write, StartWrite, txVars, chainVars
  <1>7. CASE SetDataReady
    BY <1>2, <1>7 DEF SetDataReady, txVars
  <1>8. CASE TakeTx
    BY <1>2, <1>3, <1>8 DEF TakeTx, writerVars
  <1>9. CASE PopTx
    <2>1. CASE spi_tx_queue[cprio] # <<>>
      <3>1. cprio \in Prio /\ spi_tx_queue' = Received(spi_tx_queue, cprio)
        BY <1>1, <1>9, <2>1 DEF PopTx, ChainTypes, Received
      <3>2. Total(spi_tx_queue') = Total(spi_tx_queue) - 1
        BY <1>1, <2>1, <3>1, PopTotal DEF TxTypes
      <3> QED
        BY <1>2, <1>3, <1>9, <2>1, <3>2 DEF PopTx, writerVars
    <2>2. CASE spi_tx_queue[cprio] = <<>>
      <3>1. cprio # PRIO_Q_OTHERS
        BY <1>1, <1>9, <2>2 DEF PopTx, PopFindsPacket, ChainTypes
      <3> QED
        BY <1>2, <1>9, <2>2, <3>1 DEF PopTx, writerVars
    <2> QED
      BY <2>1, <2>2
  <1>10. CASE Submit
    BY <1>2, <1>10 DEF Submit, Returned, txVars
  <1>11. CASE Chain /\ ~TakeTx /\ ~PopTx /\ ~Submit
    <2>1. UNCHANGED <<txVars, writerVars>> /\ cpc # "pop" /\ cpc' # "pop"
      BY <1>11 DEF Chain, ClearDataReady, DummyTx, Returned, AttachRx, GetTransResult, FreeBuffers,
                   PushRx, GiveRx, FreeTrans
    <2> QED
      BY <1>2, <2>1 DEF txVars, writerVars
  <1>12. CASE UNCHANGED <<txVars, writerVars, chainVars>>
    BY <1>2, <1>12 DEF txVars, writerVars, chainVars
  <1>13. Writer \/ Chain \/ UNCHANGED <<txVars, writerVars, chainVars>>
    BY TxSteps, WriterSteps, ChainSteps DEF Writer, Chain
  <1> QED
    BY <1>4, <1>5, <1>6, <1>7, <1>8, <1>9, <1>10, <1>11, <1>12, <1>13 DEF Writer

\* Every step of the chain and the reader keeps permits and packets of the
\* receive queues equal.
LEMMA NextRxPermits ==
  Inv /\ Next =>
    spi_rx_sem' + One(cpc' = "giveRx") + One(rpc' = "pop") = Total(spi_rx_queue')
  <1> SUFFICES ASSUME Inv, Next
               PROVE  spi_rx_sem' + One(cpc' = "giveRx") + One(rpc' = "pop") = Total(spi_rx_queue')
    OBVIOUS
  <1>1. RxTypes /\ ReaderTypes /\ Held /\ PopFindsPacket
    BY DEF Inv, TypeOK
  <1>2. spi_rx_sem + One(cpc = "giveRx") + One(rpc = "pop") = Total(spi_rx_queue)
    BY DEF Inv, PermitsMatchPackets
  <1>3. spi_rx_sem \in Nat /\ Total(spi_rx_queue) \in Nat
    BY <1>1, TotalType DEF RxTypes
  <1> USE DEF One
  <1>4. CASE PushRx
    <2>1. /\ cur.rx \in Packet /\ cur.rx.class \in Prio
          /\ spi_rx_queue' = Sent(spi_rx_queue, cur.rx.class, cur.rx)
      BY <1>1, <1>4 DEF PushRx, Held, Packet, Sent
    <2>2. Total(spi_rx_queue') = Total(spi_rx_queue) + 1
      BY <1>1, <2>1, PushTotal DEF RxTypes
    <2> QED
      BY <1>2, <1>3, <1>4, <2>2 DEF PushRx, readerVars
  <1>5. CASE GiveRx
    <2>1. spi_rx_sem < Total(spi_rx_queue)
      BY <1>2, <1>3, <1>5 DEF GiveRx
    <2>2. Give(spi_rx_sem, SPI_RX_QUEUE_SIZE * 3) = spi_rx_sem + 1
      BY <1>1, <1>3, <2>1, GiveNeverSaturates, SpiSlaveAssumption DEF RxTypes
    <2> QED
      BY <1>2, <1>3, <1>5, <2>2 DEF GiveRx, readerVars
  <1>6. CASE Chain /\ ~PushRx /\ ~GiveRx
    <2>1. UNCHANGED <<rxVars, readerVars>> /\ cpc # "giveRx" /\ cpc' # "giveRx"
      BY <1>6 DEF Chain, TakeTx, PopTx, ClearDataReady, DummyTx, Returned, AttachRx, Submit,
                  GetTransResult, FreeBuffers, FreeTrans
    <2> QED
      BY <1>2, <2>1 DEF rxVars, readerVars
  <1>7. CASE SetDataReady
    <2>1. UNCHANGED <<rxVars, readerVars>> /\ (cpc' = "giveRx" <=> cpc = "giveRx")
      BY <1>7 DEF SetDataReady
    <2> QED
      BY <1>2, <2>1 DEF rxVars, readerVars
  <1>8. CASE TakeRx
    BY <1>2, <1>3, <1>8 DEF TakeRx, chainVars
  <1>9. CASE PopRx
    <2>1. CASE spi_rx_queue[rprio] # <<>>
      <3>1. rprio \in Prio /\ spi_rx_queue' = Received(spi_rx_queue, rprio)
        BY <1>1, <1>9, <2>1 DEF PopRx, ReaderTypes, Received
      <3>2. Total(spi_rx_queue') = Total(spi_rx_queue) - 1
        BY <1>1, <2>1, <3>1, PopTotal DEF RxTypes
      <3> QED
        BY <1>2, <1>3, <1>9, <2>1, <3>2 DEF PopRx, chainVars
    <2>2. CASE spi_rx_queue[rprio] = <<>>
      <3>1. rprio # PRIO_Q_OTHERS
        BY <1>1, <1>9, <2>2 DEF PopRx, PopFindsPacket, ReaderTypes
      <3> QED
        BY <1>2, <1>9, <2>2, <3>1 DEF PopRx, chainVars
    <2> QED
      BY <2>1, <2>2
  <1>10. CASE ReadDone
    BY <1>2, <1>10 DEF ReadDone, rxVars, chainVars
  <1>11. CASE UNCHANGED <<rxVars, chainVars, readerVars>>
    BY <1>2, <1>11 DEF rxVars, chainVars, readerVars
  <1>12. Chain \/ SetDataReady \/ Reader \/ UNCHANGED <<rxVars, chainVars, readerVars>>
    BY RxSteps, ChainSteps, ReaderSteps DEF Chain, Reader
  <1> QED
    BY <1>4, <1>5, <1>6, <1>7, <1>8, <1>9, <1>10, <1>11, <1>12 DEF Reader

\* A permit taken finds its packet: the writer only adds packets, a queue that
\* the chain has passed was empty, and the packet of the permit is in one.
LEMMA NextTxFound ==
  Inv /\ Next => (cpc' = "pop" => \E q \in Prio : q >= cprio' /\ spi_tx_queue'[q] # <<>>)
  <1> SUFFICES ASSUME Inv, Next, cpc' = "pop"
               PROVE  \E q \in Prio : q >= cprio' /\ spi_tx_queue'[q] # <<>>
    OBVIOUS
  <1>1. TxTypes /\ ChainTypes /\ Held /\ PopFindsPacket
    BY DEF Inv, TypeOK
  <1>2. CASE TakeTx
    <2>1. spi_tx_sem > 0 /\ spi_tx_queue' = spi_tx_queue /\ cprio' = PRIO_Q_SERIAL
      BY <1>2 DEF TakeTx
    <2>2. spi_tx_sem \in Nat /\ Total(spi_tx_queue) \in Nat
      BY <1>1, TotalType DEF TxTypes
    <2>3. Total(spi_tx_queue) > 0
      BY <2>1, <2>2 DEF Inv, PermitsMatchPackets, One
    <2>4. \E q \in Prio : spi_tx_queue[q] # <<>>
      BY <1>1, <2>3, TotalType DEF TxTypes
    <2> QED
      BY <2>1, <2>4
  <1>3. CASE PopTx
    <2>1. /\ cpc = "pop" /\ spi_tx_queue[cprio] = <<>> /\ cprio # PRIO_Q_OTHERS
          /\ cprio' = cprio + 1 /\ spi_tx_queue' = spi_tx_queue
      BY <1>3 DEF PopTx
    <2>2. PICK q \in Prio : q >= cprio /\ spi_tx_queue[q] # <<>>
      BY <1>1, <2>1 DEF PopFindsPacket
    <2>3. q >= cprio + 1
      BY <1>1, <2>1, <2>2 DEF ChainTypes
    <2> QED
      BY <2>1, <2>2, <2>3
  <1>4. CASE ~TakeTx /\ ~PopTx
    <2>1. cpc = "pop" /\ cprio' = cprio
      <3>1. SetDataReady => cpc = "pop" /\ cprio' = cprio
        BY DEF SetDataReady
      <3>2. Chain => FALSE
        BY <1>4 DEF Chain, ClearDataReady, DummyTx, Returned, AttachRx, Submit, GetTransResult,
                    FreeBuffers, PushRx, GiveRx, FreeTrans
      <3> QED
        BY <3>1, <3>2, ChainSteps DEF chainVars
    <2>2. PICK q \in Prio : q >= cprio /\ spi_tx_queue[q] # <<>>
      BY <1>1, <2>1 DEF PopFindsPacket
    <2>3. spi_tx_queue'[q] # <<>>
      <3>1. CASE PushTx
        <4>1. /\ wbuf \in Packet /\ wbuf.class \in Prio
              /\ spi_tx_queue' = Sent(spi_tx_queue, wbuf.class, wbuf)
          BY <1>1, <3>1 DEF PushTx, Held, Packet, Sent
        <4>2. /\ spi_tx_queue'[wbuf.class] # <<>>
              /\ \A r \in Prio : r # wbuf.class => spi_tx_queue'[r] = spi_tx_queue[r]
          <5>1. spi_tx_queue \in [Prio -> Seq(Packet)]
            BY <1>1 DEF TxTypes
          <5> HIDE DEF Prio
          <5> QED
            BY <4>1, <5>1, PushQueues
        <4> QED
          BY <2>2, <4>2
      <3>2. CASE ~PushTx
        BY <1>4, <2>2, <3>2, TxSteps DEF GiveTx, txVars
      <3> QED
        BY <3>1, <3>2
    <2> QED
      BY <2>1, <2>2, <2>3
  <1> QED
    BY <1>2, <1>3, <1>4

\* The same of the reader, while the chain adds packets.
LEMMA NextRxFound ==
  Inv /\ Next => (rpc' = "pop" => \E q \in Prio : q >= rprio' /\ spi_rx_queue'[q] # <<>>)
  <1> SUFFICES ASSUME Inv, Next, rpc' = "pop"
               PROVE  \E q \in Prio : q >= rprio' /\ spi_rx_queue'[q] # <<>>
    OBVIOUS
  <1>1. RxTypes /\ ReaderTypes /\ Held /\ PopFindsPacket
    BY DEF Inv, TypeOK
  <1>2. CASE TakeRx
    <2>1. spi_rx_sem > 0 /\ spi_rx_queue' = spi_rx_queue /\ rprio' = PRIO_Q_SERIAL
      BY <1>2 DEF TakeRx
    <2>2. spi_rx_sem \in Nat /\ Total(spi_rx_queue) \in Nat
      BY <1>1, TotalType DEF RxTypes
    <2>3. Total(spi_rx_queue) > 0
      BY <2>1, <2>2 DEF Inv, PermitsMatchPackets, One
    <2>4. \E q \in Prio : spi_rx_queue[q] # <<>>
      BY <1>1, <2>3, TotalType DEF RxTypes
    <2> QED
      BY <2>1, <2>4
  <1>3. CASE PopRx
    <2>1. /\ rpc = "pop" /\ spi_rx_queue[rprio] = <<>> /\ rprio # PRIO_Q_OTHERS
          /\ rprio' = rprio + 1 /\ spi_rx_queue' = spi_rx_queue
      BY <1>3 DEF PopRx
    <2>2. PICK q \in Prio : q >= rprio /\ spi_rx_queue[q] # <<>>
      BY <1>1, <2>1 DEF PopFindsPacket
    <2>3. q >= rprio + 1
      BY <1>1, <2>1, <2>2 DEF ReaderTypes
    <2> QED
      BY <2>1, <2>2, <2>3
  <1>4. CASE ~TakeRx /\ ~PopRx
    <2>1. rpc = "pop" /\ rprio' = rprio
      BY <1>4, ReaderSteps DEF Reader, ReadDone, readerVars
    <2>2. PICK q \in Prio : q >= rprio /\ spi_rx_queue[q] # <<>>
      BY <1>1, <2>1 DEF PopFindsPacket
    <2>3. spi_rx_queue'[q] # <<>>
      <3>1. CASE PushRx
        <4>1. /\ cur.rx \in Packet /\ cur.rx.class \in Prio
              /\ spi_rx_queue' = Sent(spi_rx_queue, cur.rx.class, cur.rx)
          BY <1>1, <3>1 DEF PushRx, Held, Packet, Sent
        <4>2. /\ spi_rx_queue'[cur.rx.class] # <<>>
              /\ \A r \in Prio : r # cur.rx.class => spi_rx_queue'[r] = spi_rx_queue[r]
          <5>1. spi_rx_queue \in [Prio -> Seq(Packet)]
            BY <1>1 DEF RxTypes
          <5> HIDE DEF Prio
          <5> QED
            BY <4>1, <5>1, PushQueues
        <4> QED
          BY <2>2, <4>2
      <3>2. CASE ~PushRx
        BY <1>4, <2>2, <3>2, RxSteps DEF GiveRx, rxVars
      <3> QED
        BY <3>1, <3>2
    <2> QED
      BY <2>1, <2>2, <2>3
  <1> QED
    BY <1>2, <1>3, <1>4

\* No step loses a buffer or frees one twice.
LEMMA NextBlocksConserved == Inv /\ Next => BlocksConserved'
  <1> SUFFICES ASSUME Inv, Next PROVE BlocksConserved'
    OBVIOUS
  <1>1. /\ TxTypes /\ RxTypes /\ ChainTypes /\ ReaderTypes /\ Held
        /\ blocks \in Nat /\ BlocksConserved
    BY DEF Inv, TypeOK
  <1>2. Total(spi_tx_queue) \in Nat /\ Total(spi_rx_queue) \in Nat /\ InDriver \in Nat
    BY <1>1, TotalType, DriverSteps DEF TxTypes, RxTypes
  <1>3. ~Submit /\ ~GetTransResult => InDriver' = InDriver
    BY DriverSteps
  <1>4. CASE Writer
    <2>1. /\ InDriver' = InDriver /\ UNCHANGED <<spi_rx_queue, rpc, cur>>
          /\ HeldByChain' = HeldByChain /\ HeldByCurrent' = HeldByCurrent
      <3>1. /\ UNCHANGED <<queued, loaded, done, spi_rx_queue, rpc, cur>>
            /\ cpc' = cpc \/ (cpc = "boot" /\ cpc' = "take")
        BY <1>4 DEF Writer, StartupEvent, Write, StartWrite, PushTx, GiveTx, SetDataReady, busVars,
                    rxVars, readerVars, chainVars
      <3> QED
        BY <3>1 DEF InDriver, HeldByChain, HeldByCurrent
    <2>2. CASE PushTx
      <3>1. /\ wbuf \in Packet /\ wbuf.class \in Prio
            /\ spi_tx_queue' = Sent(spi_tx_queue, wbuf.class, wbuf)
        BY <1>1, <2>2 DEF PushTx, Held, Packet, Sent
      <3>2. Total(spi_tx_queue') = Total(spi_tx_queue) + 1
        BY <1>1, <3>1, PushTotal DEF TxTypes
      <3>3. wpc = "push" /\ wpc' # "push" /\ blocks' = blocks
        BY <2>2 DEF PushTx
      <3> QED
        BY <1>1, <1>2, <2>1, <3>2, <3>3 DEF BlocksConserved, One
    <2>3. CASE GiveTx \/ SetDataReady
      <3>1. wpc # "push" /\ wpc' # "push" /\ blocks' = blocks /\ spi_tx_queue' = spi_tx_queue
        BY <2>3 DEF GiveTx, SetDataReady, txVars
      <3>2. One(wpc = "push")' = One(wpc = "push")
        BY <3>1 DEF One
      <3> QED
        BY <1>1, <2>1, <3>1, <3>2 DEF BlocksConserved
    <2>4. CASE StartupEvent \/ \E c \in TxClasses : Write(c)
      <3>1. wpc # "push" /\ wpc' = "push" /\ blocks' = blocks + 1 /\ spi_tx_queue' = spi_tx_queue
        BY <2>4 DEF StartupEvent, Write, StartWrite, txVars
      <3>2. One(wpc = "push") = 0 /\ One(wpc = "push")' = 1
        BY <3>1 DEF One
      <3>3. HeldByChain \in Nat /\ HeldByCurrent \in Nat /\ One(rpc = "process") \in Nat
        BY DEF HeldByChain, HeldByCurrent, One
      <3>4. One(rpc = "process")' = One(rpc = "process")
        BY <2>1
      <3> QED
        BY <1>1, <1>2, <2>1, <3>1, <3>2, <3>3, <3>4 DEF BlocksConserved
    <2> QED
      BY <1>4, <2>2, <2>3, <2>4 DEF Writer
  <1> USE DEF One, HeldByChain, HeldByCurrent
  <1>5. CASE Chain /\ ~PopTx /\ ~PushRx
    <2>1. UNCHANGED <<spi_tx_queue, spi_rx_queue, rpc>> /\ (wpc' = "push" <=> wpc = "push")
      BY <1>5 DEF Chain, TakeTx, ClearDataReady, DummyTx, AttachRx, Submit, GetTransResult,
                  FreeBuffers, GiveRx, FreeTrans, txVars, rxVars, readerVars, writerVars
    <2>2. CASE TakeTx \/ ClearDataReady
      <3>1. ~Submit /\ ~GetTransResult
        BY <2>2 DEF TakeTx, ClearDataReady, Submit, GetTransResult
      <3> QED
        BY <1>1, <1>2, <1>3, <2>1, <2>2, <3>1 DEF BlocksConserved, TakeTx, ClearDataReady
    <2>3. CASE DummyTx
      <3>1. ~Submit /\ ~GetTransResult
        BY <2>3 DEF DummyTx, Submit, GetTransResult
      <3> QED
        BY <1>1, <1>2, <1>3, <2>1, <2>3, <3>1 DEF BlocksConserved, DummyTx, Returned
    <2>4. CASE AttachRx
      <3>1. ~Submit /\ ~GetTransResult
        BY <2>4 DEF AttachRx, Submit, GetTransResult
      <3> QED
        BY <1>1, <1>2, <1>3, <2>1, <2>4, <3>1 DEF BlocksConserved, AttachRx
    <2>5. CASE Submit
      <3>1. InDriver' = InDriver + 1
        BY <2>5, DriverSteps DEF Submit, GetTransResult
      <3> QED
        BY <1>1, <1>2, <2>1, <2>5, <3>1 DEF BlocksConserved, Submit, Returned
    <2>6. CASE GetTransResult
      <3>1. InDriver' = InDriver - 1
        BY <2>6, DriverSteps DEF Submit, GetTransResult
      <3>2. Head(done) \in Transaction /\ cur = None
        BY <1>1, <2>6 DEF GetTransResult, Held, Inv, TypeOK, BusTypes
      <3>3. cur' # None
        BY <2>6, <3>2, NoneIsNone DEF GetTransResult
      <3> QED
        BY <1>1, <1>2, <2>1, <2>6, <3>1, <3>2, <3>3 DEF BlocksConserved, GetTransResult
    <2>7. CASE FreeBuffers
      <3>1. ~Submit /\ ~GetTransResult /\ cur # None
        BY <1>1, <2>7 DEF FreeBuffers, Submit, GetTransResult, Held
      <3> QED
        BY <1>1, <1>2, <1>3, <2>1, <2>7, <3>1 DEF BlocksConserved, FreeBuffers
    <2>8. CASE GiveRx \/ FreeTrans
      <3>1. ~Submit /\ ~GetTransResult /\ cur # None
        BY <1>1, <2>8 DEF GiveRx, FreeTrans, Submit, GetTransResult, Held
      <3> QED
        BY <1>1, <1>2, <1>3, <2>1, <2>8, <3>1 DEF BlocksConserved, GiveRx, FreeTrans
    <2> QED
      BY <1>5, <2>2, <2>3, <2>4, <2>5, <2>6, <2>7, <2>8 DEF Chain
  <1>6. CASE PopTx
    <2>1. /\ InDriver' = InDriver /\ HeldByCurrent' = HeldByCurrent
          /\ UNCHANGED <<spi_rx_queue, rpc, wpc, blocks>>
      <3>1. ~Submit /\ ~GetTransResult
        BY <1>6 DEF PopTx, Submit, GetTransResult
      <3> QED
        BY <1>3, <1>6, <3>1 DEF PopTx, rxVars, readerVars, writerVars
    <2>2. CASE spi_tx_queue[cprio] # <<>>
      <3>1. cprio \in Prio /\ spi_tx_queue' = Received(spi_tx_queue, cprio)
        BY <1>1, <1>6, <2>2 DEF PopTx, ChainTypes, Received
      <3>2. Total(spi_tx_queue') = Total(spi_tx_queue) - 1
        BY <1>1, <2>2, <3>1, PopTotal DEF TxTypes
      <3>3. HeldByChain = 0 /\ HeldByChain' = 1
        BY <1>6, <2>2 DEF PopTx
      <3> QED
        BY <1>1, <1>2, <2>1, <3>2, <3>3 DEF BlocksConserved
    <2>3. CASE spi_tx_queue[cprio] = <<>>
      <3>1. HeldByChain' = HeldByChain /\ spi_tx_queue' = spi_tx_queue
        BY <1>6, <2>3 DEF PopTx
      <3> QED
        BY <1>1, <1>2, <2>1, <3>1 DEF BlocksConserved
    <2> QED
      BY <2>2, <2>3
  <1>7. CASE PushRx
    <2>1. /\ InDriver' = InDriver /\ HeldByChain' = HeldByChain
          /\ UNCHANGED <<spi_tx_queue, rpc, wpc, blocks>>
      <3>1. ~Submit /\ ~GetTransResult
        BY <1>7 DEF PushRx, Submit, GetTransResult
      <3> QED
        BY <1>3, <1>7, <3>1 DEF PushRx, txVars, readerVars, writerVars
    <2>2. /\ cur.rx \in Packet /\ cur.rx.class \in Prio
          /\ spi_rx_queue' = Sent(spi_rx_queue, cur.rx.class, cur.rx)
      BY <1>1, <1>7 DEF PushRx, Held, Packet, Sent
    <2>3. Total(spi_rx_queue') = Total(spi_rx_queue) + 1
      BY <1>1, <2>2, PushTotal DEF RxTypes
    <2>4. HeldByCurrent = 1 /\ HeldByCurrent' = 0
      BY <1>1, <1>7 DEF PushRx, Held
    <2> QED
      BY <1>1, <1>2, <2>1, <2>3, <2>4 DEF BlocksConserved
  <1>8. CASE Reader
    <2>1. /\ InDriver' = InDriver /\ HeldByChain' = HeldByChain /\ HeldByCurrent' = HeldByCurrent
          /\ UNCHANGED <<spi_tx_queue, wpc>>
      <3>1. UNCHANGED <<queued, loaded, done, cpc, cur, spi_tx_queue, wpc>>
        BY <1>8 DEF Reader, TakeRx, PopRx, ReadDone, busVars, chainVars, txVars, writerVars
      <3> QED
        BY <3>1 DEF InDriver
    <2>2. CASE TakeRx
      BY <1>1, <1>2, <2>1, <2>2 DEF BlocksConserved, TakeRx
    <2>3. CASE PopRx
      <3>1. CASE spi_rx_queue[rprio] # <<>>
        <4>1. rprio \in Prio /\ spi_rx_queue' = Received(spi_rx_queue, rprio)
          BY <1>1, <2>3, <3>1 DEF PopRx, ReaderTypes, Received
        <4>2. Total(spi_rx_queue') = Total(spi_rx_queue) - 1
          BY <1>1, <3>1, <4>1, PopTotal DEF RxTypes
        <4>3. rpc # "process" /\ rpc' = "process" /\ blocks' = blocks
          BY <2>3, <3>1 DEF PopRx
        <4> QED
          BY <1>1, <1>2, <2>1, <4>2, <4>3 DEF BlocksConserved
      <3>2. CASE spi_rx_queue[rprio] = <<>>
        <4>1. rpc # "process" /\ rpc' # "process" /\ UNCHANGED <<blocks, spi_rx_queue>>
          BY <2>3, <3>2 DEF PopRx
        <4> QED
          BY <1>1, <1>2, <2>1, <4>1 DEF BlocksConserved
      <3> QED
        BY <3>1, <3>2
    <2>4. CASE ReadDone
      <3>1. rpc = "process" /\ rpc' # "process" /\ blocks' = blocks - 1
            /\ spi_rx_queue' = spi_rx_queue
        BY <2>4 DEF ReadDone, rxVars
      <3> QED
        BY <1>1, <1>2, <2>1, <3>1 DEF BlocksConserved
    <2> QED
      BY <1>8, <2>2, <2>3, <2>4 DEF Reader
  <1>9. CASE Interrupts \/ Host \/ AssertFails
    <2>1. UNCHANGED <<txVars, rxVars, writerVars, chainVars, readerVars, blocks>>
      BY <1>9 DEF Interrupts, LoadTransaction, FinishTransaction, CsInterrupt, Host, HostReceives,
                  HostSends, HostBegins, HostEnds, AssertFails
    <2>2. InDriver' = InDriver
      <3>1. Submit => wpc # wpc' \/ cpc # cpc'
        BY DEF Submit, Returned
      <3>2. GetTransResult => cpc # cpc'
        BY DEF GetTransResult
      <3> QED
        BY <1>3, <2>1, <3>1, <3>2 DEF writerVars, chainVars
    <2> QED
      BY <1>1, <2>1, <2>2 DEF BlocksConserved, txVars, rxVars, writerVars, chainVars, readerVars
  <1> QED
    BY <1>4, <1>5, <1>6, <1>7, <1>8, <1>9 DEF Next

-----------------------------------------------------------------------------
(* The theorems *)

\* The invariant holds before the first task runs.
LEMMA InitInv == Init => Inv
  <1> SUFFICES ASSUME Init PROVE Inv
    OBVIOUS
  <1> USE SpiSlaveAssumption DEF Init
  <1>1. NoData \in Data /\ 1 \in 1..MaxId
    BY DEF Data
  <1>2. TxTypes /\ RxTypes
    BY DEF TxTypes, RxTypes
  <1>3. WriterTypes /\ ChainTypes /\ ReaderTypes
    BY <1>1 DEF WriterTypes, ChainTypes, ReaderTypes, Pc
  <1>4. BusTypes
    BY <1>1 DEF BusTypes
  <1>5. TypeOK
    BY <1>2, <1>3, <1>4 DEF TypeOK
  <1>6. Held /\ Lines
    BY DEF Held, Lines
  <1>7. InDriver = 0 /\ Total(spi_tx_queue) = 0 /\ Total(spi_rx_queue) = 0
    BY DEF InDriver, One, Total
  <1>8. AtMostOne
    BY <1>7 DEF AtMostOne
  <1>9. PermitsMatchPackets /\ PopFindsPacket
    BY <1>7 DEF PermitsMatchPackets, PopFindsPacket, One
  <1>10. BlocksConserved
    BY <1>7 DEF BlocksConserved, One, HeldByChain, HeldByCurrent
  <1> QED
    BY <1>5, <1>6, <1>8, <1>9, <1>10 DEF Inv

\* A step that changes nothing keeps it.
LEMMA StutterInv == Inv /\ UNCHANGED vars => Inv'
  <1> SUFFICES ASSUME Inv, UNCHANGED vars PROVE Inv'
    OBVIOUS
  <1> USE DEF Inv, vars, txVars, rxVars, writerVars, chainVars, readerVars, busVars
  <1>1. TypeOK'
    BY DEF TypeOK, TxTypes, RxTypes, WriterTypes, ChainTypes, ReaderTypes, BusTypes
  <1>2. Held' /\ Lines'
    BY DEF Held, Lines
  <1>3. AtMostOne' /\ BlocksConserved'
    BY DEF AtMostOne, BlocksConserved, InDriver, HeldByChain, HeldByCurrent
  <1>4. PermitsMatchPackets' /\ PopFindsPacket'
    BY DEF PermitsMatchPackets, PopFindsPacket
  <1> QED
    BY <1>1, <1>2, <1>3, <1>4

\* The invariant is inductive.
LEMMA Invariance == Spec => []Inv
  <1>1. Inv /\ Next => Inv'
    BY NextTypeOK, NextHeld, NextAtMostOne, NextLines, NextTxPermits, NextRxPermits, NextTxFound,
       NextRxFound, NextBlocksConserved DEF Inv, PermitsMatchPackets, PopFindsPacket
  <1>2. Inv /\ [Next]_vars => Inv'
    BY <1>1, StutterInv
  <1> QED
    BY <1>2, InitInv, PTL DEF Spec

\* Every variable keeps its type and every queue its bound.
THEOREM TypeCorrect == Spec => []TypeOK
  <1>1. Inv => TypeOK
    BY DEF Inv
  <1> QED
    BY <1>1, Invariance, PTL

\* No packet waits without a permit in spi_tx_sem or spi_rx_sem, and no permit
\* stands for nothing, although each is changed apart from its queues.
THEOREM PermitsCorrect == Spec => []PermitsMatchPackets
  <1>1. Inv => PermitsMatchPackets
    BY DEF Inv
  <1> QED
    BY <1>1, Invariance, PTL

\* get_next_tx_buffer() and esp_spi_read() find a packet once they have taken
\* a permit, although they look at one queue after the other.
THEOREM PermitsFindPackets == Spec => []PopFindsPacket
  <1>1. Inv => PopFindsPacket
    BY DEF Inv
  <1> QED
    BY <1>1, Invariance, PTL

\* No buffer leaks and none is freed twice.
THEOREM NoLeak == Spec => []BlocksConserved
  <1>1. Inv => BlocksConserved
    BY DEF Inv
  <1> QED
    BY <1>1, Invariance, PTL

\* The host never clocks a transaction that the slave has no buffers for.
THEOREM HandshakeCorrect == Spec => []HandshakeMeansLoaded
  <1>1. Inv => HandshakeMeansLoaded
    BY DEF Inv, TypeOK, BusTypes, Lines, HandshakeMeansLoaded
  <1> QED
    BY <1>1, Invariance, PTL

-----------------------------------------------------------------------------
(* What a large enough pool gives *)

\* The most buffers in use while the writer or the chain asks for one.
LEMMA Limit ==
  Inv /\ (wpc # "push" \/ cpc \in {"dummy", "attach"})
     => blocks <= 2 * SPI_TX_QUEUE_SIZE + 3 * SPI_RX_QUEUE_SIZE + 5
  <1> SUFFICES ASSUME Inv, wpc # "push" \/ cpc \in {"dummy", "attach"}
               PROVE  blocks <= 2 * SPI_TX_QUEUE_SIZE + 3 * SPI_RX_QUEUE_SIZE + 5
    OBVIOUS
  <1>1. TypeOK /\ Held /\ AtMostOne /\ BlocksConserved
    BY DEF Inv
  <1>2. SPI_TX_QUEUE_SIZE \in Nat /\ SPI_RX_QUEUE_SIZE \in Nat /\ blocks \in Nat
    BY <1>1, SpiSlaveAssumption DEF TypeOK
  <1>3. Total(spi_tx_queue) \in Nat /\ Total(spi_tx_queue) <= 2 * SPI_TX_QUEUE_SIZE
    <2> DEFINE bt     == Len(spi_tx_queue[PRIO_Q_BT])
               others == Len(spi_tx_queue[PRIO_Q_OTHERS])
    <2>1. \A q \in Prio : Len(spi_tx_queue[q]) \in Nat /\ Len(spi_tx_queue[q]) <= SPI_TX_QUEUE_SIZE
      BY <1>1, TotalType DEF TypeOK, TxTypes
    <2>2. bt \in Nat /\ bt <= SPI_TX_QUEUE_SIZE /\ others \in Nat /\ others <= SPI_TX_QUEUE_SIZE
      BY <2>1
    <2>3. Len(spi_tx_queue[PRIO_Q_SERIAL]) = 0
      BY <1>1 DEF Held
    <2>4. Total(spi_tx_queue) = bt + others
      BY <2>2, <2>3 DEF Total
    <2> HIDE DEF bt, others
    <2> QED
      BY <1>2, <2>2, <2>4
  <1>4. Total(spi_rx_queue) \in Nat /\ Total(spi_rx_queue) <= 3 * SPI_RX_QUEUE_SIZE
    <2> DEFINE serial == Len(spi_rx_queue[PRIO_Q_SERIAL])
               bt     == Len(spi_rx_queue[PRIO_Q_BT])
               others == Len(spi_rx_queue[PRIO_Q_OTHERS])
    <2>1. \A q \in Prio : Len(spi_rx_queue[q]) \in Nat /\ Len(spi_rx_queue[q]) <= SPI_RX_QUEUE_SIZE
      BY <1>1, TotalType DEF TypeOK, RxTypes
    <2>2. /\ serial \in Nat /\ bt \in Nat /\ others \in Nat
          /\ serial <= SPI_RX_QUEUE_SIZE /\ bt <= SPI_RX_QUEUE_SIZE /\ others <= SPI_RX_QUEUE_SIZE
      BY <2>1
    <2>3. Total(spi_rx_queue) = serial + bt + others
      BY DEF Total
    <2> HIDE DEF serial, bt, others
    <2> QED
      BY <1>2, <2>2, <2>3
  <1>5. InDriver \in Nat
    <2>1. Len(queued) \in Nat /\ Len(done) \in Nat
      BY <1>1 DEF TypeOK, BusTypes
    <2> QED
      BY <2>1 DEF InDriver, One
  <1>6. HeldByChain + 2 * InDriver + HeldByCurrent <= IF cpc \in {"dummy", "attach"} THEN 3 ELSE 4
    BY <1>1, <1>5 DEF AtMostOne, Held, HeldByChain, HeldByCurrent
  <1>7. /\ HeldByChain \in Nat /\ HeldByCurrent \in Nat
        /\ One(wpc = "push") \in 0..1 /\ One(rpc = "process") \in 0..1
        /\ wpc # "push" => One(wpc = "push") = 0
    BY DEF HeldByChain, HeldByCurrent, One
  <1> QED
    BY <1>1, <1>2, <1>3, <1>4, <1>5, <1>6, <1>7 DEF BlocksConserved

\* With such a pool no assert() on a buffer fails.  This is about builds that
\* take buffers from the heap; the fixed pool of CONFIG_ESP_CACHE_MALLOC, twice
\* SPI_TX_QUEUE_SIZE + SPI_RX_QUEUE_SIZE, is always smaller.
THEOREM LargePoolNeverCrashes ==
  ASSUME PoolLargeEnough
  PROVE  Spec => []NeverCrashes
  <1>1. Inv /\ [Next]_vars /\ NeverCrashes => NeverCrashes'
    <2> SUFFICES ASSUME Inv, [Next]_vars, NeverCrashes PROVE NeverCrashes'
      OBVIOUS
    <2>1. CASE AssertFails
      <3>1. wpc # "push" \/ cpc \in {"dummy", "attach"}
        BY <2>1 DEF AssertFails
      <3>2. blocks < Blocks
        <4>1. Blocks \in Nat /\ blocks \in Nat
          BY SpiSlaveAssumption DEF Blocks, SPI_MEMPOOL_NUM_BLOCKS, Inv, TypeOK
        <4>2. SPI_TX_QUEUE_SIZE \in Nat /\ SPI_RX_QUEUE_SIZE \in Nat
          BY SpiSlaveAssumption
        <4> QED
          BY <3>1, <4>1, <4>2, Limit, PoolLargeEnough DEF PoolLargeEnough
      <3> QED
        BY <2>1, <3>2 DEF AssertFails, CanAlloc
    <2>2. CASE UNCHANGED vars
      BY <2>2 DEF NeverCrashes, vars
    <2>3. CASE Next /\ ~AssertFails
      <3>1. crashed' = crashed
        BY <2>3 DEF Next, Writer, StartupEvent, Write, StartWrite, PushTx, GiveTx, SetDataReady,
             Chain, TakeTx, PopTx, ClearDataReady, DummyTx, AttachRx, Submit, GetTransResult,
             FreeBuffers, PushRx, GiveRx, FreeTrans, Reader, TakeRx, PopRx, ReadDone, Interrupts,
             LoadTransaction, FinishTransaction, CsInterrupt, Host, HostReceives, HostSends,
             HostBegins, HostEnds
      <3> QED
        BY <3>1 DEF NeverCrashes
    <2> QED
      BY <2>1, <2>2, <2>3
  <1>2. Init => NeverCrashes
    BY DEF Init, NeverCrashes
  <1> QED
    BY <1>1, <1>2, Invariance, PTL DEF Spec

\* And with such a pool the chain of transactions never breaks:
\* queue_next_transaction() always leaves one with the driver.
THEOREM LargePoolChainAlive ==
  ASSUME PoolLargeEnough
  PROVE  Spec => []ChainAlive
  <1> DEFINE After == {"await", "free", "pushRx", "giveRx", "freeTrans"}
             OneQueued == cpc \in After => InDriver = 1
  <1>1. Inv /\ [Next]_vars /\ OneQueued => OneQueued'
    <2> SUFFICES ASSUME Inv, [Next]_vars, OneQueued, cpc' \in After PROVE InDriver' = 1
      OBVIOUS
    <2>1. CASE UNCHANGED vars
      BY <2>1 DEF vars, chainVars, busVars, InDriver
    <2>2. CASE Next /\ Submit
      <3>1. cpc = "submit" /\ ~GetTransResult
        BY <2>2 DEF Submit, GetTransResult
      <3>2. InDriver = 0 /\ InDriver' = InDriver + 1
        BY <2>2, <3>1, DriverSteps DEF Inv, AtMostOne
      <3> QED
        BY <3>2
    <2>3. CASE Next /\ ~Submit
      <3>1. ~GetTransResult
        BY DEF GetTransResult
      <3>2. InDriver' = InDriver
        BY <2>3, <3>1, DriverSteps
      <3>3. CASE DummyTx
        <4>1. Blocks \in Nat /\ blocks \in Nat
          BY SpiSlaveAssumption DEF Blocks, SPI_MEMPOOL_NUM_BLOCKS, Inv, TypeOK
        <4>2. SPI_TX_QUEUE_SIZE \in Nat /\ SPI_RX_QUEUE_SIZE \in Nat
          BY SpiSlaveAssumption
        <4>3. cpc \in {"dummy", "attach"}
          BY <3>3 DEF DummyTx
        <4>4. CanAlloc
          BY <4>1, <4>2, <4>3, Limit, PoolLargeEnough DEF PoolLargeEnough, CanAlloc
        <4> QED
          BY <3>3, <4>4 DEF DummyTx
      <3>4. CASE ~DummyTx
        <4>1. cpc \in After
          BY <2>3, <3>1, <3>4, ChainSteps
             DEF chainVars, SetDataReady, Chain, TakeTx, PopTx, ClearDataReady, AttachRx,
                 FreeBuffers, PushRx, GiveRx, FreeTrans
        <4> QED
          BY <3>2, <4>1
      <3> QED
        BY <3>3, <3>4
    <2> QED
      BY <2>1, <2>2, <2>3
  <1>2. Init => OneQueued
    BY DEF Init
  <1>3. OneQueued => ChainAlive
    BY DEF ChainAlive
  <1> QED
    BY <1>1, <1>2, <1>3, Invariance, PTL DEF Spec

\* With such a pool the chain is sound, for any queue sizes: it never breaks and
\* the host never clocks a transaction the slave has no buffers for.
THEOREM LargePoolChainSound ==
  ASSUME PoolLargeEnough
  PROVE  Spec => []ChainSound
  <1>1. ChainAlive /\ HandshakeMeansLoaded => ChainSound
    BY DEF ChainSound
  <1> QED
    BY <1>1, LargePoolChainAlive, HandshakeCorrect, PTL

-----------------------------------------------------------------------------
(***************************************************************************)
(* The order of the packets.  In either direction the packets of a class   *)
(* on their way pass through a row of places, each of which holds at most  *)
(* one but for the queue; numbered by Succ from the one due at the end to  *)
(* the one to be sent next, they fill these places without a gap.          *)
(***************************************************************************)

\* A place with x in it turns the number a that is due before it into b behind it.
Passes(x, c, a, b) ==
    IF x \in Packet /\ x.class = c THEN x.id = a /\ b = Succ(a) ELSE b = a

\* A queue of class c from number a up to b.
Numbered(q, c, a, b) ==
    /\ q = <<>> => b = a
    /\ q # <<>> => q[1].id = a /\ b = Succ(q[Len(q)].id)
    /\ \A i \in 1..Len(q) : q[i].class = c
    /\ \A i \in 1..Len(q) : i > 1 => q[i].id = Succ(q[i - 1].id)

\* From what is due at the host to what the firmware writes next: x in the
\* driver, the queue q, y in the hands of esp_spi_write().
HostWard(x, q, y, c, due, next) ==
    \E n \in 1..MaxId, m \in 1..MaxId :
        Passes(x, c, due, n) /\ Numbered(q, c, n, m) /\ Passes(y, c, m, next)

\* From what is due at the reader to what the host sends next: r in the hands of
\* recv_task(), the queue q, o and then x in those of the post-process task and
\* on the bus.
ReadWard(r, q, o, x, c, due, next) ==
    \E n \in 1..MaxId, m \in 1..MaxId, k \in 1..MaxId :
        /\ Passes(r, c, due, n) /\ Numbered(q, c, n, m)
        /\ Passes(o, c, m, k) /\ Passes(x, c, k, next)

\* The packet for the host that has left its queue and is not yet there, and the
\* one that is to be pushed.
Leaving ==
    IF cpc \in {"attach", "submit"} THEN ctx
    ELSE IF queued # <<>> THEN queued[1].tx
    ELSE IF loaded # None /\ bus # "ended" THEN loaded.tx ELSE NoData
Pushing == IF wpc = "push" THEN wbuf ELSE NoData

\* The packet from the host that is on the bus or finished, the one the
\* post-process task has to push, and the one that is read.
OnBus    == IF done # <<>> THEN done[1].rx ELSE IF bus # "idle" THEN mosi ELSE NoData
Arriving == IF cur # None /\ cpc \notin {"giveRx", "freeTrans"} THEN cur.rx ELSE NoData
Reading  == IF rpc = "process" THEN rbuf ELSE NoData

TxInOrder ==
    \A c \in Prio : HostWard(Leaving, spi_tx_queue[c], Pushing, c, hostGot[c], written[c])
RxInOrder ==
    \A c \in Prio : ReadWard(Reading, spi_rx_queue[c], Arriving, OnBus, c, readNext[c], hostSent[c])

\* A queue stays numbered when the next packet of its class is appended.
LEMMA NumberedAppend ==
  ASSUME NEW q \in Seq(Packet), NEW x \in Packet, NEW a \in 1..MaxId, NEW b \in 1..MaxId,
         Numbered(q, x.class, a, b), x.id = b
  PROVE  Numbered(Append(q, x), x.class, a, Succ(b))
  <1> DEFINE r == Append(q, x)
  <1>1. /\ r \in Seq(Packet) /\ Len(q) \in Nat /\ Len(r) = Len(q) + 1 /\ r # <<>>
        /\ \A i \in 1..Len(q) : r[i] = q[i]
        /\ r[Len(r)] = x
    OBVIOUS
  <1>2. q = <<>> <=> Len(q) = 0
    OBVIOUS
  <1> HIDE DEF r
  <1>3. r[1].id = a
    BY <1>1, <1>2 DEF Numbered
  <1>4. Succ(b) = Succ(r[Len(r)].id)
    BY <1>1
  <1>5. \A i \in 1..Len(r) : r[i].class = x.class
    BY <1>1 DEF Numbered
  <1>6. ASSUME NEW i \in 1..Len(r), i > 1
        PROVE  r[i].id = Succ(r[i - 1].id)
    <2>1. CASE i \in 1..Len(q)
      <3>1. i - 1 \in 1..Len(q)
        BY <1>1, <1>6, <2>1
      <3> QED
        BY <1>1, <1>6, <2>1, <3>1 DEF Numbered
    <2>2. CASE i = Len(r)
      <3>1. i - 1 = Len(q) /\ Len(q) \in 1..Len(q) /\ q # <<>>
        BY <1>1, <1>2, <1>6, <2>2
      <3> QED
        BY <1>1, <2>2, <3>1 DEF Numbered
    <2> QED
      BY <1>1, <2>1, <2>2
  <1>7. Numbered(r, x.class, a, Succ(b))
    BY <1>1, <1>3, <1>4, <1>5, <1>6 DEF Numbered
  <1> QED
    BY <1>7 DEF r

\* The first of a numbered queue is the one that is due, and the rest is
\* numbered from the next.
LEMMA NumberedTail ==
  ASSUME NEW q \in Seq(Packet), NEW c \in Prio, NEW a \in 1..MaxId, NEW b \in 1..MaxId,
         Numbered(q, c, a, b), q # <<>>
  PROVE  /\ Head(q) \in Packet /\ Head(q).id = a /\ Head(q).class = c
         /\ Numbered(Tail(q), c, Succ(a), b)
  <1> DEFINE r == Tail(q)
  <1>1. /\ r \in Seq(Packet) /\ Len(q) \in Nat /\ Len(q) >= 1 /\ Len(r) = Len(q) - 1
        /\ Head(q) = q[1] /\ Head(q) \in Packet
        /\ \A i \in 1..Len(r) : r[i] = q[i + 1]
    <2>1. Len(q) \in Nat /\ Len(q) >= 1 /\ Head(q) = q[1] /\ Head(q) \in Packet
      OBVIOUS
    <2>2. r \in Seq(Packet) /\ Len(r) = Len(q) - 1
      OBVIOUS
    <2>3. \A i \in 1..(Len(q) - 1) : r[i] = q[i + 1]
      OBVIOUS
    <2> QED
      BY <2>1, <2>2, <2>3
  <1> HIDE DEF r
  <1>2. r = <<>> <=> Len(r) = 0
    BY <1>1
  <1>3. Head(q).id = a /\ Head(q).class = c
    BY <1>1 DEF Numbered
  <1>4. r = <<>> => b = Succ(a)
    <2> HAVE r = <<>>
    <2>1. Len(q) = 1
      BY <1>1, <1>2
    <2> QED
      BY <2>1 DEF Numbered
  <1>5. r # <<>> => r[1].id = Succ(a) /\ b = Succ(r[Len(r)].id)
    <2> HAVE r # <<>>
    <2>1. Len(r) >= 1 /\ 1 \in 1..Len(r) /\ Len(r) \in 1..Len(r) /\ 2 \in 1..Len(q)
      BY <1>1, <1>2
    <2>2. r[1] = q[2] /\ r[Len(r)] = q[Len(q)]
      BY <1>1, <2>1
    <2>3. q[2].id = Succ(q[1].id)
      BY <2>1 DEF Numbered
    <2> QED
      BY <2>2, <2>3 DEF Numbered
  <1>6. \A i \in 1..Len(r) : r[i].class = c
    BY <1>1 DEF Numbered
  <1>7. ASSUME NEW i \in 1..Len(r), i > 1
        PROVE  r[i].id = Succ(r[i - 1].id)
    <2>1. i \in 1..Len(r) /\ i - 1 \in 1..Len(r) /\ i + 1 \in 1..Len(q) /\ i + 1 > 1
          /\ (i + 1) - 1 = i /\ (i - 1) + 1 = i
      BY <1>1, <1>7
    <2>2. r[i] = q[i + 1] /\ r[i - 1] = q[i]
      BY <1>1, <2>1
    <2>3. q[i + 1].id = Succ(q[(i + 1) - 1].id)
      BY <2>1 DEF Numbered
    <2> QED
      BY <2>1, <2>2, <2>3
  <1>8. Numbered(r, c, Succ(a), b)
    BY <1>4, <1>5, <1>6, <1>7 DEF Numbered
  <1> QED
    BY <1>1, <1>3, <1>8 DEF r

\* A packet pushed leaves its place for the queue of its class.
LEMMA PushMoves ==
  ASSUME NEW queue \in [Prio -> Seq(Packet)], NEW x \in Packet, NEW c \in Prio,
         NEW n \in 1..MaxId, NEW m \in 1..MaxId, NEW k,
         Numbered(queue[c], c, n, m), Passes(x, c, m, k)
  PROVE  Numbered(Sent(queue, x.class, x)[c], c, n, k)
  <1>1. x.class \in Prio /\ queue[c] \in Seq(Packet)
    BY DEF Packet
  <1>2. CASE x.class = c
    <2>1. x.id = m /\ k = Succ(m)
      BY <1>2 DEF Passes
    <2>2. Sent(queue, x.class, x)[c] = Append(queue[c], x)
      BY <1>1, <1>2 DEF Sent
    <2> QED
      BY <1>1, <1>2, <2>1, <2>2, NumberedAppend
  <1>3. CASE x.class # c
    <2>1. k = m
      BY <1>3 DEF Passes
    <2>2. Sent(queue, x.class, x)[c] = queue[c]
      BY <1>1, <1>3 DEF Sent
    <2> QED
      BY <2>1, <2>2
  <1> QED
    BY <1>2, <1>3

\* A packet popped leaves the queue of its class for the place before it.
LEMMA PopMoves ==
  ASSUME NEW queue \in [Prio -> Seq(Packet)], NEW p \in Prio, NEW c \in Prio, queue[p] # <<>>,
         \E n \in 1..MaxId, m \in 1..MaxId : Numbered(queue[p], p, n, m),
         NEW n \in 1..MaxId, NEW m \in 1..MaxId, Numbered(queue[c], c, n, m)
  PROVE  \E k \in 1..MaxId :
            Passes(Head(queue[p]), c, n, k) /\ Numbered(Received(queue, p)[c], c, k, m)
  <1>1. queue[p] \in Seq(Packet) /\ queue[c] \in Seq(Packet)
    OBVIOUS
  <1>2. Head(queue[p]) \in Packet /\ Head(queue[p]).class = p
    <2>1. PICK i \in 1..MaxId, j \in 1..MaxId : Numbered(queue[p], p, i, j)
      OBVIOUS
    <2> HIDE DEF Prio
    <2> QED
      BY <1>1, <2>1, NumberedTail
  <1>3. CASE p = c
    <2>1. Head(queue[p]).id = n /\ Numbered(Tail(queue[c]), c, Succ(n), m)
      BY <1>1, <1>3, NumberedTail
    <2>2. Received(queue, p)[c] = Tail(queue[c])
      BY <1>3 DEF Received
    <2>3. Succ(n) \in 1..MaxId
      BY SuccType
    <2> QED
      BY <1>2, <1>3, <2>1, <2>2, <2>3 DEF Passes
  <1>4. CASE p # c
    <2>1. Passes(Head(queue[p]), c, n, n)
      BY <1>2, <1>4 DEF Passes
    <2>2. Received(queue, p)[c] = queue[c]
      BY <1>4 DEF Received
    <2> QED
      BY <2>1, <2>2
  <1> QED
    BY <1>3, <1>4

\* A place without a packet changes no number.
LEMMA PassesNoData == \A c, a, b : Passes(NoData, c, a, b) <=> b = a
  BY NoDataIsNoPacket DEF Passes

\* The next packet of class d, when it enters, takes the next number.
LEMMA EnterMoves ==
  ASSUME NEW next \in [Prio -> 1..MaxId], NEW d \in Prio, NEW c \in Prio
  PROVE  Passes([class |-> d, id |-> next[d]], c, next[c], [next EXCEPT ![d] = Succ(@)][c])
  <1>1. [class |-> d, id |-> next[d]] \in Packet
    BY DEF Packet
  <1> QED
    BY <1>1 DEF Passes

\* A packet that has passed leaves the number of the one due after it.
LEMMA LeaveMoves ==
  ASSUME NEW due \in [Prio -> 1..MaxId], NEW x \in Packet, NEW c \in Prio, NEW n,
         Passes(x, c, due[c], n)
  PROVE  [due EXCEPT ![x.class] = Succ(x.id)][c] = n
  <1>1. x.class \in Prio
    BY DEF Packet
  <1> QED
    BY <1>1 DEF Passes

\* The transaction with the spi_slave driver is queued, loaded or finished,
\* and there is none while the chain prepares the next.
LEMMA DriverShape ==
  ASSUME BusTypes, AtMostOne
  PROVE  /\ queued # <<>> =>
               /\ queued = <<queued[1]>> /\ Head(queued) = queued[1] /\ Tail(queued) = <<>>
               /\ loaded = None /\ done = <<>>
         /\ loaded # None => queued = <<>> /\ done = <<>>
         /\ done # <<>> => /\ Head(done) = done[1] /\ Tail(done) = <<>>
                           /\ queued = <<>> /\ loaded = None
         /\ cpc \in {"boot", "take", "pop", "clear", "dummy", "attach", "submit"}
               => queued = <<>> /\ loaded = None /\ done = <<>>
  <1>1. \A q \in Seq(Transaction) : /\ Len(q) \in Nat
                                    /\ q # <<>> => Len(q) >= 1 /\ Head(q) = q[1]
                                    /\ q # <<>> /\ Len(q) = 1 => q = <<q[1]>> /\ Tail(q) = <<>>
    <2>1. TAKE q \in Seq(Transaction)
    <2>2. Len(q) \in Nat /\ (q # <<>> => Len(q) >= 1 /\ Head(q) = q[1])
      OBVIOUS
    <2>3. ASSUME q # <<>>, Len(q) = 1
          PROVE  q = <<q[1]>> /\ Tail(q) = <<>>
      <3>1. q = <<q[1]>>
        BY <2>3
      <3>2. Tail(q) \in Seq(Transaction) /\ Len(Tail(q)) = 0
        BY <2>3
      <3>3. \A r \in Seq(Transaction) : Len(r) = 0 => r = <<>>
        OBVIOUS
      <3> QED
        BY <3>1, <3>2, <3>3
    <2> QED
      BY <2>2, <2>3
  <1>2. queued \in Seq(Transaction) /\ done \in Seq(Transaction)
    BY DEF BusTypes
  <1>3. One(loaded # None) \in 0..1 /\ (loaded # None => One(loaded # None) = 1)
    BY DEF One
  <1> DEFINE k == Len(queued)
             l == One(loaded # None)
             n == Len(done)
  <1>4. k + l + n <= 1
    BY DEF AtMostOne, InDriver
  <1>5. cpc \in {"boot", "take", "pop", "clear", "dummy", "attach", "submit"} => k + l + n = 0
    BY DEF AtMostOne, InDriver
  <1>6. /\ k \in Nat /\ n \in Nat /\ l \in 0..1
        /\ queued # <<>> => k >= 1
        /\ done # <<>> => n >= 1
        /\ loaded # None => l = 1
    BY <1>1, <1>2, <1>3
  <1> HIDE DEF k, l, n
  <1>7. \A x \in Nat, y \in 0..1, z \in Nat :
           x + y + z <= 1 =>
              /\ x >= 1 => x = 1 /\ y # 1 /\ ~(z >= 1)
              /\ y = 1 => ~(x >= 1) /\ ~(z >= 1)
              /\ z >= 1 => z = 1 /\ y # 1 /\ ~(x >= 1)
    OBVIOUS
  <1>8. /\ k >= 1 => k = 1 /\ l # 1 /\ ~(n >= 1)
        /\ l = 1 => ~(k >= 1) /\ ~(n >= 1)
        /\ n >= 1 => n = 1 /\ l # 1 /\ ~(k >= 1)
    BY <1>4, <1>6, <1>7
  <1>9. k + l + n = 0 => ~(k >= 1) /\ l # 1 /\ ~(n >= 1)
    BY <1>6
  <1>10. (k = 1 => Len(queued) = 1) /\ (n = 1 => Len(done) = 1)
    BY DEF k, n
  <1>11. queued # <<>> =>
            /\ queued = <<queued[1]>> /\ Head(queued) = queued[1] /\ Tail(queued) = <<>>
            /\ loaded = None /\ done = <<>>
    BY <1>1, <1>2, <1>6, <1>8, <1>10
  <1>12. loaded # None => queued = <<>> /\ done = <<>>
    BY <1>6, <1>8
  <1>13. done # <<>> => /\ Head(done) = done[1] /\ Tail(done) = <<>>
                        /\ queued = <<>> /\ loaded = None
    BY <1>1, <1>2, <1>6, <1>8, <1>10
  <1>14. cpc \in {"boot", "take", "pop", "clear", "dummy", "attach", "submit"}
            => queued = <<>> /\ loaded = None /\ done = <<>>
    BY <1>5, <1>6, <1>9
  <1> QED
    BY <1>11, <1>12, <1>13, <1>14

\* Before the first transaction, and while the next is prepared, the bus is idle
\* and nothing is on it.
LEMMA BusShape ==
  ASSUME BusTypes, AtMostOne, Lines
  PROVE  /\ loaded = None => bus = "idle"
         /\ handshake /\ bus # "active" => bus = "idle" /\ loaded # None
  BY DEF Lines, BusTypes

\* A step leaves what is on its way to the host where it is, or moves one
\* packet: from the writer's hands to a queue, from a queue towards the bus, or
\* over the bus.
TxStays ==
    Leaving' = Leaving /\ Pushing' = Pushing /\ UNCHANGED <<spi_tx_queue, hostGot, written>>

TxEnters ==
    /\ Pushing = NoData
    /\ \E c \in Prio : /\ Pushing' = [class |-> c, id |-> written[c]]
                       /\ written' = [written EXCEPT ![c] = Succ(@)]
    /\ Leaving' = Leaving /\ UNCHANGED <<spi_tx_queue, hostGot>>

TxPushed ==
    /\ Pushing \in Packet /\ Pushing' = NoData
    /\ spi_tx_queue' = Sent(spi_tx_queue, Pushing.class, Pushing)
    /\ Leaving' = Leaving /\ UNCHANGED <<written, hostGot>>

TxPopped ==
    /\ \E p \in Prio : /\ spi_tx_queue[p] # <<>>
                       /\ Leaving = NoData /\ Leaving' = Head(spi_tx_queue[p])
                       /\ spi_tx_queue' = Received(spi_tx_queue, p)
    /\ Pushing' = Pushing /\ UNCHANGED <<written, hostGot>>

TxArrives ==
    /\ Leaving' = NoData
    /\ hostGot' = IF Leaving \in Packet
                  THEN [hostGot EXCEPT ![Leaving.class] = Succ(Leaving.id)]
                  ELSE hostGot
    /\ Leaving \notin Packet => Leaving = NoData
    /\ Pushing' = Pushing /\ UNCHANGED <<spi_tx_queue, written>>

\* Each of these keeps the packets for the host in order.
LEMMA TxStaysInOrder == TxInOrder /\ TxStays => TxInOrder'
  BY DEF TxInOrder, TxStays

LEMMA TxEntersInOrder ==
  ASSUME WriterTypes, TxInOrder, TxEnters
  PROVE  TxInOrder'
  <1>1. PICK d \in Prio : /\ Pushing' = [class |-> d, id |-> written[d]]
                          /\ written' = [written EXCEPT ![d] = Succ(@)]
    BY DEF TxEnters
  <1>2. written \in [Prio -> 1..MaxId]
    BY DEF WriterTypes
  <1>3. ASSUME NEW c \in Prio
        PROVE  HostWard(Leaving', spi_tx_queue'[c], Pushing', c, hostGot'[c], written'[c])
    <2>1. PICK n \in 1..MaxId, m \in 1..MaxId :
             /\ Passes(Leaving, c, hostGot[c], n) /\ Numbered(spi_tx_queue[c], c, n, m)
             /\ Passes(Pushing, c, m, written[c])
      BY DEF TxInOrder, HostWard
    <2>2. m = written[c]
      BY <2>1, PassesNoData DEF TxEnters
    <2>3. Passes(Pushing', c, written[c], written'[c])
      BY <1>1, <1>2, EnterMoves
    <2> QED
      BY <2>1, <2>2, <2>3 DEF TxEnters, HostWard
  <1> QED
    BY <1>3 DEF TxInOrder

LEMMA TxPushedInOrder ==
  ASSUME TxTypes, WriterTypes, TxInOrder, TxPushed
  PROVE  TxInOrder'
  <1>1. spi_tx_queue \in [Prio -> Seq(Packet)]
    BY DEF TxTypes
  <1>2. ASSUME NEW c \in Prio
        PROVE  HostWard(Leaving', spi_tx_queue'[c], Pushing', c, hostGot'[c], written'[c])
    <2>1. PICK n \in 1..MaxId, m \in 1..MaxId :
             /\ Passes(Leaving, c, hostGot[c], n) /\ Numbered(spi_tx_queue[c], c, n, m)
             /\ Passes(Pushing, c, m, written[c])
      BY DEF TxInOrder, HostWard
    <2>2. Numbered(spi_tx_queue'[c], c, n, written[c])
      BY <1>1, <2>1, PushMoves DEF TxPushed
    <2>3. Passes(Pushing', c, written[c], written'[c])
      BY PassesNoData DEF TxPushed
    <2>4. written[c] \in 1..MaxId
      BY DEF WriterTypes
    <2> QED
      BY <2>1, <2>2, <2>3, <2>4 DEF TxPushed, HostWard
  <1> QED
    BY <1>2 DEF TxInOrder

LEMMA TxPoppedInOrder ==
  ASSUME TxTypes, BusTypes, TxInOrder, TxPopped
  PROVE  TxInOrder'
  <1>1. spi_tx_queue \in [Prio -> Seq(Packet)]
    BY DEF TxTypes
  <1>2. PICK p \in Prio : /\ spi_tx_queue[p] # <<>>
                          /\ Leaving = NoData /\ Leaving' = Head(spi_tx_queue[p])
                          /\ spi_tx_queue' = Received(spi_tx_queue, p)
    BY DEF TxPopped
  <1>3. \E n \in 1..MaxId, m \in 1..MaxId : Numbered(spi_tx_queue[p], p, n, m)
    BY DEF TxInOrder, HostWard
  <1>4. ASSUME NEW c \in Prio
        PROVE  HostWard(Leaving', spi_tx_queue'[c], Pushing', c, hostGot'[c], written'[c])
    <2>1. PICK n \in 1..MaxId, m \in 1..MaxId :
             /\ Passes(Leaving, c, hostGot[c], n) /\ Numbered(spi_tx_queue[c], c, n, m)
             /\ Passes(Pushing, c, m, written[c])
      BY DEF TxInOrder, HostWard
    <2>2. n = hostGot[c]
      BY <1>2, <2>1, PassesNoData
    <2>3. PICK k \in 1..MaxId : /\ Passes(Leaving', c, n, k)
                                /\ Numbered(spi_tx_queue'[c], c, k, m)
      BY <1>1, <1>2, <1>3, <2>1, PopMoves
    <2> QED
      BY <2>1, <2>2, <2>3 DEF TxPopped, HostWard
  <1> QED
    BY <1>4 DEF TxInOrder

LEMMA TxArrivesInOrder ==
  ASSUME BusTypes, TxInOrder, TxArrives
  PROVE  TxInOrder'
  <1>1. hostGot \in [Prio -> 1..MaxId]
    BY DEF BusTypes
  <1>2. ASSUME NEW c \in Prio
        PROVE  HostWard(Leaving', spi_tx_queue'[c], Pushing', c, hostGot'[c], written'[c])
    <2>1. PICK n \in 1..MaxId, m \in 1..MaxId :
             /\ Passes(Leaving, c, hostGot[c], n) /\ Numbered(spi_tx_queue[c], c, n, m)
             /\ Passes(Pushing, c, m, written[c])
      BY DEF TxInOrder, HostWard
    <2>2. hostGot'[c] = n
      <3>1. CASE Leaving \in Packet
        BY <1>1, <2>1, <3>1, LeaveMoves DEF TxArrives
      <3>2. CASE Leaving \notin Packet
        BY <2>1, <3>2, PassesNoData DEF TxArrives
      <3> QED
        BY <3>1, <3>2
    <2>3. Passes(Leaving', c, hostGot'[c], n)
      BY <2>2, PassesNoData DEF TxArrives
    <2> QED
      BY <2>1, <2>3 DEF TxArrives, HostWard
  <1> QED
    BY <1>2 DEF TxInOrder

\* Every step of the firmware and the host is one of these.
LEMMA WriterMovesTx ==
  ASSUME Inv, Writer
  PROVE  TxStays \/ TxEnters \/ TxPushed
  <1>1. Held /\ WriterTypes
    BY DEF Inv, TypeOK
  <1>2. ASSUME NEW c \in Prio, StartWrite(c), wpc # "push"
        PROVE  TxEnters
    <2>1. Leaving' = Leaving
      BY <1>2 DEF StartWrite, Leaving, chainVars, busVars
    <2>2. Pushing = NoData /\ Pushing' = [class |-> c, id |-> written[c]]
      BY <1>2 DEF StartWrite, Pushing
    <2> QED
      BY <1>2, <2>1, <2>2 DEF StartWrite, TxEnters, txVars, busVars
  <1>3. CASE StartupEvent \/ \E c \in TxClasses : Write(c)
    <2>1. PRIO_Q_OTHERS \in Prio /\ TxClasses \subseteq Prio
      BY SpiSlaveAssumption
    <2> QED
      BY <1>2, <1>3, <2>1 DEF StartupEvent, Write
  <1>4. CASE PushTx
    <2>1. Leaving' = Leaving
      BY <1>4 DEF PushTx, Leaving, chainVars, busVars
    <2>2. Pushing = wbuf /\ Pushing \in Packet /\ Pushing' = NoData
      BY <1>1, <1>4 DEF PushTx, Pushing, Held
    <2>3. spi_tx_queue' = Sent(spi_tx_queue, Pushing.class, Pushing)
      BY <1>4, <2>2 DEF PushTx, Sent
    <2> QED
      BY <1>4, <2>1, <2>2, <2>3 DEF PushTx, TxPushed, busVars
  <1>5. CASE GiveTx
    <2>1. Leaving' = Leaving /\ Pushing' = Pushing
      BY <1>5 DEF GiveTx, Leaving, Pushing, chainVars, busVars
    <2> QED
      BY <1>5, <2>1 DEF GiveTx, TxStays, busVars
  <1>6. CASE SetDataReady
    <2>1. Pushing' = Pushing
      BY <1>6 DEF SetDataReady, Pushing
    <2>2. Leaving' = Leaving
      BY <1>6 DEF SetDataReady, Leaving, busVars
    <2> QED
      BY <1>6, <2>1, <2>2 DEF SetDataReady, TxStays, txVars, busVars
  <1> QED
    BY <1>3, <1>4, <1>5, <1>6 DEF Writer

LEMMA ChainMovesTx ==
  ASSUME Inv, Chain
  PROVE  TxStays \/ TxPopped
  <1>1. Held /\ WriterTypes /\ ChainTypes /\ BusTypes /\ AtMostOne
    BY DEF Inv, TypeOK
  <1>2. cpc \in {"take", "pop", "clear", "dummy"} => Leaving = NoData
    BY <1>1, DriverShape DEF Leaving
  <1>3. CASE \/ TakeTx \/ ClearDataReady \/ FreeBuffers \/ PushRx \/ GiveRx \/ FreeTrans
    <2>1. Pushing' = Pushing
      BY <1>3 DEF TakeTx, ClearDataReady, FreeBuffers, PushRx, GiveRx, FreeTrans, Pushing,
                  writerVars
    <2>2. Leaving' = Leaving
      BY <1>3 DEF TakeTx, ClearDataReady, FreeBuffers, PushRx, GiveRx, FreeTrans, Leaving, busVars
    <2>3. UNCHANGED <<spi_tx_queue, hostGot, written>>
      BY <1>3 DEF TakeTx, ClearDataReady, FreeBuffers, PushRx, GiveRx, FreeTrans, txVars, busVars,
                  writerVars
    <2> QED
      BY <2>1, <2>2, <2>3 DEF TxStays
  <1>4. CASE PopTx
    <2>1. Pushing' = Pushing /\ UNCHANGED <<written, hostGot>>
      BY <1>4 DEF PopTx, Pushing, writerVars, busVars
    <2>2. CASE spi_tx_queue[cprio] # <<>>
      <3>1. /\ cprio \in Prio /\ Leaving = NoData /\ Leaving' = Head(spi_tx_queue[cprio])
            /\ spi_tx_queue' = Received(spi_tx_queue, cprio)
        BY <1>1, <1>2, <1>4, <2>2 DEF PopTx, Leaving, ChainTypes, Received
      <3> QED
        BY <2>1, <2>2, <3>1 DEF TxPopped
    <2>3. CASE spi_tx_queue[cprio] = <<>>
      <3>1. Leaving' = Leaving /\ spi_tx_queue' = spi_tx_queue
        BY <1>4, <2>3 DEF PopTx, Leaving, busVars
      <3> QED
        BY <2>1, <3>1 DEF TxStays
    <2> QED
      BY <2>2, <2>3
  <1>5. CASE DummyTx
    <2>1. Pushing' = Pushing /\ UNCHANGED <<spi_tx_queue, written, hostGot>>
      BY <1>5 DEF DummyTx, Pushing, txVars, writerVars, busVars
    <2>2. Leaving = NoData
      BY <1>2, <1>5 DEF DummyTx
    <2>3. queued' = <<>> /\ loaded' = None
      BY <1>1, <1>5, DriverShape DEF DummyTx, busVars
    <2>4. Leaving' = NoData
      BY <1>5, <2>3 DEF DummyTx, Leaving
    <2> QED
      BY <2>1, <2>2, <2>4 DEF TxStays
  <1>6. CASE AttachRx
    <2>1. Pushing' = Pushing /\ Leaving' = Leaving
      BY <1>6 DEF AttachRx, Pushing, Leaving, writerVars, busVars
    <2> QED
      BY <1>6, <2>1 DEF AttachRx, TxStays, txVars, writerVars, busVars
  <1>7. CASE Submit
    <2>1. queued' = <<[tx |-> ctx, rx |-> NoData]>>
      BY <1>1, <1>7, DriverShape DEF Submit
    <2>2. cpc' \notin {"attach", "submit"}
      BY <1>7 DEF Submit, Returned
    <2>3. Leaving' = Leaving
      BY <1>7, <2>1, <2>2 DEF Submit, Leaving
    <2>4. Pushing' = Pushing
      BY <1>7 DEF Submit, Pushing
    <2> QED
      BY <1>7, <2>3, <2>4 DEF Submit, TxStays, txVars
  <1>8. CASE GetTransResult
    <2>1. queued = <<>> /\ loaded = None
      BY <1>1, <1>8, DriverShape DEF GetTransResult
    <2>2. Leaving' = Leaving
      BY <1>8, <2>1 DEF GetTransResult, Leaving
    <2>3. Pushing' = Pushing
      BY <1>8 DEF GetTransResult, Pushing, writerVars
    <2> QED
      BY <1>8, <2>2, <2>3 DEF GetTransResult, TxStays, txVars, writerVars
  <1> QED
    BY <1>3, <1>4, <1>5, <1>6, <1>7, <1>8 DEF Chain

LEMMA BusMovesTx ==
  ASSUME Inv, Interrupts \/ Host
  PROVE  TxStays \/ TxArrives
  <1>1. BusTypes /\ AtMostOne /\ Lines /\ ChainTypes
    BY DEF Inv, TypeOK
  <1>2. UNCHANGED <<spi_tx_queue, written, cpc, ctx>> /\ Pushing' = Pushing
    BY DEF Interrupts, LoadTransaction, FinishTransaction, CsInterrupt, Host, HostReceives,
           HostSends, HostEnds, HostBegins, Pushing, txVars, writerVars, chainVars
  <1>3. loaded # None => cpc \notin {"attach", "submit"} /\ queued = <<>>
    BY <1>1, DriverShape
  <1>4. bus # "idle" => loaded # None
    BY <1>1 DEF Lines
  <1>5. CASE LoadTransaction
    <2>1. /\ loaded' = queued[1] /\ queued' = <<>> /\ queued # <<>> /\ bus' = "idle"
          /\ hostGot' = hostGot
      BY <1>1, <1>5, DriverShape, BusShape DEF LoadTransaction
    <2>2. loaded' # None
      <3>1. queued \in Seq(Transaction) /\ queued[1] \in Transaction
        BY <1>1, <2>1 DEF BusTypes
      <3> QED
        BY <2>1, <3>1, NoneIsNone
    <2>3. Leaving' = Leaving
      BY <1>2, <2>1, <2>2 DEF Leaving
    <2> QED
      BY <1>2, <2>1, <2>3 DEF TxStays
  <1>6. CASE FinishTransaction
    <2>1. bus = "ended" /\ queued' = queued /\ loaded' = None /\ hostGot' = hostGot
      BY <1>6 DEF FinishTransaction
    <2>2. Leaving' = Leaving
      BY <1>2, <1>3, <1>4, <2>1 DEF Leaving
    <2> QED
      BY <1>2, <2>1, <2>2 DEF TxStays
  <1>7. CASE CsInterrupt
    <2>1. Leaving' = Leaving /\ hostGot' = hostGot
      BY <1>2, <1>7 DEF CsInterrupt, Leaving
    <2> QED
      BY <1>2, <2>1 DEF TxStays
  <1>8. ASSUME NEW x, HostBegins(x)
        PROVE  TxStays
    <2>1. bus = "idle" /\ bus' = "active" /\ UNCHANGED <<queued, loaded, hostGot>>
      BY <1>1, <1>8, BusShape DEF HostBegins
    <2>2. Leaving' = Leaving
      BY <1>2, <2>1 DEF Leaving
    <2> QED
      BY <1>2, <2>1, <2>2 DEF TxStays
  <1>9. CASE HostEnds
    <2>1. /\ bus = "active" /\ bus' = "ended" /\ UNCHANGED <<queued, loaded>>
          /\ hostGot' = IF loaded.tx \in Packet
                        THEN [hostGot EXCEPT ![loaded.tx.class] = Succ(loaded.tx.id)]
                        ELSE hostGot
      BY <1>9 DEF HostEnds
    <2>2. Leaving = loaded.tx /\ Leaving' = NoData
      BY <1>2, <1>3, <1>4, <2>1 DEF Leaving
    <2>3. loaded.tx \in Packet \/ loaded.tx = NoData
      BY <1>1, <1>4, <2>1 DEF BusTypes, Transaction, Data
    <2> QED
      BY <1>2, <2>1, <2>2, <2>3 DEF TxArrives
  <1> QED
    BY <1>5, <1>6, <1>7, <1>8, <1>9 DEF Interrupts, Host, HostReceives, HostSends

LEMMA NextTxInOrder == Inv /\ TxInOrder /\ Next => TxInOrder'
  <1> SUFFICES ASSUME Inv, TxInOrder, Next PROVE TxInOrder'
    OBVIOUS
  <1>1. TxTypes /\ WriterTypes /\ BusTypes
    BY DEF Inv, TypeOK
  <1>2. CASE Reader
    <2>1. Leaving' = Leaving /\ Pushing' = Pushing /\ UNCHANGED <<spi_tx_queue, hostGot, written>>
      BY <1>2 DEF Reader, TakeRx, PopRx, ReadDone, Leaving, Pushing, txVars, writerVars, chainVars,
                  busVars
    <2> QED
      BY <2>1, TxStaysInOrder DEF TxStays
  <1>3. CASE AssertFails
    <2>1. Leaving' = Leaving /\ Pushing' = Pushing /\ UNCHANGED <<spi_tx_queue, hostGot, written>>
      BY <1>3 DEF AssertFails, Leaving, Pushing, txVars, writerVars, chainVars, busVars
    <2> QED
      BY <2>1, TxStaysInOrder DEF TxStays
  <1>4. CASE Writer
    BY <1>1, <1>4, WriterMovesTx, TxStaysInOrder, TxEntersInOrder, TxPushedInOrder
  <1>5. CASE Chain
    BY <1>1, <1>5, ChainMovesTx, TxStaysInOrder, TxPoppedInOrder
  <1>6. CASE Interrupts \/ Host
    BY <1>1, <1>6, BusMovesTx, TxStaysInOrder, TxArrivesInOrder
  <1> QED
    BY <1>2, <1>3, <1>4, <1>5, <1>6 DEF Next

\* The same for what is on its way to the reader.
RxStays ==
    /\ Reading' = Reading /\ Arriving' = Arriving /\ OnBus' = OnBus
    /\ UNCHANGED <<spi_rx_queue, readNext, hostSent>>

RxEnters ==
    /\ OnBus = NoData
    /\ \E c \in Prio : /\ OnBus' = [class |-> c, id |-> hostSent[c]]
                       /\ hostSent' = [hostSent EXCEPT ![c] = Succ(@)]
    /\ Reading' = Reading /\ Arriving' = Arriving /\ UNCHANGED <<spi_rx_queue, readNext>>

RxArrives ==
    /\ Arriving = NoData /\ Arriving' = OnBus /\ OnBus' = NoData
    /\ Reading' = Reading /\ UNCHANGED <<spi_rx_queue, readNext, hostSent>>

RxPushed ==
    /\ Arriving \in Packet /\ Arriving' = NoData
    /\ spi_rx_queue' = Sent(spi_rx_queue, Arriving.class, Arriving)
    /\ Reading' = Reading /\ OnBus' = OnBus /\ UNCHANGED <<readNext, hostSent>>

RxPopped ==
    /\ \E p \in Prio : /\ spi_rx_queue[p] # <<>>
                       /\ Reading = NoData /\ Reading' = Head(spi_rx_queue[p])
                       /\ spi_rx_queue' = Received(spi_rx_queue, p)
    /\ Arriving' = Arriving /\ OnBus' = OnBus /\ UNCHANGED <<readNext, hostSent>>

RxDone ==
    /\ Reading \in Packet /\ Reading' = NoData
    /\ readNext' = [readNext EXCEPT ![Reading.class] = Succ(Reading.id)]
    /\ Arriving' = Arriving /\ OnBus' = OnBus /\ UNCHANGED <<spi_rx_queue, hostSent>>

\* Each of these keeps the packets for the reader in order.
LEMMA RxStaysInOrder == RxInOrder /\ RxStays => RxInOrder'
  BY DEF RxInOrder, RxStays

LEMMA RxEntersInOrder ==
  ASSUME BusTypes, RxInOrder, RxEnters
  PROVE  RxInOrder'
  <1>1. PICK d \in Prio : /\ OnBus' = [class |-> d, id |-> hostSent[d]]
                          /\ hostSent' = [hostSent EXCEPT ![d] = Succ(@)]
    BY DEF RxEnters
  <1>2. hostSent \in [Prio -> 1..MaxId]
    BY DEF BusTypes
  <1>3. ASSUME NEW c \in Prio
        PROVE  ReadWard(Reading', spi_rx_queue'[c], Arriving', OnBus', c, readNext'[c], hostSent'[c])
    <2>1. PICK n \in 1..MaxId, m \in 1..MaxId, k \in 1..MaxId :
             /\ Passes(Reading, c, readNext[c], n) /\ Numbered(spi_rx_queue[c], c, n, m)
             /\ Passes(Arriving, c, m, k) /\ Passes(OnBus, c, k, hostSent[c])
      BY DEF RxInOrder, ReadWard
    <2>2. k = hostSent[c]
      BY <2>1, PassesNoData DEF RxEnters
    <2>3. Passes(OnBus', c, hostSent[c], hostSent'[c])
      BY <1>1, <1>2, EnterMoves
    <2> QED
      BY <2>1, <2>2, <2>3 DEF RxEnters, ReadWard
  <1> QED
    BY <1>3 DEF RxInOrder

LEMMA RxArrivesInOrder ==
  ASSUME BusTypes, RxInOrder, RxArrives
  PROVE  RxInOrder'
  <1>1. ASSUME NEW c \in Prio
        PROVE  ReadWard(Reading', spi_rx_queue'[c], Arriving', OnBus', c, readNext'[c], hostSent'[c])
    <2>1. PICK n \in 1..MaxId, m \in 1..MaxId, k \in 1..MaxId :
             /\ Passes(Reading, c, readNext[c], n) /\ Numbered(spi_rx_queue[c], c, n, m)
             /\ Passes(Arriving, c, m, k) /\ Passes(OnBus, c, k, hostSent[c])
      BY DEF RxInOrder, ReadWard
    <2>2. k = m /\ Passes(Arriving', c, m, hostSent[c])
      BY <2>1, PassesNoData DEF RxArrives
    <2>3. hostSent[c] \in 1..MaxId /\ Passes(OnBus', c, hostSent[c], hostSent'[c])
      BY PassesNoData DEF RxArrives, BusTypes
    <2> QED
      BY <2>1, <2>2, <2>3 DEF RxArrives, ReadWard
  <1> QED
    BY <1>1 DEF RxInOrder

LEMMA RxPushedInOrder ==
  ASSUME RxTypes, RxInOrder, RxPushed
  PROVE  RxInOrder'
  <1>1. spi_rx_queue \in [Prio -> Seq(Packet)]
    BY DEF RxTypes
  <1>2. ASSUME NEW c \in Prio
        PROVE  ReadWard(Reading', spi_rx_queue'[c], Arriving', OnBus', c, readNext'[c], hostSent'[c])
    <2>1. PICK n \in 1..MaxId, m \in 1..MaxId, k \in 1..MaxId :
             /\ Passes(Reading, c, readNext[c], n) /\ Numbered(spi_rx_queue[c], c, n, m)
             /\ Passes(Arriving, c, m, k) /\ Passes(OnBus, c, k, hostSent[c])
      BY DEF RxInOrder, ReadWard
    <2>2. Numbered(spi_rx_queue'[c], c, n, k)
      BY <1>1, <2>1, PushMoves DEF RxPushed
    <2>3. Passes(Arriving', c, k, k)
      BY PassesNoData DEF RxPushed
    <2> QED
      BY <2>1, <2>2, <2>3 DEF RxPushed, ReadWard
  <1> QED
    BY <1>2 DEF RxInOrder

LEMMA RxPoppedInOrder ==
  ASSUME RxTypes, RxInOrder, RxPopped
  PROVE  RxInOrder'
  <1>1. spi_rx_queue \in [Prio -> Seq(Packet)]
    BY DEF RxTypes
  <1>2. PICK p \in Prio : /\ spi_rx_queue[p] # <<>>
                          /\ Reading = NoData /\ Reading' = Head(spi_rx_queue[p])
                          /\ spi_rx_queue' = Received(spi_rx_queue, p)
    BY DEF RxPopped
  <1>3. \E n \in 1..MaxId, m \in 1..MaxId : Numbered(spi_rx_queue[p], p, n, m)
    BY DEF RxInOrder, ReadWard
  <1>4. ASSUME NEW c \in Prio
        PROVE  ReadWard(Reading', spi_rx_queue'[c], Arriving', OnBus', c, readNext'[c], hostSent'[c])
    <2>1. PICK n \in 1..MaxId, m \in 1..MaxId, k \in 1..MaxId :
             /\ Passes(Reading, c, readNext[c], n) /\ Numbered(spi_rx_queue[c], c, n, m)
             /\ Passes(Arriving, c, m, k) /\ Passes(OnBus, c, k, hostSent[c])
      BY DEF RxInOrder, ReadWard
    <2>2. n = readNext[c]
      BY <1>2, <2>1, PassesNoData
    <2>3. PICK j \in 1..MaxId : /\ Passes(Reading', c, n, j)
                                /\ Numbered(spi_rx_queue'[c], c, j, m)
      BY <1>1, <1>2, <1>3, <2>1, PopMoves
    <2> QED
      BY <2>1, <2>2, <2>3 DEF RxPopped, ReadWard
  <1> QED
    BY <1>4 DEF RxInOrder

LEMMA RxDoneInOrder ==
  ASSUME ReaderTypes, RxInOrder, RxDone
  PROVE  RxInOrder'
  <1>1. readNext \in [Prio -> 1..MaxId]
    BY DEF ReaderTypes
  <1>2. ASSUME NEW c \in Prio
        PROVE  ReadWard(Reading', spi_rx_queue'[c], Arriving', OnBus', c, readNext'[c], hostSent'[c])
    <2>1. PICK n \in 1..MaxId, m \in 1..MaxId, k \in 1..MaxId :
             /\ Passes(Reading, c, readNext[c], n) /\ Numbered(spi_rx_queue[c], c, n, m)
             /\ Passes(Arriving, c, m, k) /\ Passes(OnBus, c, k, hostSent[c])
      BY DEF RxInOrder, ReadWard
    <2>2. readNext'[c] = n
      BY <1>1, <2>1, LeaveMoves DEF RxDone
    <2>3. Passes(Reading', c, readNext'[c], n)
      BY <2>2, PassesNoData DEF RxDone
    <2> QED
      BY <2>1, <2>3 DEF RxDone, ReadWard
  <1> QED
    BY <1>2 DEF RxInOrder

\* Every step of the firmware and the host is one of these.
LEMMA ChainMovesRx ==
  ASSUME Inv, Chain
  PROVE  RxStays \/ RxArrives \/ RxPushed
  <1>1. Held /\ ChainTypes /\ BusTypes /\ AtMostOne /\ Lines
    BY DEF Inv, TypeOK
  <1>2. UNCHANGED <<readNext, hostSent>> /\ Reading' = Reading
    BY DEF Chain, TakeTx, PopTx, ClearDataReady, DummyTx, AttachRx, Submit, GetTransResult,
           FreeBuffers, PushRx, GiveRx, FreeTrans, Reading, readerVars, busVars
  <1>3. CASE TakeTx \/ PopTx \/ ClearDataReady \/ DummyTx \/ AttachRx
    <2>1. UNCHANGED <<cur, done, bus, mosi, spi_rx_queue>>
      BY <1>3 DEF TakeTx, PopTx, ClearDataReady, DummyTx, AttachRx, busVars, rxVars
    <2>2. cpc \notin {"giveRx", "freeTrans"} /\ cpc' \notin {"giveRx", "freeTrans"}
      BY <1>3 DEF TakeTx, PopTx, ClearDataReady, DummyTx, AttachRx, Returned
    <2>3. Arriving' = Arriving /\ OnBus' = OnBus
      BY <2>1, <2>2 DEF Arriving, OnBus
    <2> QED
      BY <1>2, <2>1, <2>3 DEF RxStays
  <1>4. CASE Submit
    <2>1. UNCHANGED <<cur, done, bus, mosi, spi_rx_queue>>
      BY <1>4 DEF Submit, rxVars
    <2>2. cpc \notin {"giveRx", "freeTrans"} /\ cpc' \notin {"giveRx", "freeTrans"}
      BY <1>4 DEF Submit, Returned
    <2>3. Arriving' = Arriving /\ OnBus' = OnBus
      BY <2>1, <2>2 DEF Arriving, OnBus
    <2> QED
      BY <1>2, <2>1, <2>3 DEF RxStays
  <1>5. CASE GetTransResult
    <2>1. /\ cur = None /\ cur' = done[1] /\ done # <<>> /\ done' = <<>> /\ bus' = "idle"
          /\ cpc' = "take" /\ spi_rx_queue' = spi_rx_queue
      BY <1>1, <1>5, DriverShape, BusShape DEF GetTransResult, Held, rxVars
    <2>2. cur' # None
      <3>1. done \in Seq(Transaction) /\ done[1] \in Transaction
        BY <1>1, <2>1 DEF BusTypes
      <3> QED
        BY <2>1, <3>1, NoneIsNone
    <2>3. Arriving = NoData /\ Arriving' = OnBus /\ OnBus' = NoData
      BY <2>1, <2>2 DEF Arriving, OnBus
    <2> QED
      BY <1>2, <2>1, <2>3 DEF RxArrives
  <1>6. CASE FreeBuffers
    <2>1. cpc = "free" /\ cur # None /\ UNCHANGED <<cur, done, bus, mosi, spi_rx_queue>>
      BY <1>1, <1>6 DEF FreeBuffers, Held, chainVars, busVars, rxVars
    <2>2. cpc' = IF cur.rx = NoData THEN "freeTrans" ELSE "pushRx"
      BY <1>6 DEF FreeBuffers
    <2>3. Arriving' = Arriving /\ OnBus' = OnBus
      BY <2>1, <2>2 DEF Arriving, OnBus
    <2> QED
      BY <1>2, <2>1, <2>3 DEF RxStays
  <1>7. CASE PushRx
    <2>1. /\ cpc = "pushRx" /\ cur # None /\ cur.rx \in Packet /\ cpc' = "giveRx"
          /\ UNCHANGED <<done, bus, mosi>>
          /\ spi_rx_queue' = Sent(spi_rx_queue, cur.rx.class, cur.rx)
      BY <1>1, <1>7 DEF PushRx, Held, Sent, chainVars, busVars
    <2>2. Arriving = cur.rx /\ Arriving' = NoData /\ OnBus' = OnBus
      BY <2>1 DEF Arriving, OnBus
    <2> QED
      BY <1>2, <2>1, <2>2 DEF RxPushed
  <1>8. CASE GiveRx \/ FreeTrans
    <2>1. /\ cpc \in {"giveRx", "freeTrans"} /\ (cpc' = "freeTrans" \/ cur' = None)
          /\ UNCHANGED <<done, bus, mosi, spi_rx_queue>>
      BY <1>8 DEF GiveRx, FreeTrans, busVars, rxVars
    <2>2. Arriving = NoData /\ Arriving' = NoData /\ OnBus' = OnBus
      BY <2>1 DEF Arriving, OnBus
    <2> QED
      BY <1>2, <2>1, <2>2 DEF RxStays
  <1> QED
    BY <1>3, <1>4, <1>5, <1>6, <1>7, <1>8 DEF Chain

LEMMA ReaderMovesRx ==
  ASSUME Inv, Reader
  PROVE  RxStays \/ RxPopped \/ RxDone
  <1>1. Held /\ ReaderTypes
    BY DEF Inv, TypeOK
  <1>2. UNCHANGED hostSent /\ Arriving' = Arriving /\ OnBus' = OnBus
    BY DEF Reader, TakeRx, PopRx, ReadDone, Arriving, OnBus, chainVars, busVars
  <1>3. CASE TakeRx
    BY <1>2, <1>3 DEF TakeRx, RxStays, Reading
  <1>4. CASE PopRx
    <2>1. Reading = NoData /\ readNext' = readNext /\ rprio \in Prio
      BY <1>1, <1>4 DEF PopRx, Reading, ReaderTypes
    <2>2. CASE spi_rx_queue[rprio] # <<>>
      <3>1. /\ Reading' = Head(spi_rx_queue[rprio])
            /\ spi_rx_queue' = Received(spi_rx_queue, rprio)
        BY <1>4, <2>2 DEF PopRx, Reading, Received
      <3> QED
        BY <1>2, <2>1, <2>2, <3>1 DEF RxPopped
    <2>3. CASE spi_rx_queue[rprio] = <<>>
      <3>1. Reading' = NoData /\ spi_rx_queue' = spi_rx_queue
        BY <1>4, <2>3 DEF PopRx, Reading
      <3> QED
        BY <1>2, <2>1, <3>1 DEF RxStays
    <2> QED
      BY <2>2, <2>3
  <1>5. CASE ReadDone
    <2>1. Reading = rbuf /\ Reading \in Packet /\ Reading' = NoData
      BY <1>1, <1>5 DEF ReadDone, Reading, Held
    <2> QED
      BY <1>2, <1>5, <2>1 DEF ReadDone, RxDone, rxVars
  <1> QED
    BY <1>3, <1>4, <1>5 DEF Reader

LEMMA BusMovesRx ==
  ASSUME Inv, Interrupts \/ Host
  PROVE  RxStays \/ RxEnters
  <1>1. BusTypes /\ AtMostOne /\ Lines
    BY DEF Inv, TypeOK
  <1>2. UNCHANGED <<spi_rx_queue, readNext>> /\ Reading' = Reading /\ Arriving' = Arriving
    BY DEF Interrupts, LoadTransaction, FinishTransaction, CsInterrupt, Host, HostReceives,
           HostSends, HostEnds, HostBegins, Reading, Arriving, rxVars, readerVars, chainVars
  <1>3. CASE LoadTransaction \/ CsInterrupt
    <2>1. UNCHANGED <<done, bus, mosi, hostSent>>
      BY <1>3 DEF LoadTransaction, CsInterrupt
    <2> QED
      BY <1>2, <2>1 DEF RxStays, OnBus
  <1>4. CASE FinishTransaction
    <2>1. done = <<>>
      BY <1>1, <1>4, DriverShape DEF FinishTransaction, Lines
    <2>2. loaded \in Transaction
      BY <1>1, <1>4 DEF FinishTransaction, Lines, BusTypes
    <2>3. done' = <<[loaded EXCEPT !.rx = mosi]>> /\ bus = "ended" /\ hostSent' = hostSent
      BY <1>4, <2>1 DEF FinishTransaction
    <2>4. done'[1].rx = mosi /\ done' # <<>>
      BY <2>2, <2>3 DEF Transaction
    <2>5. OnBus = mosi /\ OnBus' = mosi
      BY <2>1, <2>3, <2>4 DEF OnBus
    <2> QED
      BY <1>2, <2>3, <2>5 DEF RxStays
  <1>5. ASSUME NEW x, HostBegins(x)
        PROVE  OnBus = NoData /\ OnBus' = x
    <2>1. bus = "idle" /\ loaded # None /\ bus' = "active" /\ mosi' = x /\ done' = done
      BY <1>1, <1>5, BusShape DEF HostBegins
    <2>2. done = <<>>
      BY <1>1, <2>1, DriverShape
    <2> QED
      BY <2>1, <2>2 DEF OnBus
  <1>6. CASE HostReceives
    BY <1>2, <1>5, <1>6 DEF HostReceives, RxStays
  <1>7. ASSUME NEW c \in RxClasses, HostSends(c)
        PROVE  RxEnters
    <2>1. c \in Prio
      BY SpiSlaveAssumption
    <2> QED
      BY <1>2, <1>5, <1>7, <2>1 DEF HostSends, RxEnters
  <1>8. CASE HostEnds
    <2>1. bus = "active" /\ bus' = "ended" /\ UNCHANGED <<done, mosi, hostSent>>
      BY <1>8 DEF HostEnds
    <2>2. OnBus' = OnBus
      BY <2>1 DEF OnBus
    <2> QED
      BY <1>2, <2>1, <2>2 DEF RxStays
  <1> QED
    BY <1>3, <1>4, <1>6, <1>7, <1>8 DEF Interrupts, Host

LEMMA NextRxInOrder == Inv /\ RxInOrder /\ Next => RxInOrder'
  <1> SUFFICES ASSUME Inv, RxInOrder, Next PROVE RxInOrder'
    OBVIOUS
  <1>1. RxTypes /\ ReaderTypes /\ BusTypes
    BY DEF Inv, TypeOK
  <1>2. CASE Writer
    <2>1. cur' = cur /\ (cpc' = cpc \/ (cpc = "boot" /\ cpc' = "take"))
      BY <1>2 DEF Writer, StartupEvent, Write, StartWrite, PushTx, GiveTx, SetDataReady, chainVars
    <2>2. UNCHANGED <<rxVars, readerVars, busVars>>
      BY <1>2 DEF Writer, StartupEvent, Write, StartWrite, PushTx, GiveTx, SetDataReady
    <2>3. Arriving' = Arriving
      BY <2>1 DEF Arriving
    <2>4. Reading' = Reading /\ OnBus' = OnBus /\ UNCHANGED <<spi_rx_queue, readNext, hostSent>>
      BY <2>2 DEF Reading, OnBus, rxVars, readerVars, busVars
    <2> QED
      BY <2>3, <2>4, RxStaysInOrder DEF RxStays
  <1>3. CASE AssertFails
    <2>1. /\ Reading' = Reading /\ Arriving' = Arriving /\ OnBus' = OnBus
          /\ UNCHANGED <<spi_rx_queue, readNext, hostSent>>
      BY <1>3 DEF AssertFails, Reading, Arriving, OnBus, rxVars, readerVars, chainVars, busVars
    <2> QED
      BY <2>1, RxStaysInOrder DEF RxStays
  <1>4. CASE Chain
    BY <1>1, <1>4, ChainMovesRx, RxStaysInOrder, RxArrivesInOrder, RxPushedInOrder
  <1>5. CASE Reader
    BY <1>1, <1>5, ReaderMovesRx, RxStaysInOrder, RxPoppedInOrder, RxDoneInOrder
  <1>6. CASE Interrupts \/ Host
    BY <1>1, <1>6, BusMovesRx, RxStaysInOrder, RxEntersInOrder
  <1> QED
    BY <1>2, <1>3, <1>4, <1>5, <1>6 DEF Next

\* At the start nothing is on its way in either direction.
LEMMA InitInOrder == Init => TxInOrder /\ RxInOrder
  <1> SUFFICES ASSUME Init PROVE TxInOrder /\ RxInOrder
    OBVIOUS
  <1>1. 1 \in 1..MaxId
    BY SpiSlaveAssumption
  <1>2. \A c \in Prio : Numbered(<<>>, c, 1, 1)
    BY DEF Numbered
  <1>3. /\ Leaving = NoData /\ Pushing = NoData /\ Reading = NoData /\ Arriving = NoData
        /\ OnBus = NoData
    BY DEF Init, Leaving, Pushing, Reading, Arriving, OnBus
  <1>4. \A c \in Prio : /\ spi_tx_queue[c] = <<>> /\ spi_rx_queue[c] = <<>>
                        /\ hostGot[c] = 1 /\ written[c] = 1 /\ readNext[c] = 1 /\ hostSent[c] = 1
    BY DEF Init
  <1>5. TxInOrder
    BY <1>1, <1>2, <1>3, <1>4, PassesNoData DEF TxInOrder, HostWard
  <1>6. RxInOrder
    BY <1>1, <1>2, <1>3, <1>4, PassesNoData DEF RxInOrder, ReadWard
  <1> QED
    BY <1>5, <1>6

\* What is at the end of its way is what is due there.
LEMMA EndsInOrder == Inv /\ TxInOrder /\ RxInOrder => InOrder
  <1> SUFFICES ASSUME Inv, TxInOrder, RxInOrder PROVE InOrder
    OBVIOUS
  <1>1. Held /\ BusTypes /\ AtMostOne /\ ReaderTypes
    BY DEF Inv, TypeOK
  <1>2. ASSUME bus = "active", loaded # None, loaded.tx \in Packet
        PROVE  loaded.tx.id = hostGot[loaded.tx.class]
    <2>1. Leaving = loaded.tx
      BY <1>1, <1>2, DriverShape DEF Leaving
    <2>2. loaded.tx.class \in Prio
      BY <1>2 DEF Packet
    <2>3. PICK n \in 1..MaxId : Passes(Leaving, loaded.tx.class, hostGot[loaded.tx.class], n)
      BY <2>2 DEF TxInOrder, HostWard
    <2> QED
      BY <1>2, <2>1, <2>3 DEF Passes
  <1>3. ASSUME rpc = "process"
        PROVE  rbuf.id = readNext[rbuf.class]
    <2>1. Reading = rbuf /\ rbuf \in Packet
      BY <1>1, <1>3 DEF Reading, Held
    <2>2. rbuf.class \in Prio
      BY <2>1 DEF Packet
    <2>3. PICK n \in 1..MaxId : Passes(Reading, rbuf.class, readNext[rbuf.class], n)
      BY <2>2 DEF RxInOrder, ReadWard
    <2> QED
      BY <2>1, <2>3 DEF Passes
  <1> QED
    BY <1>2, <1>3 DEF InOrder

\* In either direction packets of one class arrive in the order in which they
\* were sent, none lost and none twice, for any sizes of the queues and the pool.
THEOREM PacketsInOrder == Spec => []InOrder
  <1>1. Inv /\ TxInOrder /\ RxInOrder /\ [Next]_vars => (TxInOrder /\ RxInOrder)'
    <2> SUFFICES ASSUME Inv, TxInOrder, RxInOrder, [Next]_vars PROVE TxInOrder' /\ RxInOrder'
      OBVIOUS
    <2>1. CASE Next
      BY <2>1, NextTxInOrder, NextRxInOrder
    <2>2. CASE UNCHANGED vars
      <3>1. TxStays
        BY <2>2 DEF vars, TxStays, Leaving, Pushing, txVars, writerVars, chainVars, busVars
      <3>2. RxStays
        BY <2>2 DEF vars, RxStays, Reading, Arriving, OnBus, rxVars, readerVars, chainVars, busVars
      <3> QED
        BY <3>1, <3>2, TxStaysInOrder, RxStaysInOrder
    <2> QED
      BY <2>1, <2>2
  <1> QED
    BY <1>1, InitInOrder, EndsInOrder, Invariance, PTL DEF Spec
=============================================================================
