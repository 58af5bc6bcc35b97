---------------------------- MODULE SdioLinkProofs ----------------------------
(***************************************************************************)
(* Theorems about SdioLink, for every number of writers and of buffers,    *)
(* all sizes of the two wrapping counters and every number of packets,     *)
(* faults and removals.                                                    *)
(***************************************************************************)
EXTENDS SdioLink, FiniteSetTheorems, TLAPS

-----------------------------------------------------------------------------
(* Arithmetic of the wrapping counters *)

\* The constants are numbers.
LEMMA Sizes ==
  /\ ESP_TX_BUFFER_MAX \in Nat \ {0} /\ ESP_RX_BYTE_MAX \in Nat \ {0}
  /\ ESP_MAX_BUF_CNT \in Nat \ {0} /\ ESP_MAX_BUF_CNT < ESP_TX_BUFFER_MAX
  /\ TX_RESUME_THRESHOLD \in Nat \ {0}
  /\ MaxPackets \in Nat /\ MaxFaults \in Nat /\ MaxRemoves \in Nat
  /\ \A n \in Lengths : n \in 1..(ESP_RX_BYTE_MAX - 1)
  BY SdioLinkAssumption

LEMMA ModRange ==
  ASSUME NEW M \in Nat \ {0}, NEW a \in Int
  PROVE  a % M \in 0..(M - 1)
  OBVIOUS

\* A counter that grows by less than its modulus wraps around once at most.
LEMMA ModAdd ==
  ASSUME NEW M \in Nat \ {0}, NEW a \in 0..(M - 1), NEW n \in 0..(M - 1)
  PROVE  (a + n) % M = IF a + n < M THEN a + n ELSE a + n - M
  OBVIOUS

\* The same when it grows by one.
LEMMA ModNext ==
  ASSUME NEW M \in Nat \ {0}, NEW a \in 0..(M - 1)
  PROVE  /\ (a + 1) % M = IF a + 1 < M THEN a + 1 ELSE 0
         /\ (a + 1) % M \in 0..(M - 1)
  OBVIOUS

\* The difference of two counters
LEMMA ModDiff ==
  ASSUME NEW M \in Nat \ {0}, NEW a \in 0..(M - 1), NEW b \in 0..(M - 1)
  PROVE  (a + M - b) % M = IF a >= b THEN a - b ELSE a - b + M
  OBVIOUS

LEMMA ModZero ==
  ASSUME NEW M \in Nat \ {0}, NEW a \in {0, -M, -M - M}
  PROVE  a % M = 0
  OBVIOUS

\* What esp_get_len_from_slave() returns: the bytes between the two counters.
LEMMA OfferedValue ==
  ASSUME len \in Bytes, rx_byte_count \in Bytes
  PROVE  /\ Offered = IF len >= rx_byte_count THEN len - rx_byte_count ELSE len - rx_byte_count + ESP_RX_BYTE_MAX
         /\ Offered \in Bytes
  BY Sizes, ModDiff DEF Offered, Bytes

-----------------------------------------------------------------------------
(* Type correctness *)

\* Every buffer of the slave is loaded, filled, or with recv_task.
BuffersConserved ==
    loaded + filled + (IF reader = "held" THEN 1 ELSE 0) = ESP_MAX_BUF_CNT

TypeInv == TypeOK /\ BuffersConserved

LEMMA InitType == Init => TypeInv
  <1> SUFFICES ASSUME Init PROVE TypeInv
    OBVIOUS
  <1>1. 0 \in Token /\ 0 \in Bytes
    BY Sizes DEF Token, Bytes
  <1> QED
    <2> USE Sizes DEF Init
    <2>1. tx \in [pc : {"idle", "dec", "avail", "write", "count"}, retry : 0..2]
      BY DEF TxIdle
    <2>2. BuffersConserved
      BY DEF BuffersConserved
    <2>3. loaded \in 0..ESP_MAX_BUF_CNT /\ filled \in 0..ESP_MAX_BUF_CNT
      OBVIOUS
    <2>4. writes \in 0..MaxPackets /\ offers \in 0..MaxPackets /\ faults \in 0..MaxFaults /\ removes \in 0..MaxRemoves
      OBVIOUS
    <2>5. {tx_buffer_count, token, skew, buf_available} \subseteq Token /\ {rx_byte_count, len, out} \subseteq Bytes
      BY <1>1
    <2>6. {tx_pending, queue_items, txq, rx_sem} \subseteq Nat
      OBVIOUS
    <2> QED
      BY <2>1, <2>2, <2>3, <2>4, <2>5, <2>6 DEF TypeInv, TypeOK

\* The counters, one by one
LEMMA Counters ==
  ASSUME TypeOK
  PROVE  /\ tx_pending \in Nat /\ queue_items \in Nat /\ txq \in Nat /\ rx_sem \in Nat
         /\ tx_buffer_count \in Token /\ token \in Token /\ skew \in Token /\ buf_available \in Token
         /\ rx_byte_count \in Bytes /\ len \in Bytes /\ out \in Bytes
         /\ loaded \in Nat /\ loaded <= ESP_MAX_BUF_CNT /\ filled \in Nat /\ filled <= ESP_MAX_BUF_CNT
  BY Sizes DEF TypeOK

LEMMA FaultCounted ==
  ASSUME faults \in 0..MaxFaults, Fault
  PROVE  faults' \in 0..MaxFaults
  BY Sizes DEF Fault

\* Reading adds to the host's counter and takes from the packet.
LEMMA ReadType ==
  ASSUME TypeOK, NEW n \in Int, Read(n)
  PROVE  rx_byte_count' \in Bytes /\ (n \in Nat => out' \in Bytes)
  <1>1. rx_byte_count \in 0..(ESP_RX_BYTE_MAX - 1) /\ out \in 0..(ESP_RX_BYTE_MAX - 1)
    BY Counters DEF Bytes
  <1>2. (rx_byte_count + n) % ESP_RX_BYTE_MAX \in 0..(ESP_RX_BYTE_MAX - 1)
    BY <1>1, Sizes, ModRange
  <1>3. ASSUME n \in Nat PROVE (IF n < out THEN out - n ELSE 0) \in 0..(ESP_RX_BYTE_MAX - 1)
    BY <1>1, <1>3, Sizes
  <1> QED
    BY <1>2, <1>3 DEF Read, Bytes

\* The state of the write path is disturbed by writers alone ...
LEMMA TypeWriter ==
  ASSUME TypeInv, \E w \in Writer : Write(w) \/ WriterStep(w)
  PROVE  TypeInv'
  <1> PICK w \in Writer : Write(w) \/ WriterStep(w)
    OBVIOUS
  <1>1. UNCHANGED <<probe, ready, tx, buf_available, tx_buffer_count, rx_byte_count, rx_sem, rx, isr,
                    intr, active, token, loaded, filled, reader, sender, len, out, int, skew, sound, missed,
                    offers, faults, removes>>
    BY DEF Write, WriterStep, Pause, Count, Item, Queue, writerUnchanged, credit, hostRx, slaveRx,
           slaveTx, history
  <1>2. /\ tx_pending' \in Nat /\ queue_items' \in Nat /\ txq' \in Nat /\ stopped' \in BOOLEAN
        /\ writes' \in 0..MaxPackets
        /\ writer' \in [Writer -> {"idle", "pause", "count", "item", "queue"}]
    <2>1. CASE Write(w)
      BY <2>1, Sizes DEF Write, Goto, hostTx, TypeInv, TypeOK
    <2>2. CASE WriterStep(w)
      <3>1. /\ writer' \in [Writer -> {"idle", "pause", "count", "item", "queue"}]
            /\ writes' \in 0..MaxPackets /\ stopped' \in BOOLEAN
        BY <2>2 DEF WriterStep, Pause, Count, Item, Queue, Goto, TypeInv, TypeOK
      <3>2. tx_pending' \in {tx_pending, tx_pending + 1} /\ queue_items' \in {queue_items, queue_items + 1}
            /\ txq' \in {txq, txq + 1}
        BY <2>2 DEF WriterStep, Pause, Count, Item, Queue
      <3> QED
        BY <3>1, <3>2, Counters DEF TypeInv
    <2> QED
      BY <2>1, <2>2
  <1> QED
    BY <1>1, <1>2 DEF TypeInv, TypeOK, BuffersConserved

\* ... and the tx thread,
LEMMA TypeTx ==
  ASSUME TypeInv, Dequeue \/ Decrement \/ Available \/ AvailableFails \/ WriteBlock \/ WriteFails \/ CountBuffer
  PROVE  TypeInv'
  <1>1. UNCHANGED <<probe, ready, writer, rx_byte_count, rx_sem, rx, isr, intr, active, token, reader,
                    sender, len, out, int, writes, offers, removes>>
    BY DEF Dequeue, Decrement, Available, AvailableFails, WriteBlock, WriteFails, CountBuffer, txUnchanged, hostRx,
           slaveTx
  <1>2. /\ tx_pending' \in Nat /\ queue_items' \in Nat /\ txq' \in Nat /\ stopped' \in BOOLEAN
    <2>1. CASE Dequeue
      BY <2>1 DEF Dequeue, TypeInv, TypeOK
    <2>2. CASE Decrement
      BY <2>2, Sizes DEF Decrement, TypeInv, TypeOK
    <2>3. CASE Available \/ AvailableFails \/ WriteBlock \/ WriteFails \/ CountBuffer
      BY <2>3 DEF Available, AvailableFails, WriteBlock, WriteFails, CountBuffer, hostTx, TypeInv, TypeOK
    <2> QED
      BY <2>1, <2>2, <2>3
  <1>3. tx' \in [pc : {"idle", "dec", "avail", "write", "count"}, retry : 0..2]
    BY DEF Dequeue, Decrement, Available, AvailableFails, WriteBlock, WriteFails, CountBuffer, TxIdle, TypeInv, TypeOK
  <1>4. /\ tx_buffer_count' \in Token /\ buf_available' \in Token /\ skew' \in Token /\ sound' \in BOOLEAN
        /\ missed' \in BOOLEAN /\ faults' \in 0..MaxFaults
    <2>5. CASE AvailableFails
      BY <2>5, FaultCounted DEF AvailableFails, history, credit, TypeInv, TypeOK
    <2>1. CASE Available
      <3>1. Free \in Token
        BY Sizes, ModDiff DEF Free, Token, TypeInv, TypeOK
      <3> QED
        BY <2>1, <3>1, Sizes DEF Available, history, TypeInv, TypeOK, Token
    <2>2. CASE WriteFails
      <3>1. (skew + 1) % ESP_TX_BUFFER_MAX \in Token
        BY Sizes, ModNext DEF TypeInv, TypeOK, Token
      <3> QED
        BY <2>2, <3>1, FaultCounted DEF WriteFails, history, credit, TypeInv, TypeOK
    <2>3. CASE CountBuffer
      <3>1. (tx_buffer_count + 1) % ESP_TX_BUFFER_MAX \in Token
        BY Sizes, ModNext DEF TypeInv, TypeOK, Token
      <3> QED
        BY <2>3, <3>1 DEF CountBuffer, history, TypeInv, TypeOK
    <2>4. CASE Dequeue \/ Decrement \/ WriteBlock
      BY <2>4 DEF Dequeue, Decrement, WriteBlock, history, credit, TypeInv, TypeOK
    <2> QED
      BY <2>1, <2>2, <2>3, <2>4, <2>5
  <1>5. /\ loaded' \in 0..ESP_MAX_BUF_CNT /\ filled' \in 0..ESP_MAX_BUF_CNT
        /\ loaded' + filled' = loaded + filled
    BY Sizes DEF Dequeue, Decrement, Available, AvailableFails, WriteBlock, WriteFails, CountBuffer, TypeInv, TypeOK,
                 BuffersConserved
  <1> QED
    BY <1>1, <1>2, <1>3, <1>4, <1>5 DEF TypeInv, TypeOK, BuffersConserved

\* ... the read path by the interrupt and the receive thread,
LEMMA TypeRx ==
  ASSUME TypeInv, IsrRead \/ IsrClear \/ RxTake \/ ReadPacket \/ RxFails
  PROVE  TypeInv'
  <1>1. UNCHANGED <<probe, tx_pending, queue_items, txq, stopped, writer, tx, buf_available, tx_buffer_count,
                    intr, active, token, loaded, filled, reader, sender, len, skew, sound, writes, offers, removes>>
    BY DEF IsrRead, IsrClear, RxTake, ReadPacket, RxFails, IsrReadFails, IsrClearFails, ReadNothing, ReadFails, Miss,
           rxUnchanged, hostTx, credit, slaveRx, history
  <1>2. /\ isr' \in BOOLEAN /\ rx_sem' \in Nat /\ rx' \in {"idle", "read"} /\ int' \in BOOLEAN /\ ready' \in BOOLEAN
        /\ missed' \in BOOLEAN /\ faults' \in 0..MaxFaults
    <2>1. CASE IsrRead \/ IsrReadFails
      <3>1. rx_sem' \in Nat
        BY <2>1, Counters DEF IsrRead, IsrReadFails, TypeInv
      <3>2. missed' \in BOOLEAN /\ faults' \in 0..MaxFaults
        BY <2>1, FaultCounted DEF IsrRead, IsrReadFails, Miss, history, TypeInv, TypeOK
      <3> QED
        BY <2>1, <3>1, <3>2 DEF IsrRead, IsrReadFails, TypeInv, TypeOK
    <2>5. CASE IsrClear \/ IsrClearFails
      <3>1. faults' \in 0..MaxFaults
        BY <2>5, FaultCounted DEF IsrClear, IsrClearFails, TypeInv, TypeOK
      <3> QED
        BY <2>5, <3>1 DEF IsrClear, IsrClearFails, hostRx, history, TypeInv, TypeOK
    <2>2. CASE RxTake
      BY <2>2 DEF RxTake, history, TypeInv, TypeOK
    <2>3. CASE ReadPacket
      BY <2>3 DEF ReadPacket, history, TypeInv, TypeOK
    <2>4. CASE ReadFails \/ ReadNothing
      <3>1. missed' \in BOOLEAN /\ faults' \in 0..MaxFaults
        BY <2>4, FaultCounted DEF ReadFails, ReadNothing, Miss, TypeInv, TypeOK
      <3> QED
        BY <2>4, <3>1 DEF ReadFails, ReadNothing, TypeInv, TypeOK
    <2> QED
      BY <2>1, <2>2, <2>3, <2>4, <2>5 DEF RxFails
  <1>3. rx_byte_count' \in Bytes /\ out' \in Bytes
    <2>1. ASSUME NEW n \in Int, Read(n) PROVE rx_byte_count' \in Bytes /\ (n \in Nat => out' \in Bytes)
      BY <2>1, ReadType DEF TypeInv
    <2>2. Offered \in Bytes
      BY OfferedValue DEF TypeInv, TypeOK
    <2>3. CASE ReadPacket
      BY <2>1, <2>2, <2>3, Sizes DEF ReadPacket, Bytes
    <2>4. CASE ReadFails
      <3>1. PICK n \in 0..(Offered - 1) : Read(n)
        BY <2>4 DEF ReadFails
      <3> QED
        BY <2>1, <3>1
    <2>5. CASE IsrRead \/ IsrClear \/ RxTake \/ IsrReadFails \/ IsrClearFails \/ ReadNothing
      BY <2>5 DEF IsrRead, IsrClear, RxTake, IsrReadFails, IsrClearFails, ReadNothing, hostRx, TypeInv, TypeOK
    <2> QED
      BY <2>3, <2>4, <2>5 DEF RxFails
  <1> QED
    BY <1>1, <1>2, <1>3 DEF TypeInv, TypeOK, BuffersConserved

\* ... and everything by probing and removing the card.
LEMMA TypeCard ==
  ASSUME TypeInv, Prober \/ ProbeFails \/ StopThread \/ Remover
  PROVE  TypeInv'
  <1> USE DEF TypeInv, TypeOK
  <1>0. UNCHANGED <<isr, active, token, loaded, filled, reader, sender, len, int, writes, offers>>
    BY DEF Prober, ProbeLen, ProbeToken, AddCard, OpenDataPath, ProbeFails, StopThread, Remover,
           CloseDataPath, Slept, Flush, RemoveCard, probeUnchanged, slaveRx
  <1>1. CASE ProbeLen \/ AddCard \/ OpenDataPath \/ ProbeFails \/ StopThread \/ CloseDataPath \/ Slept
    <2>1. /\ UNCHANGED <<queue_items, txq, writer, tx, credit, rx_sem, rx, out, skew, sound>>
          /\ tx_pending' \in Nat /\ stopped' \in BOOLEAN /\ rx_byte_count' \in Bytes /\ ready' \in BOOLEAN
          /\ intr' \in {"none", "open", "close"}
          /\ probe' \in {"none", "init", "added", "card", "up", "closing", "sleep", "flush", "removing"}
      <3>1. CASE ProbeLen
        BY <3>1 DEF ProbeLen, history
      <3>2. CASE AddCard \/ OpenDataPath
        BY <3>2 DEF AddCard, OpenDataPath, Interrupt, InterruptFails, Miss, hostTx, hostRx, history
      <3>3. CASE ProbeFails \/ StopThread \/ CloseDataPath \/ Slept
        BY <3>3 DEF ProbeFails, StopThread, CloseDataPath, Slept, Interrupt, InterruptFails, Miss, hostTx, hostRx, history
      <3> QED
        BY <1>1, <3>1, <3>2, <3>3
    <2>2. faults' \in 0..MaxFaults /\ missed' \in BOOLEAN
      BY <1>1, FaultCounted DEF ProbeLen, AddCard, OpenDataPath, ProbeFails, StopThread, CloseDataPath, Slept,
                                Interrupt, InterruptFails, Miss, history
    <2>3. removes' \in 0..MaxRemoves
      <3>1. CASE StopThread
        BY <3>1, Sizes DEF StopThread
      <3> QED
        BY <1>1, <3>1 DEF ProbeLen, AddCard, OpenDataPath, ProbeFails, CloseDataPath, Slept
    <2> QED
      BY <1>0, <2>1, <2>2, <2>3 DEF credit, BuffersConserved
  <1>2. CASE ProbeToken
    <2> DEFINE count == IF token >= ESP_MAX_BUF_CNT THEN token - ESP_MAX_BUF_CNT ELSE 0
    <2>2. count \in Token
      BY Sizes, Counters DEF Token
    <2>3. (token - count - loaded + ESP_TX_BUFFER_MAX) % ESP_TX_BUFFER_MAX \in Token
      <3>1. token - count - loaded + ESP_TX_BUFFER_MAX \in Int
        BY <2>2, Sizes, Counters DEF Token
      <3> QED
        BY <3>1, Sizes, ModRange DEF Token
    <2>1. tx_buffer_count' \in Token /\ skew' \in Token
      BY <1>2, <2>2, <2>3 DEF ProbeToken
    <2> QED
      BY <1>0, <1>2, <2>1 DEF ProbeToken, hostRx, BuffersConserved
  <1>3. CASE Flush
    <2>1. /\ UNCHANGED <<tx_pending, queue_items, txq, stopped, writer, tx, buf_available, tx_buffer_count,
                         rx_sem, rx, intr, skew, sound, removes>>
          /\ probe' \in {probe, "removing"} /\ ready' \in BOOLEAN /\ faults' \in 0..MaxFaults
          /\ missed' \in BOOLEAN
      BY <1>3, FaultCounted DEF Flush, Miss, hostTx, credit, history
    <2>2. rx_byte_count' \in Bytes /\ out' \in Bytes
      <3>1. ASSUME NEW n \in Int, Read(n) PROVE rx_byte_count' \in Bytes /\ (n \in Nat => out' \in Bytes)
        BY <3>1, ReadType
      <3>2. Offered \in Bytes
        BY OfferedValue
      <3>3. CASE Read(Offered)
        BY <3>1, <3>2, <3>3, Sizes DEF Bytes
      <3>4. CASE \E n \in 0..(Offered - 1) : Read(n)
        BY <3>1, <3>4
      <3>5. CASE UNCHANGED <<rx_byte_count, out>>
        BY <3>5
      <3> QED
        BY <1>3, <3>3, <3>4, <3>5 DEF Flush
    <2> QED
      BY <1>0, <2>1, <2>2 DEF BuffersConserved
  <1>4. CASE RemoveCard
    <2>1. 0 \in Token /\ 0 \in Bytes
      BY Sizes DEF Token, Bytes
    <2> QED
      BY <1>0, <1>4, <2>1 DEF RemoveCard, history, BuffersConserved
  <1> QED
    BY <1>1, <1>2, <1>3, <1>4 DEF Prober, Remover

\* The slave fills, empties and loads its buffers.
LEMMA TypeSlave ==
  ASSUME TypeInv, Slave \/ Restart
  PROVE  TypeInv'
  <1> USE DEF TypeInv, TypeOK
  <1>1. UNCHANGED <<probe, ready, tx_pending, queue_items, txq, stopped, writer, tx, buf_available,
                    tx_buffer_count, rx_byte_count, rx_sem, rx, isr, skew, sound, missed, writes, removes>>
    BY DEF Slave, EventCb, ReadCheck, Recv, ReadDone, WriteCheck, Transmit, Transmitted, Restart, slaveUnchanged,
           hostTx, credit, hostRx, history
  <1>2. CASE EventCb \/ ReadCheck \/ Recv \/ WriteCheck \/ Transmitted
    <2>1. CASE EventCb
      <3>1. active' \in BOOLEAN /\ intr' = "none"
        BY <2>1 DEF EventCb
      <3> QED
        BY <1>1, <2>1, <3>1 DEF EventCb, slaveTx, BuffersConserved
    <2>4. CASE ReadCheck
      BY <1>1, <2>4 DEF ReadCheck, slaveTx, BuffersConserved
    <2>5. CASE Transmitted
      BY <1>1, <2>5 DEF Transmitted, slaveRx, BuffersConserved
    <2>2. CASE Recv
      BY <1>1, <2>2, Sizes DEF Recv, slaveTx, BuffersConserved
    <2>3. CASE WriteCheck
      <3>1. writes \in Nat /\ offers \in Nat /\ offers + 1 <= MaxPackets
        BY <2>3, Sizes DEF WriteCheck
      <3>2. offers' \in 0..MaxPackets
        BY <2>3, <3>1, Sizes DEF WriteCheck
      <3> QED
        BY <1>1, <2>3, <3>2 DEF WriteCheck, slaveRx, BuffersConserved
    <2> QED
      BY <1>2, <2>1, <2>2, <2>3, <2>4, <2>5
  <1>3. CASE ReadDone
    <2>1. token' \in Token
      BY <1>3, Sizes, ModNext DEF ReadDone, Token
    <2> QED
      BY <1>1, <1>3, <2>1, Sizes DEF ReadDone, slaveTx, BuffersConserved
  <1>4. CASE Transmit
    <2>1. PICK n \in Lengths : len' = (len + n) % ESP_RX_BYTE_MAX /\ out' = n
      BY <1>4 DEF Transmit
    <2>2. n \in 1..(ESP_RX_BYTE_MAX - 1) /\ len \in Int
      BY Sizes, Counters DEF Bytes
    <2>3. (len + n) % ESP_RX_BYTE_MAX \in 0..(ESP_RX_BYTE_MAX - 1) /\ n \in 0..(ESP_RX_BYTE_MAX - 1)
      BY <2>2, Sizes, ModRange
    <2>4. len' \in Bytes /\ out' \in Bytes
      BY <2>1, <2>3 DEF Bytes
    <2> QED
      BY <1>1, <1>4, <2>4 DEF Transmit, slaveRx, BuffersConserved
  <1>5. CASE Restart
    <2>1. ESP_MAX_BUF_CNT \in Token /\ 0 \in Bytes
      BY Sizes DEF Token, Bytes
    <2> QED
      <3>1. faults' \in 0..MaxFaults
        BY <1>5, FaultCounted DEF Restart
      <3>2. BuffersConserved'
        BY <1>5, Sizes DEF Restart, BuffersConserved
      <3>3. loaded' \in 0..ESP_MAX_BUF_CNT /\ filled' \in 0..ESP_MAX_BUF_CNT
        BY <1>5, Sizes DEF Restart
      <3> QED
        BY <1>1, <1>5, <2>1, <3>1, <3>2, <3>3 DEF Restart
  <1> QED
    BY <1>2, <1>3, <1>4, <1>5 DEF Slave

LEMMA NextType == TypeInv /\ [Next]_vars => TypeInv'
  <1> SUFFICES ASSUME TypeInv, [Next]_vars PROVE TypeInv'
    OBVIOUS
  <1>1. CASE UNCHANGED vars
    BY <1>1 DEF vars, hostTx, credit, hostRx, slaveRx, slaveTx, history, TypeInv, TypeOK, BuffersConserved
  <1> QED
    BY <1>1, TypeWriter, TypeTx, TypeRx, TypeCard, TypeSlave DEF Next, Host

LEMMA TypeInvHolds == Spec => []TypeInv
  BY InitType, NextType, PTL DEF Spec

\* Every variable keeps its type; none of the slave's buffers is lost or counted twice.
THEOREM TypeCorrect == Spec => []TypeOK
  <1>1. TypeInv => TypeOK
    BY DEF TypeInv
  <1> QED
    BY <1>1, TypeInvHolds, PTL

-----------------------------------------------------------------------------
(* Where the card, the threads and the slave can be at the same time *)

\* The tx thread has a packet in hand only while a card is there; before and
\* after, nothing is queued and no writer is at it.
HostPhases ==
    /\ tx.pc # "idle" => probe \in {"added", "card", "up"}
    /\ probe \in {"none", "init", "added"} => \A w \in Writer : writer[w] = "idle"
    /\ probe \in {"none", "init"} => txq = 0
    /\ probe = "init" => tx_pending = 0

\* No card was removed after a read, or an interrupt's transfer, had failed.
Whole == missed => removes = 0

\* From the end of the 100 ms until the data path is opened the slave is quiet,
\* if it was told.
SlavePhases ==
    /\ Whole =>
          /\ probe \in {"flush", "removing", "none", "init", "added", "card"} =>
                ~active /\ sender # "checked" /\ intr = "none"
          /\ probe = "sleep" => intr # "open" /\ (intr = "close" \/ ~active)
    /\ probe \in {"closing", "sleep", "flush", "removing"} => removes > 0
    /\ sender # "wait" => out = 0

Phases == HostPhases /\ SlavePhases

LEMMA InitPhases == Init => Phases
  BY DEF Init, Phases, HostPhases, SlavePhases, TxIdle

LEMMA NextPhases == TypeInv /\ Phases /\ [Next]_vars => Phases'
  <1> SUFFICES ASSUME TypeInv, Phases, [Next]_vars PROVE Phases'
    OBVIOUS
  <1> USE DEF TypeInv, Phases, HostPhases, SlavePhases, Whole
  <1>1. ASSUME NEW w \in Writer, Write(w) \/ WriterStep(w) PROVE Phases'
    <2>1. UNCHANGED <<probe, tx, active, sender, intr, out, missed, removes>>
      BY <1>1 DEF Write, WriterStep, Pause, Count, Item, Queue, writerUnchanged, slaveRx, slaveTx, history
    <2>2. probe \notin {"none", "init", "added"}
      BY <1>1 DEF Write, WriterStep, Pause, Count, Item, Queue
    <2> QED
      BY <2>1, <2>2
  <1>2. CASE Dequeue \/ Decrement \/ Available \/ AvailableFails \/ WriteBlock \/ WriteFails \/ CountBuffer
    <2>1. UNCHANGED <<probe, writer, active, sender, intr, out, missed, removes>>
      BY <1>2 DEF Dequeue, Decrement, Available, AvailableFails, WriteBlock, WriteFails, CountBuffer, txUnchanged,
                  slaveTx, history
    <2>2. probe \in {"added", "card", "up"}
      BY <1>2 DEF Dequeue, Decrement, Available, AvailableFails, WriteBlock, WriteFails, CountBuffer
    <2> QED
      BY <2>1, <2>2
  <1>3. CASE IsrRead \/ IsrClear \/ RxTake \/ ReadPacket \/ RxFails
    <2>1. UNCHANGED <<probe, tx, txq, tx_pending, writer, active, sender, intr, removes>> /\ (missed => missed')
      BY <1>3 DEF IsrRead, IsrClear, RxTake, ReadPacket, RxFails, IsrReadFails, IsrClearFails, ReadNothing, ReadFails,
                  Miss, rxUnchanged, hostTx, slaveRx, history
    <2>2. out = 0 => out' = 0
      <3>1. ASSUME NEW n \in Nat, Read(n), out = 0 PROVE out' = 0
        BY <3>1 DEF Read
      <3>2. Offered \in Bytes
        BY OfferedValue DEF TypeOK
      <3>3. Offered \in Nat /\ 0..(Offered - 1) \subseteq Nat
        BY <3>2, Sizes DEF Bytes
      <3> QED
        BY <1>3, <3>1, <3>3 DEF IsrRead, IsrClear, RxTake, ReadPacket, RxFails, IsrReadFails, IsrClearFails,
                                ReadNothing, ReadFails
    <2> QED
      BY <2>1, <2>2
  <1>4. CASE Prober \/ ProbeFails \/ StopThread \/ CloseDataPath \/ Slept
    <2>1. UNCHANGED <<writer, tx, active, sender, out>>
      BY <1>4 DEF Prober, ProbeLen, ProbeToken, AddCard, OpenDataPath, ProbeFails, StopThread, CloseDataPath, Slept,
             probeUnchanged, slaveRx
    <2>2. CASE Prober \/ ProbeFails
      BY <2>1, <2>2 DEF Prober, ProbeLen, ProbeToken, AddCard, OpenDataPath, ProbeFails, hostTx, history
    <2>3. CASE StopThread
      <3>1. removes' > 0
        BY <2>3, Sizes DEF StopThread, TypeOK
      <3> QED
        BY <2>1, <2>3, <3>1 DEF StopThread, hostTx, history
    <2>4. CASE CloseDataPath
      BY <2>1, <2>4 DEF CloseDataPath, Interrupt, InterruptFails, Miss, hostTx, history
    <2>5. CASE Slept
      BY <2>1, <2>5 DEF Slept, hostTx, history
    <2> QED
      BY <1>4, <2>2, <2>3, <2>4, <2>5
  <1>5. CASE Flush
    <2>1. UNCHANGED <<writer, tx, txq, tx_pending, active, sender, intr, removes>> /\ probe' \in {"flush", "removing"}
          /\ probe = "flush" /\ (missed => missed')
      BY <1>5 DEF Flush, Miss, probeUnchanged, slaveRx, hostTx, history
    <2>2. out = 0 => out' = 0
      <3>1. ASSUME NEW n \in Nat, Read(n), out = 0 PROVE out' = 0
        BY <3>1 DEF Read
      <3>2. Offered \in Bytes
        BY OfferedValue DEF TypeOK
      <3>3. Offered \in Nat /\ 0..(Offered - 1) \subseteq Nat
        BY <3>2, Sizes DEF Bytes
      <3> QED
        BY <1>5, <3>1, <3>3 DEF Flush
    <2> QED
      BY <2>1, <2>2
  <1>6. CASE RemoveCard
    BY <1>6 DEF RemoveCard, probeUnchanged, slaveRx, history
  <1>7. CASE Slave \/ Restart
    <2>1. UNCHANGED <<probe, tx, txq, tx_pending, writer, missed, removes>>
      BY <1>7 DEF Slave, EventCb, ReadCheck, Recv, ReadDone, WriteCheck, Transmit, Transmitted, Restart,
             slaveUnchanged, hostTx, history
    <2>2. SlavePhases'
      <3>1. CASE EventCb
        BY <2>1, <3>1 DEF EventCb, slaveTx, TypeOK
      <3>2. CASE ReadCheck \/ Recv \/ ReadDone
        BY <2>1, <3>2 DEF ReadCheck, Recv, ReadDone, slaveTx
      <3>3. CASE WriteCheck \/ Transmitted
        BY <2>1, <3>3 DEF WriteCheck, Transmitted, slaveRx
      <3>4. CASE Transmit
        BY <2>1, <3>4 DEF Transmit, slaveRx
      <3>5. CASE Restart
        BY <2>1, <3>5 DEF Restart
      <3> QED
        BY <1>7, <3>1, <3>2, <3>3, <3>4, <3>5 DEF Slave
    <2> QED
      BY <2>1, <2>2
  <1>8. CASE UNCHANGED vars
    BY <1>8 DEF vars, hostTx, slaveRx, slaveTx, history
  <1> QED
    BY <1>1, <1>2, <1>3, <1>4, <1>5, <1>6, <1>7, <1>8 DEF Next, Host, Remover

LEMMA PhasesHold == Spec => [](TypeInv /\ Phases)
  BY InitType, NextType, InitPhases, NextPhases, PTL DEF Spec

-----------------------------------------------------------------------------
(* The buffers *)

\* Without the modulus: the two counters may have wrapped around.
TokenDiff == token - tx_buffer_count - loaded - skew - (IF tx.pc = "count" THEN 1 ELSE 0)

BufferInv ==
    /\ probe \notin {"none", "init"} =>
          TokenDiff \in {0, -ESP_TX_BUFFER_MAX, -ESP_TX_BUFFER_MAX - ESP_TX_BUFFER_MAX}
    /\ sound => skew = 0
    /\ WriteHasBuffer

LEMMA InitBuffer == Init => BufferInv
  BY Sizes DEF Init, BufferInv, WriteHasBuffer, TxIdle

\* A host that is right finds as many buffers free as are loaded.
LEMMA FreeIsLoaded ==
  ASSUME TypeInv, BufferInv, sound, probe \notin {"none", "init"}, tx.pc # "count"
  PROVE  Free = loaded
  <1> DEFINE T == ESP_TX_BUFFER_MAX
  <1>1. token \in 0..(T - 1) /\ tx_buffer_count \in 0..(T - 1) /\ T \in Nat \ {0}
    BY Counters, Sizes DEF TypeInv, Token
  <1>2. Free = IF token >= tx_buffer_count THEN token - tx_buffer_count ELSE token - tx_buffer_count + T
    BY <1>1, ModDiff DEF Free
  <1>3. loaded \in Nat /\ loaded < T
    BY Counters, Sizes DEF TypeInv
  <1>4. skew = 0
    BY DEF BufferInv
  <1>5. TokenDiff = token - tx_buffer_count - loaded
    BY <1>1, <1>3, <1>4 DEF TokenDiff
  <1>6. token - tx_buffer_count - loaded \in {0, -T, -T - T}
    BY <1>5 DEF BufferInv
  <1> QED
    BY <1>1, <1>2, <1>3, <1>6

LEMMA NextBuffer == TypeInv /\ Phases /\ BufferInv /\ [Next]_vars => BufferInv'
  <1> SUFFICES ASSUME TypeInv, Phases, BufferInv, [Next]_vars PROVE BufferInv'
    OBVIOUS
  <1> DEFINE T == ESP_TX_BUFFER_MAX
  <1>0. /\ token \in 0..(T - 1) /\ tx_buffer_count \in 0..(T - 1) /\ skew \in 0..(T - 1) /\ T \in Nat \ {0}
        /\ loaded \in Nat /\ loaded < T /\ buf_available \in Nat
    BY Counters, Sizes DEF TypeInv, Token
  <1>1. CASE UNCHANGED <<probe, token, tx_buffer_count, loaded, skew, tx, sound, buf_available>>
    BY <1>1 DEF BufferInv, TokenDiff, WriteHasBuffer
  <1>2. ASSUME NEW w \in Writer, Write(w) \/ WriterStep(w) PROVE BufferInv'
    <2>1. UNCHANGED <<probe, token, tx_buffer_count, loaded, skew, tx, sound, buf_available>>
      BY <1>2 DEF Write, WriterStep, Pause, Count, Item, Queue, writerUnchanged, credit, slaveRx, history
    <2> QED
      BY <1>1, <2>1
  <1>3. CASE IsrRead \/ IsrClear \/ RxTake \/ ReadPacket \/ RxFails
    <2>1. UNCHANGED <<probe, token, tx_buffer_count, loaded, skew, tx, sound, buf_available>>
      BY <1>3 DEF IsrRead, IsrClear, RxTake, ReadPacket, RxFails, IsrReadFails, IsrClearFails, ReadNothing, ReadFails,
                  Miss, rxUnchanged, credit, slaveRx, history
    <2> QED
      BY <1>1, <2>1
  <1>4. CASE Dequeue \/ Decrement
    <2>1. UNCHANGED <<probe, token, tx_buffer_count, loaded, skew, sound, buf_available>>
          /\ tx.pc # "count" /\ tx'.pc # "count" /\ tx.pc # "write" /\ tx'.pc # "write"
      BY <1>4 DEF Dequeue, Decrement, txUnchanged, credit, history, TxIdle
    <2> QED
      BY <2>1 DEF BufferInv, TokenDiff, WriteHasBuffer
  <1>5. CASE Available
    <2>1. /\ UNCHANGED <<probe, token, tx_buffer_count, loaded, skew, sound>>
          /\ tx.pc = "avail" /\ tx'.pc \in {"avail", "write", "idle"}
      BY <1>5 DEF Available, txUnchanged, history, TxIdle
    <2>2. sound' => buf_available' + (IF tx'.pc = "write" THEN 1 ELSE 0) <= loaded'
      <3> SUFFICES ASSUME sound PROVE buf_available' + (IF tx'.pc = "write" THEN 1 ELSE 0) <= loaded
        BY <2>1
      <3> DEFINE seen == IF buf_available < 1 THEN Free ELSE buf_available
      <3>1. probe \notin {"none", "init"}
        BY <2>1 DEF Phases, HostPhases
      <3>2. Free = loaded
        BY <2>1, <3>1, FreeIsLoaded
      <3>3. buf_available <= loaded
        BY <1>0, <2>1 DEF BufferInv, WriteHasBuffer
      <3>4. seen \in Nat /\ seen <= loaded
        BY <1>0, <3>2, <3>3
      <3>5. /\ buf_available' = IF seen >= 1 THEN seen - 1 ELSE 0
            /\ tx'.pc = "write" <=> seen >= 1
        BY <1>5, <2>1 DEF Available, TxIdle
      <3> HIDE DEF seen
      <3> QED
        BY <1>0, <3>4, <3>5
    <2> QED
      BY <2>1, <2>2 DEF BufferInv, TokenDiff, WriteHasBuffer
  <1>16. CASE AvailableFails
    <2>1. UNCHANGED <<probe, token, tx_buffer_count, loaded, skew, sound, buf_available>>
          /\ tx.pc = "avail" /\ tx'.pc \in {"avail", "idle"}
      BY <1>16 DEF AvailableFails, txUnchanged, credit, history, TxIdle
    <2> QED
      BY <2>1 DEF BufferInv, TokenDiff, WriteHasBuffer
  <1>6. CASE WriteBlock
    <2>1. /\ UNCHANGED <<probe, token, tx_buffer_count, skew, sound, buf_available>>
          /\ tx.pc = "write" /\ tx'.pc = "count" /\ loaded' = loaded - 1
      BY <1>6 DEF WriteBlock, txUnchanged, credit, history, TypeInv, TypeOK
    <2>2. TokenDiff' = TokenDiff
      BY <1>0, <2>1 DEF TokenDiff
    <2> QED
      BY <1>0, <2>1, <2>2 DEF BufferInv, WriteHasBuffer
  <1>7. CASE WriteFails
    <2>1. /\ UNCHANGED <<probe, token, tx_buffer_count, buf_available>>
          /\ tx.pc = "write" /\ tx'.pc = "idle" /\ probe \notin {"none", "init"}
      BY <1>7 DEF WriteFails, txUnchanged, credit, TxIdle, Phases, HostPhases
    <2>2. CASE UNCHANGED <<loaded, skew, sound>>
      <3>1. TokenDiff' = TokenDiff
        BY <2>1, <2>2 DEF TokenDiff
      <3> QED
        BY <1>0, <2>1, <2>2, <3>1 DEF BufferInv, WriteHasBuffer
    <2>3. CASE loaded > 0 /\ loaded' = loaded - 1 /\ skew' = (skew + 1) % T /\ sound' = FALSE
      <3>1. skew' = IF skew + 1 < T THEN skew + 1 ELSE 0
        BY <1>0, <2>3, ModNext
      <3>6. /\ TokenDiff = token - tx_buffer_count - loaded - skew
            /\ TokenDiff' = token - tx_buffer_count - (loaded - 1) - skew'
        BY <1>0, <2>1, <2>3, <3>1 DEF TokenDiff
      <3>2. TokenDiff' = TokenDiff \/ TokenDiff' = TokenDiff + T
        <4> HIDE DEF TokenDiff
        <4> QED
          BY <1>0, <3>1, <3>6
      <3>3. TokenDiff' <= T - 1
        <4> HIDE DEF TokenDiff
        <4> QED
          BY <1>0, <2>3, <3>1, <3>6
      <3>4. TokenDiff \in {0, -T, -T - T}
        BY <2>1 DEF BufferInv
      <3>5. TokenDiff' \in {0, -T, -T - T}
        <4> HIDE DEF TokenDiff
        <4> QED
          BY <1>0, <3>2, <3>3, <3>4
      <3> QED
        BY <2>1, <2>3, <3>5 DEF BufferInv, WriteHasBuffer
    <2> QED
      BY <1>7, <2>2, <2>3 DEF WriteFails, history
  <1>8. CASE CountBuffer
    <2>1. /\ UNCHANGED <<probe, token, loaded, skew, sound, buf_available>>
          /\ tx.pc = "count" /\ tx'.pc = "idle"
          /\ tx_buffer_count' = IF tx_buffer_count + 1 < T THEN tx_buffer_count + 1 ELSE 0
      BY <1>0, <1>8, ModNext DEF CountBuffer, txUnchanged, history, TxIdle
    <2>2. TokenDiff' = TokenDiff \/ TokenDiff' = TokenDiff + T
      BY <1>0, <2>1 DEF TokenDiff
    <2>3. TokenDiff' <= T - 1
      BY <1>0, <2>1 DEF TokenDiff
    <2>4. probe \notin {"none", "init"} => TokenDiff' \in {0, -T, -T - T}
      <3>1. probe \notin {"none", "init"} => TokenDiff \in {0, -T, -T - T}
        BY DEF BufferInv
      <3> HIDE DEF TokenDiff
      <3> QED
        BY <1>0, <2>2, <2>3, <3>1
    <2> QED
      BY <2>1, <2>4 DEF BufferInv, WriteHasBuffer
  <1>9. CASE ProbeToken
    <2> DEFINE count == IF token >= ESP_MAX_BUF_CNT THEN token - ESP_MAX_BUF_CNT ELSE 0
               x == token - count - loaded + T
               off == x % T
    <2>1. /\ UNCHANGED <<token, loaded, buf_available, tx>>
          /\ tx_buffer_count' = count /\ skew' = off /\ sound' = (sound /\ off = 0) /\ probe' = "added"
          /\ probe = "init"
      BY <1>9 DEF ProbeToken, probeUnchanged, slaveRx
    <2>2. tx.pc = "idle"
      BY <2>1 DEF Phases, HostPhases
    <2>3. x \in 0..(2 * T - 1)
      <3>1. loaded <= ESP_MAX_BUF_CNT /\ ESP_MAX_BUF_CNT < T /\ ESP_MAX_BUF_CNT \in Nat
        BY Counters, Sizes DEF TypeInv
      <3> QED
        BY <1>0, <3>1
    <2>4. off = IF x < T THEN x ELSE x - T
      <3> HIDE DEF x
      <3>1. x < T => x % T = x
        BY <1>0, <2>3
      <3>2. x >= T => x % T = x - T
        BY <1>0, <2>3
      <3> QED
        BY <1>0, <2>3, <3>1, <3>2
    <2>5. TokenDiff' = x - T - off
      <3>1. count \in Int
        BY <1>0, Sizes
      <3> HIDE DEF off, count
      <3> QED
        BY <1>0, <2>1, <2>2, <2>3, <2>4, <3>1 DEF TokenDiff
    <2>6. TokenDiff' \in {0, -T, -T - T}
      <3> HIDE DEF x, off, TokenDiff
      <3> QED
        BY <1>0, <2>3, <2>4, <2>5
    <2>7. sound' => skew' = 0
      BY <2>1
    <2>8. WriteHasBuffer'
      <3> HIDE DEF off, count
      <3> QED
        BY <2>1 DEF BufferInv, WriteHasBuffer
    <2> HIDE DEF off, count, x
    <2> QED
      BY <2>6, <2>7, <2>8 DEF BufferInv
  <1>10. CASE \/ ProbeLen \/ AddCard \/ OpenDataPath \/ ProbeFails \/ StopThread \/ CloseDataPath \/ Slept
              \/ Flush
    <2>1. /\ UNCHANGED <<token, tx_buffer_count, loaded, skew, tx, sound, buf_available>>
          /\ probe' \in {"none", "init"} \/ probe \notin {"none", "init"}
      BY <1>10 DEF ProbeLen, AddCard, OpenDataPath, ProbeFails, StopThread, CloseDataPath, Slept, Flush,
             Interrupt, InterruptFails, Miss, probeUnchanged, slaveRx, credit, history
    <2> QED
      BY <2>1 DEF BufferInv, TokenDiff, WriteHasBuffer
  <1>11. CASE RemoveCard
    BY <1>11 DEF RemoveCard, probeUnchanged, slaveRx, history, BufferInv, WriteHasBuffer
  <1>12. CASE EventCb \/ ReadCheck \/ Recv \/ WriteCheck \/ Transmit \/ Transmitted
    <2>1. UNCHANGED <<probe, token, tx_buffer_count, loaded, skew, tx, sound, buf_available>>
      BY <1>12 DEF EventCb, ReadCheck, Recv, WriteCheck, Transmit, Transmitted, slaveUnchanged, credit, slaveRx, history
    <2> QED
      BY <1>1, <2>1
  <1>13. CASE ReadDone
    <2>1. /\ UNCHANGED <<probe, tx_buffer_count, skew, tx, sound, buf_available>> /\ loaded' = loaded + 1
          /\ token' = IF token + 1 < T THEN token + 1 ELSE 0
      BY <1>0, <1>13, ModNext DEF ReadDone, slaveUnchanged, credit, history
    <2>2. loaded' <= T - 1
      BY <1>0, <1>13, <2>1, Sizes DEF ReadDone, TypeInv, TypeOK, BuffersConserved
    <2>3. TokenDiff' = TokenDiff \/ TokenDiff' = TokenDiff - T
      BY <1>0, <2>1 DEF TokenDiff
    <2>4. TokenDiff' > -T - T - T
      BY <1>0, <2>1, <2>2 DEF TokenDiff
    <2>5. probe \notin {"none", "init"} => TokenDiff' \in {0, -T, -T - T}
      <3>1. probe \notin {"none", "init"} => TokenDiff \in {0, -T, -T - T}
        BY DEF BufferInv
      <3> HIDE DEF TokenDiff
      <3> QED
        BY <1>0, <2>3, <2>4, <3>1
    <2> QED
      BY <1>0, <2>1, <2>5 DEF BufferInv, WriteHasBuffer
  <1>14. CASE Restart
    BY <1>0, <1>14, Counters, Sizes DEF Restart, slaveUnchanged, credit, history, BufferInv, WriteHasBuffer, TypeInv
  <1>15. CASE UNCHANGED vars
    BY <1>1, <1>15 DEF vars, credit, slaveRx, history
  <1> QED
    BY <1>2, <1>3, <1>4, <1>5, <1>6, <1>7, <1>8, <1>9, <1>10, <1>11, <1>12, <1>13, <1>14, <1>15, <1>16
       DEF Next, Host, Prober, Remover, Slave

-----------------------------------------------------------------------------
(* The bytes *)

\* Without the modulus: what is offered is what is left of the packet.
BytesAgree == len = rx_byte_count + out \/ len = rx_byte_count + out - ESP_RX_BYTE_MAX

\* While the bus does not fail: no byte is left when the card is gone or comes,
\* and an interrupt being served has woken the receive thread, which cannot have
\* read before the interrupt's thread gives the bus back.
StreamInv ==
    /\ isr => ready /\ (missed \/ rx_sem > 0 \/ rx = "read")
    /\ Whole =>
          /\ probe \in {"removing", "none", "init", "added", "card"} => out = 0
          /\ probe # "none" => BytesAgree
    /\ ~missed /\ out > 0 /\ ready /\ probe = "up" => int \/ rx_sem > 0 \/ rx = "read"

LEMMA InitStream == Init => StreamInv
  BY DEF Init, StreamInv

\* What is offered is then the packet.
LEMMA OfferedIsOut ==
  ASSUME TypeInv, BytesAgree
  PROVE  Offered = out
  <1>1. /\ len \in 0..(ESP_RX_BYTE_MAX - 1) /\ rx_byte_count \in 0..(ESP_RX_BYTE_MAX - 1)
        /\ out \in 0..(ESP_RX_BYTE_MAX - 1) /\ ESP_RX_BYTE_MAX \in Nat \ {0}
    BY Counters, Sizes DEF TypeInv, Bytes
  <1>2. Offered = IF len >= rx_byte_count THEN len - rx_byte_count ELSE len - rx_byte_count + ESP_RX_BYTE_MAX
    BY OfferedValue DEF TypeInv, TypeOK
  <1> QED
    BY <1>1, <1>2 DEF BytesAgree

\* Reading takes from the packet what it adds to the host's count; reading all
\* that is offered takes the whole packet.
LEMMA ReadSome ==
  ASSUME TypeInv, BytesAgree, NEW n \in 0..out, Read(n), UNCHANGED len
  PROVE  BytesAgree' /\ out' = out - n
  <1> DEFINE R == ESP_RX_BYTE_MAX
  <1>1. /\ len \in 0..(R - 1) /\ rx_byte_count \in 0..(R - 1) /\ out \in 0..(R - 1) /\ R \in Nat \ {0}
        /\ n \in Nat /\ n <= out
    BY Counters, Sizes DEF TypeInv, Bytes
  <1>2. rx_byte_count' = (rx_byte_count + n) % R /\ out' = out - n
    BY <1>1 DEF Read
  <1>3. (rx_byte_count + n) % R = IF rx_byte_count + n < R THEN rx_byte_count + n ELSE rx_byte_count + n - R
    <2>1. n \in 0..(R - 1)
      BY <1>1
    <2> QED
      BY <1>1, <2>1, ModAdd
  <1>4. len = rx_byte_count + out \/ len = rx_byte_count + out - R
    BY DEF BytesAgree
  <1>5. \A c : c = (rx_byte_count + n) % R => len = c + (out - n) \/ len = c + (out - n) - R
    BY <1>1, <1>3, <1>4
  <1> QED
    BY <1>2, <1>5 DEF BytesAgree

LEMMA ReadAll ==
  ASSUME TypeInv, BytesAgree, Read(Offered), UNCHANGED len
  PROVE  BytesAgree' /\ out' = 0
  <1>1. Offered = out /\ out \in Nat
    BY OfferedIsOut, Counters, Sizes DEF TypeInv, Bytes
  <1> QED
    BY <1>1, ReadSome

LEMMA NextStream == TypeInv /\ Phases /\ StreamInv /\ [Next]_vars => StreamInv'
  <1> SUFFICES ASSUME TypeInv, Phases, StreamInv, [Next]_vars PROVE StreamInv'
    OBVIOUS
  <1> DEFINE R == ESP_RX_BYTE_MAX
  <1>0. /\ len \in 0..(R - 1) /\ rx_byte_count \in 0..(R - 1) /\ out \in 0..(R - 1) /\ R \in Nat \ {0}
        /\ rx_sem \in Nat /\ removes \in Nat /\ missed \in BOOLEAN
    BY Counters, Sizes DEF TypeInv, TypeOK, Bytes
  <1>1. CASE /\ UNCHANGED <<isr, ready, rx_sem, rx, probe, len, rx_byte_count, out, int, missed, removes>>
    BY <1>1 DEF StreamInv, BytesAgree, Whole
  <1>2. ASSUME NEW w \in Writer, Write(w) \/ WriterStep(w) PROVE StreamInv'
    <2>1. UNCHANGED <<isr, ready, rx_sem, rx, probe, len, rx_byte_count, out, int, missed, removes>>
      BY <1>2 DEF Write, WriterStep, Pause, Count, Item, Queue, writerUnchanged, hostRx, slaveTx, history
    <2> QED
      BY <1>1, <2>1
  <1>3. CASE Dequeue \/ Decrement \/ Available \/ AvailableFails \/ WriteBlock \/ WriteFails \/ CountBuffer
    <2>1. UNCHANGED <<isr, ready, rx_sem, rx, probe, len, rx_byte_count, out, int, missed, removes>>
      BY <1>3 DEF Dequeue, Decrement, Available, AvailableFails, WriteBlock, WriteFails, CountBuffer, txUnchanged,
                  hostRx, slaveTx, history
    <2> QED
      BY <1>1, <2>1
  <1>4. CASE IsrRead
    <2>1. /\ UNCHANGED <<ready, rx, probe, len, rx_byte_count, out, int, missed, removes>>
          /\ rx_sem' = rx_sem + 1 /\ isr' = TRUE /\ ready
      BY <1>4 DEF IsrRead, rxUnchanged, history
    <2> QED
      BY <1>0, <2>1 DEF StreamInv, BytesAgree, Whole
  <1>5. CASE IsrClear
    <2>1. /\ UNCHANGED <<ready, rx, probe, len, rx_byte_count, out, rx_sem, missed, removes>>
          /\ isr /\ isr' = FALSE
      BY <1>5 DEF IsrClear, hostRx, rxUnchanged, history
    <2> QED
      BY <1>0, <2>1 DEF StreamInv, BytesAgree, Whole
  <1>6. CASE RxTake
    <2>1. /\ UNCHANGED <<ready, isr, probe, len, rx_byte_count, out, int, missed, removes>>
          /\ ready => rx' = "read"
      BY <1>6 DEF RxTake, rxUnchanged, history
    <2> QED
      BY <1>0, <2>1 DEF StreamInv, BytesAgree, Whole
  <1>7. CASE ReadPacket
    <2>1. UNCHANGED <<ready, isr, probe, len, rx_sem, int, missed, removes>> /\ ~isr /\ Read(Offered)
      BY <1>7 DEF ReadPacket, rxUnchanged, history
    <2>2. BytesAgree => BytesAgree' /\ out' = 0
      BY <2>1, ReadAll
    <2>3. out = 0 => out' = 0
      <3>1. Offered \in Nat
        BY OfferedValue, Sizes DEF TypeInv, TypeOK, Bytes
      <3> QED
        BY <2>1, <3>1 DEF Read
    <2> QED
      BY <2>1, <2>2, <2>3 DEF StreamInv, Whole
  <1>8. CASE ReadNothing \/ IsrReadFails
    <2>1. /\ UNCHANGED <<ready, probe, len, rx_byte_count, out, removes>> /\ missed' = TRUE
          /\ isr' => ready
      BY <1>8 DEF ReadNothing, IsrReadFails, Miss, rxUnchanged
    <2> QED
      BY <2>1 DEF StreamInv, BytesAgree, Whole
  <1>19. CASE IsrClearFails
    <2>1. /\ UNCHANGED <<ready, rx, probe, len, rx_byte_count, out, rx_sem, int, missed, removes>> /\ isr' = FALSE
      BY <1>19 DEF IsrClearFails, hostRx, rxUnchanged, history
    <2> QED
      BY <2>1 DEF StreamInv, BytesAgree, Whole
  <1>20. CASE ReadFails
    <2>1. /\ UNCHANGED <<probe, len, removes, isr>> /\ missed' = TRUE /\ ~isr
      BY <1>20 DEF ReadFails, Miss, rxUnchanged
    <2>2. PICK n \in 0..(Offered - 1) : Read(n)
      BY <1>20 DEF ReadFails
    <2>3. out = 0 => out' = 0
      BY <1>0, <2>2 DEF Read
    <2>4. BytesAgree => BytesAgree'
      <3> SUFFICES ASSUME BytesAgree PROVE BytesAgree'
        OBVIOUS
      <3>1. Offered = out
        BY OfferedIsOut
      <3>2. n \in 0..out
        BY <1>0, <2>2, <3>1
      <3> QED
        BY <2>1, <2>2, <3>2, ReadSome
    <2> QED
      BY <2>1, <2>3, <2>4 DEF StreamInv, Whole
  <1>9. CASE ProbeLen
    <2>1. /\ UNCHANGED <<isr, ready, rx_sem, rx, len, out, int, missed, removes>>
          /\ probe = "none" /\ probe' = "init" /\ rx_byte_count' = len
      BY <1>9 DEF ProbeLen, probeUnchanged, history
    <2> QED
      BY <1>0, <2>1 DEF StreamInv, BytesAgree, Whole
  <1>10. CASE ProbeToken \/ AddCard \/ ProbeFails
    <2>1. /\ UNCHANGED <<isr, ready, rx_sem, rx, len, out, int, rx_byte_count>>
          /\ UNCHANGED <<missed, removes>>
          /\ probe \in {"init", "added"} /\ probe' \in {"added", "card", "none"}
      BY <1>10 DEF ProbeToken, AddCard, ProbeFails, probeUnchanged, hostRx, history
    <2> QED
      BY <1>0, <2>1 DEF StreamInv, BytesAgree, Whole
  <1>11. CASE OpenDataPath
    <2>1. /\ UNCHANGED <<isr, rx_sem, rx, len, out, int, rx_byte_count, removes>> /\ ready' = TRUE
          /\ probe = "card" /\ probe' = "up" /\ (missed => missed')
      BY <1>11 DEF OpenDataPath, Interrupt, InterruptFails, Miss, probeUnchanged, hostRx, history
    <2> QED
      BY <1>0, <2>1 DEF StreamInv, BytesAgree, Whole
  <1>12. CASE StopThread \/ CloseDataPath \/ Slept
    <2>1. /\ UNCHANGED <<isr, ready, rx_sem, rx, len, out, int, rx_byte_count>> /\ (missed => missed')
          /\ probe # "none" /\ probe' \in {"closing", "sleep", "flush"}
      BY <1>12 DEF StopThread, CloseDataPath, Slept, Interrupt, InterruptFails, Miss, probeUnchanged, hostRx, history
    <2>2. Whole' => Whole
      <3>1. removes' = 0 => removes = 0
        BY <1>0, <1>12 DEF StopThread, CloseDataPath, Slept
      <3> QED
        BY <2>1, <3>1 DEF Whole
    <2> QED
      BY <2>1, <2>2 DEF StreamInv, BytesAgree
  <1>13. CASE Flush
    <2>1. UNCHANGED <<isr, len, rx_sem, rx, int, removes>> /\ ~isr /\ probe = "flush"
      BY <1>13 DEF Flush, probeUnchanged
    <2>2. CASE Read(Offered) /\ UNCHANGED <<probe, ready, missed>>
      <3>1. BytesAgree => BytesAgree' /\ out' = 0
        BY <2>1, <2>2, ReadAll
      <3> QED
        BY <2>1, <2>2, <3>1 DEF StreamInv, Whole
    <2>3. CASE Offered = 0 /\ probe' = "removing" /\ UNCHANGED <<ready, missed, rx_byte_count, out>>
      <3>1. BytesAgree => out = 0
        BY <2>3, OfferedIsOut
      <3> QED
        BY <2>1, <2>3, <3>1 DEF StreamInv, BytesAgree, Whole
    <2>4. CASE missed' = TRUE
      <3>1. removes' # 0
        BY <1>0, <2>1 DEF Phases, SlavePhases
      <3> QED
        BY <2>1, <2>4, <3>1 DEF StreamInv, Whole
    <2> QED
      BY <1>13, <2>2, <2>3, <2>4 DEF Flush, Miss, history
  <1>14. CASE RemoveCard
    <2>1. /\ UNCHANGED <<isr, ready, rx_sem, rx, out, int, missed, removes>> /\ ~isr
          /\ probe = "removing" /\ probe' = "none"
      BY <1>14 DEF RemoveCard, probeUnchanged, history
    <2> QED
      BY <2>1 DEF StreamInv, Whole
  <1>15. CASE EventCb \/ ReadCheck \/ Recv \/ ReadDone \/ WriteCheck \/ Transmitted
    <2>1. UNCHANGED <<isr, ready, rx_sem, rx, probe, len, rx_byte_count, out, int, missed, removes>>
      BY <1>15 DEF EventCb, ReadCheck, Recv, ReadDone, WriteCheck, Transmitted, slaveUnchanged, hostRx, slaveTx, history
    <2> QED
      BY <1>1, <2>1
  <1>16. CASE Transmit
    <2>1. PICK n \in Lengths : len' = (len + n) % R /\ out' = n
      BY <1>16 DEF Transmit
    <2>2. /\ UNCHANGED <<isr, ready, rx_sem, rx, probe, rx_byte_count, missed, removes>> /\ int' = TRUE
          /\ sender = "checked"
      BY <1>16 DEF Transmit, slaveUnchanged, hostRx, history
    <2>3. out = 0 /\ (Whole => probe \notin {"flush", "removing", "none", "init", "added", "card"})
      BY <2>2 DEF Phases, SlavePhases
    <2>4. n \in 0..(R - 1)
      BY Sizes
    <2>5. len' = IF len + n < R THEN len + n ELSE len + n - R
      BY <1>0, <2>1, <2>4, ModAdd
    <2>6. BytesAgree => BytesAgree'
      BY <1>0, <2>1, <2>2, <2>3, <2>4, <2>5 DEF BytesAgree
    <2> QED
      BY <2>2, <2>3, <2>6 DEF StreamInv, Whole
  <1>17. CASE Restart
    <2>1. UNCHANGED <<isr, ready, rx_sem, rx, probe, missed, removes>> /\ probe = "none" /\ out' = 0
      BY <1>17 DEF Restart, slaveUnchanged, hostRx, history
    <2> QED
      BY <2>1 DEF StreamInv, Whole
  <1>18. CASE UNCHANGED vars
    BY <1>1, <1>18 DEF vars, hostRx, slaveTx, history
  <1> QED
    BY <1>2, <1>3, <1>4, <1>5, <1>6, <1>7, <1>8, <1>9, <1>10, <1>11, <1>12, <1>13, <1>14, <1>15, <1>16,
       <1>17, <1>18, <1>19, <1>20 DEF Next, Host, RxFails, Prober, Remover, Slave

LinkInv == TypeInv /\ Phases /\ BufferInv /\ StreamInv

LEMMA LinkInvHolds == Spec => []LinkInv
  <1>1. Init => LinkInv
    BY InitType, InitPhases, InitBuffer, InitStream DEF LinkInv
  <1>2. LinkInv /\ [Next]_vars => LinkInv'
    BY NextType, NextPhases, NextBuffer, NextStream DEF LinkInv
  <1> QED
    BY <1>1, <1>2, PTL DEF Spec

\* Host and slave, who see only each other's wrapping counters, agree on the
\* buffers loaded and, until a card is removed after a failed read, on the bytes
\* offered; a host whose count was never off has a buffer for what it writes, and
\* a packet offered is noticed while no read and no interrupt's transfer fails.
THEOREM LinkAgrees == Spec => []CountersAgree
  <1>1. LinkInv => CountersAgree
    <2> SUFFICES ASSUME LinkInv PROVE CountersAgree
      OBVIOUS
    <2> USE DEF LinkInv
    <2>1. TokensMatchBuffers
      <3> SUFFICES ASSUME probe \in {"added", "card", "up", "closing", "sleep", "flush", "removing"}
                   PROVE  TokenDiff % ESP_TX_BUFFER_MAX = 0
        BY DEF TokensMatchBuffers, TokenDiff
      <3>1. TokenDiff \in {0, -ESP_TX_BUFFER_MAX, -ESP_TX_BUFFER_MAX - ESP_TX_BUFFER_MAX}
        BY DEF BufferInv
      <3> HIDE DEF TokenDiff
      <3> QED
        BY <3>1, Sizes, ModZero
    <2>2. WriteHasBuffer
      BY DEF BufferInv
    <2>3. BytesMatch
      BY OfferedIsOut DEF StreamInv, BytesMatch, Whole
    <2>4. OfferNoticed
      BY DEF StreamInv, OfferNoticed
    <2> QED
      BY <2>1, <2>2, <2>3, <2>4 DEF CountersAgree
  <1> QED
    BY <1>1, LinkInvHolds, PTL

\* is_sdio_write_buffer_available() gives up only on a slave without a buffer, or
\* on one that did not answer, if no block was ever written that it did not count.
THEOREM NoNeedlessDrop == Spec => DropMeansFull
  <1>1. LinkInv /\ [Next]_vars => [sound /\ tx.pc = "avail" /\ tx'.pc = "idle" /\ faults' = faults => loaded = 0]_vars
    <2> SUFFICES ASSUME LinkInv, Next, sound, tx.pc = "avail", tx'.pc = "idle", faults' = faults PROVE loaded = 0
      OBVIOUS
    <2> USE DEF LinkInv
    <2>1. Available
      <3>1. tx' # tx
        OBVIOUS
      <3>2. ~(\E w \in Writer : Write(w) \/ WriterStep(w))
        BY <3>1 DEF Write, WriterStep, Pause, Count, Item, Queue, writerUnchanged
      <3>3. ~(IsrRead \/ IsrClear \/ RxTake \/ ReadPacket \/ RxFails)
        BY <3>1 DEF IsrRead, IsrClear, RxTake, ReadPacket, RxFails, IsrReadFails, IsrClearFails, ReadNothing, ReadFails,
                    rxUnchanged
      <3>4. ~(Prober \/ ProbeFails \/ StopThread \/ Remover)
        BY <3>1 DEF Prober, ProbeLen, ProbeToken, AddCard, OpenDataPath, ProbeFails, StopThread, Remover,
                    CloseDataPath, Slept, Flush, RemoveCard
      <3>5. ~(Slave \/ Restart)
        BY <3>1 DEF Slave, EventCb, ReadCheck, Recv, ReadDone, WriteCheck, Transmit, Transmitted, Restart, slaveUnchanged
      <3>6. ~(Dequeue \/ Decrement \/ WriteBlock \/ WriteFails \/ CountBuffer)
        BY DEF Dequeue, Decrement, WriteBlock, WriteFails, CountBuffer
      <3>7. ~AvailableFails
        <4>1. faults \in Nat
          BY Sizes DEF TypeInv, TypeOK
        <4> QED
          BY <4>1 DEF AvailableFails, Fault
      <3> QED
        BY <3>2, <3>3, <3>4, <3>5, <3>6, <3>7 DEF Next, Host
    <2>2. Free = loaded
      BY FreeIsLoaded DEF Phases, HostPhases
    <2>3. buf_available < 1 /\ Free < 1
      <3>1. buf_available \in Nat /\ Free \in Nat
        BY <2>2, Counters, Sizes DEF TypeInv, Token
      <3> QED
        BY <2>1, <3>1 DEF Available, TxIdle
    <2> QED
      BY <2>2, <2>3, Counters DEF TypeInv
  <1> QED
    BY <1>1, LinkInvHolds, PTL DEF Spec, DropMeansFull

-----------------------------------------------------------------------------
(* The count of the host's packets *)

At(pcs) == {w \in Writer : writer[w] \in pcs}

\* PendingExact, with the two sets named
CountsAgree ==
    probe \notin {"none", "init"} =>
        /\ tx_pending = txq + Cardinality(At({"item", "queue"})) + (IF tx.pc = "dec" THEN 1 ELSE 0)
        /\ queue_items = txq + Cardinality(At({"queue"}))

LEMMA AtFinite == \A pcs : IsFiniteSet(At(pcs)) /\ Cardinality(At(pcs)) \in Nat
  BY SdioLinkAssumption, FS_Subset, FS_CardinalityType DEF At

\* A writer that moves enters or leaves a set of places, or neither.
LEMMA AtMoves ==
  ASSUME TypeOK, NEW w \in Writer, NEW pc, Goto(w, pc), NEW pcs
  PROVE  Cardinality(At(pcs)') = Cardinality(At(pcs))
            + (IF writer[w] \notin pcs /\ pc \in pcs THEN 1 ELSE 0)
            - (IF writer[w] \in pcs /\ pc \notin pcs THEN 1 ELSE 0)
  <1>1. writer' = [writer EXCEPT ![w] = pc] /\ DOMAIN writer = Writer
    BY DEF Goto, TypeOK
  <1>2. IsFiniteSet(At(pcs)) /\ Cardinality(At(pcs)) \in Nat
    BY AtFinite
  <1>3. w \in At(pcs) <=> writer[w] \in pcs
    BY DEF At
  <1>4. At(pcs)' = IF pc \in pcs THEN At(pcs) \cup {w} ELSE At(pcs) \ {w}
    BY <1>1 DEF At
  <1>5. Cardinality(At(pcs) \cup {w}) = IF w \in At(pcs) THEN Cardinality(At(pcs)) ELSE Cardinality(At(pcs)) + 1
    BY <1>2, FS_AddElement
  <1>6. Cardinality(At(pcs) \ {w}) = IF w \in At(pcs) THEN Cardinality(At(pcs)) - 1 ELSE Cardinality(At(pcs))
    BY <1>2, FS_RemoveElement
  <1> QED
    BY <1>2, <1>3, <1>4, <1>5, <1>6

LEMMA NextCounts == TypeInv /\ Phases /\ CountsAgree /\ [Next]_vars => CountsAgree'
  <1> SUFFICES ASSUME TypeInv, Phases, CountsAgree, [Next]_vars PROVE CountsAgree'
    OBVIOUS
  <1>0. /\ tx_pending \in Nat /\ queue_items \in Nat /\ txq \in Nat
        /\ Cardinality(At({"item", "queue"})) \in Nat /\ Cardinality(At({"queue"})) \in Nat
    BY Counters, AtFinite DEF TypeInv
  <1>1. ASSUME NEW w \in Writer, Write(w) \/ WriterStep(w) PROVE CountsAgree'
    <2>1. UNCHANGED <<probe, tx>>
      BY <1>1 DEF Write, WriterStep, Pause, Count, Item, Queue, writerUnchanged
    <2>2. CASE Write(w) \/ Pause(w)
      <3>1. PICK pc \in {"pause", "count", "idle"} : Goto(w, pc)
        BY <2>2 DEF Write, Pause
      <3>2. writer[w] \in {"idle", "pause"} /\ UNCHANGED <<tx_pending, queue_items, txq>>
        BY <2>2 DEF Write, Pause, hostTx
      <3>3. /\ Cardinality(At({"item", "queue"})') = Cardinality(At({"item", "queue"}))
            /\ Cardinality(At({"queue"})') = Cardinality(At({"queue"}))
        BY <1>0, <3>1, <3>2, AtMoves DEF TypeInv
      <3> QED
        BY <2>1, <3>2, <3>3 DEF CountsAgree
    <2>3. CASE Count(w)
      <3>1. writer[w] = "count" /\ Goto(w, "item") /\ tx_pending' = tx_pending + 1 /\ UNCHANGED <<queue_items, txq>>
        BY <2>3 DEF Count
      <3>2. /\ Cardinality(At({"item", "queue"})') = Cardinality(At({"item", "queue"})) + 1
            /\ Cardinality(At({"queue"})') = Cardinality(At({"queue"}))
        BY <1>0, <3>1, AtMoves DEF TypeInv
      <3> QED
        BY <1>0, <2>1, <3>1, <3>2 DEF CountsAgree
    <2>4. CASE Item(w)
      <3>1. writer[w] = "item" /\ Goto(w, "queue") /\ queue_items' = queue_items + 1 /\ UNCHANGED <<tx_pending, txq>>
        BY <2>4 DEF Item
      <3>2. /\ Cardinality(At({"item", "queue"})') = Cardinality(At({"item", "queue"}))
            /\ Cardinality(At({"queue"})') = Cardinality(At({"queue"})) + 1
        BY <1>0, <3>1, AtMoves DEF TypeInv
      <3> QED
        BY <1>0, <2>1, <3>1, <3>2 DEF CountsAgree
    <2>5. CASE Queue(w)
      <3>1. writer[w] = "queue" /\ Goto(w, "idle") /\ txq' = txq + 1 /\ UNCHANGED <<tx_pending, queue_items>>
        BY <2>5 DEF Queue
      <3>2. /\ Cardinality(At({"item", "queue"})') = Cardinality(At({"item", "queue"})) - 1
            /\ Cardinality(At({"queue"})') = Cardinality(At({"queue"})) - 1
        BY <1>0, <3>1, AtMoves DEF TypeInv
      <3> QED
        BY <1>0, <2>1, <3>1, <3>2 DEF CountsAgree
    <2> QED
      BY <1>1, <2>2, <2>3, <2>4, <2>5 DEF WriterStep
  <1>2. CASE Dequeue
    <2>1. /\ UNCHANGED <<probe, writer, tx_pending>> /\ tx.pc = "idle" /\ tx'.pc = "dec"
          /\ queue_items' = queue_items - 1 /\ txq' = txq - 1
      BY <1>2 DEF Dequeue, TxIdle, txUnchanged
    <2> QED
      BY <1>0, <2>1 DEF CountsAgree, At
  <1>3. CASE Decrement
    <2>1. /\ UNCHANGED <<probe, writer, queue_items, txq>> /\ tx.pc = "dec" /\ tx'.pc = "avail"
          /\ tx_pending' = IF tx_pending > 0 THEN tx_pending - 1 ELSE 0
      BY <1>3 DEF Decrement, txUnchanged
    <2> QED
      BY <1>0, <2>1 DEF CountsAgree, At
  <1>4. CASE Available \/ AvailableFails \/ WriteBlock \/ WriteFails \/ CountBuffer
    <2>1. UNCHANGED <<probe, writer, tx_pending, queue_items, txq>> /\ tx.pc # "dec" /\ tx'.pc # "dec"
      BY <1>4 DEF Available, AvailableFails, WriteBlock, WriteFails, CountBuffer, TxIdle, txUnchanged, hostTx, TypeInv, TypeOK
    <2> QED
      BY <2>1 DEF CountsAgree, At
  <1>5. CASE ProbeToken
    <2>1. UNCHANGED <<writer, tx, tx_pending, txq>> /\ queue_items' = 0 /\ probe = "init"
      BY <1>5 DEF ProbeToken
    <2>2. txq = 0 /\ tx_pending = 0 /\ tx.pc = "idle" /\ At({"item", "queue"}) = {} /\ At({"queue"}) = {}
      BY <2>1 DEF Phases, HostPhases, At
    <2>3. At({"item", "queue"})' = At({"item", "queue"}) /\ At({"queue"})' = At({"queue"})
      BY <2>1 DEF At
    <2> QED
      BY <2>1, <2>2, <2>3, FS_EmptySet DEF CountsAgree
  <1>6. CASE ProbeLen \/ ProbeFails \/ RemoveCard
    BY <1>6 DEF ProbeLen, ProbeFails, RemoveCard, CountsAgree
  <1>7. CASE UNCHANGED <<writer, tx, tx_pending, queue_items, txq>> /\ (probe' \notin {"none", "init"} => probe \notin {"none", "init"})
    BY <1>7 DEF CountsAgree, At
  <1>8. CASE AddCard \/ OpenDataPath \/ StopThread \/ CloseDataPath \/ Slept \/ Flush
    BY <1>7, <1>8 DEF AddCard, OpenDataPath, StopThread, CloseDataPath, Slept, Flush, hostTx
  <1>9. CASE IsrRead \/ IsrClear \/ RxTake \/ ReadPacket \/ RxFails
    BY <1>7, <1>9 DEF IsrRead, IsrClear, RxTake, ReadPacket, RxFails, IsrReadFails, IsrClearFails, ReadNothing,
                      ReadFails, rxUnchanged, hostTx
  <1>10. CASE Slave \/ Restart
    BY <1>7, <1>10 DEF Slave, EventCb, ReadCheck, Recv, ReadDone, WriteCheck, Transmit, Transmitted, Restart,
           slaveUnchanged, hostTx
  <1>11. CASE UNCHANGED vars
    BY <1>7, <1>11 DEF vars, hostTx
  <1> QED
    BY <1>1, <1>2, <1>3, <1>4, <1>5, <1>6, <1>8, <1>9, <1>10, <1>11 DEF Next, Host, Prober, Remover

\* Whatever the writers, the tx thread and a card that comes and goes do in
\* between, the host's count of packets, by which it stops and wakes its devices,
\* and its count of queued items are exact once a card is there.
THEOREM PendingCorrect == Spec => []PendingExact
  <1>1. Init => CountsAgree
    BY DEF Init, CountsAgree
  <1>2. TypeInv /\ Phases /\ CountsAgree /\ [Next]_vars => CountsAgree'
    BY NextCounts
  <1>3. CountsAgree => PendingExact
    BY DEF CountsAgree, At, PendingExact
  <1> QED
    BY <1>1, <1>2, <1>3, PhasesHold, PTL DEF Spec
=============================================================================
