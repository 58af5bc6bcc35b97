---------------------------- MODULE SpiHostProofs ----------------------------
(***************************************************************************)
(* Theorems about SpiHost, for every number of network devices, all limits *)
(* on tx_pending that admit them, and any number of packets and events.    *)
(***************************************************************************)
EXTENDS SpiHost, FiniteSetTheorems, FunctionTheorems, TLAPS

-----------------------------------------------------------------------------
(* Type correctness *)

LEMMA InitType == Init => TypeOK
  <1> SUFFICES ASSUME Init PROVE TypeOK
    OBVIOUS
  <1>1. <<>> \in Seq({"init", "data"})
    OBVIOUS
  <1>2. txq \in [{"net", "prio"} -> Nat]
    BY DEF Init
  <1>3. spi \in [pc : {"idle", "dequeue", "dec", "resume", "transfer", "stopped"},
                 got : {"none", "net", "prio"}, rx : BOOLEAN]
    BY DEF Init, SpiIdle
  <1>4. nets \in 0..MaxNet /\ {prios, clocks, others, faults} \subseteq 0..MaxEvents
    BY SpiHostAssumption DEF Init
  <1> QED
    BY <1>1, <1>2, <1>3, <1>4 DEF Init, TypeOK

LEMMA EventCounted ==
  ASSUME prios \in 0..MaxEvents, clocks \in 0..MaxEvents, others \in 0..MaxEvents, faults \in 0..MaxEvents,
         EventsLeft
  PROVE  /\ prios + 1 \in 0..MaxEvents /\ clocks + 1 \in 0..MaxEvents /\ others + 1 \in 0..MaxEvents
         /\ faults + 1 \in 0..MaxEvents
  BY SpiHostAssumption DEF EventsLeft

LEMMA NextType == TypeOK /\ [Next]_vars => TypeOK'
  <1> SUFFICES ASSUME TypeOK, [Next]_vars PROVE TypeOK'
    OBVIOUS
  <1> USE DEF TypeOK
  <1>00. /\ tx_pending \in Nat /\ spi_sem \in Nat /\ data_path \in BOOLEAN /\ irq \in BOOLEAN
         /\ handshake \in BOOLEAN /\ deaf \in BOOLEAN
    OBVIOUS
  <1>0. /\ prios \in 0..MaxEvents /\ clocks \in 0..MaxEvents /\ others \in 0..MaxEvents
        /\ faults \in 0..MaxEvents /\ MaxNet \in Nat
    BY SpiHostAssumption
  <1>1. CASE Kernel
    <2>1. UNCHANGED <<mode, data_path, rxq, irq, spi, rx, handshake, toHost, clocks, faults>>
      BY <1>1 DEF Kernel, Xmit, Check, Pause, Enqueue, Count, IfDown, IfUp, WritePrio, devVars, budgets
    <2>2. tx_pending' \in Nat /\ spi_sem' \in Nat /\ deaf' \in BOOLEAN
      <3>1. /\ tx_pending' \in {tx_pending, tx_pending + 1}
            /\ spi_sem' \in {spi_sem, spi_sem + 1} /\ (deaf' = deaf \/ deaf' = FALSE)
        <4>1. ASSUME NEW d \in NetDev, Xmit(d) \/ Check(d) \/ Enqueue(d) \/ IfDown(d) \/ IfUp(d)
              PROVE  UNCHANGED <<tx_pending, spi_sem, deaf>>
          BY <4>1 DEF Xmit, Check, Enqueue, IfDown, IfUp, txVars
        <4>2. ASSUME NEW d \in NetDev, Pause(d) \/ Count(d)
              PROVE  tx_pending' \in {tx_pending, tx_pending + 1} /\ spi_sem' = spi_sem + 1 /\ deaf' = FALSE
          BY <4>2 DEF Pause, Count, GiveSem
        <4>3. CASE WritePrio
          BY <4>3 DEF WritePrio, GiveSem
        <4> QED
          BY <1>1, <4>1, <4>2, <4>3 DEF Kernel
      <3>2. deaf' \in BOOLEAN
        BY <1>00, <3>1
      <3>3. tx_pending' \in Nat /\ spi_sem' \in Nat
        BY <1>00, <3>1
      <3> QED
        BY <3>2, <3>3
    <2>3. txq' \in [{"net", "prio"} -> Nat]
      <3>1. txq' = txq \/ \E c \in {"net", "prio"} : txq' = [txq EXCEPT ![c] = @ + 1]
        BY <1>1 DEF Kernel, Xmit, Check, Pause, Enqueue, Count, IfDown, IfUp, WritePrio, txVars
      <3>2. ASSUME NEW c \in {"net", "prio"} PROVE [txq EXCEPT ![c] = @ + 1] \in [{"net", "prio"} -> Nat]
        <4>1. txq \in [{"net", "prio"} -> Nat] /\ txq[c] + 1 \in Nat
          OBVIOUS
        <4> HIDE DEF TypeOK
        <4> QED
          BY <4>1
      <3>3. txq \in [{"net", "prio"} -> Nat]
        OBVIOUS
      <3> HIDE DEF TypeOK
      <3> QED
        BY <3>1, <3>2, <3>3
    <2>4. opened' \in [NetDev -> BOOLEAN] /\ stopped' \in [NetDev -> BOOLEAN]
      BY <1>1 DEF Kernel, Xmit, Check, Pause, Enqueue, Count, IfDown, IfUp, WritePrio, txVars
    <2>5. xmit' \in [NetDev -> {"idle", "check", "pause", "enqueue", "count"}]
      BY <1>1 DEF Kernel, Xmit, Check, Pause, Enqueue, Count, IfDown, IfUp, WritePrio, Goto
    <2>6. nets' \in 0..MaxNet /\ prios' \in 0..MaxEvents /\ others' \in 0..MaxEvents
      <3>1. CASE \E d \in NetDev : Xmit(d)
        BY <1>0, <3>1 DEF Xmit
      <3>2. CASE WritePrio \/ \E d \in NetDev : IfDown(d)
        BY <1>0, <3>2, EventCounted DEF WritePrio, IfDown
      <3>3. CASE \E d \in NetDev : Check(d) \/ Pause(d) \/ Enqueue(d) \/ Count(d) \/ IfUp(d)
        BY <3>3 DEF Check, Pause, Enqueue, Count, IfUp, budgets
      <3> QED
        BY <1>1, <3>1, <3>2, <3>3 DEF Kernel
    <2>7. {prios', clocks', others', faults'} \subseteq 0..MaxEvents
      BY <1>0, <2>1, <2>6
    <2>8. /\ mode' \in {"ready", "closing", "purged", "exited"} /\ rx' \in {"idle", "close", "closed", "opening"}
          /\ {data_path', irq', handshake', deaf'} \subseteq BOOLEAN
          /\ rxq' \in Seq({"init", "data"}) /\ toHost' \in Seq({"init", "data"})
          /\ spi' \in [pc : {"idle", "dequeue", "dec", "resume", "transfer", "stopped"},
                      got : {"none", "net", "prio"}, rx : BOOLEAN]
      BY <1>00, <2>1, <2>2
    <2> QED
      BY <2>2, <2>3, <2>4, <2>5, <2>6, <2>7, <2>8
  <1>2. CASE SpiThread
    <2>1. /\ UNCHANGED <<mode, data_path, irq, opened, xmit, rx, deaf, nets, prios, clocks, others, faults>>
          /\ tx_pending' \in Nat /\ spi_sem' \in Nat /\ handshake' \in BOOLEAN
          /\ stopped' \in [NetDev -> BOOLEAN]
      <3>1. CASE TakeSem
        BY <1>00, <3>1 DEF TakeSem, txVars, devVars, budgets
      <3>2. CASE Dequeue
        BY <1>00, <3>2 DEF Dequeue, devVars, budgets
      <3>3. CASE Decrement
        BY <1>00, <3>3 DEF Decrement, devVars, budgets
      <3>4. CASE Resume
        BY <1>00, <3>4 DEF Resume, devVars, budgets
      <3>5. CASE Transfer
        BY <1>00, <3>5 DEF Transfer, txVars, budgets
      <3> QED
        BY <1>2, <3>1, <3>2, <3>3, <3>4, <3>5 DEF SpiThread
    <2>2. spi' \in [pc : {"idle", "dequeue", "dec", "resume", "transfer", "stopped"},
                    got : {"none", "net", "prio"}, rx : BOOLEAN]
      <3>1. CASE TakeSem \/ Transfer
        <4>1. (toHost # <<>>) = TRUE \/ (toHost # <<>>) = FALSE
          OBVIOUS
        <4>2. spi' = SpiIdle \/ \E b \in BOOLEAN : spi' = [pc |-> "dequeue", got |-> "none", rx |-> b]
          BY <3>1, <4>1 DEF TakeSem, Transfer, SpiIdle
        <4>3. ASSUME NEW b \in BOOLEAN, NEW pc \in {"idle", "dequeue"}
              PROVE  [pc |-> pc, got |-> "none", rx |-> b]
                        \in [pc : {"idle", "dequeue", "dec", "resume", "transfer", "stopped"},
                            got : {"none", "net", "prio"}, rx : BOOLEAN]
          OBVIOUS
        <4>4. CASE spi' = SpiIdle
          BY <4>3, <4>4 DEF SpiIdle
        <4>5. ASSUME NEW b \in BOOLEAN, spi' = [pc |-> "dequeue", got |-> "none", rx |-> b]
              PROVE  spi' \in [pc : {"idle", "dequeue", "dec", "resume", "transfer", "stopped"},
                                got : {"none", "net", "prio"}, rx : BOOLEAN]
          BY <4>3, <4>5
        <4> QED
          BY <4>2, <4>4, <4>5
      <3>2. CASE Dequeue
        BY <3>2 DEF Dequeue, NextClass, SpiIdle
      <3>3. CASE Decrement \/ Resume
        BY <3>3 DEF Decrement, Resume
      <3> QED
        BY <1>2, <3>1, <3>2, <3>3 DEF SpiThread
    <2>3. txq' \in [{"net", "prio"} -> Nat]
      <3>1. CASE Dequeue
        BY <3>1 DEF Dequeue, NextClass
      <3> QED
        BY <1>2, <3>1 DEF SpiThread, TakeSem, Decrement, Resume, Transfer, txVars
    <2>4. rxq' \in Seq({"init", "data"}) /\ toHost' \in Seq({"init", "data"})
      <3>1. CASE Transfer
        BY <3>1 DEF Transfer
      <3> QED
        BY <1>2, <3>1 DEF SpiThread, TakeSem, Dequeue, Decrement, Resume, devVars
    <2> QED
      BY <2>1, <2>2, <2>3, <2>4
  <1>3. CASE RxThread
    <2>1. /\ UNCHANGED <<mode, txq, stopped, spi_sem, opened, xmit, spi, devVars, budgets>>
          /\ rx' \in {"idle", "close", "closed", "opening"}
          /\ irq' \in BOOLEAN /\ data_path' \in BOOLEAN /\ deaf' \in BOOLEAN
      BY <1>00, <1>3 DEF RxThread, RxPacket, Close, Reopen, Open, txVars
    <2>2. tx_pending' \in Nat
      BY <1>00, <1>3 DEF RxThread, RxPacket, Close, Reopen, Open, txVars
    <2>3. rxq' \in Seq({"init", "data"})
      <3>1. CASE RxPacket
        BY <3>1 DEF RxPacket
      <3> QED
        BY <1>3, <3>1 DEF RxThread, Close, Reopen, Open
    <2> QED
      BY <2>1, <2>2, <2>3 DEF devVars, budgets
  <1>4. CASE Unload
    <2>1. /\ UNCHANGED <<tx_pending, spi_sem, xmit, rx, handshake, toHost, deaf, nets, prios, clocks, faults>>
          /\ mode' \in {"ready", "closing", "purged", "exited"}
          /\ data_path' \in BOOLEAN /\ irq' \in BOOLEAN
          /\ txq' \in [{"net", "prio"} -> Nat] /\ rxq' \in Seq({"init", "data"})
          /\ opened' \in [NetDev -> BOOLEAN] /\ stopped' \in [NetDev -> BOOLEAN]
      <3>1. <<>> \in Seq({"init", "data"})
        OBVIOUS
      <3>2. CASE ExitClose
        BY <1>00, <3>2 DEF ExitClose, txVars, devVars
      <3>3. CASE ExitPurge
        BY <1>00, <3>1, <3>3 DEF ExitPurge, devVars, budgets
      <3>4. CASE ExitStop
        BY <1>00, <3>4 DEF ExitStop, devVars, budgets
      <3> QED
        BY <1>4, <3>2, <3>3, <3>4 DEF Unload
    <2>2. spi' \in [pc : {"idle", "dequeue", "dec", "resume", "transfer", "stopped"},
                    got : {"none", "net", "prio"}, rx : BOOLEAN]
      BY <1>4 DEF Unload, ExitClose, ExitPurge, ExitStop, SpiIdle
    <2>3. others' \in 0..MaxEvents
      BY <1>0, <1>4, EventCounted DEF Unload, ExitClose, ExitPurge, ExitStop, budgets
    <2> QED
      BY <2>1, <2>2, <2>3
  <1>5. CASE Device
    <2>1. /\ UNCHANGED <<mode, data_path, txVars, rxq, irq, opened, xmit, spi, rx, nets, prios, faults>>
          /\ spi_sem' \in Nat /\ deaf' \in BOOLEAN /\ handshake' \in BOOLEAN
          /\ toHost' \in Seq({"init", "data"})
      <3>1. CASE Load
        <4>1. UNCHANGED <<mode, data_path, txVars, rxq, irq, opened, xmit, spi, rx, nets, prios, faults>>
          BY <3>1 DEF Load, budgets
        <4>2. handshake' = TRUE /\ toHost' = toHost /\ (GiveSem \/ UNCHANGED <<spi_sem, deaf>>)
          BY <3>1 DEF Load
        <4>3. spi_sem' \in Nat
          BY <1>00, <4>2 DEF GiveSem
        <4>4. deaf' \in BOOLEAN
          BY <1>00, <4>2 DEF GiveSem
        <4> QED
          BY <4>1, <4>2, <4>3, <4>4
      <3>2. ASSUME NEW p \in {"init", "data"}, Offer(p), UNCHANGED <<nets, prios, faults>>
            PROVE  /\ UNCHANGED <<mode, data_path, txVars, rxq, irq, opened, xmit, spi, rx, handshake>>
                   /\ spi_sem' \in Nat /\ deaf' \in BOOLEAN /\ toHost' \in Seq({"init", "data"})
        <4>1. Append(toHost, p) \in Seq({"init", "data"})
          OBVIOUS
        <4>2. spi_sem' \in Nat
          BY <1>00, <3>2 DEF Offer, GiveSem
        <4>3. deaf' \in BOOLEAN
          BY <1>00, <3>2 DEF Offer, GiveSem
        <4> QED
          BY <3>2, <4>1, <4>2, <4>3 DEF Offer
      <3>3. Announce \/ DeviceData => UNCHANGED <<nets, prios, faults>> /\ \E p \in {"init", "data"} : Offer(p)
        BY DEF Announce, DeviceData, Offer
      <3> QED
        BY <1>00, <1>5, <3>1, <3>2, <3>3 DEF Device
    <2>2. clocks' \in 0..MaxEvents /\ others' \in 0..MaxEvents
      BY <1>0, <1>5, EventCounted DEF Device, Load, Announce, DeviceData, budgets
    <2> QED
      BY <2>1, <2>2 DEF txVars
  <1>6. CASE SpiFails \/ ReopenFails
    <2>1. /\ UNCHANGED <<data_path, txVars, rxq, irq, opened, xmit, devVars, nets, prios, clocks, others>>
          /\ mode' \in {"ready", "closing", "purged", "exited"}
          /\ rx' \in {"idle", "close", "closed", "opening"}
      BY <1>6 DEF SpiFails, ChipSelected, TransferFails, ReopenFails, Fault
    <2>2. spi' \in [pc : {"idle", "dequeue", "dec", "resume", "transfer", "stopped"},
                    got : {"none", "net", "prio"}, rx : BOOLEAN]
      <3>1. spi' = spi \/ spi' = SpiIdle
        BY <1>6 DEF SpiFails, ChipSelected, TransferFails, ReopenFails
      <3>2. SpiIdle \in [pc : {"idle", "dequeue", "dec", "resume", "transfer", "stopped"},
                         got : {"none", "net", "prio"}, rx : BOOLEAN]
        BY DEF SpiIdle
      <3> QED
        BY <3>1, <3>2
    <2>3. faults' \in 0..MaxEvents
      BY <1>0, <1>6, EventCounted DEF SpiFails, ChipSelected, TransferFails, ReopenFails, Fault
    <2>4. spi_sem' \in Nat
      BY <1>00, <1>6 DEF SpiFails, ChipSelected, TransferFails, ReopenFails
    <2>5. deaf' \in BOOLEAN
      BY <1>00, <1>6 DEF SpiFails, ChipSelected, TransferFails, ReopenFails
    <2> QED
      BY <2>1, <2>2, <2>3, <2>4, <2>5 DEF txVars, devVars
  <1>7. CASE UNCHANGED vars
    BY <1>7 DEF vars, txVars, devVars, budgets
  <1> QED
    BY <1>1, <1>2, <1>3, <1>4, <1>5, <1>6, <1>7 DEF Next

\* Type correctness of the host driver's state.
THEOREM TypeCorrect == Spec => []TypeOK
  BY InitType, NextType, PTL DEF Spec

-----------------------------------------------------------------------------
(* The semaphore *)

\* With the data path open, or about to be, the interrupts are enabled; and what
\* the ESP32 offered after the SPI thread had looked at its lines, with the
\* interrupts enabled, has raised the semaphore.
Noticed ==
    /\ data_path => irq
    /\ rx = "opening" => irq /\ mode = "ready"
    /\ rx # "idle" => mode = "ready"
    /\ spi.pc = "dequeue" /\ ~spi.rx /\ toHost # <<>> /\ irq => spi_sem > 0
    /\ WorkNoticed

\* How many writers are at a place
LEMMA WritersType ==
  \A pc : Writers(pc) \in Nat /\ Writers(pc) <= Cardinality(NetDev) /\ Cardinality(NetDev) \in Nat
  <1> SUFFICES ASSUME NEW pc
               PROVE  Writers(pc) \in Nat /\ Writers(pc) <= Cardinality(NetDev) /\ Cardinality(NetDev) \in Nat
    OBVIOUS
  <1>1. IsFiniteSet(NetDev) /\ {d \in NetDev : xmit[d] = pc} \in SUBSET NetDev
    BY SpiHostAssumption
  <1>2. /\ IsFiniteSet({d \in NetDev : xmit[d] = pc})
        /\ Cardinality({d \in NetDev : xmit[d] = pc}) <= Cardinality(NetDev)
    BY <1>1, FS_Subset
  <1> QED
    BY <1>1, <1>2, FS_CardinalityType DEF Writers

\* A writer that moves leaves one place and enters another.
LEMMA WritersMove ==
  ASSUME TypeOK, NEW d \in NetDev, NEW to, Goto(d, to), xmit[d] # to, NEW pc
  PROVE  Writers(pc)' = IF pc = to THEN Writers(pc) + 1 ELSE IF pc = xmit[d] THEN Writers(pc) - 1 ELSE Writers(pc)
  <1> DEFINE W == {e \in NetDev : xmit[e] = pc}
  <1>1. xmit' = [xmit EXCEPT ![d] = to] /\ DOMAIN xmit = NetDev
    BY DEF Goto, TypeOK
  <1>2. IsFiniteSet(W) /\ Cardinality(W) \in Nat
    BY SpiHostAssumption, FS_Subset, FS_CardinalityType
  <1>3. W' = IF pc = to THEN W \cup {d} ELSE W \ {d}
    BY <1>1
  <1>4. Cardinality(W \cup {d}) = IF d \in W THEN Cardinality(W) ELSE Cardinality(W) + 1
    BY <1>2, FS_AddElement
  <1>5. Cardinality(W \ {d}) = IF d \in W THEN Cardinality(W) - 1 ELSE Cardinality(W)
    BY <1>2, FS_RemoveElement
  <1>6. d \in W <=> xmit[d] = pc
    OBVIOUS
  <1> HIDE DEF W
  <1>7. Cardinality(W') = IF pc = to THEN Cardinality(W) + 1 ELSE IF pc = xmit[d] THEN Cardinality(W) - 1 ELSE Cardinality(W)
    BY <1>2, <1>3, <1>4, <1>5, <1>6
  <1> QED
    BY <1>7 DEF Writers, W

\* While nobody moves, nothing changes.
LEMMA WritersStay == UNCHANGED xmit => \A pc : Writers(pc)' = Writers(pc)
  BY DEF Writers

LEMMA NextNoticed == TypeOK /\ Noticed /\ [Next]_vars => Noticed'
  <1> SUFFICES ASSUME TypeOK, Noticed, [Next]_vars PROVE Noticed'
    OBVIOUS
  <1>0. /\ txq["net"] \in Nat /\ txq["prio"] \in Nat /\ spi_sem \in Nat
        /\ Writers("count") \in Nat
    BY WritersType DEF TypeOK
  <1>1. CASE UNCHANGED <<mode, data_path, irq, rx, spi, toHost, spi_sem, handshake, deaf, txq>> /\ Writers("count")' = Writers("count")
    BY <1>1 DEF Noticed, WorkNoticed
  \* Whoever gives the semaphore may change what it is about.
  <1>2. CASE UNCHANGED <<mode, data_path, irq, rx, spi>> /\ GiveSem
    BY <1>0, <1>2 DEF GiveSem, Noticed, WorkNoticed
  <1>3. ASSUME NEW d \in NetDev, Xmit(d) \/ Check(d) PROVE Noticed'
    <2>1. UNCHANGED <<mode, data_path, irq, rx, spi, toHost, spi_sem, handshake, deaf, txq>>
      BY <1>3 DEF Xmit, Check, txVars, devVars
    <2>2. PICK to \in {"idle", "check", "pause", "enqueue"} : Goto(d, to)
      BY <1>3 DEF Xmit, Check
    <2>3. xmit[d] \in {"idle", "check"}
      BY <1>3 DEF Xmit, Check
    <2>4. Writers("count")' = Writers("count")
      <3>1. CASE xmit[d] = to
        BY <2>2, <3>1, WritersStay DEF Goto, TypeOK
      <3>2. CASE xmit[d] # to
        BY <2>2, <2>3, <3>2, WritersMove
      <3> QED
        BY <3>1, <3>2
    <2> QED
      BY <1>1, <2>1, <2>4
  <1>4. ASSUME NEW d \in NetDev, Enqueue(d) PROVE Noticed'
    <2>1. UNCHANGED <<mode, data_path, irq, rx, spi, toHost, spi_sem, handshake, deaf>>
      BY <1>4 DEF Enqueue, devVars
    <2>2. txq'["net"] = txq["net"] + 1 /\ txq'["prio"] = txq["prio"]
      BY <1>4 DEF Enqueue, TypeOK
    <2>3. Writers("count")' = Writers("count") + 1
      BY <1>4, WritersMove DEF Enqueue
    <2> QED
      BY <1>0, <2>1, <2>2, <2>3 DEF Noticed, WorkNoticed
  <1>5. ASSUME NEW d \in NetDev, Pause(d) \/ Count(d) PROVE Noticed'
    BY <1>2, <1>5 DEF Pause, Count
  <1>6. CASE WritePrio
    BY <1>2, <1>6 DEF WritePrio
  <1>7. ASSUME NEW d \in NetDev, IfDown(d) \/ IfUp(d) PROVE Noticed'
    BY <1>1, <1>7, WritersStay DEF IfDown, IfUp, devVars
  <1>8. CASE TakeSem
    <2>1. UNCHANGED <<mode, data_path, irq, rx, toHost, handshake, deaf>>
      BY <1>8 DEF TakeSem, devVars
    <2>2. CASE mode = "ready" /\ handshake
      <3>1. spi'.pc = "dequeue" /\ spi'.rx = (toHost # <<>>)
        BY <1>8, <2>2 DEF TakeSem, SpiIdle
      <3> QED
        BY <2>1, <3>1 DEF Noticed, WorkNoticed
    <2>3. CASE ~(mode = "ready" /\ handshake)
      <3>1. spi'.pc = "idle"
        BY <1>8, <2>3 DEF TakeSem, SpiIdle
      <3> QED
        BY <2>1, <2>3, <3>1 DEF Noticed, WorkNoticed
    <2> QED
      BY <2>2, <2>3
  <1>9. CASE Dequeue
    <2>1. UNCHANGED <<mode, data_path, irq, rx, toHost, spi_sem, handshake, deaf, xmit>> /\ spi.pc = "dequeue"
      BY <1>9 DEF Dequeue, devVars
    <2>2. CASE spi'.pc \in {"dec", "transfer"}
      BY <2>1, <2>2 DEF Noticed, WorkNoticed
    <2>3. CASE spi'.pc = "idle" /\ ~data_path
      BY <2>1, <2>3 DEF Noticed, WorkNoticed
    <2>4. CASE spi'.pc = "idle" /\ data_path
      <3>1. txq["net"] = 0 /\ txq["prio"] = 0 /\ ~spi.rx /\ txq' = txq
        BY <1>0, <1>9, <2>4 DEF Dequeue, NextClass, SpiIdle, TypeOK
      <3>2. Writers("count")' = Writers("count")
        BY <2>1, WritersStay
      <3> QED
        BY <1>0, <2>1, <2>4, <3>1, <3>2 DEF Noticed, WorkNoticed
    <2>5. spi'.pc \in {"dec", "transfer", "idle"}
      BY <1>9 DEF Dequeue, SpiIdle, TypeOK
    <2> QED
      BY <2>2, <2>3, <2>4, <2>5
  <1>10. CASE Decrement \/ Resume
    <2>1. UNCHANGED <<mode, data_path, irq, rx>> /\ spi'.pc \in {"resume", "transfer"}
      BY <1>10 DEF Decrement, Resume, TypeOK
    <2> QED
      BY <2>1 DEF Noticed, WorkNoticed
  <1>11. CASE Transfer
    <2>1. UNCHANGED <<mode, data_path, irq, rx>> /\ spi'.pc = "idle" /\ ~handshake'
      BY <1>11 DEF Transfer, SpiIdle
    <2> QED
      BY <2>1 DEF Noticed, WorkNoticed
  \* Where the last semaphore is lost, nobody is expected to notice.
  <1>19. CASE SpiFails
    <2>1. UNCHANGED <<mode, data_path, irq, rx, toHost, handshake, txq, xmit>> /\ spi'.pc = "idle"
      BY <1>19 DEF SpiFails, ChipSelected, TransferFails, SpiIdle, txVars, devVars
    <2>2. spi_sem' > 0 \/ deaf'
      <3>1. spi_sem' \in Nat
        BY <1>0, <1>19 DEF SpiFails, ChipSelected, TransferFails
      <3>2. spi_sem' = 0 => deaf'
        BY <1>19 DEF SpiFails, ChipSelected, TransferFails
      <3>3. spi_sem' > 0 \/ spi_sem' = 0
        BY <3>1
      <3> QED
        BY <3>2, <3>3
    <2> QED
      BY <2>1, <2>2 DEF Noticed, WorkNoticed
  <1>20. CASE ReopenFails
    <2>1. UNCHANGED <<data_path, irq, toHost, spi_sem, spi>> /\ rx' = "idle" /\ mode' = "closing"
      BY <1>20 DEF ReopenFails, devVars
    <2> QED
      BY <2>1 DEF Noticed, WorkNoticed
  <1>12. CASE RxPacket
    <2>1. /\ UNCHANGED <<mode, data_path, irq, spi, toHost, spi_sem, handshake, deaf, txq, xmit>>
          /\ mode = "ready" /\ rx' # "opening"
      BY <1>12 DEF RxPacket, txVars, devVars
    <2> QED
      BY <2>1, WritersStay DEF Noticed, WorkNoticed
  <1>13. CASE Close
    <2>1. UNCHANGED mode /\ rx = "close" /\ rx' = "closed" /\ ~irq' /\ ~data_path'
      BY <1>13 DEF Close
    <2> QED
      BY <2>1 DEF Noticed, WorkNoticed
  <1>14. CASE Reopen
    <2>1. /\ UNCHANGED <<mode, data_path, spi, toHost, spi_sem, handshake, deaf, txq, xmit>>
          /\ rx = "closed" /\ rx' = "opening" /\ irq' /\ spi.pc # "dequeue"
      BY <1>14 DEF Reopen, Slept, devVars
    <2> QED
      BY <2>1, WritersStay DEF Noticed, WorkNoticed
  <1>15. CASE Open
    <2>1. /\ UNCHANGED <<mode, irq, spi, toHost, spi_sem>>
          /\ rx = "opening" /\ rx' = "idle" /\ deaf'
      BY <1>15 DEF Open, devVars
    <2> QED
      BY <2>1 DEF Noticed, WorkNoticed
  <1>16. CASE Unload
    <2>1. /\ UNCHANGED <<rx, toHost, spi_sem>> /\ mode' # "ready"
          /\ (data_path' => data_path /\ irq') /\ (irq' => irq) /\ (spi'.pc = "dequeue" => spi' = spi)
          /\ (mode = "ready" => rx = "idle")
      BY <1>16 DEF Unload, ExitClose, ExitPurge, ExitStop, devVars, SpiIdle, Noticed
    <2> QED
      BY <2>1 DEF Noticed, WorkNoticed
  <1>17. CASE Device
    <2>1. UNCHANGED <<mode, data_path, irq, rx, spi, txq, xmit>>
      BY <1>17 DEF Device, Load, Announce, DeviceData, Offer, txVars
    <2>2. CASE GiveSem
      BY <1>2, <2>1, <2>2
    <2>3. CASE ~irq
      <3>1. ~data_path
        BY <2>3 DEF Noticed
      <3> QED
        BY <2>1, <2>3, <3>1 DEF Noticed, WorkNoticed
    <2>4. CASE toHost # <<>> /\ UNCHANGED <<spi_sem, deaf, handshake>>
      <3>1. Writers("count")' = Writers("count")
        BY <2>1, WritersStay
      <3> QED
        BY <2>1, <2>4, <3>1 DEF Noticed, WorkNoticed
    <2> QED
      BY <1>17, <2>2, <2>3, <2>4 DEF Device, Load, Announce, DeviceData, Offer
  <1>18. CASE UNCHANGED vars
    BY <1>1, <1>18, WritersStay DEF vars, txVars, devVars
  <1> QED
    BY <1>3, <1>4, <1>5, <1>6, <1>7, <1>8, <1>9, <1>10, <1>11, <1>12, <1>13, <1>14, <1>15, <1>16, <1>17, <1>18,
       <1>19, <1>20 DEF Next, Kernel, SpiThread, RxThread

\* With the data path open and work to do, the SPI thread that sleeps is about to
\* be woken: no edge and no packet is forgotten, but for what waits since the
\* data path was opened, or since the last semaphore was lowered for a
\* transaction that was not made or failed.
THEOREM NothingForgotten == Spec => []WorkNoticed
  <1>1. Init => Noticed
    BY DEF Init, SpiIdle, Noticed, WorkNoticed
  <1>2. TypeOK /\ Noticed /\ [Next]_vars => Noticed'
    BY NextNoticed
  <1>3. Noticed => WorkNoticed
    BY DEF Noticed
  <1> QED
    BY <1>1, <1>2, <1>3, TypeCorrect, PTL DEF Spec

-----------------------------------------------------------------------------
(* The INIT events on their way *)

Place == {"init", "data"}
Events(s) == {i \in DOMAIN s : s[i] = "init"}
Inits(s) == Cardinality(Events(s))

LEMMA EventsFinite ==
  ASSUME NEW s \in Seq(Place)
  PROVE  IsFiniteSet(Events(s)) /\ Inits(s) \in Nat
  <1>1. DOMAIN s = 1..Len(s) /\ Len(s) \in Nat
    OBVIOUS
  <1>2. IsFiniteSet(1..Len(s)) /\ Events(s) \in SUBSET (1..Len(s))
    BY <1>1, FS_Interval DEF Events
  <1>3. IsFiniteSet(Events(s))
    BY <1>2, FS_Subset
  <1> QED
    BY <1>3, FS_CardinalityType DEF Inits

LEMMA InitsAppend ==
  ASSUME NEW s \in Seq(Place), NEW p \in Place
  PROVE  Inits(Append(s, p)) = Inits(s) + (IF p = "init" THEN 1 ELSE 0)
  <1> DEFINE n == Append(s, p)
  <1>1. DOMAIN n = 1..(Len(s) + 1) /\ DOMAIN s = 1..Len(s) /\ Len(s) \in Nat
    OBVIOUS
  <1>2. n[Len(s) + 1] = p /\ \A i \in 1..Len(s) : n[i] = s[i]
    OBVIOUS
  <1>3. Events(n) = IF p = "init" THEN Events(s) \cup {Len(s) + 1} ELSE Events(s)
    BY <1>1, <1>2 DEF Events
  <1>4. Len(s) + 1 \notin Events(s)
    BY <1>1 DEF Events
  <1>5. Cardinality(Events(s) \cup {Len(s) + 1}) = Cardinality(Events(s)) + 1
    BY <1>4, EventsFinite, FS_AddElement
  <1>6. Cardinality(Events(s)) \in Nat
    BY EventsFinite DEF Inits
  <1> HIDE DEF n
  <1> QED
    BY <1>3, <1>5, <1>6 DEF Inits, n

LEMMA InitsTail ==
  ASSUME NEW s \in Seq(Place), s # <<>>
  PROVE  Inits(s) = Inits(Tail(s)) + (IF Head(s) = "init" THEN 1 ELSE 0)
  <1> DEFINE r == Tail(s)
             A == Events(r)
             B == Events(s) \ {1}
             f == [i \in A |-> i + 1]
  <1>1. /\ r \in Seq(Place) /\ Len(s) \in Nat \ {0}
        /\ DOMAIN r = 1..(Len(s) - 1) /\ DOMAIN s = 1..Len(s) /\ Head(s) = s[1]
    OBVIOUS
  <1>2. \A i \in 1..(Len(s) - 1) : r[i] = s[i + 1]
    OBVIOUS
  <1>3. A \subseteq 1..(Len(s) - 1) /\ B \subseteq 2..Len(s)
    BY <1>1 DEF Events
  <1>4. \A i \in A : i + 1 \in B
    BY <1>1, <1>2, <1>3 DEF Events
  <1>5. \A j \in B : j - 1 \in A /\ (j - 1) + 1 = j
    <2> SUFFICES ASSUME NEW j \in B PROVE j - 1 \in A /\ (j - 1) + 1 = j
      OBVIOUS
    <2>1. j \in 2..Len(s) /\ s[j] = "init"
      BY <1>1, <1>3 DEF Events
    <2>2. j - 1 \in 1..(Len(s) - 1) /\ (j - 1) + 1 = j
      BY <1>1, <2>1
    <2>3. r[j - 1] = "init"
      BY <1>2, <2>1, <2>2
    <2> QED
      BY <1>1, <2>2, <2>3 DEF Events
  <1>6. f \in Bijection(A, B)
    <2> HIDE DEF A, B
    <2>1. f \in [A -> B]
      BY <1>4
    <2>2. \A a, b \in A : f[a] = f[b] => a = b
      BY <1>3
    <2>3. \A j \in B : \E i \in A : f[i] = j
      BY <1>5
    <2> QED
      BY <2>1, <2>2, <2>3, Fun_IsBij
  <1>7. IsFiniteSet(A) /\ IsFiniteSet(Events(s)) /\ Cardinality(Events(s)) \in Nat
    BY <1>1, EventsFinite DEF Inits
  <1>8. Cardinality(A) = Cardinality(B)
    BY <1>6, <1>7, FS_Bijection DEF ExistsBijection
  <1>9. Cardinality(B) = IF 1 \in Events(s) THEN Cardinality(Events(s)) - 1 ELSE Cardinality(Events(s))
    BY <1>7, FS_RemoveElement
  <1>10. 1 \in Events(s) <=> Head(s) = "init"
    BY <1>1 DEF Events
  <1> HIDE DEF A, B, r
  <1>11. Cardinality(Events(s)) = Cardinality(A) + (IF Head(s) = "init" THEN 1 ELSE 0)
    BY <1>7, <1>8, <1>9, <1>10
  <1> QED
    BY <1>11 DEF Inits, A, r

LEMMA InitsEmpty == Inits(<<>>) = 0
  <1>1. Events(<<>>) = {}
    BY DEF Events
  <1> QED
    BY <1>1, FS_EmptySet DEF Inits

-----------------------------------------------------------------------------
(* The count and the queue *)

\* How often the data path was opened anew, at most: the INIT events that are
\* not under way.
Pending == Inits(toHost) + Inits(rxq) + (IF rx \in {"close", "closed"} THEN 1 ELSE 0)
Done == clocks - Pending

\* What the count may lose each time
Loss == TX_MAX_PENDING_COUNT + Cardinality(NetDev) + prios

Passed == {d \in NetDev : xmit[d] \in {"enqueue", "count"}}

\* The writers that were let in are all there is beyond the limit.
Limit == tx_pending + Cardinality(Passed) <= TX_MAX_PENDING_COUNT + Cardinality(NetDev)

\* All that is queued or in hand, of whatever class, is counted, was not counted
\* because it is no network packet, or was forgotten.
Backlog ==
    txq["net"] + txq["prio"] + (IF spi.pc = "dec" THEN 1 ELSE 0)
        <= tx_pending + Writers("count") + prios + Done * Loss

CountInv == Done \in Nat /\ Limit /\ Backlog /\ PendingHasPackets

LEMMA PassedFinite ==
  /\ IsFiniteSet(Passed) /\ Cardinality(Passed) \in Nat /\ Cardinality(Passed) <= Cardinality(NetDev)
  /\ Cardinality(NetDev) \in Nat
  BY SpiHostAssumption, FS_Subset, FS_CardinalityType DEF Passed

\* A product grows with its factors.
LEMMA Products ==
  ASSUME NEW a \in Nat, NEW b \in Nat, NEW k \in Nat, NEW l \in Nat, a <= b, k <= l
  PROVE  /\ a * k \in Nat /\ b * l \in Nat /\ a * k <= b * l
         /\ a + 1 <= b => a * k + k <= b * l
  <1>1. PICK x \in Nat, y \in Nat : b = a + x /\ l = k + y
    <2>1. b - a \in Nat /\ l - k \in Nat /\ b = a + (b - a) /\ l = k + (l - k)
      OBVIOUS
    <2> QED
      BY <2>1
  <1>2. a * k \in Nat /\ a * y \in Nat /\ x * k \in Nat /\ x * y \in Nat
    OBVIOUS
  <1>3. b * l = a * k + a * y + x * k + x * y
    BY <1>1
  <1>4. x >= 1 => x * k >= k
    <2>1. x >= 1 => x * k = (x - 1) * k + k
      OBVIOUS
    <2>2. x >= 1 => (x - 1) * k \in Nat
      OBVIOUS
    <2> QED
      BY <2>1, <2>2, <1>2
  <1> QED
    BY <1>1, <1>2, <1>3, <1>4

\* INIT events are announced, taken, dropped and served; only serving one is
\* opening the data path.
LEMMA Difference ==
  ASSUME NEW n \in Nat, NEW a \in Nat, NEW b \in Nat, b <= a
  PROVE  n - b \in Int /\ n - b >= n - a /\ (b = a - 1 => n - b >= (n - a) + 1)
  OBVIOUS

LEMMA LessPending ==
  ASSUME clocks \in Nat, clocks' = clocks, Pending \in Nat, Pending' \in Nat, Pending' <= Pending
  PROVE  Done' \in Int /\ Done' >= Done /\ (Pending' = Pending - 1 => Done' >= Done + 1)
  <1>1. /\ clocks - Pending' \in Int /\ clocks - Pending' >= clocks - Pending
        /\ Pending' = Pending - 1 => clocks - Pending' >= (clocks - Pending) + 1
    BY Difference, Zenon
  <1> QED
    BY <1>1, Zenon DEF Done

LEMMA NextDone ==
  ASSUME TypeOK, [Next]_vars
  PROVE  /\ Done' \in Int /\ Done' >= Done
         /\ Reopen => Done' >= Done + 1
  <1> USE DEF Place
  <1>0. /\ toHost \in Seq(Place) /\ rxq \in Seq(Place) /\ clocks \in Nat /\ prios \in Nat
        /\ Inits(toHost) \in Nat /\ Inits(rxq) \in Nat
    BY SpiHostAssumption, EventsFinite DEF TypeOK
  <1>00. clocks \in Nat
    BY <1>0
  <1>1. CASE UNCHANGED <<toHost, rxq, clocks, rx>>
    <2>1. Done' = Done
      BY <1>1 DEF Done, Pending
    <2>2. ~Reopen
      BY <1>1 DEF Reopen
    <2> QED
      BY <1>0, <2>1, <2>2 DEF Done, Pending
  <1>2. CASE Kernel
    <2>1. UNCHANGED <<toHost, rxq, clocks, rx>>
      BY <1>2 DEF Kernel, Xmit, Check, Pause, Enqueue, Count, IfDown, IfUp, WritePrio, devVars, budgets
    <2> QED
      BY <1>1, <2>1
  <1>3. CASE TakeSem \/ Dequeue \/ Decrement \/ Resume \/ SpiFails
    BY <1>1, <1>3 DEF TakeSem, Dequeue, Decrement, Resume, SpiFails, ChipSelected, TransferFails, Fault, devVars, budgets
  <1>4. CASE Transfer
    <2>1. UNCHANGED <<clocks, rx>>
      BY <1>4 DEF Transfer, budgets
    <2>2. CASE toHost = <<>>
      BY <1>1, <1>4, <2>1, <2>2 DEF Transfer
    <2>3. CASE toHost # <<>>
      <3>1. /\ toHost' = Tail(toHost) /\ Head(toHost) \in Place /\ Tail(toHost) \in Seq(Place)
            /\ rxq' = rxq \/ rxq' = Append(rxq, Head(toHost))
        BY <1>0, <1>4, <2>3 DEF Transfer
      <3>2. Inits(toHost) = Inits(toHost') + (IF Head(toHost) = "init" THEN 1 ELSE 0)
        BY <1>0, <2>3, <3>1, InitsTail
      <3>3. Inits(rxq') \in {Inits(rxq), Inits(rxq) + (IF Head(toHost) = "init" THEN 1 ELSE 0)}
        BY <1>0, <3>1, InitsAppend
      <3>4. Inits(toHost') \in Nat /\ Inits(rxq') \in Nat
        <4>1. Inits(toHost') \in Nat
          BY <3>1, EventsFinite
        <4>2. Inits(rxq') \in Nat
          BY <1>0, <3>3
        <4> QED
          BY <4>1, <4>2
      <3>5. Pending' \in Nat /\ Pending \in Nat /\ Pending' <= Pending
        <4> DEFINE i == IF Head(toHost) = "init" THEN 1 ELSE 0
                   r == IF rx \in {"close", "closed"} THEN 1 ELSE 0
        <4>1. i \in 0..1 /\ r \in 0..1 /\ Inits(rxq) \in Nat
          BY <1>0
        <4>2. Pending = Inits(toHost) + Inits(rxq) + r /\ Pending' = Inits(toHost') + Inits(rxq') + r
          BY <2>1 DEF Pending
        <4>3. Inits(toHost) = Inits(toHost') + i /\ (Inits(rxq') = Inits(rxq) \/ Inits(rxq') = Inits(rxq) + i)
          BY <3>2, <3>3
        <4> HIDE DEF i, r
        <4> QED
          BY <3>4, <4>1, <4>2, <4>3
      <3>6. ~Reopen
        BY <2>1 DEF Reopen
      <3> QED
        BY <1>00, <2>1, <3>5, <3>6, LessPending
    <2> QED
      BY <2>2, <2>3
  <1>5. CASE RxPacket
    <2>1. /\ UNCHANGED <<clocks, toHost>> /\ rx = "idle" /\ rxq # <<>> /\ rxq' = Tail(rxq)
          /\ rx' = IF Head(rxq) = "init" THEN "close" ELSE "idle"
      BY <1>5 DEF RxPacket, devVars, budgets
    <2>2. Inits(rxq) = Inits(rxq') + (IF Head(rxq) = "init" THEN 1 ELSE 0)
      BY <1>0, <2>1, InitsTail
    <2>3. Inits(rxq') \in Nat
      <3>1. Tail(rxq) \in Seq(Place)
        BY <1>0, <2>1
      <3> QED
        BY <2>1, <3>1, EventsFinite
    <2>4. Pending' = Pending /\ Pending \in Nat
      BY <1>0, <2>1, <2>2, <2>3 DEF Pending
    <2>5. ~Reopen
      BY <2>1 DEF Reopen
    <2> QED
      BY <1>0, <2>1, <2>4, <2>5 DEF Done
  <1>6. CASE Close \/ Reopen \/ Open \/ ReopenFails
    <2>1. /\ UNCHANGED <<clocks, toHost, rxq>>
          /\ \/ rx = "close" /\ rx' = "closed" /\ ~Reopen
             \/ rx = "closed" /\ rx' = "opening"
             \/ rx = "closed" /\ rx' = "idle" /\ ~Reopen
             \/ rx = "opening" /\ rx' = "idle" /\ ~Reopen
      <3>1. CASE Close
        BY <3>1 DEF Close, Reopen, devVars, budgets
      <3>2. CASE Reopen
        BY <3>2 DEF Reopen, devVars, budgets
      <3>3. CASE Open
        BY <3>3 DEF Open, Reopen, devVars, budgets
      <3>4. CASE ReopenFails
        BY <3>4 DEF ReopenFails, Reopen, Fault, devVars
      <3> QED
        BY <1>6, <3>1, <3>2, <3>3, <3>4
    <2>2. Pending \in Nat /\ Pending' \in Nat /\ Pending' <= Pending /\ (Reopen => Pending' = Pending - 1)
      BY <1>0, <2>1 DEF Pending
    <2> QED
      BY <1>00, <2>1, <2>2, LessPending
  <1>7. CASE ExitClose \/ ExitStop
    BY <1>1, <1>7 DEF ExitClose, ExitStop, devVars, budgets
  <1>8. CASE ExitPurge
    <2>1. UNCHANGED <<clocks, toHost, rx>> /\ rxq' = <<>>
      BY <1>8 DEF ExitPurge, devVars, budgets
    <2>2. Pending \in Nat /\ Pending' \in Nat /\ Pending' <= Pending
      BY <1>0, <2>1, InitsEmpty DEF Pending
    <2>3. ~Reopen
      BY <2>1 DEF Reopen
    <2> QED
      BY <1>00, <2>1, <2>2, <2>3, LessPending
  <1>9. CASE Load
    BY <1>1, <1>9 DEF Load, budgets
  <1>10. CASE Announce
    <2>1. UNCHANGED <<rxq, rx>> /\ toHost' = Append(toHost, "init") /\ clocks' = clocks + 1
      BY <1>10 DEF Announce, Offer
    <2>2. Inits(toHost)' = Inits(toHost) + 1
      BY <1>0, <2>1, InitsAppend
    <2>3. Pending' = Pending + 1 /\ Pending \in Nat
      BY <1>0, <2>1, <2>2 DEF Pending
    <2>4. Done' = Done /\ Done \in Int
      BY <1>00, <2>1, <2>3 DEF Done
    <2>5. ~Reopen
      BY <2>1 DEF Reopen
    <2> QED
      BY <2>4, <2>5
  <1>12. CASE DeviceData
    <2>1. UNCHANGED <<rxq, rx, clocks>> /\ toHost' = Append(toHost, "data")
      BY <1>12 DEF DeviceData, Offer
    <2>2. Inits(toHost)' = Inits(toHost)
      BY <1>0, <2>1, InitsAppend
    <2>3. Pending' = Pending /\ Pending \in Nat
      BY <1>0, <2>1, <2>2 DEF Pending
    <2>4. Done' = Done /\ Done \in Int
      BY <1>00, <2>1, <2>3 DEF Done
    <2>5. ~Reopen
      BY <2>1 DEF Reopen
    <2> QED
      BY <2>4, <2>5
  <1>11. CASE UNCHANGED vars
    BY <1>1, <1>11 DEF vars, devVars, budgets
  <1> QED
    BY <1>2, <1>3, <1>4, <1>5, <1>6, <1>7, <1>8, <1>9, <1>10, <1>11, <1>12 DEF Next, SpiThread, RxThread, Unload, Device

LEMMA NextLoss ==
  ASSUME TypeOK, [Next]_vars
  PROVE  Loss \in Nat /\ Loss' \in Nat /\ Loss <= Loss' /\ prios <= prios'
  <1>1. prios' \in {prios, prios + 1}
    BY DEF Next, Kernel, SpiThread, RxThread, Unload, Device, vars, budgets, Xmit, Check, Pause, Enqueue, Count,
           IfDown, IfUp, WritePrio, TakeSem, Dequeue, Decrement, Resume, Transfer, RxPacket, Close, Reopen, Open,
           ExitClose, ExitPurge, ExitStop, Load, Announce, DeviceData, Offer, SpiFails, ChipSelected, TransferFails,
           ReopenFails, Fault
  <1>2. prios \in Nat
    BY SpiHostAssumption DEF TypeOK
  <1> QED
    BY <1>1, <1>2, SpiHostAssumption, PassedFinite DEF Loss

LEMMA PassedMove ==
  ASSUME TypeOK, NEW d \in NetDev, NEW to, Goto(d, to)
  PROVE  Cardinality(Passed') =
            IF to \in {"enqueue", "count"}
            THEN IF xmit[d] \in {"enqueue", "count"} THEN Cardinality(Passed) ELSE Cardinality(Passed) + 1
            ELSE IF xmit[d] \in {"enqueue", "count"} THEN Cardinality(Passed) - 1 ELSE Cardinality(Passed)
  <1>1. xmit' = [xmit EXCEPT ![d] = to] /\ DOMAIN xmit = NetDev
    BY DEF Goto, TypeOK
  <1>2. Passed' = IF to \in {"enqueue", "count"} THEN Passed \cup {d} ELSE Passed \ {d}
    BY <1>1 DEF Passed
  <1>3. Cardinality(Passed \cup {d}) = IF d \in Passed THEN Cardinality(Passed) ELSE Cardinality(Passed) + 1
    BY PassedFinite, FS_AddElement
  <1>4. Cardinality(Passed \ {d}) = IF d \in Passed THEN Cardinality(Passed) - 1 ELSE Cardinality(Passed)
    BY PassedFinite, FS_RemoveElement
  <1>5. d \in Passed <=> xmit[d] \in {"enqueue", "count"}
    BY DEF Passed
  <1> QED
    BY <1>2, <1>3, <1>4, <1>5

LEMMA NextCount == TypeOK /\ CountInv /\ [Next]_vars => CountInv'
  <1> SUFFICES ASSUME TypeOK, CountInv, [Next]_vars PROVE CountInv'
    OBVIOUS
  <1> DEFINE N == Cardinality(NetDev)
             C == Done * Loss
             W == Writers("count")
             P == Cardinality(Passed)
             D == IF spi.pc = "dec" THEN 1 ELSE 0
  <1>0. /\ txq["net"] \in Nat /\ txq["prio"] \in Nat /\ tx_pending \in Nat /\ prios \in Nat
        /\ W \in Nat /\ W <= N /\ N \in Nat /\ P \in Nat /\ P <= N
        /\ TX_MAX_PENDING_COUNT \in Nat /\ D \in Nat /\ InHand \in Nat /\ InHand <= D
    <2>1. /\ txq["net"] \in Nat /\ txq["prio"] \in Nat /\ tx_pending \in Nat /\ TX_MAX_PENDING_COUNT \in Nat
      BY SpiHostAssumption DEF TypeOK
    <2>2. prios \in Nat
      BY SpiHostAssumption DEF TypeOK
    <2>3. W \in Nat /\ W <= N /\ N \in Nat /\ P \in Nat /\ P <= N
      BY WritersType, PassedFinite
    <2>4. D \in Nat /\ InHand \in Nat /\ InHand <= D
      BY DEF InHand
    <2> QED
      BY <2>1, <2>2, <2>3, <2>4
  <1>1. P' \in Nat /\ P' <= N /\ W' \in Nat /\ W' <= N
    <2>1. P' \in Nat /\ P' <= N
      BY SpiHostAssumption, FS_Subset, FS_CardinalityType DEF Passed
    <2>2. W' \in Nat /\ W' <= N
      BY SpiHostAssumption, FS_Subset, FS_CardinalityType DEF Writers
    <2> QED
      BY <2>1, <2>2
  <1>2. /\ Done' \in Nat /\ C \in Nat /\ C' \in Nat /\ C <= C' /\ (Reopen => C + Loss <= C')
        /\ prios <= prios' /\ prios' \in Nat
    <2>1. /\ Done \in Nat /\ Done' \in Nat /\ Done <= Done' /\ (Reopen => Done + 1 <= Done')
          /\ Loss \in Nat /\ Loss' \in Nat /\ Loss <= Loss' /\ prios <= prios'
      BY NextDone, NextLoss DEF CountInv
    <2>2. prios' \in Nat
      BY NextType DEF TypeOK
    <2> HIDE DEF Done, Loss
    <2> QED
      BY <2>1, <2>2, Products
  <1>3. /\ tx_pending + P <= TX_MAX_PENDING_COUNT + N
        /\ txq["net"] + txq["prio"] + D <= tx_pending + W + prios + C
        /\ mode = "ready" => tx_pending + W <= txq["net"] + N + InHand
    BY DEF CountInv, Limit, Backlog, PendingHasPackets
  <1> HIDE DEF C, W, P, D
  <1>4. ASSUME /\ tx_pending' + P' <= TX_MAX_PENDING_COUNT + N
               /\ txq'["net"] + txq'["prio"] + D' <= tx_pending' + W' + prios' + C'
               /\ mode' = "ready" => tx_pending' + W' <= txq'["net"] + N + InHand'
        PROVE  CountInv'
    BY <1>2, <1>4 DEF CountInv, Limit, Backlog, PendingHasPackets, C, W, P, D
  <1> HIDE DEF N
  <1>5. ASSUME UNCHANGED <<xmit>> PROVE P' = P /\ W' = W
    BY <1>5 DEF P, W, Passed, Writers
  <1>6. ASSUME UNCHANGED <<spi>> PROVE D' = D /\ InHand' = InHand
    BY <1>6 DEF D, InHand
  <1>7. CASE UNCHANGED <<tx_pending, txq, spi>> /\ P' = P /\ W' = W /\ (mode' = "ready" => mode = "ready")
    BY <1>0, <1>2, <1>3, <1>4, <1>6, <1>7
  <1>8. ASSUME NEW d \in NetDev, NEW to, Goto(d, to), xmit[d] # to
        PROVE  /\ W' = IF to = "count" THEN W + 1 ELSE IF xmit[d] = "count" THEN W - 1 ELSE W
               /\ P' = IF to \in {"enqueue", "count"}
                       THEN IF xmit[d] \in {"enqueue", "count"} THEN P ELSE P + 1
                       ELSE IF xmit[d] \in {"enqueue", "count"} THEN P - 1 ELSE P
    BY <1>8, WritersMove, PassedMove DEF W, P
  <1>9. ASSUME NEW d \in NetDev, Xmit(d) \/ Pause(d) PROVE CountInv'
    <2>1. UNCHANGED <<tx_pending, txq, spi, mode>>
      BY <1>9 DEF Xmit, Pause, txVars
    <2>2. PICK to \in {"idle", "check"} : Goto(d, to) /\ xmit[d] \in {"idle", "pause"} /\ to # "pause"
      BY <1>9 DEF Xmit, Pause
    <2>3. CASE xmit[d] = to
      BY <1>5, <1>7, <2>1, <2>2, <2>3 DEF Goto, TypeOK
    <2>4. CASE xmit[d] # to
      BY <1>7, <1>8, <2>1, <2>2, <2>4
    <2> QED
      BY <2>3, <2>4
  <1>10. ASSUME NEW d \in NetDev, Check(d) PROVE CountInv'
    <2>1. UNCHANGED <<tx_pending, txq, spi, mode>> /\ xmit[d] = "check"
      BY <1>10 DEF Check, txVars
    <2>2. CASE tx_pending >= TX_MAX_PENDING_COUNT
      <3>1. Goto(d, "pause")
        BY <1>10, <2>2 DEF Check
      <3>2. P' = P /\ W' = W
        BY <1>8, <2>1, <3>1
      <3> QED
        BY <1>7, <2>1, <3>2
    <2>3. CASE ~(tx_pending >= TX_MAX_PENDING_COUNT)
      <3>1. Goto(d, "enqueue")
        BY <1>10, <2>3 DEF Check
      <3>2. W' = W
        BY <1>8, <2>1, <3>1
      <3>3. tx_pending' + P' <= TX_MAX_PENDING_COUNT + N
        <4>1. tx_pending \in Nat /\ TX_MAX_PENDING_COUNT \in Nat /\ N \in Nat /\ P' \in Nat /\ P' <= N
          BY <1>0, <1>1
        <4>2. tx_pending' = tx_pending
          BY <2>1
        <4>3. PICK q \in Nat : q = P' /\ q <= N
          BY <4>1
        <4>5. tx_pending \in Nat /\ TX_MAX_PENDING_COUNT \in Nat /\ N \in Nat /\ q <= N
          BY <4>1, <4>3
        <4>4. tx_pending + q <= TX_MAX_PENDING_COUNT + N
          BY <2>3, <4>5
        <4> QED
          BY <4>2, <4>3, <4>4
      <3> QED
        BY <1>0, <1>2, <1>3, <1>4, <1>6, <2>1, <3>2, <3>3
    <2> QED
      BY <2>2, <2>3
  <1>11. ASSUME NEW d \in NetDev, Enqueue(d) PROVE CountInv'
    <2>1. /\ UNCHANGED <<tx_pending, spi, mode>> /\ txq'["net"] = txq["net"] + 1 /\ txq'["prio"] = txq["prio"]
      BY <1>11 DEF Enqueue, TypeOK
    <2>2. P' = P /\ W' = W + 1
      BY <1>8, <1>11 DEF Enqueue
    <2> QED
      BY <1>0, <1>2, <1>3, <1>4, <1>6, <2>1, <2>2
  <1>12. ASSUME NEW d \in NetDev, Count(d) PROVE CountInv'
    <2>1. UNCHANGED <<txq, spi, mode>> /\ tx_pending' = tx_pending + 1
      BY <1>12 DEF Count
    <2>2. P' = P - 1 /\ W' = W - 1
      BY <1>8, <1>12 DEF Count
    <2> QED
      BY <1>0, <1>2, <1>3, <1>4, <1>6, <2>1, <2>2
  <1>13. CASE WritePrio
    <2>1. /\ UNCHANGED <<tx_pending, spi, mode, xmit>> /\ prios' = prios + 1
          /\ txq'["net"] = txq["net"] /\ txq'["prio"] = txq["prio"] + 1
      BY <1>13 DEF WritePrio, TypeOK
    <2> QED
      BY <1>0, <1>2, <1>3, <1>4, <1>5, <1>6, <2>1
  <1>14. ASSUME NEW d \in NetDev, IfDown(d) \/ IfUp(d) PROVE CountInv'
    BY <1>5, <1>7, <1>14 DEF IfDown, IfUp
  <1>15. CASE TakeSem
    <2>1. UNCHANGED <<tx_pending, txq, mode, xmit>> /\ spi.pc # "dec" /\ spi'.pc # "dec"
      BY <1>15 DEF TakeSem, SpiIdle, txVars
    <2>2. D = 0 /\ D' = 0 /\ InHand = 0 /\ InHand' = 0
      BY <2>1 DEF D, InHand
    <2> QED
      BY <1>0, <1>2, <1>3, <1>4, <1>5, <2>1, <2>2
  <1>26. CASE SpiFails
    <2>1. UNCHANGED <<tx_pending, txq, mode, xmit>> /\ spi.pc # "dec" /\ spi'.pc # "dec"
      BY <1>26 DEF SpiFails, ChipSelected, TransferFails, SpiIdle, txVars
    <2>2. D = 0 /\ D' = 0 /\ InHand = 0 /\ InHand' = 0
      BY <2>1 DEF D, InHand
    <2> QED
      BY <1>0, <1>2, <1>3, <1>4, <1>5, <2>1, <2>2
  <1>16. CASE Dequeue
    <2>1. UNCHANGED <<tx_pending, mode, xmit>> /\ spi.pc = "dequeue" /\ D = 0 /\ InHand = 0
      BY <1>16 DEF Dequeue, D, InHand
    <2>2. CASE txq' = txq /\ spi'.pc # "dec"
      <3>1. D' = 0 /\ InHand' = 0
        BY <2>2 DEF D, InHand
      <3> QED
        BY <1>0, <1>2, <1>3, <1>4, <1>5, <2>1, <2>2, <3>1
    <2>3. CASE /\ txq'["net"] = txq["net"] - 1 /\ txq'["prio"] = txq["prio"]
               /\ spi'.pc = "dec" /\ spi'.got = "net"
      <3>1. D' = 1 /\ InHand' = 1
        BY <2>3 DEF D, InHand
      <3> QED
        BY <1>0, <1>2, <1>3, <1>4, <1>5, <2>1, <2>3, <3>1
    <2>4. CASE /\ txq'["net"] = txq["net"] /\ txq'["prio"] = txq["prio"] - 1
               /\ spi'.pc = "dec" /\ spi'.got = "prio"
      <3>1. D' = 1 /\ InHand' = 0
        BY <2>4 DEF D, InHand
      <3> QED
        BY <1>0, <1>2, <1>3, <1>4, <1>5, <2>1, <2>4, <3>1
    <2> QED
      BY <1>16, <2>2, <2>3, <2>4 DEF Dequeue, NextClass, SpiIdle, TypeOK
  <1>17. CASE Decrement
    <2>1. /\ UNCHANGED <<txq, mode, xmit>> /\ spi.pc = "dec" /\ spi'.pc = "resume"
          /\ tx_pending' = IF tx_pending > 0 THEN tx_pending - 1 ELSE 0
      BY <1>17 DEF Decrement, TypeOK
    <2>2. D = 1 /\ D' = 0 /\ InHand' = 0
      BY <2>1 DEF D, InHand
    <2> QED
      BY <1>0, <1>2, <1>3, <1>4, <1>5, <2>1, <2>2
  <1>18. CASE Resume \/ Transfer
    <2>1. UNCHANGED <<tx_pending, txq, mode, xmit>> /\ spi.pc # "dec" /\ spi'.pc # "dec"
      BY <1>18 DEF Resume, Transfer, SpiIdle, txVars, TypeOK
    <2>2. D = 0 /\ D' = 0 /\ InHand = 0 /\ InHand' = 0
      BY <2>1 DEF D, InHand
    <2> QED
      BY <1>0, <1>2, <1>3, <1>4, <1>5, <2>1, <2>2
  <1>19. CASE RxPacket \/ Close \/ Open
    BY <1>5, <1>7, <1>19 DEF RxPacket, Close, Open, txVars
  <1>20. CASE Reopen
    <2>1. UNCHANGED <<txq, spi, mode, xmit>> /\ tx_pending' = 0 /\ spi.pc # "dec" /\ \A d \in NetDev : xmit[d] = "idle"
      BY <1>20 DEF Reopen, Slept
    <2>2. P = 0 /\ W = 0 /\ D = 0
      <3>1. Passed = {} /\ {d \in NetDev : xmit[d] = "count"} = {}
        BY <2>1 DEF Passed
      <3> QED
        BY <2>1, <3>1, FS_EmptySet DEF P, W, D, Writers
    <2>3. C + TX_MAX_PENDING_COUNT + N + prios <= C'
      BY <1>0, <1>2, <1>20 DEF Loss, N
    <2> QED
      BY <1>0, <1>2, <1>3, <1>4, <1>5, <1>6, <2>1, <2>2, <2>3
  <1>21. CASE ExitClose \/ ReopenFails
    BY <1>5, <1>7, <1>21 DEF ExitClose, ReopenFails, txVars
  <1>22. CASE ExitPurge
    <2>1. /\ UNCHANGED <<tx_pending, spi, xmit>> /\ mode' # "ready" /\ spi.pc # "dec"
          /\ txq'["net"] = 0 /\ txq'["prio"] = 0
      BY <1>22 DEF ExitPurge, Slept
    <2>2. D = 0
      BY <2>1 DEF D
    <2>3. D' = 0
      BY <1>6, <2>1, <2>2
    <2>4. txq'["net"] + txq'["prio"] + D' <= tx_pending + W + prios' + C'
      <3>1. PICK c \in Nat, r \in Nat : c = C' /\ r = prios'
        BY <1>2
      <3>2. 0 <= tx_pending + W + r + c
        BY <1>0
      <3> QED
        BY <2>1, <2>3, <3>1, <3>2
    <2> QED
      BY <1>3, <1>4, <1>5, <2>1, <2>4
  <1>23. CASE ExitStop
    <2>1. UNCHANGED <<tx_pending, txq, xmit>> /\ mode' # "ready" /\ spi.pc # "dec" /\ spi'.pc # "dec"
      BY <1>23 DEF ExitStop, SpiIdle
    <2>2. D = 0 /\ D' = 0
      BY <2>1 DEF D
    <2> QED
      BY <1>0, <1>2, <1>3, <1>4, <1>5, <2>1, <2>2
  <1>24. CASE Device
    BY <1>5, <1>7, <1>24 DEF Device, Load, Announce, DeviceData, Offer, txVars
  <1>25. CASE UNCHANGED vars
    BY <1>5, <1>7, <1>25 DEF vars, txVars
  <1> QED
    BY <1>9, <1>10, <1>11, <1>12, <1>13, <1>14, <1>15, <1>16, <1>17, <1>18, <1>19, <1>20, <1>21, <1>22, <1>23, <1>24,
       <1>25, <1>26 DEF Next, Kernel, SpiThread, RxThread, Unload

\* tx_pending, by which the driver stops and wakes its devices, stays within
\* reach of the queue whatever writers, SPI thread, other packets and changes of
\* the clock do in between: ahead of it by a packet per device at most, behind it
\* by the serial and HCI packets and what a change of the clock forgets.
THEOREM CountStaysClose == Spec => []CountFollowsQueue
  <1>1. Init => CountInv
    <2> SUFFICES ASSUME Init PROVE CountInv
      OBVIOUS
    <2>1. Pending = 0
      BY InitsEmpty DEF Init, Pending
    <2>2. /\ tx_pending = 0 /\ clocks = 0 /\ prios = 0 /\ txq["net"] = 0 /\ txq["prio"] = 0 /\ spi.pc = "idle"
          /\ \A d \in NetDev : xmit[d] = "idle"
      BY DEF Init, SpiIdle
    <2>3. Passed = {} /\ {d \in NetDev : xmit[d] = "count"} = {}
      BY <2>2 DEF Passed
    <2>4. Cardinality(Passed) = 0 /\ Writers("count") = 0
      BY <2>3, FS_EmptySet DEF Writers
    <2>5. Done = 0
      BY <2>1, <2>2 DEF Done
    <2>6. Cardinality(NetDev) \in Nat /\ TX_MAX_PENDING_COUNT \in Nat /\ Loss \in Nat
      BY <2>2, PassedFinite, SpiHostAssumption DEF Loss
    <2>7. Done * Loss = 0
      BY <2>5, <2>6
    <2> QED
      BY <2>2, <2>4, <2>5, <2>6, <2>7 DEF CountInv, Limit, Backlog, PendingHasPackets, InHand
  <1>2. TypeOK /\ CountInv /\ [Next]_vars => CountInv'
    BY NextCount
  <1>3. TypeOK /\ CountInv => CountFollowsQueue
    <2> SUFFICES ASSUME TypeOK, CountInv PROVE CountFollowsQueue
      OBVIOUS
    <2>1. /\ Done \in Nat /\ Loss \in Nat /\ clocks \in Nat /\ Done <= clocks
          /\ txq["net"] \in Nat /\ txq["prio"] \in Nat /\ tx_pending \in Nat /\ prios \in Nat
      <3>1. /\ clocks \in Nat /\ txq["net"] \in Nat /\ txq["prio"] \in Nat /\ tx_pending \in Nat /\ prios \in Nat
        BY SpiHostAssumption DEF TypeOK
      <3>2. Pending \in Nat
        <4>1. Inits(toHost) \in Nat /\ Inits(rxq) \in Nat
          BY EventsFinite DEF TypeOK, Place
        <4> QED
          BY <4>1 DEF Pending
      <3>3. Loss \in Nat
        BY <3>1, PassedFinite, SpiHostAssumption DEF Loss
      <3> QED
        BY <3>1, <3>2, <3>3 DEF CountInv, Done
    <2>2. Writers("count") \in Nat
      BY WritersType
    <2>3. Done * Loss <= clocks * Loss /\ Done * Loss \in Nat /\ clocks * Loss \in Nat
      BY <2>1, Products
    <2>4. txq["net"] <= tx_pending + Writers("count") + prios + clocks * Loss
      <3> DEFINE a == Done * Loss
                 b == clocks * Loss
      <3>1. a <= b /\ a \in Nat /\ b \in Nat
        BY <2>3
      <3>2. txq["net"] + txq["prio"] + (IF spi.pc = "dec" THEN 1 ELSE 0) <= tx_pending + Writers("count") + prios + a
        BY DEF CountInv, Backlog
      <3> HIDE DEF a, b
      <3>3. txq["net"] <= tx_pending + Writers("count") + prios + b
        BY <2>1, <2>2, <3>1, <3>2
      <3> QED
        BY <3>3 DEF b
    <2> QED
      BY <2>4 DEF CountFollowsQueue, CountCoversQueue, CountInv, Loss
  <1> QED
    BY <1>1, <1>2, <1>3, TypeCorrect, PTL DEF Spec
=============================================================================
