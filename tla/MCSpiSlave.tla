----------------------------- MODULE MCSpiSlave -----------------------------
(***************************************************************************)
(* SpiSlave for TLC.                                                       *)
(***************************************************************************)
EXTENDS SpiSlave

MCBt       == {PRIO_Q_BT}
MCOthers   == {PRIO_Q_OTHERS}
MCNetAndBt == {PRIO_Q_BT, PRIO_Q_OTHERS}

\* The most buffers the driver can hold at once: two full send queues and
\* three full receive queues, one more with the writer and the reader each,
\* and four with the chain.
MCEnough(tx, rx) == 2 * tx + 3 * rx + 6
MCHeapOne == MCEnough(1, 1)

\* Too few even with one queue of either direction in use, so that assert() fails.
MCHeapShort == 6

(***************************************************************************)
(* Some of the behaviours of Spec, to reach the pool's limit with the      *)
(* queue sizes of a real build: recv_task is held up in one packet (up to  *)
(* VHCI_MAX_TIMEOUT_MS in process_hci_rx_pkt of slave_bt.c) and either     *)
(* side sends Bluetooth packets until their queue is full, then network    *)
(* ones.                                                                   *)
(***************************************************************************)
BluetoothFirst(queue, size) ==
    IF Len(queue[PRIO_Q_BT]) < size THEN PRIO_Q_BT ELSE PRIO_Q_OTHERS

StalledReader ==
    Init /\ [][ /\ Next
                /\ UNCHANGED readerVars
                /\ wpc = "idle" /\ wpc' = "push" =>
                       wbuf'.class = BluetoothFirst(spi_tx_queue, SPI_TX_QUEUE_SIZE)
                /\ bus # "active" /\ bus' = "active" =>
                       mosi'.class = BluetoothFirst(spi_rx_queue, SPI_RX_QUEUE_SIZE) ]_vars
=============================================================================
