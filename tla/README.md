# Verification of ESP-IoT-Bridge

TLA+ specifications, TLC configurations and TLAPS proofs for the concurrent core
of [esp-iot-bridge](../src/README.md): firmware for Espressif chips that joins
network interfaces (station, softAP, Ethernet, SPI, SDIO, USB, modem), and the
Linux driver of the host that hangs on its SPI or SDIO port.

Eight modules model parts of the program, two more say what a part promises, and
each has a module for TLC. Line numbers below refer to `src/components/iot_bridge/`
unless a path says otherwise; `PROJECT.json` "map" ties every definition to its
lines, "hazards" lists what is hard to test in this code and which property is
about it.

## 1. The system

| component | state | operations | hard because | correct when | module |
|---|---|---|---|---|---|
| **network adapter** `drivers/src/network_adapter.c`, `host_rcv_pkt` of `slave_bt.c` | three priority queues, a "meta" queue of tokens, `datapath`, `if_handle`, `init_done` | `pkt_netif2driver`, `esp_bridge_network_card_reset`, `host_rcv_pkt`, `send_task`, `recv_task`, `event_handler`, `network_adapter_driver_init` | many producers, two queue operations per packet without a lock, an interrupt that opens and closes the path at any time, blocking sends | tokens and packets agree; per class an ordered channel that starts after the startup event; nobody waits for ever; a card reset ends with the link up | `NetworkAdapter` implements `HostChannel` |
| **SPI slave driver** `drivers/src/spi_slave_api.c`, **buffer pool** `drivers/src/mempool*.c` | tx/rx queues of three priorities each with a counting semaphore, a pool of buffers, one queued transaction, the data-ready and handshake lines | `esp_spi_write`, `esp_spi_read`, `queue_next_transaction`, `spi_transaction_post_process_task`, the callbacks | four processes and three interrupts, a chain in which every transaction queues the next, two GPIO lines as the only signal to the host | the chain never breaks, buffers are conserved, order is kept, handshake means a transaction is loaded, data-ready covers what waits | `SpiSlave` |
| **Linux host, SPI** `esp_spi.c` and `main.c` of `examples/spi_and_sdio_host` | the packet queues and `tx_pending`, one semaphore for all work, the data path | transmission, two interrupts, the SPI thread, the receive thread, reinitialisation, unloading | the count and the queue are changed one after the other; pause against resume; edges lost while interrupts are off | the count follows the queue, no work is forgotten, stopped devices are woken | `SpiHost` |
| **SDIO link** `drivers/src/sdio_slave_api.c`; `esp_sdio.c`, `esp_sdio_api.c` of the host | the slave's receive buffers, two hardware counters (12 and 20 bits), the host's copies of them, one interrupt bit | `sdio_write`, `sdio_read`, `event_cb`; probe, removal, interrupt handler, `tx_process`, `read_packet` | counters shared over a bus that may fail; a card removed and probed while the slave goes on; status read and cleared in two transfers | both sides agree on buffers and bytes, no announcement is lost, packets are dropped only for want of a buffer | `SdioLink` |
| **serial device of the host** `esp_serial.c`, `esp_rb.c`, `main.c` | a ring buffer with a semaphore and a wait queue | receive, read (blocking or not), reinitialisation | two pieces at a wrap-around; a ring that fills in the middle of a packet; freed and made anew under a reader | a queue of bytes; nobody waits for ever | `SerialRing` implements `ByteQueue` |
| **LAN/WAN netifs** `src/bridge_common.c`, parts of `bridge_wifi.c`, `bridge_eth.c`, `bridge_spi.c` | the list of netifs, each one's address and `conflict_check`, the segment prefix, three NVS entries | create, `request_ip`, `set_ip_info`, `set_net_segment_ip_prefix`, `conflict_update`, `set_conflict_check` | choose-then-set, several netmasks, resets between NVS writes | LAN segments are distinct, inside the prefix, and in no WAN network | `BridgeNetif` |
| **Ethernet glue** `src/esp_eth_netif_glue_wrap.c`, `bridge_eth.c` | link state, WAN and LAN netif of one port, the PHY | creation, ETH and IP event handlers, frames in, PHY reset | both netifs see one link; got-IP and client-assigned race; a reset brings the events that caused it | the netifs' roles follow the cable, and settle | `EthGlue` |
| **setting the station up** `web_server.c`, `wifi_prov_mgr.c`, `src/bridge_wifi.c`, `examples/wifi_router` | `s_sta_got_ip_flag`, connection info, event group, two timers behind one handle, a scan list; `wifi_prov_status` and one timer; two firmware slots | forms, timer callbacks, scan filter, provisioning events, update, restart | four tasks and the Wi-Fi driver on one state; a timer deleted through a handle that has moved on; events of the old access point | each attempt has its timer, "OK" is fresh, provisioning is torn down once, the running image stays whole | `WifiSetup` |
| HCI `drivers/src/slave_bt.c` | `vhci_send_sem` | `host_rcv_pkt`, `process_hci_rx_pkt` | a time-out inside `recv_task` | | producer in `NetworkAdapter`, delay in `SpiSlave` |
| modem, USB, lwIP hook, patches, other examples | | | | | not modelled, section 7 |

**Interaction.** lwIP calls `pkt_netif2driver` (through `spi_io_transmit` or its
SDIO twin) in its own task; a DHCP change of a LAN netif, among them the
re-allocations of `bridge_common.c`, calls `esp_bridge_network_card_reset`; the
Bluetooth controller calls `host_rcv_pkt`. All end in `send_to_host_queue`.
`send_task` hands packets to `if_ops->write`: `esp_spi_write` puts them into a
second set of queues, from which the chain of SPI transactions takes them;
`sdio_write` transmits at once. In the other direction the post-process task
queues what the host sent and `recv_task` reads it. On the host, a thread per bus
moves packets between the bus and the network, serial and HCI devices. The default
event loop's task runs the GOT_IP handlers, which look for conflicts between WAN and
LAN networks and reset an Ethernet PHY; the application's task creates the netifs and
calls the API of `esp_bridge.h`. The web server and the provisioning manager give the
station its access point.

## 2. Modules

| module | what it is |
|---|---|
| `HostChannel` | abstract: one FIFO per class merged on a wire that starts with the startup event; `lossy` allows the head of a FIFO to be discarded |
| `NetworkAdapter`, `MCNetworkAdapter`, `NetworkAdapterProofs` | the send side of the adapter |
| `SpiSlave`, `MCSpiSlave`, `SpiSlaveProofs` | the SPI driver with a host that follows its lines |
| `SpiHost`, `MCSpiHost`, `SpiHostProofs` | the Linux driver over SPI, with an ESP32 seen from its lines |
| `SdioLink`, `MCSdioLink`, `SdioLinkProofs` | both ends of the SDIO link, composed |
| `ByteQueue` | abstract: a bounded queue of bytes |
| `SerialRing`, `MCSerialRing`, `SerialRingProofs` | the serial device's ring buffer and its two users |
| `BridgeNetif`, `MCBridgeNetif`, `BridgeNetifProofs` | network segments |
| `EthGlue`, `MCEthGlue`, `EthGlueProofs` | one Ethernet port with two netifs |
| `WifiSetup`, `MCWifiSetup`, `WifiSetupProofs` | forms, provisioning and updates |

Operators called `Bug_...` stand beside the definition they spoil; no action uses
them. Each is a plausible mistake in that operation which breaks a property; they
show that the property depends on the code.

### NetworkAdapter

One action per FreeRTOS queue operation, or for the code between two of them,
because a task may be preempted there. A producer goes
`Call -> Compose -> PushData -> PushMeta`, `send_task` goes
`SendCheck -> ReceiveMeta -> ReceiveBuf -> ProcessTx -> Write`. `xQueueSend` with
`portMAX_DELAY` is an action that is disabled while the queue is full.
`event_handler` is two actions (`OpenDataPath`/`CloseDataPath`, `EndOfInterrupt`)
because it makes two assignments while tasks run on the other core; an interrupt
that finds `if_handle` unset does nothing, as in the code. A card reset is a call
with a script of two packets, each of which may be skipped (path closed, malloc
failed) independently. The bus is abstract: SPI's write takes every packet
(`SpiSlave` shows what happens next), SDIO's refuses it unless the interface is
active and a buffer is available. Packets are records (kind, task, call).

The Bluetooth controller's task calls only after the startup event: the host
sends no HCI command before it and the controller only answers. The model leaves
`wire` unbounded in principle; runs bound it by `MaxCalls` calls per task and
`MaxProbes` (un)loads of the host's driver.

### SpiSlave

Four processes: the writer (the initialisation, then `send_task` in
`esp_spi_write`), the chain (`queue_next_transaction`, called by the
initialisation once and then by the post-process task for each result), the reader
(`recv_task`) and the host; three interrupts. A queue or semaphore operation, an
allocation and a write to a GPIO is an action each. `get_next_tx_buffer` looks at
three queues one after the other (`PopTx` at `cprio`); the take that fails and
`reset_dataready_gpio` are two actions. The spi_slave driver and the host are
modelled from how this repository uses them: a queued transaction is loaded when
none is, the host starts a transfer when it sees the handshake line high and has
data or sees data-ready (`esp_spi_transaction` of the host driver), the interrupt on
the falling CS runs before the 1600 bytes have been clocked.

Packets of a class carry numbers 1..`MaxId` in a cycle. With `MaxId` above what the
driver holds of a class between two ends, a loss, a repetition or an overtaking
changes the number that arrives, so order is checked without bounding the run.
`blocks` counts buffers in use. With `CONFIG_ESP_CACHE_MALLOC` there are
`SPI_MEMPOOL_NUM_BLOCKS`, else as many as the heap has (`HeapBlocks`).

### SpiHost

A writer in the kernel goes `Xmit -> Check -> (Pause | Enqueue -> Count)`: the packet
is in the queue before `tx_pending` counts it. The SPI thread takes the semaphore,
dequeues, decrements whatever it dequeued, resumes both devices below the threshold,
and transfers. Serial and HCI packets ("prio") are neither counted nor refused. The
receive thread closes the data path after an INIT event, sleeps, and opens it again
with `tx_pending` zero; `Slept` states what the 200 ms are for: transactions and
writers in progress have come to an end. Three steps fail: a transaction is not made
because CS is asserted (`ChipSelected`), `spi_sync_transfer()` returns an error
(`TransferFails`, the packet taken is lost, the ESP32's stays), and the SPI device cannot
be made anew (`ReopenFails`, which leads to `spi_exit()`). `deaf` is history: no semaphore
was given since the data path was opened, or since one of the first two failures used up
the last one. Edges that came while the interrupts were off are lost, and what a failure
left waits for the next edge or packet, as in the code; the properties say so with `deaf`.

### SdioLink

The slave's two counters only grow, modulo `ESP_TX_BUFFER_MAX` (receive buffers
loaded, the token) and `ESP_RX_BYTE_MAX` (bytes offered); the host keeps copies of
what it has used. A block written takes a loaded buffer, `recv_task` reads it and
loads it again. `IsrRead` and `IsrClear` are the two transfers of the interrupt
handler, between which the bus is claimed. A write goes through `Dequeue`,
`Decrement`, `Available` (which asks the slave only when the host's own count is
used up, twice, then drops), `WriteBlock` or `WriteFails`, `CountBuffer`. Probe and
removal are sequences of their own; the slave may be restarted. Every transfer may fail,
and so may the allocations in front of them: a block that may have arrived all the same
(`WriteFails`), a question for buffers, which counts as one of the two
(`AvailableFails`), the interrupt's two transfers, the length or the memory for a packet
(`ReadNothing`, after which nothing reads again), the packet (`ReadFails`) and the
interrupts to the slave, whose failure nobody looks at (`InterruptFails`). `skew` is
history: by how much the host's count of free buffers is off since the probe, from a
token that had wrapped around or a block written and not counted; `sound` says it was
never off. `missed`, also history: a read or an interrupt's transfer has failed.

### SerialRing

Bytes are numbers in the order sent. Writes and reads of the ring keep the code's two
pieces and its pointers. What runs under the ring's semaphore is one action, except a
read, which may sleep in `copy_to_user()` (`StartCopy`, `EndCopy`), and may fail there
(`CopyFails`): in the first piece nothing is taken, in the second the first has gone
although the user gets -EFAULT. `Reinit` frees the
ring and initialises its semaphore and wait queue whoever uses them: a reader that
waits is never woken (`lost`), one that copies uses freed memory (`undefined`, after
which nothing more is said of either thread).

### BridgeNetif

Addresses are reduced to their segment (the address under the prefix's mask) and
masks to the number of segments they span; `LowBit` is the `__builtin_ctz` that
gives a prefix its size. Code between two calls that may block (flash, the TCP/IP
task) is one action, so `request_ip` and the setting of what it returned are two,
and the two NVS keys of an address are two. A `task` record per task is its stack
frame; `set_ip_info` is a procedure that returns to its caller. `Reboot` may happen
between any two actions and keeps only NVS. `ListAdd` chooses `conflict_check`
freely: the code never initialises it.

Two departures keep the state space small: a GOT_IP event that is posted again
before the first is handled counts once (`pending` is a set; the handler reads the
current address anyway), and a caller of `set_ip_info` passes a segment no other
netif has (the function does not check that, nor does its documentation promise it).

### EthGlue

The main task creates ETH_LAN, then ETH_WAN, step by step (`New`, `Install`,
`Attach`, `Start`, `Up`); an installation may fail, which nobody looks at, and a glue
that cannot be made restarts the chip. The event task takes one event at a time from a
bounded queue. The driver polls the link and posts changes; frames reach each netif
that is up, and lead to a lease of the bridge's DHCP server or an address for its
client. A change of the LAN's DNS server or segment resets the PHY
(`UpdateLan`), so the link flaps and everything starts afresh; so may the station's GOT_IP,
whose network may be the LAN's. `met` is history: what
the cable has led to since the driver last reported the link up.

### WifiSetup

Five tasks: the HTTP server (`httpd`, one form or update at a time), the timer task
with its command queue (`cmds`) and the callback it is in (`cb`), the event loop,
`app_main()` and esp_timer's. A timer is an entry of `timers`, which the shared handle
`handle` names or no longer names. The scan filter's variables are the record `sf`;
scan results are any list of access points. The Wi-Fi driver, the phone and the
provisioning manager may do what they like, except answer for an attempt that was not
made. `Candidates` are positions in the scan list, of which `Pick` takes the first, as
the loops of the three phases do. An attempt whose configuration the driver refuses
(`"refused"`) waits like the others and fails whatever the event bit says. `Restart` keeps
NVS's access point and the two slots. `Panic` is an assertion of FreeRTOS:
`xEventGroupSetBits()` on the event group that the other task has deleted, or `xTimerStart()`
on a timer there was no memory for. Time is
not modelled, except in the filter, whose remaining seconds are numbers; the 300 ms
that a form sleeps are the assumption `Slept`, that the timer task has come to rest.

## 3. Runs

| run | instance | states | shows |
|---|---|---|---|
| `NetworkAdapter` | {2 netif tasks, a card reset} or {a netif task, 2 card resets} or with Bluetooth; queues of 1; malloc may fail; SPI and SDIO; 3 (un)loads | 1.4e5 | types, `QueuesInStep`, implements `HostChannel`; `SendersReturn`, `LinkComesBack` |
| `SpiSlaveSafety` | queues of 1; two classes out, one in; 11 buffers (`2 TX + 3 RX + 6`); numbers 1..3 | 3.3e6 | semaphores match queues, buffers are conserved, `ChainSound`, order both ways |
| `SpiSlaveLiveness` | queues of 1, HCI out, network in, a heap of 6 buffers: too few, so asserts do fail | 7.6e4 | `ChainReturns`, `HciLeaves` |
| `SpiHost` | 2 devices, 4 packets, limit and threshold 3, 2 other events or failures | 9.9e5 | `CountFollowsQueue`, `WorkNoticed`, `StoppedResumes` |
| `SdioLink` | 2 writers, 2 buffers, counters modulo 3 and 3, 3 packets, 1 fault, 1 removal | 7.5e5 | `CountersAgree`, `PendingExact`, `DropMeansFull`, `OfferIsRead`, `StoppedResumes` |
| `SerialRing` | ring of 5, packets of 1, 3, 4, reads of 2, 5; 10 bytes; 1 reinitialisation, 1 failing copy | 4.3e5 | implements `ByteQueue`, `StreamIntact`, `BothProceed` |
| `BridgeNetif` | 2 LAN, 2 WAN; prefixes of 8 and 4 segments; 2 custom checks, 1 special segment; resets anywhere | 1.9e6 | `SegmentsUnique`, `UpdateResolves`, `AddressesInPrefix` when one task makes all calls |
| `EthGlue` | cables to a router, a PC, both; queue of 3; 3 segments; 1 unplugging, 1 address of the station, 1 failure | 1.2e5 | `RolesConsistent`, `RoleSettles` |
| `WifiSetup` | 2 access points; 2 forms, or 2 updates and a restart, or provisioning beside a form | 4.1e5 | `AttemptsTimed`, `HeadExists`, `OkNeedsGotIp`, `RestartBoots`, `OneDelete`, `SetupEnds` |
| `SpiSlavePoolSize` | the real sizes, 10 and 10, 40 blocks | - | **violated**: an assert fails |
| `SerialRingTwice` | as `SerialRing` | - | **violated**: bytes are read twice |
| `WifiSetupAppointed` | as `WifiSetup` | - | **violated**: "OK" for an access point never reached |

**Bounds.** Length 1 makes each queue full and empty in every short run, and the
three priority queues share one meta queue of length 3, the ratio of the code;
nothing in the adapter depends on the length beyond "full" and "empty", and the
theorems below are for every length. Two producers of one queue, a producer of
another and a call of two packets are what the two sets of callers contain; three
host events give open, close and open again. In `SpiSlave` two outgoing classes make
the order of the receives matter, `MaxId` = 3 exceeds the two packets of a class that
can be under way. In `SpiHost` four packets reach the limit of three and are refused,
two other events give a serial packet and a reopening, a failed transaction and
either, or two failures. In `SdioLink` counters modulo 3 wrap around within three packets. In `SerialRing` ten bytes are two turns of the
ring. In `BridgeNetif` the smaller prefix has four segments and the larger five that are
neither special nor rejected, for four netifs, so `request_ip` never fails for want of a
segment: `AddressesInPrefix` would not hold otherwise, and the code has no answer to
it. In `WifiSetup` two forms are an attempt and the one it may disturb, two updates a
failed one and the next; the timeouts keep the ratios of the code's, in which the
filter has two attempts before its last scan.

**Deadlock** is checked in `SpiSlaveSafety` and `BridgeNetif`, where the system never
stops. It is off where it does: the tasks have made their last call
(`NetworkAdapter`, `SpiHost`, `SdioLink`, `SerialRing`, `EthGlue`, `WifiSetup`, which
bound what users and networks do), or the firmware has stopped in an assert
(`SpiSlaveLiveness`, `SpiSlavePoolSize`).

**Fairness.** Weak fairness of every task's next step, of each interrupt and of the
two phases of a transfer on the bus: FreeRTOS and Linux run each ready task, an
interrupt is served, and the host's thread answers its two lines. Strong fairness only
where somebody repeats a request until it is answered: DHCP clients and the driver's poll
against a full event queue (`EthGlue`), and a process that reads as much as the ring
holds now and then (`SerialRing`). There is none on `Call`, `Xmit`, `Write`, `Post` or
`Credentials`, on unplugging, signals, restarts, or the (un)loading of a driver: nobody must
produce anything. `SendersReturn` assumes the host ends by leaving the data path
open, because the code does block producers while it is closed.

### What the violations say

1. `SpiSlavePoolSize`. `(TX+RX)*2` blocks (spi_slave_api.c:112) are fewer than the
   `2 TX + 3 RX + 6` the queues and the processes can hold, a number that suffices for
   every size (`LargePoolNeverCrashes`). `StalledReader` selects behaviours of `Spec` in
   which `recv_task` is busy with one packet while both sides keep sending.
2. `SerialRingTwice`. A ring that fills in the middle of a packet makes
   `esp_serial_data_received()` return 0 although a part is in the ring; the caller
   offers the packet again from the same byte. The log message says it is dropped.
3. `WifiSetupAppointed`. The flag is cleared before the station is disconnected and
   set by any GOT_IP; one of the old access point in between is taken for success.

## 4. Theorems

All are for every value of the constants that the module's assumption allows; TLC
evaluates the assumptions in the runs.

`NetworkAdapterProofs`, for every finite set of tasks, every queue length, and any number of
calls and host events (`NetworkAdapterAssumption`: the length is positive, the set
of tasks finite and its three kinds disjoint):

| theorem | statement |
|---|---|
| `TypeCorrect` | `Spec => []TypeOK` |
| `TokensMatchPackets` | `Spec => []TokenInv` |
| `TokensFindPackets` | `Spec => []TokenFindsPacket` |
| `NoWaitForMeta` | `Spec => []MetaNeverFull` |
| `QueuesStayInStep` | `Spec => []QueuesInStep`, the three above |
| `Refinement` | `Spec => ImplementsHostChannel` |
| `NobodyWaitsOnAll` | `Spec => []NoCircularWait` |

The inductive invariant is `IInv == TypeOK /\ TokenInv`. `TokenInv` is needed
because neither of the two corollaries is inductive by itself: that a token finds a
packet depends on how many tokens there are, and that the meta queue has room on
how many packets. `TokenInv` counts, per queue: packets = tokens in the meta queue
+ producers between their two sends + the token `send_task` holds. Each action
changes the two sides by the same amount; the `Tok...` lemmas say what appending to
and removing from the meta queue does to the count, the rest is
`FiniteSetTheorems`. `TokenFindsPacket` follows with the held token, and
`MetaNeverFull` by summing over the three queues.

For `Refinement` the channel of a class is its priority queue preceded by the
packet `send_task` holds of it. Its initial states map to `HostChannel`'s;
`PushData` maps to `Accept`, `StartupEvent` to `Announce`, an accepted `Write` to
`Deliver`, a drop in `ProcessTx` or a refused `Write` to `Discard`; all
other steps stutter. The extra invariant `StartInv` says that over SPI the path never
closes and that before the startup event nothing is queued or under way (`Quiet`).

`NoCircularWait`, which no run checks by itself, is the safety half of `SendersReturn`: while a
producer waits for room, a producer between its two sends has room for its token, or
`send_task` has what its next step waits for; the one exception is a closed data path
(SDIO). It follows from `TokenInv`: a full queue whose tokens are neither in the meta
queue nor in hand has its producers in between.

`SpiSlaveProofs`, for all queue sizes, numbers of buffers, classes and numberings
(`SpiSlaveAssumption`: sizes are positive, the firmware sends network and HCI packets
only):

| theorem | statement |
|---|---|
| `TypeCorrect` | `Spec => []TypeOK` |
| `PermitsCorrect` | `Spec => []PermitsMatchPackets` |
| `PermitsFindPackets` | `Spec => []PopFindsPacket` |
| `NoLeak` | `Spec => []BlocksConserved` |
| `HandshakeCorrect` | `Spec => []HandshakeMeansLoaded` |
| `PacketsInOrder` | `Spec => []InOrder` |
| `LargePoolNeverCrashes` | `Spec => []NeverCrashes`, if `PoolLargeEnough` |
| `LargePoolChainAlive` | `Spec => []ChainAlive`, if `PoolLargeEnough` |
| `LargePoolChainSound` | `Spec => []ChainSound`, if `PoolLargeEnough` |

The inductive invariant `Inv` adds three parts to the first four properties.
`Held`: a process that is about to send or free a buffer holds one (the two frees
are where `blocks` could fall below zero), and nothing is ever in the serial send
queue. `AtMostOne`: the driver has no transaction until the chain has submitted
the next one. `Lines`: the handshake is low while a transfer is past its first
edge and until the next transaction is loaded, which is what the interrupt on the
falling edge of CS is for. The parts need each other: a semaphore never
saturates (`GiveNeverSaturates`) because it counts packets in bounded queues; a
pop that finds no packet would lose a permit, so the account of permits needs
`PopFindsPacket`, which needs the account at `TakeTx`; types need `Held`.

`PacketsInOrder` needs more than `InOrder`, which says only that no packet has yet arrived out
of turn. `TxInOrder` and `RxInOrder` follow a class through the places it passes, from the
one nearest to the receiver back to the sender: the packet on its way to the host
(`Leaving`), the send queue, the one the writer is about to push; and the one
`recv_task` has, the receive queue, what the chain has taken from a finished
transaction (`Arriving`), the result on the bus. Read in that order the numbers run without
a gap from the one the receiver expects to the next the sender will use. `Inv`
supplies that a class is in at most one hand per place. A step either leaves a direction
alone or moves a packet from one place into the next (`TxStays`, `TxEnters`,
`TxPushed`, `TxPopped`, `TxArrives` and their twins), so that every action
is shown to be of one such kind, and the order is argued once per kind.

`PoolLargeEnough` says `Blocks >= 2 TX + 3 RX + 6`. `Limit` adds up the places of
`BlocksConserved` when somebody asks for a buffer: at most `2 TX` and `3 RX` in
queues, one with the reader and four with the chain, or three while the chain is
the one that asks and the writer may hold one. The hypothesis holds of a heap with
that much room; the pool of `CONFIG_ESP_CACHE_MALLOC` never satisfies it, and
`SpiSlavePoolSize` shows what that leads to.

`SpiHostProofs`, for any set of devices smaller than the resume threshold and any
number of packets and events:

| theorem | statement |
|---|---|
| `TypeCorrect` | `Spec => []TypeOK` |
| `NothingForgotten` | `Spec => []WorkNoticed` |
| `CountStaysClose` | `Spec => []CountFollowsQueue` |

`Noticed` strengthens `WorkNoticed`: the interrupts are enabled whenever the data path is
open or being opened, and what was offered after the SPI thread looked at its lines
has raised the semaphore; a failed transaction finds it raised, or makes the host `deaf`. `CountInv` strengthens
`CountFollowsQueue` by `Limit`, that neither the count nor the queue exceeds what the check
before a pause lets through, and by counting the reopenings still to come (`Pending`, INIT
events queued or under way) against those done (`Done`): each may leave as much in
the queue as `Limit` allows (`Loss`), and there are at most `clocks` of both.

`SdioLinkProofs`, for any set of writers, counter widths and numbers of buffers below
the counter's range:

| theorem | statement |
|---|---|
| `TypeCorrect` | `Spec => []TypeOK` |
| `LinkAgrees` | `Spec => []CountersAgree` |
| `NoNeedlessDrop` | `Spec => DropMeansFull` |
| `PendingCorrect` | `Spec => []PendingExact` |

The invariants are layered. `TypeInv` adds that the slave's buffers are conserved.
`Phases` relates what a probe or a removal has reached to what the tx thread, the
interrupt and the slave's tasks can be doing; without it a probe could meet a thread
of the last session. `BufferInv` is the account of tokens: what the host has
counted, what it may still write and `skew` add up modulo the counter's range to what the slave has
loaded. `StreamInv` is that of bytes, with the announcement as long as
nothing was `missed`; `Whole` limits it to the time before a card that has missed a packet is
removed. `CountsAgree` is that of the host's own two
counters, from the moment a card is there.

`WifiSetupProofs`, for any access points, timeouts and applications
(`LAST_SCAN_TIMEOUT < 2 * TRY_CONNECT_TIMEOUT` is needed and true of the code):

| theorem | statement |
|---|---|
| `AlwaysBootable` | `Spec => []RestartBoots` |
| `TimerDeletedOnce` | `Spec => []OneDelete` |
| `OkIsFresh` | `Spec => []OkNeedsGotIp` |
| `ListNotEmpty` | `Spec => []HeadExists` |
| `EveryAttemptTimed` | `Spec => []AttemptsTimed` |
| `TypeCorrect` | `Spec => []TypeOK` |

Each has a small invariant of its own. `RestartBoots` adds only the types of the slots
and images: an update writes nothing but the slot that is not running, and the
bootloader takes only a complete one. `OneDelete` needs that no end can come before
`app_main()` has armed the timer, and that whoever has deleted it has reset
`wifi_prov_status`; `OkNeedsGotIp` that the flag set since a form means a GOT_IP since that form, at every place
the result is made of it; `HeadExists` that an entry leaves the list only for an attempt, of which
the time left allows one less than the list needs.

`EveryAttemptTimed` is about two tasks that share a handle but not a lock. `Attempt` says
which life of the one timer that is not deleted goes with the place the HTTP
server's task is at and the status the page sees: it waits to be started
(`Starting`), runs (`Going`), or has its stop and deletion before it in the command
queue (`Ending`). A form is taken only when the status is no longer "connecting", so
the timer before it is then gone or ending; that it has gone before the form touches the
handle is what the 300 ms (`Slept`) buy, and the only place the proof uses it.
`TypeCorrect` puts the parts together: the types of timers, commands and results come from
`AttemptInv`, those of the updates and of provisioning from `OtaInv` and `DeleteInv`.

`BridgeNetifProofs`, for any netifs, prefixes, masks and custom checks, any number of calls,
events and resets (`BridgeNetifAssumption`: the netifs are listed once each, a prefix has room for
two segments, the largest segment is one `PowersOfTwo` reaches; `PrefixAssumption`: a prefix's
segments are segments). Each theorem names what else it needs:

| theorem | statement | needs |
|---|---|---|
| `TypeCorrect` | `Spec => []TypeOK` | `OneCaller` |
| `SegmentsStayUnique` | `Spec => []SegmentsUnique` | `OneCaller`, `SoftapFirst` |
| `AddressesStayInPrefix` | `Spec => []AddressesInPrefix` | `OneCaller`, `EnoughSegments` |
| `UpdatesResolve` | `Spec => []UpdateResolves` | all three, `SameMask`, `CustomAllowed` |

- `OneCaller`: the API is called from the event loop's task. Without it the theorems are
  false (section 5).
- `SoftapFirst`: `esp_bridge_create_all_netif()` creates the softAP first
  (bridge_common.c:1053-1060), which therefore need not compare the address it restores
  from NVS with any other netif's.
- `EnoughSegments`: every prefix has as many segments that are neither special nor
  rejected as there are netifs. `NeverFull` derives that `request_ip` never fails,
  by counting the addresses the others can have.
- `SameMask`: WAN networks as large as a segment; `CustomAllowed`: `set_ip_info` is not called with
  an address that the check deciding in `conflict_update` rejects. Otherwise the netif
  that is moved may be one that is not in conflict, ahead of one that is.

The instance of the run satisfies them all. The invariants are layered. `BasicInv` holds the types
and how far the creation has got: `Phase` is the operation under way, or the one that has
called `set_ip_info`. `UniqueInv` adds that an address about to be set is nobody else's,
and that a LAN netif without an address is one not created yet. `PrefixInv` says who has an address of
the prefix: everybody but `Unserved`, those the operation under way has not come to.
`ResolvedInv` says what a moved netif gets and whose address the answer is about: `Stands`
is that the WAN netif has not been given another one since.

`EthGlueProofs`, for any cables and three segments or more, lengths of the event queue from two, and
any number of unpluggings, addresses of the station and failures:

| theorem | statement |
|---|---|
| `TypeCorrect` | `Spec => []TypeOK` |
| `RolesAreConsistent` | `Spec => []RolesConsistent` |

`RolesConsistent` speaks of a queue that has settled, so the invariant must say what a
queue that has not will lead to. `LinkEvents`: its link events alternate, from
the state the glue believes in to the one the driver last reported, hence no "connected"
is ever handled twice in a row. `NoStaleRole`: an address event with no link event
behind it is about what has been plugged in since the link came up, so handling it
takes down the right netif; the ones that are stale precede a "disconnected" that undoes
them. `Creation` and `ListedFollows` carry the property through the steps of
`esp_bridge_create_eth_netif()`, in which one netif already follows the cable while the
other does not exist; `Flapped` and `ClientRuns` say what a first "disconnected" and a running
DHCP client imply.

`SerialRingProofs`, for any size of the buffer, packets and reads:

| theorem | statement |
|---|---|
| `TypeCorrect` | `Spec => []TypeOK` |
| `StreamStaysIntact` | `Spec => []StreamIntact` |
| `RingImplementsQueue` | `Spec => ImplementsByteQueue` |

The lemmas `RingDistance` and `RingOffset` replace the modulus by a case distinction, and
`ContentIs` the mapped queue by `Used` bytes at their slots; `WritePieces` and `ReadPieces`
then show once that two pieces append to it, or take from its head. With them a write maps to
`ByteQueue`'s, the end of a copy to its read, a copy that fails to its `FailedRead`, which may
take bytes nobody gets, `Reinit` to its reset, and all other steps stutter. The
inductive invariant is `TypeOK /\ Copying /\ SentOnly /\ Ordered`. `Ordered` extends
`StreamIntact` by `Top`, the last byte the receive thread has written, which lies
behind all that waits; `Copying` keeps an interrupted read from finding the ring empty.

**Only model-checked:** liveness: `SendersReturn`, `LinkComesBack`, `ChainReturns`,
`HciLeaves`, `StoppedResumes` of both hosts, `OfferIsRead`, `BothProceed`, `RoleSettles`,
`SetupEnds`. Fairness is about ENABLED, which is out of the prover's reach. Every invariant a
passing run checks, its one action property and both refinements are theorems.

## 5. Observed, without a run of its own

Met while modelling; the models behave as described, and no document says otherwise.

- `SerialRing`: when `copy_to_user()` fails in the second piece, `rp` has passed the first
  (esp_rb.c:69-80), whose bytes the user, told -EFAULT, does not get.
- `SpiHost`: a transaction that fails, or is not made because CS is asserted, has used up the
  semaphore (esp_spi.c:296-301, 364-368). With the last one gone, packets in the queue and at
  the ESP32 wait for the next edge or packet; only when CS is asserted with `tx_pending` above
  zero does the thread try again, at once. A stop decided before the queue was drained
  (esp_spi.c:166) lasts until another packet is sent.
- `SdioLink`: one length that is not read, or one packet without memory
  (esp_sdio.c:216-220, 400-417), and nothing reads again: the interrupt has been cleared, and
  `send_task` of the slave waits. Two questions for buffers that fail drop a packet whatever is
  free (`ret` is ignored, esp_sdio.c:524). An interrupt to the slave that cannot be written is
  not repeated, so that the data path stays as it was.
- `SdioLink`: a token that has wrapped around when the card is probed starts the host's
  count off by up to `ESP_MAX_BUF_CNT`; `skew` carries it through the properties.
- `EthGlue`: a cable that is in at power-on may be reported before ETH_WAN exists; the
  properties begin when both netifs do.
- `SpiSlave`: `get_next_tx_buffer` (spi_slave_api.c:308-323) takes the semaphore,
  fails, and later lowers data-ready; a write in between is not announced and leaves with
  the next one. `HciLeaves` excepts this case and shows that it is the only one.
- `BridgeNetif`: `conflict_update` compares under the intersection of two masks,
  `request_ip` under the prefix's only (bridge_common.c:355-376, 614-646), so a LAN netif may
  be moved within a larger WAN network; with API calls in a task of their own two LAN
  netifs can get one segment, because `request_ip` reserves nothing
  (bridge_common.c:490, 633); `conflict_check` is uninitialised after `malloc`
  (bridge_common.c:132).
- `WifiSetup`: `StartWebServer()` sets a timeout of 10 s, all of which the filter keeps
  back for telling the phone, so it ends before it scans; the timer task may set a bit of an
  event group that has been deleted (`Panic`).

## 6. Assumptions about what is outside `src/`

FreeRTOS queues are FIFOs and block as documented; an event loop runs handlers one at a time
in the order of posting and registration; timer commands are executed in order. The
spi_slave and sdio_slave drivers, esp_netif, esp_wifi, the provisioning manager and
Linux's SPI, SDIO and network cores are modelled from how this repository calls them and
marked external. Sleeps that are there for others to finish (200 ms in `SpiHost`, 100 ms in
`SdioLink`, 300 ms in `WifiSetup`) are long enough; each is an operator named `Slept`.

## 7. Not modelled

- USB netif: a thin layer over TinyUSB, whose queue it is. Modem netif: one start-up
  sequence around esp_modem, which decides every outcome.
- The web server's pages, JSON and URL parsing, captive portal and listing of access
  points: string processing and I/O. QR code and custom endpoint of provisioning.
- lwIP hook and patches: a routing choice, and changes to code that is not here.
- In `bridge_common.c`: prefix masks other than one, static addresses of a WAN netif,
  `list_remove` (no caller), MAC allocation, NVS write errors.
- Socket buffers of the SPI host that cannot be allocated (esp_spi.c:341-347): the code
  dereferences the null pointer. An `xTimerStart()` that waits 5 ticks in vain
  (web_server.c:1116): three commands at most wait in the queue, which holds ten unless configured otherwise.
- Switching the type of an SPI or SDIO netif at run time; initialisations that fail in the
  slave drivers; the UART variant of `slave_bt.c`; statistics and debug tasks.
- The list inside the buffer pool: one critical section per call.

## 8. Plan

What would be next, in this order: for the liveness properties, the safety half of the
argument as theorems where there is none yet (what a waiting task is owed, as `NoCircularWait`
says it for the adapter and `WorkNoticed` for the SPI thread of the host): that a provisioning
service which was started keeps its timer, and that a stopped SDIO device has a packet before
it; netmasks in `BridgeNetif`; the
modem's start-up with its event group.
