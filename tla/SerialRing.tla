---------------------------- MODULE SerialRing ----------------------------
(***************************************************************************)
(* A serial device of the Linux host driver (esp_serial.c): packets of the *)
(* ESP's serial interface are written into a ring buffer (esp_rb.c) by the *)
(* driver's receive thread (process_rx_packet() in main.c) and read from   *)
(* it by a user's process.  The buffer is made anew whenever the ESP32     *)
(* announces itself (process_event()).                                     *)
(*                                                                         *)
(* Bytes are numbered in the order in which the ESP32 sends them.  What    *)
(* runs under the buffer's semaphore is one action, except that a reader   *)
(* may sleep in copy_to_user().                                            *)
(***************************************************************************)
EXTENDS Integers, Sequences

CONSTANTS
    Size,           \* ESP_RX_RB_SIZE
    PacketLengths,  \* lengths of serial packets
    ReadSizes,      \* sizes the user reads with
    MaxBytes,       \* bound: bytes the ESP32 sends
    MaxReinit,      \* bound: how often it announces itself
    MaxFaults       \* bound: reads into memory that cannot be written

ASSUME SerialRingAssumption ==
    /\ Size \in Nat /\ Size > 1
    /\ PacketLengths \subseteq 1..(Size - 1) /\ ReadSizes \subseteq Nat \ {0}
    /\ {MaxBytes, MaxReinit, MaxFaults} \subseteq Nat

Byte == 1..MaxBytes

VARIABLES
    buf, rp, wp,    \* esp_rb_t; the pointers are offsets from buf
    allocated,      \* buf # NULL
    sem,            \* the reader holds rb->sem
    sent,           \* bytes the ESP32 has sent
    rx,             \* the receive thread: what it does, the packet, the two ret_lens
    reader,         \* the user's process: what it does, size, and bytes it copies
    got,            \* what the last read() returned
    last,           \* the last byte read() returned
    restarted,      \* data_received() has forgotten bytes it had written
    reinits, faults

ringVars == <<buf, rp, wp, allocated>>
vars == <<ringVars, sem, sent, rx, reader, got, last, restarted, reinits, faults>>

RxIdle   == [pc |-> "idle", base |-> 0, len |-> 0, done |-> 0, written |-> 0]
\* A use of freed memory: nothing more is said of either thread.
Undefined(t) == [t EXCEPT !.pc = "undefined"]

ReadIdle == [pc |-> "idle", size |-> 0, n |-> 0]

TypeOK ==
    /\ buf \in [0..(Size - 1) -> Byte \cup {0}] /\ rp \in 0..(Size - 1) /\ wp \in 0..(Size - 1)
    /\ {allocated, sem, restarted} \subseteq BOOLEAN
    /\ sent \in 0..MaxBytes /\ last \in 0..MaxBytes /\ reinits \in 0..MaxReinit /\ faults \in 0..MaxFaults
    /\ rx \in [pc : {"idle", "write", "undefined"}, base : 0..MaxBytes, len : 0..(Size - 1),
               done : 0..(Size - 1), written : 0..(Size - 1)]
    /\ rx.base + rx.len <= sent /\ (rx.pc = "write" => rx.done + rx.written < rx.len)
    /\ reader \in [pc : {"idle", "down", "wait", "lost", "copy", "undefined"}, size : ReadSizes \cup {0},
                   n : 0..(Size - 1)]
    /\ sem = (reader.pc = "copy")
    /\ got \in Seq(Byte \cup {0}) /\ Len(got) < Size

Init ==
    /\ buf = [i \in 0..(Size - 1) |-> 0] /\ rp = 0 /\ wp = 0 /\ allocated = TRUE
    /\ sem = FALSE /\ sent = 0 /\ rx = RxIdle /\ reader = ReadIdle
    /\ got = <<>> /\ last = 0 /\ restarted = FALSE /\ reinits = 0 /\ faults = 0

\* Operators named Bug_... are plausible mistakes in the operation they stand
\* beside; no action uses them.

Least(a, b) == IF a < b THEN a ELSE b

-----------------------------------------------------------------------------
(* esp_rb.c *)

Bug_FreeSpace == IF rp = wp THEN Size ELSE (rp + Size - wp) % Size

\* get_free_space(): one byte of the buffer is never used.
FreeSpace == IF rp = wp THEN Size - 1 ELSE ((rp + Size - wp) % Size) - 1

Bug_Wrap(p) == p

\* A pointer that has reached the end goes back to the start.
Wrap(p) == IF p = Size THEN 0 ELSE p

\* The two pieces of a write of n bytes: up to the end, and from the start
FirstWrite(n)  == IF wp >= rp THEN Least(n, Size - wp) ELSE Least(n, rp - wp - 1)
\* ... and of a read
FirstRead(n)   == Least(n, IF wp > rp THEN wp - rp ELSE Size - rp)
SecondRead(n)  == LET first == FirstRead(n)
                  IN  IF first < n THEN Least(n - first, wp - Wrap(rp + first)) ELSE 0

\* esp_rb_write_by_kernel() of the n bytes after byte b
PutBytes(b, n) ==
    LET first == FirstWrite(n)
        mid   == Wrap(wp + first)
    IN  /\ buf' = [i \in 0..(Size - 1) |->
                     IF i \in wp..(wp + first - 1) THEN b + 1 + (i - wp)
                     ELSE IF i \in mid..(mid + n - first - 1) THEN b + 1 + first + (i - mid)
                     ELSE buf[i]]
        /\ wp' = Wrap(mid + (n - first))

\* What a reader copies: the first piece and the second
Copied(n) ==
    LET first == FirstRead(n)
    IN  [i \in 1..(first + SecondRead(n)) |->
           IF i <= first THEN buf[rp + i - 1] ELSE buf[Wrap(rp + first) + i - 1 - first]]

-----------------------------------------------------------------------------
(* The receive thread *)

\* process_rx_packet(): a packet of the serial interface
Receive(len) ==
    /\ rx.pc = "idle" /\ sent + len <= MaxBytes
    /\ sent' = sent + len
    /\ rx' = IF allocated THEN [pc |-> "write", base |-> sent, len |-> len, done |-> 0, written |-> 0]
             ELSE RxIdle
    /\ UNCHANGED <<ringVars, sem, reader, got, last, restarted, reinits, faults>>

\* esp_rb_write_by_kernel() in the loop of esp_serial_data_received()
WriteSome ==
    LET n == Least(rx.len - rx.done - rx.written, FreeSpace)
    IN  /\ rx.pc = "write" /\ ~sem /\ FreeSpace > 0
        /\ PutBytes(rx.base + rx.done + rx.written, n)
        /\ rx' = IF rx.done + rx.written + n = rx.len THEN RxIdle
                 ELSE [rx EXCEPT !.written = rx.written + n]
        /\ UNCHANGED <<rp, allocated, sem, sent, reader, got, last, restarted, reinits, faults>>

\* The buffer is full: data_received() returns 0 whatever it has written, and
\* process_rx_packet() calls it again for the same bytes.
WriteNone ==
    /\ rx.pc = "write" /\ ~sem /\ FreeSpace <= 0
    /\ rx' = [rx EXCEPT !.written = 0]
    /\ restarted' = (restarted \/ rx.written > 0)
    /\ UNCHANGED <<ringVars, sem, sent, reader, got, last, reinits, faults>>

\* esp_serial_reinit() after an INIT event: the buffer is freed and allocated
\* anew, its semaphore and its wait queue are initialised, whoever uses them.
Reinit ==
    /\ rx.pc = "idle" /\ reinits < MaxReinit /\ reinits' = reinits + 1
    /\ allocated' \in BOOLEAN
    /\ rp' = 0 /\ wp' = 0 /\ sem' = FALSE
    /\ rx' = IF sem THEN Undefined(rx) ELSE rx
    /\ reader' = IF sem THEN Undefined(reader)
                 ELSE IF reader.pc = "wait" THEN [reader EXCEPT !.pc = "lost"] ELSE reader
    /\ UNCHANGED <<buf, sent, got, last, restarted, faults>>

RxThread == (\E len \in PacketLengths : Receive(len)) \/ WriteSome \/ WriteNone \/ Reinit

-----------------------------------------------------------------------------
(* The user's process: esp_serial_read() *)

ReadCall(size) ==
    /\ reader.pc = "idle"
    /\ reader' = [pc |-> "down", size |-> size, n |-> 0]
    /\ UNCHANGED <<ringVars, sem, sent, rx, got, last, restarted, reinits, faults>>

\* The buffer is empty: a reader that must not block returns, another waits.
ReadEmpty ==
    /\ reader.pc = "down" /\ rp = wp
    /\ reader' \in {ReadIdle, [reader EXCEPT !.pc = "wait"]}
    /\ UNCHANGED <<ringVars, sem, sent, rx, got, last, restarted, reinits, faults>>

Bug_Woken ==
    /\ reader.pc = "wait" /\ FreeSpace = 0
    /\ reader' = [reader EXCEPT !.pc = "down"]
    /\ UNCHANGED <<ringVars, sem, sent, rx, got, last, restarted, reinits, faults>>

\* wait_event_interruptible(): writers wake those in the wait queue.
Woken ==
    /\ reader.pc = "wait" /\ rp # wp
    /\ reader' = [reader EXCEPT !.pc = "down"]
    /\ UNCHANGED <<ringVars, sem, sent, rx, got, last, restarted, reinits, faults>>

\* A signal ends the wait, also of one whose wait queue has gone.
Signal ==
    /\ reader.pc \in {"wait", "lost"}
    /\ reader' = ReadIdle
    /\ UNCHANGED <<ringVars, sem, sent, rx, got, last, restarted, reinits, faults>>

StartCopy ==
    /\ reader.pc = "down" /\ rp # wp
    /\ sem' = TRUE
    /\ reader' = [reader EXCEPT !.pc = "copy", !.n = FirstRead(reader.size) + SecondRead(reader.size)]
    /\ UNCHANGED <<ringVars, sent, rx, got, last, restarted, reinits, faults>>

Bug_EndCopyOnePiece ==
    LET first == FirstRead(reader.size)
    IN  /\ reader.pc = "copy"
        /\ got' = Copied(reader.size)
        /\ last' = got'[Len(got')]
        /\ rp' = Wrap(rp + first)
        /\ sem' = FALSE /\ reader' = ReadIdle
        /\ UNCHANGED <<buf, wp, allocated, sent, rx, restarted, reinits, faults>>

EndCopy ==
    LET first == FirstRead(reader.size)
    IN  /\ reader.pc = "copy"
        /\ got' = Copied(reader.size)
        /\ last' = got'[Len(got')]
        /\ rp' = Wrap(rp + first) + SecondRead(reader.size)
        /\ sem' = FALSE /\ reader' = ReadIdle
        /\ UNCHANGED <<buf, wp, allocated, sent, rx, restarted, reinits, faults>>

\* copy_to_user() fails and read() returns -EFAULT.  Of a first piece that cannot
\* be copied nothing is taken; one that was copied before the second piece failed
\* has been taken, although the user is not told of it.
CopyFails ==
    /\ reader.pc = "copy" /\ faults < MaxFaults /\ faults' = faults + 1
    /\ \/ rp' = rp
       \/ SecondRead(reader.size) > 0 /\ rp' = Wrap(rp + FirstRead(reader.size))
    /\ sem' = FALSE /\ reader' = ReadIdle
    /\ UNCHANGED <<buf, wp, allocated, sent, rx, got, last, restarted, reinits>>

Reader == (\E size \in ReadSizes : ReadCall(size)) \/ ReadEmpty \/ Woken \/ Signal \/ StartCopy
          \/ EndCopy \/ CopyFails

Next == RxThread \/ Reader

Spec == Init /\ [][Next]_vars

\* Both threads run, and a process reads from the device for ever, now and then
\* as much as the buffer holds.  Nothing is assumed of signals, nor that a copy
\* fails; MaxFaults lets only finitely many fail.
Fairness ==
    /\ WF_vars(WriteSome) /\ WF_vars(WriteNone)
    /\ WF_vars(ReadEmpty \/ StartCopy) /\ WF_vars(Woken)
    /\ WF_vars(EndCopy)
    /\ SF_vars(\E size \in ReadSizes : size >= Size - 1 /\ ReadCall(size))

FairSpec == Spec /\ Fairness

-----------------------------------------------------------------------------
(* Properties *)

\* The bytes between the two pointers, oldest first
Content == [i \in 1..((wp + Size - rp) % Size) |-> buf[(rp + i - 1) % Size]]

Increasing(s) == \A i \in 1..(Len(s) - 1) : s[i] < s[i + 1]

\* The ring buffer is a queue of bytes: no wrap-around of a pointer and no pair
\* of pieces repeats or reorders a byte, and none loses one unless the read fails
\* between its two pieces (esp_rb.c).
Queue == INSTANCE ByteQueue WITH queue <- Content, resets <- reinits, failures <- faults,
                                 Capacity <- Size - 1
ImplementsByteQueue == Queue!Spec

\* User reads see no byte twice and none out of order as long as the receive thread
\* never met a full buffer in the middle of a packet, also across a reinitialisation
\* and after a read that failed.
StreamIntact ==
    ~restarted => Increasing(<<last>> \o Content)

\* The message of esp_serial_data_received() says what becomes of a packet that
\* does not fit: it is dropped, so no part of it is seen twice.
NoByteTwice == Increasing(<<last>> \o Content)

\* A reader that waits while there are bytes gets them, unless a signal or a
\* reinitialisation comes between.
ReaderWakes ==
    reader.pc = "wait" /\ rp # wp ~> reader.pc # "wait" \/ rp = wp

\* While a process goes on reading, the receive thread, which has all other
\* packets to see to, leaves the loop of process_rx_packet().  A reader whose wait
\* queue was initialised under it reads no more.
ReceiveReturns == []<>(rx.pc # "write" \/ reader.pc = "lost")

\* Neither end waits for ever on the other.
BothProceed == ReaderWakes /\ ReceiveReturns
=============================================================================
