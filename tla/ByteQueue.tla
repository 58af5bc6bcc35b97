----------------------------- MODULE ByteQueue -----------------------------
(***************************************************************************)
(* What the receive buffer of a serial device promises: a queue of bytes   *)
(* with a bound.  A writer appends as much of its data as fits, a reader   *)
(* takes bytes from the front, and the queue is emptied when the device is *)
(* set up again.  A read that fails returns nothing, but may have taken    *)
(* some of the bytes, though never all of them.                            *)
(***************************************************************************)
EXTENDS Naturals, Sequences

CONSTANTS Byte, Capacity

VARIABLES
    queue,      \* the bytes waiting
    got,        \* those the last read returned
    resets,     \* how often it was emptied
    failures    \* how many reads have failed

Init == queue = <<>> /\ got = <<>> /\ resets = 0 /\ failures = 0

Write ==
    /\ queue' \in Seq(Byte) /\ Len(queue') \in (Len(queue) + 1)..Capacity
    /\ SubSeq(queue', 1, Len(queue)) = queue
    /\ UNCHANGED <<got, resets, failures>>

Read ==
    \E n \in 1..Len(queue) :
        /\ got' = SubSeq(queue, 1, n)
        /\ queue' = SubSeq(queue, n + 1, Len(queue))
        /\ UNCHANGED <<resets, failures>>

FailedRead ==
    \E n \in 0..(Len(queue) - 1) :
        /\ queue' = SubSeq(queue, n + 1, Len(queue))
        /\ failures' = failures + 1
        /\ UNCHANGED <<got, resets>>

Reset == queue' = <<>> /\ resets' = resets + 1 /\ UNCHANGED <<got, failures>>

Next == Write \/ Read \/ FailedRead \/ Reset

Spec == Init /\ [][Next]_<<queue, got, resets, failures>>
=============================================================================
