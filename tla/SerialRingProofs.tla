------------------------- MODULE SerialRingProofs -------------------------
(***************************************************************************)
(* Proofs about SerialRing, for any buffer size, packet and read sizes and *)
(* bounds: type correctness, that the user's reads see no byte twice and   *)
(* none out of order (StreamIntact), and that the ring buffer with its two *)
(* pointers and two pieces implements a queue of bytes (ByteQueue).        *)
(***************************************************************************)
EXTENDS SerialRing, TLAPS

-----------------------------------------------------------------------------
(* The inductive invariant *)

\* The number of bytes between the pointers, and where byte i of them is
Used  == IF wp >= rp THEN wp - rp ELSE wp + Size - rp
Slot(i) == IF rp + i - 1 < Size THEN rp + i - 1 ELSE rp + i - 1 - Size

\* The last byte the receive thread has written, if it has not started again
Top == IF rx.pc = "write" THEN rx.base + rx.done + rx.written ELSE sent

\* A reader that copies has something to copy and room for it.
Copying ==
    /\ reader.pc \notin {"idle", "undefined"} => reader.size \in ReadSizes
    /\ reader.pc = "copy" => rp # wp

\* Only bytes the ESP32 has sent lie between the pointers.
SentOnly == \A i \in 1..Used : buf[Slot(i)] \in 1..sent

\* Bytes are in order, from the last one read to the last one written.
Ordered ==
    ~restarted =>
        /\ last <= Top
        /\ \A i \in 1..Used :
            /\ buf[Slot(i)] > last
            /\ buf[Slot(i)] <= Top
            /\ \A j \in 1..Used : i < j => buf[Slot(i)] < buf[Slot(j)]

Inv == TypeOK /\ Copying /\ SentOnly /\ Ordered

-----------------------------------------------------------------------------
(* The buffer as a ring *)

\* Distances and offsets on a ring of n
LEMMA RingDistance ==
    ASSUME NEW n \in Nat \ {0}, NEW a \in 0..(n - 1), NEW b \in 0..(n - 1)
    PROVE  (a + n - b) % n = IF a >= b THEN a - b ELSE a + n - b
  OBVIOUS

LEMMA RingOffset ==
    ASSUME NEW n \in Nat \ {0}, NEW a \in 0..(n - 1), NEW i \in 1..n
    PROVE  (a + i - 1) % n = IF a + i - 1 < n THEN a + i - 1 ELSE a + i - 1 - n
  OBVIOUS

LEMMA Pointers ==
    ASSUME TypeOK
    PROVE  /\ Size \in Nat \ {0, 1} /\ rp \in 0..(Size - 1) /\ wp \in 0..(Size - 1)
           /\ Used \in 0..(Size - 1) /\ (Used = 0 <=> rp = wp)
           /\ \A i \in 1..Used : Slot(i) \in 0..(Size - 1)
           /\ buf \in [0..(Size - 1) -> Byte \cup {0}]
<1>1. Size \in Nat \ {0, 1} /\ rp \in 0..(Size - 1) /\ wp \in 0..(Size - 1)
      /\ buf \in [0..(Size - 1) -> Byte \cup {0}]
  BY SerialRingAssumption DEF TypeOK
<1> QED BY <1>1 DEF Used, Slot

\* get_free_space() is what Content leaves, but for the byte that is never used.
LEMMA FreeSpaceIs == ASSUME TypeOK PROVE FreeSpace = Size - 1 - Used
<1>1. Size \in Nat \ {0, 1} /\ rp \in 0..(Size - 1) /\ wp \in 0..(Size - 1)
  BY Pointers
<1>2. (rp + Size - wp) % Size = IF rp >= wp THEN rp - wp ELSE rp + Size - wp
  BY <1>1, RingDistance
<1> QED BY <1>1, <1>2 DEF FreeSpace, Used

LEMMA Layout ==
    ASSUME Size \in Nat \ {0}, NEW r \in 0..(Size - 1), NEW w \in 0..(Size - 1)
    PROVE  LET u == IF w >= r THEN w - r ELSE w + Size - r
           IN  /\ (w + Size - r) % Size = u
               /\ \A i \in 1..u :
                    (r + i - 1) % Size = IF r + i - 1 < Size THEN r + i - 1 ELSE r + i - 1 - Size
<1> DEFINE u == IF w >= r THEN w - r ELSE w + Size - r
<1>1. (w + Size - r) % Size = u
  BY RingDistance
<1>2. ASSUME NEW i \in 1..u
      PROVE  (r + i - 1) % Size = IF r + i - 1 < Size THEN r + i - 1 ELSE r + i - 1 - Size
  <2>1. i \in 1..Size
    OBVIOUS
  <2> HIDE DEF u
  <2> QED BY <2>1, RingOffset
<1> QED BY <1>1, <1>2

LEMMA UsedRange ==
    \A r, w \in 0..(Size - 1) :
        Size \in Nat => (IF w >= r THEN w - r ELSE w + Size - r) \in 0..(Size - 1)
  OBVIOUS

\* Content without the modulus, before a step and after it
LEMMA ContentIs ==
    ASSUME TypeOK
    PROVE  Content = [i \in 1..Used |-> buf[Slot(i)]]
BY Pointers, Layout DEF Content, Used, Slot

LEMMA ContentNext ==
    ASSUME TypeOK'
    PROVE  Content' = [i \in 1..Used' |-> buf'[Slot(i)']]
<1>1. Size \in Nat \ {0} /\ rp' \in 0..(Size - 1) /\ wp' \in 0..(Size - 1)
  BY SerialRingAssumption DEF TypeOK
<1> QED BY <1>1, Layout DEF Content, Used, Slot

\* The two pieces of a write follow what is there, and leave it alone.
LEMMA WritePieces ==
    ASSUME TypeOK, NEW n \in 1..FreeSpace, NEW b \in Nat, b + n <= MaxBytes,
           PutBytes(b, n), rp' = rp
    PROVE  /\ wp' \in 0..(Size - 1) /\ buf' \in [0..(Size - 1) -> Byte \cup {0}]
           /\ Used' = Used + n
           /\ \A i \in 1..Used : buf'[Slot(i)'] = buf[Slot(i)]
           /\ \A i \in (Used + 1)..(Used + n) : buf'[Slot(i)'] = b + (i - Used)
<1>1. /\ Size \in Nat \ {0, 1} /\ rp \in 0..(Size - 1) /\ wp \in 0..(Size - 1)
      /\ Used \in 0..(Size - 1) /\ n \in 1..(Size - 1 - Used) /\ MaxBytes \in Nat
      /\ buf \in [0..(Size - 1) -> Byte \cup {0}]
  BY Pointers, FreeSpaceIs, SerialRingAssumption
<1> DEFINE first == FirstWrite(n)
           mid   == Wrap(wp + first)
<1>2. /\ first \in 0..n /\ mid \in 0..(Size - 1)
      /\ first < n => first = Size - wp /\ wp >= rp /\ mid = 0 /\ n - first < rp
      /\ first = n => IF wp + n = Size THEN mid = 0 ELSE mid = wp + n /\ wp + n < Size
  BY <1>1 DEF FirstWrite, Wrap, Least, Used
<1>3. wp' = mid + (n - first) /\ wp' \in 0..(Size - 1)
  <2>1. mid + (n - first) < Size
    BY <1>1, <1>2
  <2>2. wp' = Wrap(mid + (n - first))
    BY DEF PutBytes
  <2> QED BY <1>1, <1>2, <2>1, <2>2 DEF Wrap
<1>4. Used' = Used + n
  <2>1. Used' = IF wp' >= rp THEN wp' - rp ELSE wp' + Size - rp
    BY DEF Used
  <2>2. n \in Nat /\ wp' \in Nat /\ first \in Nat
    BY <1>1, <1>2, <1>3
  <2> HIDE DEF first, mid
  <2>3. CASE first < n
    BY <1>1, <1>2, <1>3, <2>1, <2>2, <2>3 DEF Used
  <2>4. CASE first = n /\ wp + n = Size
    BY <1>1, <1>2, <1>3, <2>1, <2>2, <2>4 DEF Used
  <2>5. CASE first = n /\ wp + n # Size
    BY <1>1, <1>2, <1>3, <2>1, <2>2, <2>5 DEF Used
  <2> QED BY <1>2, <2>2, <2>3, <2>4, <2>5
<1>5. buf' = [i \in 0..(Size - 1) |->
                     IF i \in wp..(wp + first - 1) THEN b + 1 + (i - wp)
                     ELSE IF i \in mid..(mid + n - first - 1) THEN b + 1 + first + (i - mid)
                     ELSE buf[i]]
  BY DEF PutBytes
<1> HIDE DEF first, mid
<1>6. buf' \in [0..(Size - 1) -> Byte \cup {0}]
  <2>1. ASSUME NEW i \in 0..(Size - 1) PROVE buf'[i] \in Byte \cup {0}
    <3>1. i \in wp..(wp + first - 1) => b + 1 + (i - wp) \in 1..MaxBytes
      BY <1>1, <1>2
    <3>2. i \in mid..(mid + n - first - 1) => b + 1 + first + (i - mid) \in 1..MaxBytes
      BY <1>1, <1>2
    <3> QED BY <1>1, <1>5, <3>1, <3>2 DEF Byte
  <2> QED BY <1>5, <2>1
<1>7. ASSUME NEW i \in 1..Used PROVE buf'[Slot(i)'] = buf[Slot(i)]
  <2>1. Slot(i)' = Slot(i) /\ Slot(i) \in 0..(Size - 1)
    BY Pointers DEF Slot
  <2>2. Slot(i) \notin wp..(wp + first - 1)
    BY <1>1, <1>2 DEF Slot, Used
  <2>3. Slot(i) \notin mid..(mid + n - first - 1)
    BY <1>1, <1>2 DEF Slot, Used
  <2> QED BY <1>5, <2>1, <2>2, <2>3
<1>8. ASSUME NEW i \in (Used + 1)..(Used + n) PROVE buf'[Slot(i)'] = b + (i - Used)
  <2>1. Slot(i)' = Slot(i)
    BY DEF Slot
  <2>2. CASE i - Used <= first
    <3>1. Slot(i) = wp + (i - Used) - 1 /\ Slot(i) \in 0..(Size - 1)
          /\ Slot(i) \in wp..(wp + first - 1)
      BY <1>1, <1>2, <2>2 DEF Slot, Used
    <3>2. b + 1 + (Slot(i) - wp) = b + (i - Used)
      BY <1>1, <3>1
    <3> QED BY <1>5, <2>1, <3>1, <3>2
  <2>3. CASE i - Used > first
    <3>1. Slot(i) = (i - Used) - first - 1 /\ Slot(i) \in 0..(Size - 1) /\ mid = 0
          /\ Slot(i) < wp /\ Slot(i) \in mid..(mid + n - first - 1)
      BY <1>1, <1>2, <2>3 DEF Slot, Used
    <3>2. b + 1 + first + (Slot(i) - mid) = b + (i - Used) /\ Slot(i) \notin wp..(wp + first - 1)
      BY <1>1, <1>2, <3>1
    <3> QED BY <1>5, <2>1, <3>1, <3>2
  <2> QED BY <1>1, <1>2, <2>2, <2>3
<1> QED BY <1>3, <1>4, <1>6, <1>7, <1>8

\* The two pieces of a read are the oldest bytes, and the others are left.
LEMMA ReadPieces ==
    ASSUME TypeOK, NEW size \in Nat \ {0}, rp # wp
    PROVE  LET n == FirstRead(size) + SecondRead(size)
               end == Wrap(rp + FirstRead(size)) + SecondRead(size)
           IN  /\ n \in 1..Used /\ end \in 0..(Size - 1)
               /\ Copied(size) = [i \in 1..n |-> buf[Slot(i)]]
               /\ (IF wp >= end THEN wp - end ELSE wp + Size - end) = Used - n
               /\ \A i \in 1..(Used - n) :
                    Slot(n + i) = IF end + i - 1 < Size THEN end + i - 1 ELSE end + i - 1 - Size
<1>1. /\ Size \in Nat \ {0, 1} /\ rp \in 0..(Size - 1) /\ wp \in 0..(Size - 1)
      /\ Used \in 0..(Size - 1)
  BY Pointers
<1> DEFINE first == FirstRead(size)
           second == SecondRead(size)
           mid == Wrap(rp + first)
           n == first + second
           end == mid + second
<1>2. /\ first \in 1..Used /\ second \in 0..(Used - first) /\ mid \in 0..(Size - 1)
      /\ second > 0 => first = Size - rp /\ wp < rp /\ second <= wp
      /\ wp > rp => first <= wp - rp
      /\ first <= Size - rp
      /\ IF rp + first = Size THEN mid = 0 ELSE mid = rp + first
  BY <1>1, rp # wp DEF FirstRead, SecondRead, Wrap, Least, Used
<1>3. Copied(size) = [i \in 1..n |->
                        IF i <= first THEN buf[rp + i - 1] ELSE buf[mid + i - 1 - first]]
  BY DEF Copied
<1> HIDE DEF first, second, mid
<1>4. ASSUME NEW i \in 1..n
      PROVE  Slot(i) = IF i <= first THEN rp + i - 1 ELSE mid + i - 1 - first
  BY <1>1, <1>2 DEF Slot
<1>5. Copied(size) = [i \in 1..n |-> buf[Slot(i)]]
  BY <1>3, <1>4
<1>6. n \in 1..Used /\ end \in 0..(Size - 1)
  BY <1>1, <1>2 DEF Used
<1>7. (IF wp >= end THEN wp - end ELSE wp + Size - end) = Used - n
  BY <1>1, <1>2, rp # wp DEF Used
<1>8. \A i \in 1..(Used - n) :
          Slot(n + i) = IF end + i - 1 < Size THEN end + i - 1 ELSE end + i - 1 - Size
  BY <1>1, <1>2, rp # wp DEF Used, Slot
<1> QED BY <1>5, <1>6, <1>7, <1>8 DEF first, second, mid
-----------------------------------------------------------------------------
(* What the steps do to the ring *)

\* The number of bytes a call of esp_rb_write_by_kernel() writes
Written == Least(rx.len - rx.done - rx.written, FreeSpace)

LEMMA WriteSomeDoes ==
    ASSUME TypeOK, WriteSome
    PROVE  /\ Written \in 1..(Size - 1) /\ rx.pc = "write"
           /\ wp' \in 0..(Size - 1) /\ buf' \in [0..(Size - 1) -> Byte \cup {0}]
           /\ Used' = Used + Written
           /\ \A i \in 1..Used : buf'[Slot(i)'] = buf[Slot(i)]
           /\ \A i \in (Used + 1)..(Used + Written) :
                buf'[Slot(i)'] = rx.base + rx.done + rx.written + (i - Used)
           /\ rx.base + rx.done + rx.written + Written <= rx.base + rx.len
<1>1. /\ rx.pc = "write" /\ rx.base \in Nat /\ rx.len \in 0..(Size - 1) /\ rx.done \in Nat
      /\ rx.written \in Nat /\ rx.base + rx.len <= sent /\ sent <= MaxBytes /\ sent \in Nat
      /\ rx.done + rx.written < rx.len /\ MaxBytes \in Nat
  BY SerialRingAssumption DEF TypeOK, WriteSome
<1>2. FreeSpace \in 1..(Size - 1) /\ Size \in Nat \ {0, 1}
  BY Pointers, FreeSpaceIs DEF WriteSome
<1>3. Written \in 1..FreeSpace /\ Written <= rx.len - rx.done - rx.written
  BY <1>1, <1>2 DEF Written, Least
<1>4. PutBytes(rx.base + rx.done + rx.written, Written) /\ rp' = rp
  BY DEF WriteSome, Written
<1>5. rx.base + rx.done + rx.written \in Nat
      /\ rx.base + rx.done + rx.written + Written <= MaxBytes
      /\ rx.base + rx.done + rx.written + Written <= rx.base + rx.len
  BY <1>1, <1>2, <1>3
<1> HIDE DEF Written
<1>6. Written \in 1..(Size - 1)
  BY <1>2, <1>3
<1> QED BY <1>1, <1>3, <1>4, <1>5, <1>6, WritePieces

\* The number of bytes the read() under way returns
Taken == FirstRead(reader.size) + SecondRead(reader.size)

LEMMA EndCopyDoes ==
    ASSUME TypeOK, Copying, EndCopy
    PROVE  /\ Taken \in 1..Used /\ rp' \in 0..(Size - 1) /\ UNCHANGED <<buf, wp>>
           /\ got' = [i \in 1..Taken |-> buf[Slot(i)]] /\ last' = buf[Slot(Taken)]
           /\ Used' = Used - Taken
           /\ \A i \in 1..(Used - Taken) : buf'[Slot(i)'] = buf[Slot(Taken + i)]
<1> DEFINE end == Wrap(rp + FirstRead(reader.size)) + SecondRead(reader.size)
<1>1. reader.size \in Nat \ {0} /\ rp # wp
  BY SerialRingAssumption DEF Copying, EndCopy
<1>2. /\ Taken \in 1..Used /\ end \in 0..(Size - 1)
      /\ Copied(reader.size) = [i \in 1..Taken |-> buf[Slot(i)]]
      /\ (IF wp >= end THEN wp - end ELSE wp + Size - end) = Used - Taken
      /\ \A i \in 1..(Used - Taken) :
            Slot(Taken + i) = IF end + i - 1 < Size THEN end + i - 1 ELSE end + i - 1 - Size
  BY <1>1, ReadPieces DEF Taken
<1>3. rp' = end /\ UNCHANGED <<buf, wp>> /\ got' = Copied(reader.size) /\ last' = got'[Len(got')]
  BY DEF EndCopy
<1> HIDE DEF Taken, end
<1>4. Used' = Used - Taken
  BY <1>2, <1>3 DEF Used
<1>5. \A i \in 1..(Used - Taken) : Slot(i)' = Slot(Taken + i)
  BY <1>2, <1>3 DEF Slot
<1>6. last' = buf[Slot(Taken)]
  <2>1. Taken \in Nat /\ Taken \in 1..Taken
    BY <1>2, Pointers
  <2>2. Len(got') = Taken
    BY <1>2, <1>3, <2>1
  <2> QED BY <1>2, <1>3, <2>1, <2>2
<1> QED BY <1>2, <1>3, <1>4, <1>5, <1>6

\* A read that fails before its end returns nothing and takes less than there is.
LEMMA CopyFailsDoes ==
    ASSUME TypeOK, Copying, CopyFails
    PROVE  /\ UNCHANGED <<buf, wp, got, last>> /\ rp' \in 0..(Size - 1)
           /\ \E t \in 0..(Used - 1) :
                /\ Used' = Used - t
                /\ \A i \in 1..(Used - t) : buf'[Slot(i)'] = buf[Slot(t + i)]
<1>1. /\ Size \in Nat \ {0, 1} /\ rp \in 0..(Size - 1) /\ wp \in 0..(Size - 1)
      /\ Used \in 0..(Size - 1) /\ UNCHANGED <<buf, wp, got, last>>
  BY Pointers DEF CopyFails
<1>2. reader.size \in Nat \ {0} /\ rp # wp /\ Used # 0
  BY Pointers, SerialRingAssumption DEF Copying, CopyFails
<1>3. CASE rp' = rp
  <2>1. Used' = Used - 0 /\ 0 \in 0..(Used - 1)
    BY <1>1, <1>2, <1>3 DEF Used
  <2>2. \A i \in 1..(Used - 0) : buf'[Slot(i)'] = buf[Slot(0 + i)]
    BY <1>1, <1>3 DEF Slot
  <2> QED BY <1>1, <1>3, <2>1, <2>2
<1>4. CASE SecondRead(reader.size) > 0 /\ rp' = Wrap(rp + FirstRead(reader.size))
  <2> DEFINE first == FirstRead(reader.size)
             end == Wrap(rp + first)
  \* The first piece alone is what a smaller read would have taken.
  <2>1. first \in Nat \ {0} /\ first < Used /\ FirstRead(first) = first /\ SecondRead(first) = 0
    BY <1>1, <1>2, <1>4 DEF FirstRead, SecondRead, Wrap, Least, Used
  <2> HIDE DEF first
  <2>2. end + 0 = end /\ first + 0 = first
    BY <1>1, <2>1 DEF Wrap
  <2>3. /\ end \in 0..(Size - 1)
        /\ (IF wp >= end THEN wp - end ELSE wp + Size - end) = Used - first
        /\ \A i \in 1..(Used - first) :
              Slot(first + i) = IF end + i - 1 < Size THEN end + i - 1 ELSE end + i - 1 - Size
    BY <1>2, <2>1, <2>2, ReadPieces
  <2>4. rp' = end
    BY <1>4 DEF first
  <2> HIDE DEF end
  <2>5. Used' = Used - first /\ first \in 0..(Used - 1)
    BY <1>1, <2>1, <2>3, <2>4 DEF Used
  <2>6. \A i \in 1..(Used - first) : Slot(i)' = Slot(first + i)
    BY <2>3, <2>4 DEF Slot
  <2> QED BY <1>1, <2>3, <2>4, <2>5, <2>6
<1> QED BY <1>3, <1>4 DEF CopyFails

\* A buffer made anew is empty.
LEMMA ReinitDoes ==
    ASSUME TypeOK, Reinit
    PROVE  Used' = 0 /\ rp' \in 0..(Size - 1) /\ wp' \in 0..(Size - 1) /\ buf' = buf
BY Pointers DEF Reinit, Used

\* The others leave it alone.
OtherStep ==
    \/ \E len \in PacketLengths : Receive(len)
    \/ WriteNone
    \/ \E size \in ReadSizes : ReadCall(size)
    \/ ReadEmpty \/ Woken \/ Signal \/ StartCopy
    \/ UNCHANGED vars

LEMMA OthersDo ==
    ASSUME OtherStep
    PROVE  UNCHANGED <<buf, rp, wp, got, last, reinits, faults>> /\ Used' = Used
           /\ \A i : buf'[Slot(i)'] = buf[Slot(i)]
<1>1. UNCHANGED <<buf, rp, wp, got, last, reinits, faults>>
  BY DEF OtherStep, Receive, WriteNone, ReadCall, ReadEmpty, Woken, Signal, StartCopy, vars,
         ringVars
<1> QED BY <1>1 DEF Used, Slot

LEMMA Steps == [Next]_vars => WriteSome \/ EndCopy \/ CopyFails \/ Reinit \/ OtherStep
BY DEF Next, RxThread, Reader, OtherStep

-----------------------------------------------------------------------------
(* Type correctness *)

Reading == reader \in [pc : {"idle", "down", "wait", "lost", "copy", "undefined"},
                       size : ReadSizes \cup {0}, n : 0..(Size - 1)]

Receiving == /\ rx \in [pc : {"idle", "write", "undefined"}, base : 0..MaxBytes,
                        len : 0..(Size - 1), done : 0..(Size - 1), written : 0..(Size - 1)]
             /\ rx.base + rx.len <= sent /\ (rx.pc = "write" => rx.done + rx.written < rx.len)

LEMMA ReceivingType == TypeOK /\ [Next]_vars => Receiving' /\ sent' \in 0..MaxBytes
<1> SUFFICES ASSUME TypeOK, [Next]_vars PROVE Receiving' /\ sent' \in 0..MaxBytes
  OBVIOUS
<1>1. /\ Size \in Nat \ {0, 1} /\ MaxBytes \in Nat /\ sent \in 0..MaxBytes /\ Receiving
      /\ PacketLengths \subseteq 1..(Size - 1)
  <2>1. Size \in Nat \ {0, 1} /\ MaxBytes \in Nat /\ PacketLengths \subseteq 1..(Size - 1)
    BY SerialRingAssumption
  <2>2. sent \in 0..MaxBytes /\ Receiving
    BY DEF TypeOK, Receiving
  <2> QED BY <2>1, <2>2
<1>2. ASSUME NEW len \in PacketLengths, Receive(len)
      PROVE  Receiving' /\ sent' \in 0..MaxBytes
  <2>1. len \in 1..(Size - 1) /\ sent' = sent + len /\ sent + len \in 0..MaxBytes
    BY <1>1, <1>2 DEF Receive
  <2>2. CASE allocated
    <3>1. rx' = [pc |-> "write", base |-> sent, len |-> len, done |-> 0, written |-> 0]
      BY <1>2, <2>2 DEF Receive
    <3> QED BY <1>1, <2>1, <3>1 DEF Receiving
  <2>3. CASE ~allocated
    <3>1. rx' = [pc |-> "idle", base |-> 0, len |-> 0, done |-> 0, written |-> 0]
      BY <1>2, <2>3 DEF Receive, RxIdle
    <3> QED BY <1>1, <2>1, <3>1 DEF Receiving
  <2> QED BY <2>2, <2>3
<1>3. CASE WriteSome
  <2>1. /\ Written \in 1..(Size - 1) /\ sent' = sent
        /\ rx.base + rx.done + rx.written + Written <= rx.base + rx.len
    BY <1>3, WriteSomeDoes DEF WriteSome
  <2>2. rx' = IF rx.done + rx.written + Written = rx.len THEN RxIdle
              ELSE [rx EXCEPT !.written = rx.written + Written]
    BY <1>3 DEF WriteSome, Written
  <2> HIDE DEF Written
  <2>3. CASE rx.done + rx.written + Written = rx.len
    BY <1>1, <2>1, <2>2, <2>3 DEF Receiving, RxIdle
  <2>4. CASE rx.done + rx.written + Written # rx.len
    <3>1. rx.written + Written \in 0..(Size - 1) /\ rx.done + (rx.written + Written) < rx.len
      BY <1>1, <2>1, <2>4 DEF Receiving
    <3> QED BY <1>1, <2>1, <2>2, <2>4, <3>1 DEF Receiving
  <2> QED BY <2>3, <2>4
<1>4. CASE WriteNone
  <2>1. rx' = [rx EXCEPT !.written = 0] /\ sent' = sent
    BY <1>4 DEF WriteNone
  <2> QED BY <1>1, <2>1 DEF Receiving
<1>5. CASE Reinit
  <2>1. (rx' = rx \/ rx' = [rx EXCEPT !.pc = "undefined"]) /\ sent' = sent
    BY <1>5 DEF Reinit, Undefined
  <2> QED BY <1>1, <2>1 DEF Receiving
<1>6. CASE UNCHANGED <<rx, sent>>
  BY <1>1, <1>6 DEF Receiving
<1> QED BY <1>2, <1>3, <1>4, <1>5, <1>6
        DEF Next, RxThread, Reader, ReadCall, ReadEmpty, Woken, Signal, StartCopy, EndCopy, CopyFails, vars

LEMMA ReadingType ==
    TypeOK /\ Copying /\ [Next]_vars
      => Reading' /\ Copying' /\ sem' = (reader'.pc = "copy") /\ sem' \in BOOLEAN
<1> SUFFICES ASSUME TypeOK, Copying, [Next]_vars
             PROVE  Reading' /\ Copying' /\ sem' = (reader'.pc = "copy")
  OBVIOUS
<1>1. /\ Size \in Nat \ {0, 1} /\ Reading /\ sem = (reader.pc = "copy")
      /\ ReadSizes \subseteq Nat \ {0}
  BY SerialRingAssumption DEF TypeOK, Reading
<1>2. ASSUME NEW size \in ReadSizes, ReadCall(size)
      PROVE  Reading' /\ Copying' /\ sem' = (reader'.pc = "copy")
  BY <1>1, <1>2 DEF ReadCall, Reading, Copying
<1>3. CASE ReadEmpty \/ Signal
  BY <1>1, <1>3 DEF ReadEmpty, Signal, ReadIdle, Reading, Copying
<1>4. CASE Woken
  BY <1>1, <1>4 DEF Woken, Reading, Copying
<1>5. CASE StartCopy
  <2>1. Taken \in 0..(Size - 1)
    BY <1>1, <1>5, Pointers, ReadPieces DEF Taken, StartCopy, Copying
  <2>2. reader' = [reader EXCEPT !.pc = "copy", !.n = Taken] /\ sem' = TRUE /\ rp # wp
        /\ reader.pc = "down" /\ UNCHANGED <<rp, wp>>
    BY <1>5 DEF StartCopy, Taken, ringVars
  <2> HIDE DEF Taken
  <2> QED BY <1>1, <2>1, <2>2 DEF Reading, Copying
<1>6. CASE EndCopy \/ CopyFails
  <2>1. reader' = [pc |-> "idle", size |-> 0, n |-> 0] /\ sem' = FALSE
    BY <1>6 DEF EndCopy, CopyFails, ReadIdle
  <2>2. reader'.pc = "idle" /\ Reading' /\ Copying'
    BY <1>1, <2>1 DEF Reading, Copying
  <2> QED BY <2>1, <2>2
<1>7. CASE Reinit
  <2>1. CASE sem
    <3>1. reader' = [reader EXCEPT !.pc = "undefined"] /\ sem' = FALSE
      BY <1>7, <2>1 DEF Reinit, Undefined
    <3> QED BY <1>1, <3>1 DEF Reading, Copying
  <2>2. CASE ~sem /\ reader.pc = "wait"
    <3>1. reader' = [reader EXCEPT !.pc = "lost"] /\ sem' = FALSE
      BY <1>7, <2>2 DEF Reinit
    <3> QED BY <1>1, <2>2, <3>1 DEF Reading, Copying
  <2>3. CASE ~sem /\ reader.pc # "wait"
    <3>1. reader' = reader /\ sem' = FALSE
      BY <1>7, <2>3 DEF Reinit
    <3> QED BY <1>1, <2>3, <3>1 DEF Reading, Copying
  <2> QED BY <2>1, <2>2, <2>3
<1>8. CASE WriteSome
  BY <1>1, <1>8 DEF WriteSome, Reading, Copying
<1>9. CASE UNCHANGED <<reader, sem, rp, wp>>
  BY <1>1, <1>9 DEF Reading, Copying
<1> QED BY <1>2, <1>3, <1>4, <1>5, <1>6, <1>7, <1>8, <1>9
        DEF Next, RxThread, Reader, Receive, WriteNone, ringVars, vars

LEMMA TypeInvariance == TypeOK /\ Copying /\ [Next]_vars => TypeOK'
<1> SUFFICES ASSUME TypeOK, Copying, [Next]_vars PROVE TypeOK'
  OBVIOUS
<1>1. /\ Size \in Nat \ {0, 1} /\ rp \in 0..(Size - 1) /\ wp \in 0..(Size - 1)
      /\ buf \in [0..(Size - 1) -> Byte \cup {0}] /\ \A i \in 1..Used : Slot(i) \in 0..(Size - 1)
      /\ Used \in 0..(Size - 1)
  BY Pointers
<1>2. /\ buf' \in [0..(Size - 1) -> Byte \cup {0}] /\ rp' \in 0..(Size - 1)
      /\ wp' \in 0..(Size - 1)
  <2>1. CASE WriteSome
    BY <1>1, <2>1, WriteSomeDoes DEF WriteSome
  <2>2. CASE EndCopy
    BY <1>1, <2>2, EndCopyDoes
  <2>5. CASE CopyFails
    BY <1>1, <2>5, CopyFailsDoes
  <2>3. CASE Reinit
    BY <1>1, <2>3, ReinitDoes
  <2>4. CASE OtherStep
    BY <1>1, <2>4, OthersDo
  <2> QED BY <2>1, <2>2, <2>3, <2>4, <2>5, Steps
<1>3. /\ got' \in Seq(Byte \cup {0}) /\ Len(got') < Size /\ last' \in 0..MaxBytes
  <2>1. CASE EndCopy
    <3>1. Taken \in 1..(Size - 1) /\ \A i \in 1..Taken : Slot(i) \in 0..(Size - 1)
      BY <1>1, <2>1, EndCopyDoes
    <3>2. got' = [i \in 1..Taken |-> buf[Slot(i)]] /\ last' = buf[Slot(Taken)]
      BY <2>1, EndCopyDoes
    <3> HIDE DEF Taken
    <3>3. got' \in Seq(Byte \cup {0}) /\ Len(got') = Taken
      BY <1>1, <3>1, <3>2
    <3>4. Byte \cup {0} = 0..MaxBytes
      BY SerialRingAssumption DEF Byte
    <3>5. Taken \in 1..Taken
      BY <3>1
    <3> QED BY <1>1, <3>1, <3>2, <3>3, <3>4, <3>5
  <2>2. CASE UNCHANGED <<got, last>>
    BY <2>2 DEF TypeOK
  <2> QED BY <2>1, <2>2, Steps, OthersDo DEF WriteSome, CopyFails, Reinit
<1>4. {allocated', restarted'} \subseteq BOOLEAN
  <2>1. {allocated, restarted} \subseteq BOOLEAN
    BY DEF TypeOK
  <2> QED BY <2>1
          DEF Next, RxThread, Reader, Receive, WriteSome, WriteNone, Reinit, ReadCall, ReadEmpty,
              Woken, Signal, StartCopy, EndCopy, CopyFails, ringVars, vars
<1>5. reinits' \in 0..MaxReinit
  <2>1. reinits \in 0..MaxReinit /\ MaxReinit \in Nat
    BY SerialRingAssumption DEF TypeOK
  <2>2. CASE Reinit
    BY <2>1, <2>2 DEF Reinit
  <2>3. CASE UNCHANGED reinits
    BY <2>1, <2>3
  <2> QED BY <2>2, <2>3, Steps, OthersDo DEF WriteSome, EndCopy, CopyFails
<1>6. faults' \in 0..MaxFaults
  <2>1. faults \in 0..MaxFaults /\ MaxFaults \in Nat
    BY SerialRingAssumption DEF TypeOK
  <2>2. CASE CopyFails
    BY <2>1, <2>2 DEF CopyFails
  <2>3. CASE UNCHANGED faults
    BY <2>1, <2>3
  <2> QED BY <2>2, <2>3, Steps, OthersDo DEF WriteSome, EndCopy, Reinit
<1> QED BY <1>2, <1>3, <1>4, <1>5, <1>6, ReceivingType, ReadingType DEF TypeOK, Reading, Receiving
-----------------------------------------------------------------------------
(* The order of the bytes *)

\* What the receive thread has to say of the numbers it writes
LEMMA Counters ==
    ASSUME TypeOK
    PROVE  /\ rx.base \in Nat /\ rx.len \in Nat /\ rx.done \in Nat /\ rx.written \in Nat
           /\ sent \in 0..MaxBytes /\ MaxBytes \in Nat /\ last \in Nat /\ Used \in Nat
           /\ rx.base + rx.len <= sent /\ Top \in 0..sent
<1>1. /\ rx.base \in Nat /\ rx.len \in Nat /\ rx.done \in Nat /\ rx.written \in Nat
      /\ sent \in 0..MaxBytes /\ MaxBytes \in Nat /\ last \in Nat /\ Used \in Nat
      /\ rx.base + rx.len <= sent /\ (rx.pc = "write" => rx.done + rx.written < rx.len)
  BY SerialRingAssumption, Pointers DEF TypeOK
<1> QED BY <1>1 DEF Top

LEMMA SentOnlyHolds == Inv /\ [Next]_vars => SentOnly'
<1> SUFFICES ASSUME TypeOK, Copying, SentOnly, [Next]_vars PROVE SentOnly'
  BY DEF Inv
<1>1. sent \in Nat /\ sent' \in Nat /\ sent <= sent' /\ Used \in Nat
  <2>1. sent \in Nat /\ sent' \in Nat /\ Used \in Nat
    BY Counters, ReceivingType, SerialRingAssumption
  <2>2. ASSUME NEW len \in PacketLengths, Receive(len) PROVE sent <= sent'
    BY <2>1, <2>2, SerialRingAssumption DEF Receive
  <2>3. CASE UNCHANGED sent
    BY <2>1, <2>3
  <2> QED BY <2>1, <2>2, <2>3
          DEF Next, RxThread, Reader, WriteSome, WriteNone, Reinit, ReadCall, ReadEmpty, Woken,
              Signal, StartCopy, EndCopy, CopyFails, vars
<1>2. \A i \in 1..Used : buf[Slot(i)] \in 1..sent'
  BY <1>1 DEF SentOnly
<1>3. CASE WriteSome
  <2>1. /\ Written \in Nat /\ Used' = Used + Written
        /\ \A i \in 1..Used : buf'[Slot(i)'] = buf[Slot(i)]
        /\ \A i \in (Used + 1)..(Used + Written) :
              buf'[Slot(i)'] = rx.base + rx.done + rx.written + (i - Used)
        /\ rx.base + rx.done + rx.written + Written <= rx.base + rx.len
    BY <1>3, WriteSomeDoes
  <2> HIDE DEF Written
  <2>2. ASSUME NEW i \in (Used + 1)..(Used + Written)
        PROVE  rx.base + rx.done + rx.written + (i - Used) \in 1..sent'
    BY <1>1, <2>1, <2>2, Counters
  <2>3. \A i \in 1..(Used + Written) : i \in 1..Used \/ i \in (Used + 1)..(Used + Written)
    BY <1>1, <2>1
  <2> QED BY <1>2, <2>1, <2>2, <2>3 DEF SentOnly
<1>4. CASE EndCopy
  <2>1. /\ Taken \in 1..Used /\ Used' = Used - Taken
        /\ \A i \in 1..(Used - Taken) : buf'[Slot(i)'] = buf[Slot(Taken + i)]
    BY <1>4, EndCopyDoes
  <2> HIDE DEF Taken
  <2>2. \A i \in 1..(Used - Taken) : Taken + i \in 1..Used
    BY <1>1, <2>1
  <2> QED BY <1>2, <2>1, <2>2 DEF SentOnly
<1>5. CASE Reinit
  <2>1. Used' = 0 /\ \A i \in 1..0 : FALSE
    BY <1>5, ReinitDoes
  <2> QED BY <2>1 DEF SentOnly
<1>6. CASE OtherStep
  BY <1>2, <1>6, OthersDo DEF SentOnly
<1>7. CASE CopyFails
  <2>1. PICK t \in 0..(Used - 1) :
            Used' = Used - t /\ \A i \in 1..(Used - t) : buf'[Slot(i)'] = buf[Slot(t + i)]
    BY <1>7, CopyFailsDoes
  <2>2. \A i \in 1..(Used - t) : t + i \in 1..Used
    BY <1>1
  <2> QED BY <1>2, <2>1, <2>2 DEF SentOnly
<1> QED BY <1>3, <1>4, <1>5, <1>6, <1>7, Steps

\* Writing starts behind the last byte written, until the thread starts a packet
\* again.
LEMMA TopSteps ==
    TypeOK /\ [Next]_vars /\ ~restarted' =>
        /\ ~restarted
        /\ IF WriteSome THEN Top' \in Nat /\ Top' >= Top + Written ELSE Top' \in Nat /\ Top' >= Top
<1> SUFFICES ASSUME TypeOK, [Next]_vars, ~restarted'
             PROVE  /\ ~restarted
                    /\ WriteSome => Top' \in Nat /\ Top' >= Top + Written
                    /\ ~WriteSome => Top' \in Nat /\ Top' >= Top
  OBVIOUS
<1>1. /\ rx.base \in Nat /\ rx.len \in Nat /\ rx.done \in Nat /\ rx.written \in Nat
      /\ sent \in Nat /\ rx.base + rx.len <= sent /\ Top \in 0..sent
      /\ rx.pc = "write" => Top = rx.base + rx.done + rx.written
      /\ rx.pc # "write" => Top = sent
  BY Counters, SerialRingAssumption DEF Top
<1>2. ~restarted
  <2>1. restarted \in BOOLEAN
    BY DEF TypeOK
  <2> QED BY <2>1
          DEF Next, RxThread, Reader, Receive, WriteSome, WriteNone, Reinit, ReadCall, ReadEmpty,
              Woken, Signal, StartCopy, EndCopy, CopyFails, vars
<1>3. ASSUME NEW len \in PacketLengths, Receive(len)
      PROVE  Top' \in Nat /\ Top' >= Top
  <2>1. len \in Nat /\ sent' = sent + len /\ rx.pc # "write"
    BY <1>3, SerialRingAssumption DEF Receive
  <2>2. \/ rx' = [pc |-> "write", base |-> sent, len |-> len, done |-> 0, written |-> 0]
        \/ rx' = [pc |-> "idle", base |-> 0, len |-> 0, done |-> 0, written |-> 0]
    BY <1>3 DEF Receive, RxIdle
  <2> QED BY <1>1, <2>1, <2>2 DEF Top
<1>4. ASSUME WriteSome PROVE Top' \in Nat /\ Top' >= Top + Written
  <2>1. /\ Written \in Nat /\ sent' = sent /\ rx.pc = "write"
        /\ rx.base + rx.done + rx.written + Written <= rx.base + rx.len
    BY <1>4, WriteSomeDoes DEF WriteSome
  <2>2. rx' = IF rx.done + rx.written + Written = rx.len THEN RxIdle
              ELSE [rx EXCEPT !.written = rx.written + Written]
    BY <1>4 DEF WriteSome, Written
  <2> HIDE DEF Written
  <2>3. CASE rx.done + rx.written + Written = rx.len
    <3>1. Top' = sent
      BY <2>1, <2>2, <2>3 DEF Top, RxIdle
    <3> QED BY <1>1, <2>1, <2>3, <3>1
  <2>4. CASE rx.done + rx.written + Written # rx.len
    <3>1. /\ rx'.pc = "write" /\ rx'.base = rx.base /\ rx'.done = rx.done
          /\ rx'.written = rx.written + Written
      BY <2>1, <2>2, <2>4 DEF TypeOK
    <3>2. Top' = rx.base + rx.done + (rx.written + Written)
      BY <3>1 DEF Top
    <3> QED BY <1>1, <2>1, <3>2
  <2> QED BY <1>4, <2>3, <2>4
<1>5. ASSUME WriteNone PROVE Top' \in Nat /\ Top' >= Top
  <2>1. rx' = [rx EXCEPT !.written = 0] /\ sent' = sent /\ rx.written = 0 /\ rx.pc = "write"
    <3>1. rx' = [rx EXCEPT !.written = 0] /\ sent' = sent /\ ~(rx.written > 0) /\ rx.pc = "write"
      BY <1>5 DEF WriteNone
    <3> QED BY <1>1, <3>1
  <2>2. rx'.pc = rx.pc /\ rx'.base = rx.base /\ rx'.done = rx.done /\ rx'.written = rx.written
    BY <2>1 DEF TypeOK
  <2> QED BY <1>1, <2>1, <2>2 DEF Top
<1>6. ASSUME Reinit PROVE Top' \in Nat /\ Top' >= Top
  <2>1. rx'.pc # "write" /\ sent' = sent /\ rx.pc # "write"
    BY <1>6 DEF Reinit, Undefined, TypeOK
  <2> QED BY <1>1, <2>1 DEF Top
<1>7. ASSUME UNCHANGED <<rx, sent>> PROVE Top' \in Nat /\ Top' >= Top
  BY <1>1, <1>7 DEF Top
<1>8. \/ WriteSome \/ WriteNone \/ Reinit \/ UNCHANGED <<rx, sent>>
      \/ \E len \in PacketLengths : Receive(len)
  BY DEF Next, RxThread, Reader, ReadCall, ReadEmpty, Woken, Signal, StartCopy, EndCopy, CopyFails, vars
<1> QED BY <1>2, <1>3, <1>4, <1>5, <1>6, <1>7, <1>8

LEMMA OrderedHolds == Inv /\ [Next]_vars => Ordered'
<1> SUFFICES ASSUME TypeOK, Copying, Ordered, [Next]_vars, ~restarted'
             PROVE  /\ last' <= Top'
                    /\ \A i \in 1..Used' :
                        /\ buf'[Slot(i)'] > last'
                        /\ buf'[Slot(i)'] <= Top'
                        /\ \A j \in 1..Used' : i < j => buf'[Slot(i)'] < buf'[Slot(j)']
  BY DEF Inv, Ordered
<1>1. /\ last <= Top
      /\ \A i \in 1..Used :
            /\ buf[Slot(i)] > last
            /\ buf[Slot(i)] <= Top
            /\ \A j \in 1..Used : i < j => buf[Slot(i)] < buf[Slot(j)]
  BY TopSteps DEF Ordered
<1>2. Top \in Nat /\ Top' \in Nat /\ Used \in Nat /\ last \in Nat
      /\ \A i \in 1..Used : buf[Slot(i)] \in Nat
  <2>1. Byte \cup {0} \subseteq Nat
    BY SerialRingAssumption DEF Byte
  <2>2. \A i \in 1..Used : buf[Slot(i)] \in Byte \cup {0}
    BY Pointers
  <2>3. Top \in Nat /\ Used \in Nat /\ last \in Nat
    BY Counters
  <2>4. Top' \in Nat
    BY TopSteps
  <2> QED BY <2>1, <2>2, <2>3, <2>4
<1>3. CASE WriteSome
  <2>1. /\ Written \in Nat /\ Used' = Used + Written
        /\ \A i \in 1..Used : buf'[Slot(i)'] = buf[Slot(i)]
        /\ \A i \in (Used + 1)..(Used + Written) : buf'[Slot(i)'] = Top + (i - Used)
        /\ last' = last /\ Top' >= Top + Written
    BY <1>3, WriteSomeDoes, TopSteps DEF WriteSome, Top
  <2> HIDE DEF Written
  <2> DEFINE new(i) == buf'[Slot(i)']
             old(i) == buf[Slot(i)]
  <2>2. /\ \A i \in 1..Used : new(i) = old(i) /\ old(i) \in Nat /\ old(i) > last /\ old(i) <= Top
        /\ \A i \in (Used + 1)..(Used + Written) : new(i) = Top + (i - Used)
        /\ \A i, j \in 1..Used : i < j => old(i) < old(j)
    BY <1>1, <1>2, <2>1
  <2> HIDE DEF new, old
  <2>3. ASSUME NEW i \in 1..(Used + Written)
        PROVE  /\ new(i) > last /\ new(i) <= Top'
               /\ \A j \in 1..(Used + Written) : i < j => new(i) < new(j)
    <3>1. CASE i \in 1..Used
      BY <1>1, <1>2, <2>1, <2>2, <3>1
    <3>2. CASE i \in (Used + 1)..(Used + Written)
      BY <1>1, <1>2, <2>1, <2>2, <3>2
    <3> QED BY <1>2, <2>1, <3>1, <3>2
  <2> QED BY <1>1, <1>2, <2>1, <2>3 DEF new
<1>4. CASE EndCopy
  <2>1. /\ Taken \in 1..Used /\ Used' = Used - Taken /\ last' = buf[Slot(Taken)]
        /\ \A i \in 1..(Used - Taken) : buf'[Slot(i)'] = buf[Slot(Taken + i)]
        /\ Top' >= Top
    <3>1. ~WriteSome
      BY <1>4 DEF EndCopy, WriteSome, TypeOK
    <3> QED BY <1>4, <3>1, EndCopyDoes, TopSteps
  <2> HIDE DEF Taken
  <2>2. \A i \in 1..(Used - Taken) : Taken + i \in 1..Used /\ Taken < Taken + i
    BY <1>2, <2>1
  <2>3. \A i, j \in 1..(Used - Taken) : i < j => Taken + i < Taken + j
    BY <1>2, <2>1
  <2> QED BY <1>1, <1>2, <2>1, <2>2, <2>3
<1>5. CASE Reinit
  <2>1. Used' = 0 /\ \A i \in 1..0 : FALSE
    BY <1>5, ReinitDoes
  <2>3. last' = last
    BY <1>5 DEF Reinit
  <2>2. Top' >= Top
    BY <1>5, TopSteps DEF Reinit, WriteSome
  <2> QED BY <1>1, <1>2, <2>1, <2>2, <2>3
<1>6. CASE OtherStep /\ ~WriteSome
  BY <1>1, <1>2, <1>6, OthersDo, TopSteps
<1>7. CASE CopyFails
  <2>1. PICK t \in 0..(Used - 1) :
            Used' = Used - t /\ \A i \in 1..(Used - t) : buf'[Slot(i)'] = buf[Slot(t + i)]
    BY <1>7, CopyFailsDoes
  <2>2. last' = last /\ Top' >= Top
    <3>1. ~WriteSome
      BY <1>7 DEF CopyFails, WriteSome, TypeOK
    <3> QED BY <1>7, <3>1, CopyFailsDoes, TopSteps
  <2>3. \A i \in 1..(Used - t) : t + i \in 1..Used
    BY <1>2
  <2>4. \A i, j \in 1..(Used - t) : i < j => t + i < t + j
    BY <1>2
  <2> QED BY <1>1, <1>2, <2>1, <2>2, <2>3, <2>4
<1> QED BY <1>3, <1>4, <1>5, <1>6, <1>7, Steps
-----------------------------------------------------------------------------
(* The theorems *)

LEMMA InitInv == Init => Inv
<1> SUFFICES ASSUME Init PROVE Inv
  OBVIOUS
<1> USE SerialRingAssumption DEF Init, RxIdle, ReadIdle
<1>1. Used = 0 /\ \A i \in 1..0 : FALSE
  BY DEF Used
<1>2. <<>> \in Seq(Byte \cup {0}) /\ Len(<<>>) = 0
  OBVIOUS
<1>3. TypeOK
  <2>1. 0 \in 0..(Size - 1) /\ 0 \in 0..MaxBytes /\ 0 \in 0..MaxReinit /\ 0 \in 0..MaxFaults /\ 0 < Size
    OBVIOUS
  <2>2. buf \in [0..(Size - 1) -> Byte \cup {0}]
    OBVIOUS
  <2>3. rx \in [pc : {"idle", "write", "undefined"}, base : 0..MaxBytes, len : 0..(Size - 1),
                done : 0..(Size - 1), written : 0..(Size - 1)]
        /\ rx.base + rx.len <= sent /\ rx.pc # "write"
    BY <2>1
  <2>4. reader \in [pc : {"idle", "down", "wait", "lost", "copy", "undefined"},
                    size : ReadSizes \cup {0}, n : 0..(Size - 1)]
        /\ reader.pc = "idle"
    BY <2>1
  <2>5. sem = (reader.pc = "copy")
    BY <2>4
  <2> QED BY <1>2, <2>1, <2>2, <2>3, <2>4, <2>5 DEF TypeOK
<1>4. Copying /\ SentOnly
  BY <1>1 DEF Copying, SentOnly
<1>5. Ordered
  BY <1>1 DEF Ordered, Top
<1> QED BY <1>3, <1>4, <1>5 DEF Inv

LEMMA NextInv == Inv /\ [Next]_vars => Inv'
BY TypeInvariance, ReadingType, SentOnlyHolds, OrderedHolds DEF Inv

LEMMA Invariance == Spec => []Inv
BY InitInv, NextInv, PTL DEF Spec

\* The pointers stay inside the buffer, a packet's counters inside the packet, and
\* the semaphore is held exactly while a reader copies.
THEOREM TypeCorrect == Spec => []TypeOK
BY Invariance, PTL DEF Inv

\* Until the receive thread meets a full buffer in the middle of a packet and
\* starts it again, what the user has read and has still to read are bytes the ESP32
\* sent, none twice and none out of order, whatever the sizes of the packets, the
\* reads and the buffer, also across a reinitialisation and after a failed read.
THEOREM StreamStaysIntact == Spec => []StreamIntact
<1>1. ASSUME Inv, ~restarted PROVE Increasing(<<last>> \o Content)
  <2>1. Content = [i \in 1..Used |-> buf[Slot(i)]] /\ Used \in Nat
    BY <1>1, ContentIs, Counters DEF Inv
  <2>2. /\ \A i \in 1..Used : Content[i] > last
        /\ \A i, j \in 1..Used : i < j => Content[i] < Content[j]
    BY <1>1, <2>1 DEF Inv, Ordered
  <2>3. Content \in Seq(Nat) /\ Len(Content) = Used /\ last \in Nat
    <3>1. \A i \in 1..Used : buf[Slot(i)] \in Nat
      BY <1>1, Counters DEF Inv, SentOnly
    <3> QED BY <1>1, <2>1, <3>1, Counters DEF Inv
  <2> DEFINE s == <<last>> \o Content
  <2>4. Len(s) = Used + 1 /\ s[1] = last /\ \A i \in 1..Used : s[i + 1] = Content[i]
    BY <2>1, <2>3
  <2> HIDE DEF s
  <2>5. ASSUME NEW i \in 1..Used PROVE s[i] < s[i + 1]
    <3>1. CASE i = 1
      BY <2>2, <2>3, <2>4, <3>1
    <3>2. CASE i # 1
      <4>1. i - 1 \in 1..Used /\ i - 1 < i /\ (i - 1) + 1 = i
        BY <2>1, <3>2
      <4> QED BY <2>2, <2>4, <4>1
    <3> QED BY <3>1, <3>2
  <2>6. Increasing(s)
    BY <2>1, <2>4, <2>5 DEF Increasing
  <2> QED BY <2>6 DEF s
<1>2. Inv => StreamIntact
  BY <1>1 DEF StreamIntact
<1> QED BY <1>2, Invariance, PTL

-----------------------------------------------------------------------------
(* The refinement: Content is the queue of ByteQueue *)

\* Content is a sequence of bytes.
LEMMA ContentType ==
    ASSUME Inv
    PROVE  /\ Content \in Seq(Byte) /\ Len(Content) = Used /\ Used \in 0..(Size - 1)
           /\ Size \in Nat \ {0, 1}
           /\ \A i \in 1..Used : Content[i] = buf[Slot(i)]
<1>1. Content = [i \in 1..Used |-> buf[Slot(i)]] /\ Used \in 0..(Size - 1) /\ Size \in Nat \ {0, 1}
  BY ContentIs, Pointers DEF Inv
<1>2. \A i \in 1..Used : buf[Slot(i)] \in Byte
  BY Counters DEF Inv, SentOnly, Byte
<1> QED BY <1>1, <1>2

LEMMA ContentTypeNext ==
    ASSUME Inv'
    PROVE  /\ Content' \in Seq(Byte) /\ Len(Content') = Used' /\ Used' \in 0..(Size - 1)
           /\ \A i \in 1..Used' : Content'[i] = buf'[Slot(i)']
<1>1. Content' = [i \in 1..Used' |-> buf'[Slot(i)']]
  BY ContentNext DEF Inv
<1>2. Used' \in 0..(Size - 1) /\ Size \in Nat
  <2>1. rp' \in 0..(Size - 1) /\ wp' \in 0..(Size - 1) /\ Size \in Nat
    BY SerialRingAssumption DEF Inv, TypeOK
  <2> QED BY <2>1, UsedRange DEF Used
<1>3. \A i \in 1..Used' : buf'[Slot(i)'] \in Byte
  <2>1. sent' \in 0..MaxBytes /\ MaxBytes \in Nat
    BY SerialRingAssumption DEF Inv, TypeOK
  <2>2. \A i \in 1..Used' : buf'[Slot(i)'] \in 1..sent'
    BY DEF Inv, SentOnly
  <2> HIDE DEF Inv
  <2> QED BY <2>1, <2>2 DEF Byte
<1> QED BY <1>1, <1>2, <1>3

\* A write puts as many bytes behind the others as there is room for.
LEMMA WriteRefines == Inv /\ Inv' /\ WriteSome => Queue!Write
<1> SUFFICES ASSUME Inv, Inv', WriteSome PROVE Queue!Write
  OBVIOUS
<1>1. /\ Written \in 1..(Size - 1) /\ Used' = Used + Written
      /\ \A i \in 1..Used : buf'[Slot(i)'] = buf[Slot(i)]
  BY WriteSomeDoes DEF Inv
<1> HIDE DEF Written
<1>2. Len(Content') \in (Len(Content) + 1)..(Size - 1)
  BY <1>1, ContentType, ContentTypeNext
<1>3. SubSeq(Content', 1, Len(Content)) = Content
  <2>1. \A i \in 1..Used : i \in 1..Used' /\ Content'[i] = Content[i]
    BY <1>1, ContentType, ContentTypeNext
  <2> QED BY <1>1, <2>1, ContentType, ContentTypeNext
<1>4. UNCHANGED <<got, reinits, faults>>
  BY DEF WriteSome
<1> QED BY <1>2, <1>3, <1>4, ContentTypeNext DEF Queue!Write

\* A read takes them from the front.
LEMMA ReadRefines == Inv /\ Inv' /\ EndCopy => Queue!Read
<1> SUFFICES ASSUME Inv, Inv', EndCopy PROVE Queue!Read
  OBVIOUS
<1>1. /\ Taken \in 1..Used /\ Used' = Used - Taken
      /\ got' = [i \in 1..Taken |-> buf[Slot(i)]]
      /\ \A i \in 1..(Used - Taken) : buf'[Slot(i)'] = buf[Slot(Taken + i)]
  BY EndCopyDoes DEF Inv
<1> HIDE DEF Taken
<1>2. got' = SubSeq(Content, 1, Taken)
  <2>1. \A i \in 1..Taken : i \in 1..Used
    BY <1>1, ContentType
  <2> QED BY <1>1, <2>1, ContentType
<1>3. Content' = SubSeq(Content, Taken + 1, Len(Content))
  <2>1. /\ Content \in Seq(Byte) /\ Len(Content) = Used /\ Used \in Nat /\ Taken \in 1..Used
        /\ Content' \in Seq(Byte) /\ Len(Content') = Used - Taken
    BY <1>1, ContentType, ContentTypeNext
  <2>2. ASSUME NEW i \in 1..(Used - Taken) PROVE Content'[i] = Content[Taken + i]
    <3>1. Taken + i \in 1..Used /\ i \in 1..Used'
      BY <1>1, <2>1
    <3> QED BY <1>1, <3>1, ContentType, ContentTypeNext
  <2> DEFINE rest == SubSeq(Content, Taken + 1, Len(Content))
  <2>3. rest \in Seq(Byte) /\ Len(rest) = Used - Taken
        /\ \A i \in 1..(Used - Taken) : rest[i] = Content[Taken + i]
    BY <2>1
  <2> HIDE DEF rest
  <2>4. Content' = rest
    BY <2>1, <2>2, <2>3
  <2> QED BY <2>4 DEF rest
<1>4. UNCHANGED <<reinits, faults>> /\ Taken \in 1..Len(Content)
  BY <1>1, ContentType DEF EndCopy
<1> QED BY <1>2, <1>3, <1>4 DEF Queue!Read

\* A read that fails may take some, but not all, and returns nothing.
LEMMA FailureRefines == Inv /\ Inv' /\ CopyFails => Queue!FailedRead
<1> SUFFICES ASSUME Inv, Inv', CopyFails PROVE Queue!FailedRead
  OBVIOUS
<1>1. PICK t \in 0..(Used - 1) :
          Used' = Used - t /\ \A i \in 1..(Used - t) : buf'[Slot(i)'] = buf[Slot(t + i)]
  BY CopyFailsDoes DEF Inv
<1>2. Content' = SubSeq(Content, t + 1, Len(Content))
  <2>1. /\ Content \in Seq(Byte) /\ Len(Content) = Used /\ Used \in Nat /\ t \in 0..(Used - 1)
        /\ Content' \in Seq(Byte) /\ Len(Content') = Used - t
    BY <1>1, ContentType, ContentTypeNext
  <2>2. ASSUME NEW i \in 1..(Used - t) PROVE Content'[i] = Content[t + i]
    <3>1. t + i \in 1..Used /\ i \in 1..Used'
      BY <1>1, <2>1
    <3> QED BY <1>1, <3>1, ContentType, ContentTypeNext
  <2> DEFINE rest == SubSeq(Content, t + 1, Len(Content))
  <2>3. rest \in Seq(Byte) /\ Len(rest) = Used - t
        /\ \A i \in 1..(Used - t) : rest[i] = Content[t + i]
    BY <2>1
  <2> HIDE DEF rest
  <2>4. Content' = rest
    BY <2>1, <2>2, <2>3
  <2> QED BY <2>4 DEF rest
<1>3. /\ faults' = faults + 1 /\ UNCHANGED <<got, reinits>>
      /\ t \in 0..(Len(Content) - 1)
  BY <1>1, ContentType DEF CopyFails
<1> QED BY <1>2, <1>3 DEF Queue!FailedRead

\* A reinitialisation empties the queue.
LEMMA ReinitRefines == Inv /\ Inv' /\ Reinit => Queue!Reset
<1> SUFFICES ASSUME Inv, Inv', Reinit PROVE Queue!Reset
  OBVIOUS
<1>1. Used' = 0
  BY ReinitDoes DEF Inv
<1>2. Content' = <<>>
  BY <1>1, ContentTypeNext
<1> QED BY <1>2 DEF Reinit, Queue!Reset

\* The other steps are none of the queue's.
LEMMA OthersRefine == Inv /\ Inv' /\ OtherStep => UNCHANGED <<Content, got, reinits, faults>>
<1> SUFFICES ASSUME Inv, Inv', OtherStep PROVE UNCHANGED <<Content, got, reinits, faults>>
  OBVIOUS
<1>1. Used' = Used /\ \A i : buf'[Slot(i)'] = buf[Slot(i)]
  BY OthersDo
<1>2. Content' = Content
  BY <1>1, ContentIs, ContentNext DEF Inv
<1> QED BY <1>2, OthersDo

\* esp_rb.c, with its pointers that wrap around, its byte that is never used and
\* its two pieces for a write and a read, is a queue of bytes that is emptied when
\* the device is set up again: none is repeated or reordered in it, and none is lost
\* but to a read that fails, which takes some of the bytes at most.
THEOREM RingImplementsQueue == Spec => ImplementsByteQueue
<1>1. Init => Queue!Init
  <2>1. ASSUME Init PROVE Content = <<>>
    <3>1. Used = 0
      BY <2>1 DEF Init, Used
    <3> QED BY <2>1, <3>1, InitInv, ContentType
  <2> QED BY <2>1 DEF Init, Queue!Init
<1>2. Inv /\ Inv' /\ [Next]_vars => [Queue!Next]_<<Content, got, reinits, faults>>
  BY WriteRefines, ReadRefines, FailureRefines, ReinitRefines, OthersRefine, Steps DEF Queue!Next
<1> QED BY <1>1, <1>2, Invariance, PTL DEF ImplementsByteQueue, Queue!Spec, Spec
=============================================================================
