-------------------------- MODULE CommPipe_proofs --------------------------
(***************************************************************************)
(* The pipe's safety for every ring size, chunk size, message length and   *)
(* number of items.                                                        *)
(***************************************************************************)
EXTENDS CommPipe, Integers, Sequences, TLAPS

USE PipeAssumption

\* The writer (the reader) is between its wait for the lock and its post of it.
WHolds == wpc = "full" \/ (slow /\ wpc \in {"put", "publish", "wake", "post", "done"})
RHolds == rpc \in {"empty", "unlock", "take", "wake", "done"}

Mutex == /\ lock + Count(WHolds) + Count(RHolds) = 1
         /\ wpc \in {"lock", "full", "wait", "relock"} => slow

\* The unlocked path runs only while the reader is parked.
Unlocked == ~slow /\ wpc \in {"put", "publish", "wake"} => reader_waiting

\* The cursors are the two counts modulo Size, and the unread items are in the ring.
Cursors == /\ rdp = received % Size /\ wrp = sent % Size
           /\ received <= sent /\ sent - received <= Size - 1
Content == /\ \A k \in Nat : received <= k /\ k < sent => data[k % Size] = k + 1
           /\ wpc = "publish" => data[wrp] = sent + 1

\* A parked reader has fewer than Chunks items before it.
Parked == reader_waiting =>
            IF wpc = "wake" THEN sent - received <= Chunks ELSE sent - received < Chunks

\* A writer about to store has room; a sleeping one is woken to room.
Room == /\ wpc \in {"put", "publish", "relock"} => sent - received < Size - 1
        /\ writer_wait = 1 \/ rpc = "wake" => sent - received < Size - 1
        /\ writer_waiting => sent - received = Size - 1 \/ rpc = "wake"

\* A reader about to take has an item; a sleeping one is woken to an item.
Avail == rpc \in {"take", "relock"} \/ reader_wait = 1 \/ wpc \in {"wake", "post"}
           => received < sent

\* A writer inside its call has an item left to send.
Bound == wpc \notin {"idle", "wake", "post", "done"} => sent < MaxItems

Control == Bound /\ NoLostWakeup /\ Mutex /\ Unlocked /\ Parked /\ Room /\ Avail
IInv == TypeOK /\ Fifo /\ Cursors /\ Content /\ Control

-----------------------------------------------------------------------------
(* Arithmetic of the cursors. *)

LEMMA ModRange == ASSUME NEW a \in Nat PROVE a % Size \in Slots
  BY SMT DEF Slots

LEMMA ZeroMod == 0 % Size = 0
  BY SMT

LEMMA ModUnique ==
  ASSUME NEW q \in Nat, NEW r \in 0..(Size - 1) PROVE (Size * q + r) % Size = r
  BY SMT

LEMMA SuccRange == ASSUME NEW i \in Slots PROVE Succ(i) \in Slots
  BY SMT DEF Slots, Succ

LEMMA SuccMod == ASSUME NEW a \in Nat PROVE Succ(a % Size) = (a + 1) % Size
  <1>1. /\ a % Size \in 0..(Size - 1) /\ a \div Size \in Nat
        /\ a = Size * (a \div Size) + (a % Size)
    BY SMT
  <1>2. CASE a % Size = Size - 1
    <2>1. /\ a + 1 = Size * ((a \div Size) + 1) + 0
          /\ (a \div Size) + 1 \in Nat /\ 0 \in 0..(Size - 1)
      BY <1>1, <1>2, SMT
    <2>2. (a + 1) % Size = 0
      BY <1>1, <2>1, ModUnique, Zenon
    <2> QED BY <1>2, <2>2, SMT DEF Succ
  <1>3. CASE a % Size # Size - 1
    <2>1. a + 1 = Size * (a \div Size) + ((a % Size) + 1)
      BY <1>1, SMT
    <2>2. (a % Size) + 1 \in 0..(Size - 1)
      BY <1>1, <1>3, SMT
    <2>3. (a + 1) % Size = (a % Size) + 1
      BY <1>1, <2>1, <2>2, ModUnique, Zenon
    <2> QED BY <2>2, <2>3, SMT DEF Succ
  <1> QED BY <1>2, <1>3

LEMMA ModAdd ==
  ASSUME NEW a \in Nat, NEW b \in Nat PROVE ((a % Size) + b) % Size = (a + b) % Size
  <1> DEFINE c == (a % Size) + b
  <1>1. /\ a % Size \in 0..(Size - 1) /\ a \div Size \in Nat
        /\ a = Size * (a \div Size) + (a % Size)
    BY SMT
  <1>2. c \in Nat
    BY <1>1, SMT
  <1> HIDE DEF c
  <1>3. /\ c % Size \in 0..(Size - 1) /\ c \div Size \in Nat
        /\ c = Size * (c \div Size) + (c % Size)
    BY <1>2, SMT
  <1>4. /\ a + b = Size * ((a \div Size) + (c \div Size)) + (c % Size)
        /\ (a \div Size) + (c \div Size) \in Nat
    <2>1. a + b = Size * (a \div Size) + c
      BY <1>1, SMT DEF c
    <2>2. /\ Size * ((a \div Size) + (c \div Size)) = Size * (a \div Size) + Size * (c \div Size)
          /\ (a \div Size) + (c \div Size) \in Nat
      <3> DEFINE x == a \div Size
                 y == c \div Size
      <3>1. x \in Nat /\ y \in Nat
        BY <1>1, <1>3
      <3> HIDE DEF x, y
      <3>2. Size * (x + y) = Size * x + Size * y /\ x + y \in Nat
        BY <3>1, SMT
      <3> QED BY <3>2 DEF x, y
    <2> QED BY <1>1, <1>3, <2>1, <2>2, SMT
  <1>5. (a + b) % Size = c % Size
    BY <1>3, <1>4, ModUnique, Zenon
  <1> QED BY <1>5 DEF c

\* Fewer than Size apart, two counts use different slots.
LEMMA ModDistinct ==
  ASSUME NEW a \in Nat, NEW b \in Nat, a < b, b - a < Size
  PROVE a % Size # b % Size
  <1> DEFINE d == (b \div Size) - (a \div Size)
  <1>1. /\ a % Size \in 0..(Size - 1) /\ a \div Size \in Nat /\ a = Size * (a \div Size) + (a % Size)
        /\ b % Size \in 0..(Size - 1) /\ b \div Size \in Nat /\ b = Size * (b \div Size) + (b % Size)
    BY SMT
  <1>2. SUFFICES ASSUME a % Size = b % Size PROVE FALSE
    OBVIOUS
  <1>3. b - a = Size * d
    BY <1>1, <1>2, SMT
  <1>4. CASE d <= 0
    <2>1. Size * d <= 0
      BY <1>1, <1>4, SMT
    <2> QED BY <1>3, <2>1, SMT
  <1>5. CASE d >= 1
    <2>1. Size * d >= Size
      BY <1>1, <1>5, SMT
    <2> QED BY <1>3, <2>1, SMT
  <1> QED BY <1>1, <1>4, <1>5, SMT

\* The pipe's own count of its items is right.
LEMMA PendingIs ==
  ASSUME Cursors, sent \in Nat, received \in Nat
  PROVE Pending = sent - received
  BY SMT DEF Cursors, Pending

LEMMA FullIs ==
  ASSUME Cursors, sent \in Nat, received \in Nat
  PROVE /\ Succ(wrp) = rdp <=> sent - received = Size - 1
        /\ wrp = rdp <=> sent = received
  <1>1. Succ(wrp) = (sent + 1) % Size
    BY SuccMod DEF Cursors
  <1>2. sent # received => wrp # rdp
    <2>1. received < sent /\ sent - received < Size => received % Size # sent % Size
      BY ModDistinct, Zenon
    <2> QED BY <2>1, SMT DEF Cursors
  <1>3. sent - received < Size - 1 => (sent + 1) % Size # received % Size
    <2>1. /\ sent + 1 \in Nat
          /\ sent - received < Size - 1 => received < sent + 1 /\ (sent + 1) - received < Size
      BY SMT DEF Cursors
    <2> QED BY <2>1, ModDistinct, Zenon
  <1>4. sent - received = Size - 1 => (sent + 1) % Size = received % Size
    <2>1. /\ received % Size \in 0..(Size - 1) /\ (received \div Size) + 1 \in Nat
          /\ received = Size * (received \div Size) + (received % Size)
      BY SMT
    <2>2. sent - received = Size - 1
            => sent + 1 = Size * ((received \div Size) + 1) + (received % Size)
      BY <2>1, SMT
    <2> QED BY <2>1, <2>2, ModUnique, Zenon
  <1>5. sent - received < Size - 1 \/ sent - received = Size - 1
    BY SMT DEF Cursors
  <1>6. wrp = sent % Size /\ rdp = received % Size
    BY DEF Cursors
  <1>7. sent = received => wrp = rdp
    BY <1>6
  <1>8. Succ(wrp) = rdp <=> (sent + 1) % Size = received % Size
    BY <1>1, <1>6
  <1>9. (sent + 1) % Size = received % Size <=> sent - received = Size - 1
    BY <1>3, <1>4, <1>5, Zenon
  <1> QED BY <1>2, <1>7, <1>8, <1>9, Zenon

-----------------------------------------------------------------------------
LEMMA InvInit == Init => IInv
  <1> SUFFICES ASSUME Init PROVE IInv
    OBVIOUS
  <1>1. TypeOK /\ Fifo
    <2>1. 0 \in Slots
      BY SMT DEF Slots
    <2>2. data \in [Slots -> Nat] /\ rdp \in Slots /\ wrp \in Slots
      BY <2>1 DEF Init
    <2>3. sent \in Nat /\ received \in Nat /\ got \in Nat /\ Fifo
      BY SMT DEF Init, Fifo
    <2>4. lock \in 0..1 /\ reader_wait \in 0..1 /\ writer_wait \in 0..1
      BY SMT DEF Init
    <2> QED BY <2>2, <2>3, <2>4 DEF Init, TypeOK
  <1>2. Cursors /\ Content
    BY ZeroMod, SMT DEF Init, Cursors, Content
  <1>3. Control
    BY SMT DEF Init, Control, NoLostWakeup, Count, Mutex, WHolds, RHolds, Unlocked, Parked,
       Room, Avail, Bound
  <1> QED BY <1>1, <1>2, <1>3 DEF IInv

LEMMA InvWriter ==
  ASSUME IInv, Writer PROVE IInv'
  <1> USE DEF ring, flags, sems, writer, reader
  <1>1. CASE WBegin
    <2>1. Control'
      <3>1. CASE reader_waiting
        <4>1. /\ wpc = "idle" /\ wpc' = "put" /\ slow' = FALSE /\ sent < MaxItems
              /\ UNCHANGED <<ring, flags, sems, sent, reader>>
          BY <1>1, <3>1 DEF WBegin, IInv, TypeOK
        <4>2. NoLostWakeup'
          BY <4>1, SMT DEF IInv, Control, NoLostWakeup, Count
        <4>3. Mutex' /\ Unlocked'
          BY <3>1, <4>1, SMT DEF IInv, Control, Mutex, WHolds, RHolds, Unlocked, Count
        <4>4. sent - received < Chunks /\ sent \in Nat /\ received \in Nat
          BY <3>1, <4>1 DEF IInv, TypeOK, Control, Parked
        <4>5. sent - received < Size - 1
          BY <4>4, SMT
        <4>6. Parked' /\ Avail' /\ Bound'
          BY <4>1, SMT DEF IInv, Control, Parked, Avail, Bound
        <4>7. Room'
          BY <4>1, <4>5, SMT DEF IInv, Control, Room
        <4> QED BY <4>2, <4>3, <4>6, <4>7 DEF Control
      <3>2. CASE ~reader_waiting
        <4>1. /\ wpc = "idle" /\ wpc' = "lock" /\ slow' = TRUE /\ sent < MaxItems
              /\ UNCHANGED <<ring, flags, sems, sent, reader>>
          BY <1>1, <3>2 DEF WBegin, IInv, TypeOK
        <4>2. NoLostWakeup'
          BY <4>1, SMT DEF IInv, Control, NoLostWakeup, Count
        <4>3. Mutex' /\ Unlocked'
          BY <4>1, SMT DEF IInv, Control, Mutex, WHolds, RHolds, Unlocked, Count
        <4>4. Parked' /\ Avail' /\ Room' /\ Bound'
          BY <4>1, SMT DEF IInv, Control, Parked, Avail, Room, Bound
        <4> QED BY <4>2, <4>3, <4>4 DEF Control
      <3> QED BY <3>1, <3>2
    <2>2. Cursors' /\ Content'
      BY <1>1, SMT DEF WBegin, IInv, Cursors, Content
    <2>3. Fifo'
      BY <1>1 DEF WBegin, IInv, Fifo
    <2>4. TypeOK'
      <3>1. lock' \in 0..1 /\ reader_wait' \in 0..1 /\ writer_wait' \in 0..1
        BY <1>1, <2>1, SMT DEF WBegin, IInv, TypeOK, Control, Mutex, NoLostWakeup, Count
      <3>2. data' \in [Slots -> Nat] /\ rdp' \in Slots /\ wrp' \in Slots
        BY <1>1 DEF WBegin, IInv, TypeOK
      <3>3. sent' \in Nat /\ received' \in Nat /\ got' \in Nat
        BY <1>1 DEF WBegin, IInv, TypeOK
      <3> QED BY <1>1, <3>1, <3>2, <3>3 DEF WBegin, IInv, TypeOK
    <2> QED BY <2>1, <2>2, <2>3, <2>4 DEF IInv
  <1>2. CASE WLock
    <2>1. Control'
      BY <1>2, SMT DEF WLock, IInv, TypeOK, Cursors, Control, NoLostWakeup, Count, Mutex,
         WHolds, RHolds, Unlocked, Parked, Room, Avail, Bound
    <2>2. Cursors' /\ Content'
      BY <1>2, SMT DEF WLock, IInv, Cursors, Content
    <2>3. Fifo'
      BY <1>2 DEF WLock, IInv, Fifo
    <2>4. TypeOK'
      <3>1. lock' \in 0..1 /\ reader_wait' \in 0..1 /\ writer_wait' \in 0..1
        BY <1>2, <2>1, SMT DEF WLock, IInv, TypeOK, Control, Mutex, NoLostWakeup, Count
      <3>2. data' \in [Slots -> Nat] /\ rdp' \in Slots /\ wrp' \in Slots
        BY <1>2 DEF WLock, IInv, TypeOK
      <3>3. sent' \in Nat /\ received' \in Nat /\ got' \in Nat
        BY <1>2 DEF WLock, IInv, TypeOK
      <3> QED BY <1>2, <3>1, <3>2, <3>3 DEF WLock, IInv, TypeOK
    <2> QED BY <2>1, <2>2, <2>3, <2>4 DEF IInv
  <1>3. CASE WFull
    <2>1. Control'
      BY <1>3, FullIs, SMT DEF WFull, IInv, TypeOK, Cursors, Control, NoLostWakeup, Count, Mutex,
         WHolds, RHolds, Unlocked, Parked, Room, Avail, Bound
    <2>2. Cursors' /\ Content'
      BY <1>3, SMT DEF WFull, IInv, Cursors, Content
    <2>3. Fifo'
      BY <1>3 DEF WFull, IInv, Fifo
    <2>4. TypeOK'
      <3>1. lock' \in 0..1 /\ reader_wait' \in 0..1 /\ writer_wait' \in 0..1
        BY <1>3, <2>1, SMT DEF WFull, IInv, TypeOK, Control, Mutex, NoLostWakeup, Count
      <3>2. data' \in [Slots -> Nat] /\ rdp' \in Slots /\ wrp' \in Slots
        BY <1>3 DEF WFull, IInv, TypeOK
      <3>3. sent' \in Nat /\ received' \in Nat /\ got' \in Nat
        BY <1>3 DEF WFull, IInv, TypeOK
      <3> QED BY <1>3, <3>1, <3>2, <3>3 DEF WFull, IInv, TypeOK
    <2> QED BY <2>1, <2>2, <2>3, <2>4 DEF IInv
  <1>4. CASE WWait
    <2>1. Control'
      BY <1>4, SMT DEF WWait, IInv, TypeOK, Cursors, Control, NoLostWakeup, Count, Mutex,
         WHolds, RHolds, Unlocked, Parked, Room, Avail, Bound
    <2>2. Cursors' /\ Content'
      BY <1>4, SMT DEF WWait, IInv, Cursors, Content
    <2>3. Fifo'
      BY <1>4 DEF WWait, IInv, Fifo
    <2>4. TypeOK'
      <3>1. lock' \in 0..1 /\ reader_wait' \in 0..1 /\ writer_wait' \in 0..1
        BY <1>4, <2>1, SMT DEF WWait, IInv, TypeOK, Control, Mutex, NoLostWakeup, Count
      <3>2. data' \in [Slots -> Nat] /\ rdp' \in Slots /\ wrp' \in Slots
        BY <1>4 DEF WWait, IInv, TypeOK
      <3>3. sent' \in Nat /\ received' \in Nat /\ got' \in Nat
        BY <1>4 DEF WWait, IInv, TypeOK
      <3> QED BY <1>4, <3>1, <3>2, <3>3 DEF WWait, IInv, TypeOK
    <2> QED BY <2>1, <2>2, <2>3, <2>4 DEF IInv
  <1>5. CASE WPut
    <2>1. Control'
      BY <1>5, SMT DEF WPut, IInv, TypeOK, Cursors, Control, NoLostWakeup, Count, Mutex,
         WHolds, RHolds, Unlocked, Parked, Room, Avail, Bound
    <2>2. Cursors' /\ Content'
      <3>1. \A k \in Nat : received <= k /\ k < sent => k % Size # wrp
        <4> SUFFICES ASSUME NEW k \in Nat, received <= k, k < sent PROVE k % Size # wrp
          OBVIOUS
        <4>1. sent \in Nat /\ k < sent /\ sent - k < Size
          BY SMT DEF IInv, TypeOK, Cursors
        <4>2. k % Size # sent % Size
          BY <4>1, ModDistinct, Zenon
        <4> QED BY <4>2 DEF IInv, Cursors
      <3>2. /\ data' = [data EXCEPT ![wrp] = sent + 1] /\ wrp \in Slots
            /\ data \in [Slots -> Nat] /\ wrp' = wrp /\ rdp' = rdp /\ sent' = sent /\ received' = received
        BY <1>5 DEF WPut, IInv, TypeOK
      <3>3. data'[wrp] = sent + 1
        BY <3>2
      <3>4. \A k \in Nat : received <= k /\ k < sent => data'[k % Size] = k + 1
        <4> SUFFICES ASSUME NEW k \in Nat, received <= k, k < sent PROVE data'[k % Size] = k + 1
          OBVIOUS
        <4>1. k % Size \in Slots /\ k % Size # wrp
          BY <3>1, ModRange
        <4>2. data[k % Size] = k + 1
          BY DEF IInv, Content
        <4> QED BY <3>2, <4>1, <4>2
      <3>5. Cursors'
        BY <3>2 DEF IInv, Cursors
      <3> QED BY <3>2, <3>3, <3>4, <3>5 DEF Content
    <2>3. Fifo'
      BY <1>5 DEF WPut, IInv, Fifo
    <2>4. TypeOK'
      <3>1. lock' \in 0..1 /\ reader_wait' \in 0..1 /\ writer_wait' \in 0..1
        BY <1>5, <2>1, SMT DEF WPut, IInv, TypeOK, Control, Mutex, NoLostWakeup, Count
      <3>2. data' \in [Slots -> Nat] /\ rdp' \in Slots /\ wrp' \in Slots
        BY <1>5 DEF WPut, IInv, TypeOK
      <3>3. sent' \in Nat /\ received' \in Nat /\ got' \in Nat
        BY <1>5 DEF WPut, IInv, TypeOK
      <3> QED BY <1>5, <3>1, <3>2, <3>3 DEF WPut, IInv, TypeOK
    <2> QED BY <2>1, <2>2, <2>3, <2>4 DEF IInv
  <1>6. CASE WPublish
    <2>1. Control'
      BY <1>6, SMT DEF WPublish, IInv, TypeOK, Cursors, Control, NoLostWakeup, Count, Mutex,
         WHolds, RHolds, Unlocked, Parked, Room, Avail, Bound
    <2>2. Cursors' /\ Content'
      <3>1. Succ(wrp) = (sent + 1) % Size
        BY SuccMod DEF IInv, TypeOK, Cursors
      <3>2. wrp = sent % Size /\ data[wrp] = sent + 1
        BY <1>6 DEF WPublish, IInv, Cursors, Content
      <3>3. sent - received < Size - 1
        BY <1>6 DEF WPublish, IInv, Control, Room
      <3>4. Cursors'
        BY <1>6, <3>1, <3>3, SMT DEF WPublish, IInv, TypeOK, Cursors
      <3>5. ASSUME NEW k \in Nat, received <= k, k < sent + 1 PROVE data[k % Size] = k + 1
        <4>1. CASE k = sent
          BY <4>1, <3>2
        <4>2. CASE k # sent
          <5>1. k < sent
            BY <4>2, <3>5, SMT DEF IInv, TypeOK
          <5> QED BY <5>1, <3>5 DEF IInv, Content
        <4> QED BY <4>1, <4>2
      <3> QED BY <1>6, <3>4, <3>5 DEF WPublish, Content
    <2>3. Fifo'
      BY <1>6, SMT DEF WPublish, IInv, TypeOK, Fifo
    <2>4. TypeOK'
      <3>1. lock' \in 0..1 /\ reader_wait' \in 0..1 /\ writer_wait' \in 0..1
        BY <1>6, <2>1, SMT DEF WPublish, IInv, TypeOK, Control, Mutex, NoLostWakeup, Count
      <3>2. data' \in [Slots -> Nat] /\ rdp' \in Slots /\ wrp' \in Slots
        BY <1>6, SuccRange DEF WPublish, IInv, TypeOK
      <3>3. sent' \in Nat /\ received' \in Nat /\ got' \in Nat
        BY <1>6 DEF WPublish, IInv, TypeOK
      <3> QED BY <1>6, <3>1, <3>2, <3>3 DEF WPublish, IInv, TypeOK
    <2> QED BY <2>1, <2>2, <2>3, <2>4 DEF IInv
  <1>7. CASE WWake
    <2>1. Control'
      BY <1>7, PendingIs, SMT DEF WWake, IInv, TypeOK, Cursors, Control, NoLostWakeup, Count, Mutex,
         WHolds, RHolds, Unlocked, Parked, Room, Avail, Bound
    <2>2. Cursors' /\ Content'
      BY <1>7, SMT DEF WWake, IInv, Cursors, Content
    <2>3. Fifo'
      BY <1>7 DEF WWake, IInv, Fifo
    <2>4. TypeOK'
      <3>1. lock' \in 0..1 /\ reader_wait' \in 0..1 /\ writer_wait' \in 0..1
        BY <1>7, <2>1, SMT DEF WWake, IInv, TypeOK, Control, Mutex, NoLostWakeup, Count
      <3>2. data' \in [Slots -> Nat] /\ rdp' \in Slots /\ wrp' \in Slots
        BY <1>7 DEF WWake, IInv, TypeOK
      <3>3. sent' \in Nat /\ received' \in Nat /\ got' \in Nat
        BY <1>7 DEF WWake, IInv, TypeOK
      <3> QED BY <1>7, <3>1, <3>2, <3>3 DEF WWake, IInv, TypeOK
    <2> QED BY <2>1, <2>2, <2>3, <2>4 DEF IInv
  <1>8. CASE WPost
    <2>1. Control'
      BY <1>8, SMT DEF WPost, IInv, TypeOK, Cursors, Control, NoLostWakeup, Count, Mutex,
         WHolds, RHolds, Unlocked, Parked, Room, Avail, Bound
    <2>2. Cursors' /\ Content'
      BY <1>8, SMT DEF WPost, IInv, Cursors, Content
    <2>3. Fifo'
      BY <1>8 DEF WPost, IInv, Fifo
    <2>4. TypeOK'
      <3>1. lock' \in 0..1 /\ reader_wait' \in 0..1 /\ writer_wait' \in 0..1
        BY <1>8, <2>1, SMT DEF WPost, IInv, TypeOK, Control, Mutex, NoLostWakeup, Count
      <3>2. data' \in [Slots -> Nat] /\ rdp' \in Slots /\ wrp' \in Slots
        BY <1>8 DEF WPost, IInv, TypeOK
      <3>3. sent' \in Nat /\ received' \in Nat /\ got' \in Nat
        BY <1>8 DEF WPost, IInv, TypeOK
      <3> QED BY <1>8, <3>1, <3>2, <3>3 DEF WPost, IInv, TypeOK
    <2> QED BY <2>1, <2>2, <2>3, <2>4 DEF IInv
  <1>9. CASE WDone
    <2>1. Control'
      BY <1>9, SMT DEF WDone, IInv, TypeOK, Cursors, Control, NoLostWakeup, Count, Mutex,
         WHolds, RHolds, Unlocked, Parked, Room, Avail, Bound
    <2>2. Cursors' /\ Content'
      BY <1>9, SMT DEF WDone, IInv, Cursors, Content
    <2>3. Fifo'
      BY <1>9 DEF WDone, IInv, Fifo
    <2>4. TypeOK'
      <3>1. lock' \in 0..1 /\ reader_wait' \in 0..1 /\ writer_wait' \in 0..1
        BY <1>9, <2>1, SMT DEF WDone, IInv, TypeOK, Control, Mutex, NoLostWakeup, Count
      <3>2. data' \in [Slots -> Nat] /\ rdp' \in Slots /\ wrp' \in Slots
        BY <1>9 DEF WDone, IInv, TypeOK
      <3>3. sent' \in Nat /\ received' \in Nat /\ got' \in Nat
        BY <1>9 DEF WDone, IInv, TypeOK
      <3> QED BY <1>9, <3>1, <3>2, <3>3 DEF WDone, IInv, TypeOK
    <2> QED BY <2>1, <2>2, <2>3, <2>4 DEF IInv
  <1> QED
    BY <1>1, <1>2, <1>3, <1>4, <1>5, <1>6, <1>7, <1>8, <1>9 DEF Writer

LEMMA InvReader ==
  ASSUME IInv, Reader PROVE IInv'
  <1> USE DEF ring, flags, sems, writer, reader
  <1>1. CASE RLock
    <2>1. Control'
      BY <1>1, SMT DEF RLock, IInv, TypeOK, Cursors, Control, NoLostWakeup, Count, Mutex,
         WHolds, RHolds, Unlocked, Parked, Room, Avail, Bound
    <2>2. Cursors' /\ Content'
      BY <1>1, SMT DEF RLock, IInv, Cursors, Content
    <2>3. Fifo'
      BY <1>1 DEF RLock, IInv, Fifo
    <2>4. TypeOK'
      <3>1. lock' \in 0..1 /\ reader_wait' \in 0..1 /\ writer_wait' \in 0..1
        BY <1>1, <2>1, SMT DEF RLock, IInv, TypeOK, Control, Mutex, NoLostWakeup, Count
      <3>2. data' \in [Slots -> Nat] /\ rdp' \in Slots /\ wrp' \in Slots
        BY <1>1 DEF RLock, IInv, TypeOK
      <3>3. sent' \in Nat /\ received' \in Nat /\ got' \in Nat
        BY <1>1 DEF RLock, IInv, TypeOK
      <3> QED BY <1>1, <3>1, <3>2, <3>3 DEF RLock, IInv, TypeOK
    <2> QED BY <2>1, <2>2, <2>3, <2>4 DEF IInv
  <1>2. CASE REmpty
    <2>1. Control'
      BY <1>2, FullIs, SMT DEF REmpty, IInv, TypeOK, Cursors, Control, NoLostWakeup, Count, Mutex,
         WHolds, RHolds, Unlocked, Parked, Room, Avail, Bound
    <2>2. Cursors' /\ Content'
      BY <1>2, SMT DEF REmpty, IInv, Cursors, Content
    <2>3. Fifo'
      BY <1>2 DEF REmpty, IInv, Fifo
    <2>4. TypeOK'
      <3>1. lock' \in 0..1 /\ reader_wait' \in 0..1 /\ writer_wait' \in 0..1
        BY <1>2, <2>1, SMT DEF REmpty, IInv, TypeOK, Control, Mutex, NoLostWakeup, Count
      <3>2. data' \in [Slots -> Nat] /\ rdp' \in Slots /\ wrp' \in Slots
        BY <1>2 DEF REmpty, IInv, TypeOK
      <3>3. sent' \in Nat /\ received' \in Nat /\ got' \in Nat
        BY <1>2 DEF REmpty, IInv, TypeOK
      <3> QED BY <1>2, <3>1, <3>2, <3>3 DEF REmpty, IInv, TypeOK
    <2> QED BY <2>1, <2>2, <2>3, <2>4 DEF IInv
  <1>3. CASE RUnlock
    <2>1. Control'
      BY <1>3, SMT DEF RUnlock, IInv, TypeOK, Cursors, Control, NoLostWakeup, Count, Mutex,
         WHolds, RHolds, Unlocked, Parked, Room, Avail, Bound
    <2>2. Cursors' /\ Content'
      BY <1>3, SMT DEF RUnlock, IInv, Cursors, Content
    <2>3. Fifo'
      BY <1>3 DEF RUnlock, IInv, Fifo
    <2>4. TypeOK'
      <3>1. lock' \in 0..1 /\ reader_wait' \in 0..1 /\ writer_wait' \in 0..1
        BY <1>3, <2>1, SMT DEF RUnlock, IInv, TypeOK, Control, Mutex, NoLostWakeup, Count
      <3>2. data' \in [Slots -> Nat] /\ rdp' \in Slots /\ wrp' \in Slots
        BY <1>3 DEF RUnlock, IInv, TypeOK
      <3>3. sent' \in Nat /\ received' \in Nat /\ got' \in Nat
        BY <1>3 DEF RUnlock, IInv, TypeOK
      <3> QED BY <1>3, <3>1, <3>2, <3>3 DEF RUnlock, IInv, TypeOK
    <2> QED BY <2>1, <2>2, <2>3, <2>4 DEF IInv
  <1>4. CASE RWait
    <2>1. Control'
      BY <1>4, SMT DEF RWait, IInv, TypeOK, Cursors, Control, NoLostWakeup, Count, Mutex,
         WHolds, RHolds, Unlocked, Parked, Room, Avail, Bound
    <2>2. Cursors' /\ Content'
      BY <1>4, SMT DEF RWait, IInv, Cursors, Content
    <2>3. Fifo'
      BY <1>4 DEF RWait, IInv, Fifo
    <2>4. TypeOK'
      <3>1. lock' \in 0..1 /\ reader_wait' \in 0..1 /\ writer_wait' \in 0..1
        BY <1>4, <2>1, SMT DEF RWait, IInv, TypeOK, Control, Mutex, NoLostWakeup, Count
      <3>2. data' \in [Slots -> Nat] /\ rdp' \in Slots /\ wrp' \in Slots
        BY <1>4 DEF RWait, IInv, TypeOK
      <3>3. sent' \in Nat /\ received' \in Nat /\ got' \in Nat
        BY <1>4 DEF RWait, IInv, TypeOK
      <3> QED BY <1>4, <3>1, <3>2, <3>3 DEF RWait, IInv, TypeOK
    <2> QED BY <2>1, <2>2, <2>3, <2>4 DEF IInv
  <1>5. CASE RTake
    <2>1. Control'
      BY <1>5, SMT DEF RTake, IInv, TypeOK, Cursors, Control, NoLostWakeup, Count, Mutex,
         WHolds, RHolds, Unlocked, Parked, Room, Avail, Bound
    <2>0. /\ received \in Nat /\ sent \in Nat /\ received < sent /\ received + 1 <= sent
          /\ got' = data[rdp] /\ rdp' = Succ(rdp) /\ received' = received + 1
          /\ data' = data /\ wrp' = wrp /\ sent' = sent /\ wpc' = wpc
      BY <1>5, SMT DEF RTake, IInv, TypeOK, Control, Avail
    <2>2. Cursors' /\ Content'
      <3>1. Succ(rdp) = (received + 1) % Size
        BY SuccMod DEF IInv, TypeOK, Cursors
      <3>2. Cursors'
        BY <2>0, <3>1, SMT DEF IInv, Cursors
      <3>3. ASSUME NEW k \in Nat, received + 1 <= k, k < sent PROVE data[k % Size] = k + 1
        <4>1. received <= k
          BY <2>0, <3>3, SMT
        <4> QED BY <3>3, <4>1 DEF IInv, Content
      <3>4. wpc = "publish" => data[wrp] = sent + 1
        BY DEF IInv, Content
      <3> QED BY <2>0, <3>2, <3>3, <3>4 DEF Content
    <2>3. Fifo'
      <3>1. data[received % Size] = received + 1
        <4>1. received <= received
          BY <2>0, SMT
        <4> QED BY <2>0, <4>1 DEF IInv, Content
      <3>2. rdp = received % Size
        BY DEF IInv, Cursors
      <3> QED BY <2>0, <3>1, <3>2 DEF Fifo
    <2>4. TypeOK'
      <3>1. lock' \in 0..1 /\ reader_wait' \in 0..1 /\ writer_wait' \in 0..1
        BY <1>5, <2>1, SMT DEF RTake, IInv, TypeOK, Control, Mutex, NoLostWakeup, Count
      <3>2. data' \in [Slots -> Nat] /\ rdp' \in Slots /\ wrp' \in Slots
        BY <1>5, SuccRange DEF RTake, IInv, TypeOK
      <3>3. sent' \in Nat /\ received' \in Nat /\ got' \in Nat
        BY <1>5 DEF RTake, IInv, TypeOK
      <3> QED BY <1>5, <3>1, <3>2, <3>3 DEF RTake, IInv, TypeOK
    <2> QED BY <2>1, <2>2, <2>3, <2>4 DEF IInv
  <1>6. CASE RWake
    <2>1. Control'
      BY <1>6, SMT DEF RWake, IInv, TypeOK, Cursors, Control, NoLostWakeup, Count, Mutex,
         WHolds, RHolds, Unlocked, Parked, Room, Avail, Bound
    <2>2. Cursors' /\ Content'
      BY <1>6, SMT DEF RWake, IInv, Cursors, Content
    <2>3. Fifo'
      BY <1>6 DEF RWake, IInv, Fifo
    <2>4. TypeOK'
      <3>1. lock' \in 0..1 /\ reader_wait' \in 0..1 /\ writer_wait' \in 0..1
        BY <1>6, <2>1, SMT DEF RWake, IInv, TypeOK, Control, Mutex, NoLostWakeup, Count
      <3>2. data' \in [Slots -> Nat] /\ rdp' \in Slots /\ wrp' \in Slots
        BY <1>6 DEF RWake, IInv, TypeOK
      <3>3. sent' \in Nat /\ received' \in Nat /\ got' \in Nat
        BY <1>6 DEF RWake, IInv, TypeOK
      <3> QED BY <1>6, <3>1, <3>2, <3>3 DEF RWake, IInv, TypeOK
    <2> QED BY <2>1, <2>2, <2>3, <2>4 DEF IInv
  <1>7. CASE RDone
    <2>1. Control'
      BY <1>7, SMT DEF RDone, IInv, TypeOK, Cursors, Control, NoLostWakeup, Count, Mutex,
         WHolds, RHolds, Unlocked, Parked, Room, Avail, Bound
    <2>2. Cursors' /\ Content'
      BY <1>7, SMT DEF RDone, IInv, Cursors, Content
    <2>3. Fifo'
      BY <1>7 DEF RDone, IInv, Fifo
    <2>4. TypeOK'
      <3>1. lock' \in 0..1 /\ reader_wait' \in 0..1 /\ writer_wait' \in 0..1
        BY <1>7, <2>1, SMT DEF RDone, IInv, TypeOK, Control, Mutex, NoLostWakeup, Count
      <3>2. data' \in [Slots -> Nat] /\ rdp' \in Slots /\ wrp' \in Slots
        BY <1>7 DEF RDone, IInv, TypeOK
      <3>3. sent' \in Nat /\ received' \in Nat /\ got' \in Nat
        BY <1>7 DEF RDone, IInv, TypeOK
      <3> QED BY <1>7, <3>1, <3>2, <3>3 DEF RDone, IInv, TypeOK
    <2> QED BY <2>1, <2>2, <2>3, <2>4 DEF IInv
  <1> QED
    BY <1>1, <1>2, <1>3, <1>4, <1>5, <1>6, <1>7 DEF Reader

-----------------------------------------------------------------------------
THEOREM Inductive == Spec => []IInv
  <1>1. IInv /\ [Next]_vars => IInv'
    <2> SUFFICES ASSUME IInv, [Next]_vars PROVE IInv'
      OBVIOUS
    <2>1. CASE UNCHANGED vars
      BY <2>1 DEF vars, ring, flags, sems, writer, reader, IInv, TypeOK, Fifo, Cursors, Content,
         Control, Bound, NoLostWakeup, Mutex, WHolds, RHolds, Unlocked, Parked, Room, Avail
    <2> QED BY <2>1, InvWriter, InvReader DEF Next
  <1> QED BY <1>1, InvInit, PTL DEF Spec

\* Types: in particular each of the three semaphores is binary.
THEOREM TypeCorrect == Spec => []TypeOK
  <1>1. IInv => TypeOK
    BY DEF IInv
  <1> QED BY <1>1, Inductive, PTL

\* The reader gets the writer's stream.
THEOREM StreamPreserved == Spec => []Fifo
  <1>1. IInv => Fifo
    BY DEF IInv
  <1> QED BY <1>1, Inductive, PTL

\* No unread item is overwritten.
THEOREM NeverOverwrites == Spec => []NoOverwrite
  <1>1. IInv => NoOverwrite
    BY DEF IInv, Control, Room, NoOverwrite
  <1> QED BY <1>1, Inductive, PTL

\* No wake-up is lost.
THEOREM WakeupsKept == Spec => []NoLostWakeup
  <1>1. IInv => NoLostWakeup
    BY DEF IInv, Control
  <1> QED BY <1>1, Inductive, PTL

-----------------------------------------------------------------------------
(* The refinement. *)

\* The items after the r-th up to the s-th.
Items(r, s) == [i \in 1..(s - r) |-> r + i]

\* The ring d holds those items; its slots from p on hold them in order.
Holds(d, r, s) == \A k \in Nat : r <= k /\ k < s => d[k % Size] = k + 1
Slice(d, p, n) == [i \in 1..n |-> d[(p + (i - 1)) % Size]]

LEMMA SliceIs ==
  ASSUME NEW r \in Nat, NEW s \in Nat, NEW d, NEW p, p = r % Size, Holds(d, r, s)
  PROVE Slice(d, p, s - r) = Items(r, s)
  <1> SUFFICES ASSUME NEW i \in 1..(s - r) PROVE d[(p + (i - 1)) % Size] = r + i
    BY DEF Items, Slice
  <1>1. /\ i - 1 \in Nat /\ r + (i - 1) \in Nat /\ r <= r + (i - 1) /\ r + (i - 1) < s
        /\ (r + (i - 1)) + 1 = r + i
    BY SMT
  <1>2. (p + (i - 1)) % Size = (r + (i - 1)) % Size
    BY <1>1, ModAdd
  <1> QED BY <1>1, <1>2, Zenon DEF Holds

LEMMA ItemsAppend ==
  ASSUME NEW r \in Nat, NEW s \in Nat, r <= s
  PROVE /\ Len(Items(r, s)) = s - r
        /\ Items(r, s + 1) = Append(Items(r, s), s + 1)
  BY SMT DEF Items

LEMMA ItemsTail ==
  ASSUME NEW r \in Nat, NEW s \in Nat, r < s
  PROVE /\ Items(r, s) # <<>> /\ Head(Items(r, s)) = r + 1
        /\ Tail(Items(r, s)) = Items(r + 1, s)
  BY SMT DEF Items

\* The pipe implements the bounded queue.
THEOREM Refinement == Spec => IsQueue
  <1>1. Init => Queue!Init
    BY SMT DEF Init, Queue!Init, Unread
  <1>2. ASSUME IInv, IInv', [Next]_vars PROVE [Queue!Next]_<<Unread, sent, got>>
    <2> USE DEF ring, flags, sems, writer, reader
    <2>1. /\ received \in Nat /\ sent \in Nat /\ received <= sent /\ got = received
          /\ received' \in Nat /\ sent' \in Nat
      BY <1>2 DEF IInv, TypeOK, Fifo
    <2>2. Unread = Items(received, sent)
      <3>1. rdp = received % Size /\ Holds(data, received, sent)
        BY <1>2 DEF IInv, Cursors, Content, Holds
      <3>2. Slice(data, rdp, sent - received) = Items(received, sent)
        BY <2>1, <3>1, SliceIs
      <3> QED BY <3>2 DEF Unread, Slice
    <2>3. Unread' = Items(received', sent')
      <3>1. rdp' = received' % Size /\ Holds(data', received', sent')
        BY <1>2 DEF IInv, Cursors, Content, Holds
      <3>2. Slice(data', rdp', sent' - received') = Items(received', sent')
        BY <2>1, <3>1, SliceIs
      <3> QED BY <3>2 DEF Unread, Slice
    <2>4. CASE WPublish
      <3>1. /\ sent' = sent + 1 /\ received' = received /\ got' = got
            /\ sent - received < Size - 1 /\ sent < MaxItems
        BY <1>2, <2>4 DEF WPublish, IInv, Control, Room, Bound
      <3>2. Len(Unread) < Size - 1 /\ Unread' = Append(Unread, sent + 1)
        BY <2>1, <2>2, <2>3, <3>1, ItemsAppend
      <3> QED BY <3>1, <3>2 DEF Queue!Next, Queue!Put
    <2>5. CASE RTake
      <3>1. sent' = sent /\ received' = received + 1 /\ received < sent /\ got' = got + 1
        BY <1>2, <2>1, <2>5 DEF RTake, IInv, Control, Avail, Fifo
      <3>2. Unread # <<>> /\ Head(Unread) = received + 1 /\ Unread' = Tail(Unread)
        BY <2>1, <2>2, <2>3, <3>1, ItemsTail
      <3> QED BY <2>1, <3>1, <3>2 DEF Queue!Next, Queue!Take
    <2>6. CASE ~WPublish /\ ~RTake
      <3>1. sent' = sent /\ received' = received /\ got' = got
        BY <1>2, <2>6 DEF Next, Writer, WBegin, WLock, WFull, WWait, WPut, WWake, WPost, WDone,
           Reader, RLock, REmpty, RUnlock, RWait, RWake, RDone, vars
      <3> QED BY <2>2, <2>3, <3>1
    <2> QED BY <2>4, <2>5, <2>6
  <1> QED BY <1>1, <1>2, Inductive, PTL DEF Spec, IsQueue, Queue!Spec
=============================================================================
