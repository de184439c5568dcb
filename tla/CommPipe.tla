------------------------------ MODULE CommPipe ------------------------------
(***************************************************************************)
(* The inter-thread pipe of include/commpipe.h: one writer thread and one  *)
(* reader thread over a ring of Size slots, three semaphores (lock,        *)
(* reader_wait, writer_wait) and two "waiting" flags.  The writer is       *)
(* somewhere in write_comm_pipe_pt, the reader somewhere in                *)
(* read_comm_pipe_pt_blocking; wpc and rpc say where.                      *)
(*                                                                         *)
(* The n-th item written is the number n, so an item's value is its place  *)
(* in the stream.  Callers write messages of MsgLen items, with no_buffer  *)
(* set on the last one only.                                               *)
(***************************************************************************)
EXTENDS Naturals

CONSTANTS
  Size,      \* slots of the ring (init_comm_pipe's size)
  Chunks,    \* items queued before a parked reader is woken
  MsgLen,    \* items of a message
  MaxItems   \* bound: items the writer sends

\* Every init_comm_pipe call of the program has chunks < size: (10,1) up to (400,3).
ASSUME PipeAssumption ==
  /\ Size \in Nat \ {0, 1} /\ Chunks \in 1..(Size - 1)
  /\ MsgLen \in Nat \ {0} /\ MaxItems \in Nat

VARIABLES
  data, rdp, wrp,                  \* the ring and its cursors
  reader_waiting, writer_waiting,  \* the volatile flags
  lock, reader_wait, writer_wait,  \* the semaphores' counts
  wpc, slow, sent,                 \* writer: its place, whether it took the locked path, items published
  rpc, received, got               \* reader: its place, items taken, the last one's value

ring == <<data, rdp, wrp>>
flags == <<reader_waiting, writer_waiting>>
sems == <<lock, reader_wait, writer_wait>>
writer == <<wpc, slow, sent>>
reader == <<rpc, received, got>>
vars == <<ring, flags, sems, writer, reader>>

Slots == 0..(Size - 1)
Succ(i) == (i + 1) % Size
Pending == (wrp + Size - rdp) % Size
NoBuffer(n) == n % MsgLen = 0

Init ==
  /\ data = [i \in Slots |-> 0] /\ rdp = 0 /\ wrp = 0
  /\ reader_waiting = FALSE /\ writer_waiting = FALSE
  /\ lock = 1 /\ reader_wait = 0 /\ writer_wait = 0
  /\ wpc = "idle" /\ slow = FALSE /\ sent = 0
  /\ rpc = "idle" /\ received = 0 /\ got = 0

-----------------------------------------------------------------------------
(* write_comm_pipe_pt *)

\* Mutant of WBegin: every write takes the unlocked path.
WBeginUnlocked ==
  /\ wpc = "idle" /\ sent < MaxItems
  /\ wpc' = "put"
  /\ UNCHANGED <<ring, flags, sems, slow, sent, reader>>

\* The unlocked test that chooses between the two paths.
WBegin ==
  /\ wpc = "idle" /\ sent < MaxItems
  /\ slow' = ~reader_waiting
  /\ wpc' = IF reader_waiting THEN "put" ELSE "lock"
  /\ UNCHANGED <<ring, flags, sems, sent, reader>>

WLock ==
  /\ \/ wpc = "lock" /\ wpc' = "full"
     \/ wpc = "relock" /\ wpc' = "put"
  /\ lock = 1 /\ lock' = 0
  /\ UNCHANGED <<ring, flags, reader_wait, writer_wait, slow, sent, reader>>

\* Pipe full: flag it and give the lock back before sleeping.
WFull ==
  /\ wpc = "full"
  /\ IF Succ(wrp) = rdp
     THEN wpc' = "wait" /\ writer_waiting' = TRUE /\ lock' = 1
     ELSE wpc' = "put" /\ UNCHANGED <<writer_waiting, lock>>
  /\ UNCHANGED <<ring, reader_waiting, reader_wait, writer_wait, slow, sent, reader>>

WWait ==
  /\ wpc = "wait" /\ writer_wait > 0
  /\ writer_wait' = writer_wait - 1 /\ wpc' = "relock"
  /\ UNCHANGED <<ring, flags, lock, reader_wait, slow, sent, reader>>

WPut ==
  /\ wpc = "put"
  /\ data' = [data EXCEPT ![wrp] = sent + 1] /\ wpc' = "publish"
  /\ UNCHANGED <<rdp, wrp, flags, sems, slow, sent, reader>>

WPublish ==
  /\ wpc = "publish"
  /\ wrp' = Succ(wrp) /\ sent' = sent + 1 /\ wpc' = "wake"
  /\ UNCHANGED <<data, rdp, flags, sems, slow, reader>>

\* Mutant of WWake: no_buffer is ignored.
WWakeByChunks ==
  /\ wpc = "wake"
  /\ IF reader_waiting /\ Pending >= Chunks
     THEN wpc' = "post" /\ reader_waiting' = FALSE
     ELSE wpc' = "done" /\ UNCHANGED reader_waiting
  /\ UNCHANGED <<ring, writer_waiting, sems, slow, sent, reader>>

\* maybe_wake_reader
WWake ==
  /\ wpc = "wake"
  /\ IF reader_waiting /\ (NoBuffer(sent) \/ Pending >= Chunks)
     THEN wpc' = "post" /\ reader_waiting' = FALSE
     ELSE wpc' = "done" /\ UNCHANGED reader_waiting
  /\ UNCHANGED <<ring, writer_waiting, sems, slow, sent, reader>>

WPost ==
  /\ wpc = "post"
  /\ reader_wait' = reader_wait + 1 /\ wpc' = "done"
  /\ UNCHANGED <<ring, flags, lock, writer_wait, slow, sent, reader>>

WDone ==
  /\ wpc = "done"
  /\ lock' = IF slow THEN lock + 1 ELSE lock
  /\ wpc' = "idle" /\ slow' = FALSE
  /\ UNCHANGED <<ring, flags, reader_wait, writer_wait, sent, reader>>

Writer == WBegin \/ WLock \/ WFull \/ WWait \/ WPut \/ WPublish \/ WWake \/ WPost \/ WDone

-----------------------------------------------------------------------------
(* read_comm_pipe_pt_blocking *)

RLock ==
  /\ \/ rpc = "idle" /\ rpc' = "empty"
     \/ rpc = "relock" /\ rpc' = "take"
  /\ lock = 1 /\ lock' = 0
  /\ UNCHANGED <<ring, flags, reader_wait, writer_wait, writer, received, got>>

\* Nothing to read: flag it.  The writer may see the flag before the lock is given back.
REmpty ==
  /\ rpc = "empty"
  /\ IF rdp = wrp
     THEN rpc' = "unlock" /\ reader_waiting' = TRUE
     ELSE rpc' = "take" /\ UNCHANGED reader_waiting
  /\ UNCHANGED <<ring, writer_waiting, sems, writer, received, got>>

RUnlock ==
  /\ rpc = "unlock"
  /\ lock' = lock + 1 /\ rpc' = "wait"
  /\ UNCHANGED <<ring, flags, reader_wait, writer_wait, writer, received, got>>

RWait ==
  /\ rpc = "wait" /\ reader_wait > 0
  /\ reader_wait' = reader_wait - 1 /\ rpc' = "relock"
  /\ UNCHANGED <<ring, flags, lock, writer_wait, writer, received, got>>

\* Mutant of RTake: the cursor is moved before the slot is read.
RTakeMovesFirst ==
  /\ rpc = "take"
  /\ got' = data[Succ(rdp)] /\ rdp' = Succ(rdp)
  /\ received' = received + 1 /\ rpc' = "wake"
  /\ UNCHANGED <<data, wrp, flags, sems, writer>>

RTake ==
  /\ rpc = "take"
  /\ got' = data[rdp] /\ rdp' = Succ(rdp)
  /\ received' = received + 1 /\ rpc' = "wake"
  /\ UNCHANGED <<data, wrp, flags, sems, writer>>

\* Mutant of RWake: the writer is woken without taking its flag back.
RWakeKeepsFlag ==
  /\ rpc = "wake"
  /\ writer_wait' = IF writer_waiting THEN writer_wait + 1 ELSE writer_wait
  /\ rpc' = "done"
  /\ UNCHANGED <<ring, flags, lock, reader_wait, writer, received, got>>

RWake ==
  /\ rpc = "wake"
  /\ writer_waiting' = FALSE
  /\ writer_wait' = IF writer_waiting THEN writer_wait + 1 ELSE writer_wait
  /\ rpc' = "done"
  /\ UNCHANGED <<ring, reader_waiting, lock, reader_wait, writer, received, got>>

RDone ==
  /\ rpc = "done"
  /\ lock' = lock + 1 /\ rpc' = "idle"
  /\ UNCHANGED <<ring, flags, reader_wait, writer_wait, writer, received, got>>

Reader == RLock \/ REmpty \/ RUnlock \/ RWait \/ RTake \/ RWake \/ RDone

-----------------------------------------------------------------------------
Next == Writer \/ Reader
Spec == Init /\ [][Next]_vars

\* Both are host threads; SDL gives a free semaphore to its only other contender.
FairSpec == Spec /\ WF_vars(Writer) /\ WF_vars(Reader)

\* Every variable has its type, and no semaphore ever counts beyond one.
TypeOK ==
  /\ data \in [Slots -> Nat] /\ rdp \in Slots /\ wrp \in Slots
  /\ reader_waiting \in BOOLEAN /\ writer_waiting \in BOOLEAN
  /\ lock \in 0..1 /\ reader_wait \in 0..1 /\ writer_wait \in 0..1
  /\ wpc \in {"idle", "lock", "full", "wait", "relock", "put", "publish",
              "wake", "post", "done"}
  /\ slow \in BOOLEAN /\ sent \in Nat
  /\ rpc \in {"idle", "empty", "unlock", "wait", "relock", "take", "wake", "done"}
  /\ received \in Nat /\ got \in Nat

\* The stream read is the stream written: no item is lost, repeated, reordered or read
\* before it was stored, on the locked path and on the unlocked one.
Fifo == got = received /\ received <= sent

\* The writer never stores into a slot whose item is unread: the unlocked path does not
\* test for a full ring, and the locked one does not test again after its sleep.
NoOverwrite == wpc \in {"put", "publish"} => sent - received < Size - 1

Count(b) == IF b THEN 1 ELSE 0

\* A thread asleep on its semaphore is owed exactly one wake-up (the flag that makes its
\* peer post, or the post under way, or the post made), and the two threads are never both
\* asleep each relying on the other's flag.
NoLostWakeup ==
  /\ Count(reader_waiting) + Count(wpc = "post") + reader_wait
       = Count(rpc \in {"unlock", "wait"})
  /\ Count(writer_waiting) + writer_wait = Count(wpc = "wait")
  /\ ~(reader_waiting /\ writer_waiting)

\* The unread slots, in order.
Unread == [i \in 1..(sent - received) |-> data[(rdp + (i - 1)) % Size]]

\* To its two users the pipe is a bounded queue: an item enters it when the write cursor
\* passes it and leaves it when the reader takes it, whatever the paths and semaphores do.
Queue == INSTANCE BoundedFifo WITH
           Capacity <- Size - 1, queue <- Unread, put <- sent, taken <- got
IsQueue == Queue!Spec

\* Every complete message is read to its end.
Delivery == \A n \in 1..MaxItems : NoBuffer(n) => (sent >= n ~> received >= n)
=============================================================================
