------------------------------ MODULE ExterInt ------------------------------
(***************************************************************************)
(* How host threads reach AmigaOS (filesys.cpp, native2amiga.cpp, and      *)
(* their 68k side, filesys.asm).  A host thread may not call exec: it      *)
(* leaves its request where exter_int_helper finds it and asks for an      *)
(* interrupt.  The interrupt's server signals exter_task, which calls the  *)
(* helper until it has no more work and performs each request it returns.  *)
(*                                                                         *)
(* There are two kinds of request: the commands of native2amiga_pending,   *)
(* and the dummy message that tells a filesystem's handler task to reply   *)
(* to the packets its filesys_thread has completed.  A unit has one dummy  *)
(* message, an exec Message that must not be put while it is in a port.    *)
(*                                                                         *)
(* The machine may be reset at any time: its tasks, units and their        *)
(* threads start anew, singlethread_int_sem stays as it is.  Pipes are the *)
(* queues that CommPipe implements.  Not modelled: the messages of the     *)
(* notification hack, and the locks that travel with packets.              *)
(***************************************************************************)
EXTENDS Naturals, Sequences, FiniteSets, SequencesExt

CONSTANTS
  NUnits,      \* mounted units, MAX_FILESYSTEM_UNITS
  MaxStarted,  \* commands of a unit outstanding before more are put off: 20 in filesys.asm
  MaxPackets,  \* bound: packets sent to all the units between two resets
  MaxNative,   \* bound: no command is written by a host thread beyond this one
  MaxResets    \* bound: resets of the machine

ASSUME ExterAssumption ==
  NUnits \in Nat /\ MaxStarted \in Nat /\ MaxPackets \in Nat /\ MaxNative \in Nat /\ MaxResets \in Nat

Units == 1..NUnits
Packets == 1..MaxPackets      \* of a unit: a packet is known by its place in its unit's order
Dummy == 0                    \* dummy_message
OtherTask == 0                \* a native command that does not signal a unit's handler task

VARIABLES
  uae_int_requested,                    \* the request for an interrupt
  native2amiga_pending, n2apc,          \* the pipe (whom a command signals); n2asem's holder
  written, asked, done,                 \* commands written, asked for outside of a reset, performed
  singlethread_int_sem, unit_no,        \* exter_int_helper's statics
  signalled, expc, target,              \* exter_task: SIGF_DOS, its place, the unit or task of its action
  cmds_sent, cmds_acked, cmds_complete, \* [unit -> Unit's counters]
  unit_pipe, thpc, pck,                 \* filesys_thread: its pipe, its place, its packet
  waitingrecords,                       \* [unit -> packets that wait for a record lock]
  port, wake, sends,                    \* [unit -> messages, is its task signalled, packets sent]
  tpc, queue, scan, d5, replied,        \* handler task: place, its list, what is left to scan, d5, replies
  status,                               \* [unit -> [packet -> its message's offset 4]]
  resetting, resets                     \* is devices_reset under way; resets so far

native == <<native2amiga_pending, n2apc, written, asked, done>>
helper == <<singlethread_int_sem, unit_no>>
exter == <<signalled, expc, target>>
cmds == <<cmds_sent, cmds_acked, cmds_complete>>
thread == <<unit_pipe, thpc, pck, waitingrecords>>
ports == <<port, wake, sends>>
task == <<tpc, queue, scan, d5, replied>>
reset == <<resetting, resets>>
vars == <<uae_int_requested, native, helper, exter, cmds, thread, ports, task, status, reset>>

Each(v) == [u \in Units |-> v]

\* Machine, units and threads as they start.
Init ==
  /\ uae_int_requested = FALSE
  /\ native2amiga_pending = <<>> /\ n2apc = "idle" /\ written = 0 /\ asked = 0 /\ done = 0
  /\ singlethread_int_sem = 1 /\ unit_no = 1
  /\ signalled = FALSE /\ expc = "wait" /\ target = OtherTask
  /\ cmds_sent = Each(0) /\ cmds_acked = Each(0) /\ cmds_complete = Each(0)
  /\ unit_pipe = Each(<<>>) /\ thpc = Each("read") /\ pck = Each(Dummy)
  /\ waitingrecords = Each({})
  /\ port = Each(<<>>) /\ wake = Each(FALSE) /\ sends = Each(0)
  /\ tpc = Each("loop") /\ queue = Each(<<>>) /\ scan = Each(<<>>) /\ d5 = Each(0)
  /\ replied = Each({}) /\ status = Each([p \in Packets |-> "new"])
  /\ resetting = FALSE /\ resets = 0

Put(f, x, v) == [f EXCEPT ![x] = v]

-----------------------------------------------------------------------------
(* Host threads. *)

\* uae_Signal, uae_Cause, uae_ReplyMsg: n2asem keeps the words of a command together.
NativeWrite ==
  /\ n2apc = "idle" /\ written < MaxNative
  /\ native2amiga_pending' = Append(native2amiga_pending, OtherTask)
  /\ written' = written + 1 /\ n2apc' = "request"
  /\ UNCHANGED <<uae_int_requested, asked, done, helper, exter, cmds, thread, ports, task, status, reset>>

Asked == asked' = IF resetting THEN asked ELSE written

\* Mutant of NativeRequest: the interrupt is not asked for.
NativeUnrequested ==
  /\ n2apc = "request" /\ n2apc' = "idle" /\ Asked
  /\ UNCHANGED <<uae_int_requested, native2amiga_pending, written, done, helper, exter, cmds,
                 thread, ports, task, status, reset>>

NativeRequest ==
  /\ n2apc = "request" /\ n2apc' = "idle" /\ Asked
  /\ uae_int_requested' = TRUE
  /\ UNCHANGED <<native2amiga_pending, written, done, helper, exter, cmds, thread, ports, task,
                 status, reset>>

\* Mutant of ThreadRead: the packet is marked before it is handled.
ThreadReadMarks(u) ==
  /\ thpc[u] = "read" /\ unit_pipe[u] # <<>>
  /\ pck' = Put(pck, u, Head(unit_pipe[u])) /\ unit_pipe' = Put(unit_pipe, u, Tail(unit_pipe[u]))
  /\ thpc' = Put(thpc, u, "handle")
  /\ status' = [status EXCEPT ![u][Head(unit_pipe[u])] = "done"]
  /\ UNCHANGED <<uae_int_requested, native, helper, exter, cmds, waitingrecords, ports, task, reset>>

\* filesys_iteration: read a packet, and handle it ...
ThreadRead(u) ==
  /\ thpc[u] = "read" /\ unit_pipe[u] # <<>>
  /\ pck' = Put(pck, u, Head(unit_pipe[u])) /\ unit_pipe' = Put(unit_pipe, u, Tail(unit_pipe[u]))
  /\ thpc' = Put(thpc, u, "handle")
  /\ UNCHANGED <<uae_int_requested, native, helper, exter, cmds, waitingrecords, ports, task,
                 status, reset>>

\* ... which may keep it, to wait for a record's lock ...
ThreadKeep(u) ==
  /\ thpc[u] = "handle" /\ thpc' = Put(thpc, u, "kept")
  /\ waitingrecords' = [waitingrecords EXCEPT ![u] = @ \cup {pck[u]}]
  /\ UNCHANGED <<uae_int_requested, native, helper, exter, cmds, unit_pipe, pck, ports, task,
                 status, reset>>

\* ... or free a record, which completes packets that waited for it.
ThreadRelease(u) ==
  /\ thpc[u] \in {"handle", "free"} /\ thpc' = Put(thpc, u, "free")
  /\ \E p \in waitingrecords[u] :
       /\ waitingrecords' = [waitingrecords EXCEPT ![u] = @ \ {p}]
       /\ status' = [status EXCEPT ![u][p] = "done"]
  /\ UNCHANGED <<uae_int_requested, native, helper, exter, cmds, unit_pipe, pck, ports, task, reset>>

\* Acquire the message lock ...
ThreadSent(u) ==
  /\ thpc[u] \in {"handle", "free", "kept"}
  /\ thpc' = Put(thpc, u, IF thpc[u] = "kept" THEN "request" ELSE "mark")
  /\ cmds_sent' = [cmds_sent EXCEPT ![u] = @ + 1]
  /\ UNCHANGED <<uae_int_requested, native, helper, exter, cmds_acked, cmds_complete, unit_pipe,
                 pck, waitingrecords, ports, task, status, reset>>

\* ... only then mark the packet for the handler task's list scan ...
ThreadMark(u) ==
  /\ thpc[u] = "mark" /\ thpc' = Put(thpc, u, "request")
  /\ status' = [status EXCEPT ![u][pck[u]] = "done"]
  /\ UNCHANGED <<uae_int_requested, native, helper, exter, cmds, unit_pipe, pck, waitingrecords,
                 ports, task, reset>>

\* ... and make sure an interrupt happens.
ThreadRequest(u) ==
  /\ thpc[u] = "request" /\ thpc' = Put(thpc, u, "read")
  /\ uae_int_requested' = TRUE /\ pck' = Put(pck, u, Dummy)
  /\ UNCHANGED <<native, helper, exter, cmds, unit_pipe, waitingrecords, ports, task, status, reset>>

FilesysThread(u) ==
  ThreadRead(u) \/ ThreadKeep(u) \/ ThreadRelease(u) \/ ThreadSent(u) \/ ThreadMark(u) \/ ThreadRequest(u)

\* record_timeout, called each frame by the emulator thread: a packet has waited too long.
RecordTimeout(u) ==
  /\ ~resetting /\ n2apc = "idle"
  /\ \E p \in waitingrecords[u] :
       /\ waitingrecords' = [waitingrecords EXCEPT ![u] = @ \ {p}]
       /\ status' = [status EXCEPT ![u][p] = "timeout"]
  /\ native2amiga_pending' = Append(native2amiga_pending, u)
  /\ written' = written + 1 /\ asked' = written + 1 /\ uae_int_requested' = TRUE
  /\ UNCHANGED <<n2apc, done, helper, exter, cmds, unit_pipe, thpc, pck, ports, task, reset>>

-----------------------------------------------------------------------------
(* The interrupt, exter_task and exter_int_helper. *)

\* exter_server_new reads the byte that holds the request, which takes it back.
Interrupt ==
  /\ ~resetting /\ uae_int_requested
  /\ uae_int_requested' = FALSE /\ signalled' = TRUE
  /\ UNCHANGED <<native, helper, expc, target, cmds, thread, ports, task, status, reset>>

\* Mutant of Waiting: a message is sent although the last one is not back.
WaitingLockIgnored(u) == cmds_acked[u] # cmds_sent[u]

Waiting(u) == cmds_acked[u] = cmds_complete[u] /\ cmds_acked[u] # cmds_sent[u]
NextUnits(from) == {u \in Units : u >= from /\ Waiting(u)}

\* Find work: a native command before a unit's message (a unit has had its port since it was
\* created); with none, the interrupt ends.
FindWork(from) ==
  \/ /\ native2amiga_pending # <<>>
     /\ native2amiga_pending' = Tail(native2amiga_pending)
     /\ singlethread_int_sem' = 0 /\ unit_no' = from
     /\ expc' = "native" /\ target' = Head(native2amiga_pending)
     /\ UNCHANGED cmds
  \/ /\ native2amiga_pending = <<>> /\ NextUnits(from) # {}
     /\ LET u == Min(NextUnits(from))
        IN /\ cmds_acked' = Put(cmds_acked, u, cmds_sent[u])
           /\ unit_no' = u + 1 /\ target' = u
     /\ singlethread_int_sem' = 0 /\ expc' = "message"
     /\ UNCHANGED <<native2amiga_pending, cmds_sent, cmds_complete>>
  \/ /\ native2amiga_pending = <<>> /\ NextUnits(from) = {}
     /\ singlethread_int_sem' = 1 /\ unit_no' = NUnits + 1
     /\ expc' = "wait"
     /\ UNCHANGED <<native2amiga_pending, target, cmds>>

\* exter_task wakes and calls with d0 = 10.  The semaphore is taken: pretend it isn't for us.
HelperBusy ==
  /\ expc = "wait" /\ signalled /\ singlethread_int_sem = 0
  /\ signalled' = FALSE /\ uae_int_requested' = TRUE
  /\ UNCHANGED <<native, helper, expc, target, cmds, thread, ports, task, status, reset>>

\* Mutant of HelperFirst: unit_no is not set back.
HelperFirstGoesOn ==
  /\ expc = "wait" /\ signalled /\ singlethread_int_sem = 1
  /\ signalled' = FALSE /\ FindWork(unit_no)
  /\ UNCHANGED <<uae_int_requested, n2apc, written, asked, done, thread, ports, task, status, reset>>

HelperFirst ==
  /\ expc = "wait" /\ signalled /\ singlethread_int_sem = 1
  /\ signalled' = FALSE /\ FindWork(1)
  /\ UNCHANGED <<uae_int_requested, n2apc, written, asked, done, thread, ports, task, status, reset>>

\* d0 = 11, after each action.
HelperNext ==
  /\ expc = "next"
  /\ FindWork(unit_no)
  /\ UNCHANGED <<uae_int_requested, n2apc, written, asked, done, signalled, thread, ports, task,
                 status, reset>>

\* Signal, Cause or ReplyMsg.
PerformNative ==
  /\ expc = "native" /\ expc' = "next"
  /\ done' = done + 1
  /\ wake' = IF target = OtherTask THEN wake ELSE Put(wake, target, TRUE)
  /\ UNCHANGED <<uae_int_requested, native2amiga_pending, n2apc, written, asked, helper, signalled,
                 target, cmds, thread, port, sends, task, status, reset>>

\* PutMsg of a dummy message, which signals the port's task.
PerformPutMsg ==
  /\ expc = "message" /\ expc' = "next"
  /\ port' = [port EXCEPT ![target] = Append(@, Dummy)] /\ wake' = Put(wake, target, TRUE)
  /\ UNCHANGED <<uae_int_requested, native, helper, signalled, target, cmds, thread, sends, task,
                 status, reset>>

ExterTask ==
  /\ ~resetting
  /\ HelperBusy \/ HelperFirst \/ HelperNext \/ PerformNative \/ PerformPutMsg

-----------------------------------------------------------------------------
(* The handler task of a unit, and its clients. *)

ClientSend(u) ==
  /\ ~resetting
  /\ Cardinality({x \in Units \X Packets : x[2] <= sends[x[1]]}) < MaxPackets
  /\ sends' = [sends EXCEPT ![u] = @ + 1]
  /\ port' = [port EXCEPT ![u] = Append(@, sends[u] + 1)] /\ wake' = Put(wake, u, TRUE)
  /\ UNCHANGED <<uae_int_requested, native, helper, exter, cmds, thread, task, status, reset>>

\* A DOS packet is the next message.
AtPacket(u) == tpc[u] = "loop" /\ port[u] # <<>> /\ Head(port[u]) # Dummy
Packet(u) == Head(port[u])

\* It puts its packet at the head of its list, and takes the next message.
Enqueue(u) ==
  /\ queue' = [queue EXCEPT ![u] = <<Packet(u)>> \o @]
  /\ port' = [port EXCEPT ![u] = Tail(@)]

\* Mutant of AtLimit: one too many.
AtLimitLate(u) == d5[u] > MaxStarted

AtLimit(u) == d5[u] >= MaxStarted

\* Too many commands started: the packet is put off.
TaskPutOff(u) ==
  /\ AtPacket(u) /\ AtLimit(u)
  /\ status' = [status EXCEPT ![u][Packet(u)] = "unstarted"] /\ Enqueue(u)
  /\ UNCHANGED <<uae_int_requested, native, helper, exter, cmds, thread, wake, sends, tpc, scan,
                 d5, replied, reset>>

\* filesys_handler refuses a packet at a bad address: the task replies at once.
TaskRefuse(u) ==
  /\ AtPacket(u) /\ ~AtLimit(u)
  /\ status' = [status EXCEPT ![u][Packet(u)] = "done"]
  /\ replied' = [replied EXCEPT ![u] = @ \cup {Packet(u)}]
  /\ port' = [port EXCEPT ![u] = Tail(@)]
  /\ UNCHANGED <<uae_int_requested, native, helper, exter, cmds, thread, wake, sends, tpc, queue,
                 scan, d5, reset>>

\* filesys_handler writes the packet to unit_pipe ...
TaskHand(u) ==
  /\ AtPacket(u) /\ ~AtLimit(u)
  /\ status' = [status EXCEPT ![u][Packet(u)] = "handed"]
  /\ unit_pipe' = [unit_pipe EXCEPT ![u] = Append(@, Packet(u))]
  /\ tpc' = Put(tpc, u, "hand")
  /\ UNCHANGED <<uae_int_requested, native, helper, exter, cmds, thpc, pck, waitingrecords, ports,
                 queue, scan, d5, replied, reset>>

\* ... and the task counts it and puts it in its list.
TaskQueue(u) ==
  /\ tpc[u] = "hand" /\ tpc' = Put(tpc, u, "loop")
  /\ d5' = [d5 EXCEPT ![u] = @ + 1] /\ Enqueue(u)
  /\ UNCHANGED <<uae_int_requested, native, helper, exter, cmds, thread, wake, sends, scan, replied,
                 status, reset>>

\* The dummy message ...
TaskDummy(u) ==
  /\ tpc[u] = "loop" /\ port[u] # <<>> /\ Head(port[u]) = Dummy
  /\ port' = [port EXCEPT ![u] = Tail(@)] /\ tpc' = Put(tpc, u, "release")
  /\ UNCHANGED <<uae_int_requested, native, helper, exter, cmds, thread, wake, sends, queue, scan,
                 d5, replied, status, reset>>

\* ... exter_int_helper with d0 = 1 releases the message lock, then the task walks its list
\* for the packets that are done by then.
TaskRelease(u) ==
  /\ tpc[u] = "release" /\ tpc' = Put(tpc, u, "done")
  /\ cmds_complete' = Put(cmds_complete, u, cmds_acked[u])
  /\ scan' = Put(scan, u, queue[u])
  /\ UNCHANGED <<uae_int_requested, native, helper, exter, cmds_sent, cmds_acked, thread, ports,
                 queue, d5, replied, status, reset>>

\* No message: it waits; woken, it walks its list for packets whose time is up before it
\* looks for a message again.
TaskSleep(u) ==
  /\ tpc[u] = "loop" /\ port[u] = <<>> /\ tpc' = Put(tpc, u, "sleep")
  /\ UNCHANGED <<uae_int_requested, native, helper, exter, cmds, thread, ports, queue, scan, d5,
                 replied, status, reset>>

\* Mutant of TaskWake: a message that came with the signal is looked at instead.
TaskWakeLooks(u) ==
  /\ tpc[u] = "sleep" /\ wake[u] /\ wake' = Put(wake, u, FALSE)
  /\ IF port[u] = <<>> THEN tpc' = Put(tpc, u, "timeout") /\ scan' = Put(scan, u, queue[u])
     ELSE tpc' = Put(tpc, u, "loop") /\ UNCHANGED scan
  /\ UNCHANGED <<uae_int_requested, native, helper, exter, cmds, thread, port, sends, queue, d5,
                 replied, status, reset>>

TaskWake(u) ==
  /\ tpc[u] = "sleep" /\ wake[u] /\ tpc' = Put(tpc, u, "timeout")
  /\ wake' = Put(wake, u, FALSE) /\ scan' = Put(scan, u, queue[u])
  /\ UNCHANGED <<uae_int_requested, native, helper, exter, cmds, thread, port, sends, queue, d5,
                 replied, status, reset>>

\* tpc is the status it looks for (d2) while it walks.
Walking(u) == tpc[u] \in {"done", "timeout"}

TaskReply(u) ==
  /\ Walking(u) /\ scan[u] # <<>> /\ status[u][Head(scan[u])] = tpc[u]
  /\ \E i \in 1..Len(queue[u]) :
       queue[u][i] = Head(scan[u]) /\ queue' = Put(queue, u, RemoveAt(queue[u], i))
  /\ replied' = [replied EXCEPT ![u] = @ \cup {Head(scan[u])}]
  /\ d5' = [d5 EXCEPT ![u] = @ - 1] /\ scan' = Put(scan, u, Tail(scan[u]))
  /\ UNCHANGED <<uae_int_requested, native, helper, exter, cmds, thread, ports, tpc, status, reset>>

TaskPass(u) ==
  /\ Walking(u) /\ scan[u] # <<>> /\ status[u][Head(scan[u])] # tpc[u]
  /\ scan' = Put(scan, u, Tail(scan[u]))
  /\ UNCHANGED <<uae_int_requested, native, helper, exter, cmds, thread, ports, tpc, queue, d5,
                 replied, status, reset>>

TaskScanned(u) ==
  /\ Walking(u) /\ scan[u] = <<>> /\ tpc' = Put(tpc, u, "loop")
  /\ UNCHANGED <<uae_int_requested, native, helper, exter, cmds, thread, ports, queue, scan, d5,
                 replied, status, reset>>

HandlerTask(u) ==
  /\ ~resetting
  /\ \/ TaskPutOff(u) \/ TaskRefuse(u) \/ TaskHand(u) \/ TaskQueue(u)
     \/ TaskDummy(u) \/ TaskRelease(u) \/ TaskSleep(u) \/ TaskWake(u)
     \/ TaskReply(u) \/ TaskPass(u) \/ TaskScanned(u)

-----------------------------------------------------------------------------
(* devices_reset, on the emulator thread. *)

\* The pipe is emptied, the units' threads end with what they have in hand, and new units
\* and threads take their place; singlethread_int_sem is left as it is ...
ResetBegin ==
  /\ ~resetting /\ resets < MaxResets /\ resetting' = TRUE /\ resets' = resets + 1
  /\ native2amiga_pending' = <<>> /\ written' = 0 /\ asked' = 0 /\ done' = 0
  /\ signalled' = FALSE /\ expc' = "wait" /\ target' = OtherTask
  /\ cmds_sent' = Each(0) /\ cmds_acked' = Each(0) /\ cmds_complete' = Each(0)
  /\ unit_pipe' = Each(<<>>) /\ thpc' = Each("read") /\ pck' = Each(Dummy)
  /\ waitingrecords' = Each({})
  /\ port' = Each(<<>>) /\ wake' = Each(FALSE) /\ sends' = Each(0)
  /\ tpc' = Each("loop") /\ queue' = Each(<<>>) /\ scan' = Each(<<>>) /\ d5' = Each(0)
  /\ replied' = Each({}) /\ status' = Each([p \in Packets |-> "new"])
  /\ UNCHANGED <<uae_int_requested, n2apc, helper>>

\* ... and last, no interrupt is requested any more.
ResetEnd ==
  /\ resetting /\ resetting' = FALSE
  /\ uae_int_requested' = FALSE
  /\ UNCHANGED <<native, helper, exter, cmds, thread, ports, task, status, resets>>

-----------------------------------------------------------------------------
Next ==
  \/ NativeWrite \/ NativeRequest \/ Interrupt \/ ExterTask \/ ResetBegin \/ ResetEnd
  \/ \E u \in Units : FilesysThread(u) \/ RecordTimeout(u) \/ ClientSend(u) \/ HandlerTask(u)
Spec == Init /\ [][Next]_vars

\* Host threads that have begun a request finish it, frames pass; AmigaOS takes interrupts and
\* runs its tasks.  No client has to send, and there need be no reset.
FairSpec ==
  /\ Spec /\ WF_vars(NativeRequest) /\ WF_vars(ResetEnd)
  /\ WF_vars(Interrupt) /\ WF_vars(ExterTask)
  /\ \A u \in Units :
       WF_vars(FilesysThread(u)) /\ WF_vars(RecordTimeout(u)) /\ WF_vars(HandlerTask(u))

TypeOK ==
  /\ uae_int_requested \in BOOLEAN /\ signalled \in BOOLEAN
  /\ native2amiga_pending \in Seq(0..NUnits) /\ n2apc \in {"idle", "request"}
  /\ written \in Nat /\ asked \in 0..written /\ done \in 0..written
  /\ singlethread_int_sem \in 0..1 /\ unit_no \in 1..(NUnits + 1)
  /\ expc \in {"wait", "native", "message", "next"} /\ target \in 0..NUnits
  /\ expc = "message" => target \in Units
  /\ \A f \in {cmds_sent, cmds_acked, cmds_complete, d5} : f \in [Units -> Nat]
  /\ sends \in [Units -> 0..MaxPackets]
  /\ unit_pipe \in [Units -> Seq(Packets)]
  /\ thpc \in [Units -> {"read", "handle", "free", "kept", "mark", "request"}]
  /\ pck \in [Units -> 0..MaxPackets]
  /\ port \in [Units -> Seq(0..MaxPackets)] /\ wake \in [Units -> BOOLEAN]
  /\ tpc \in [Units -> {"loop", "hand", "release", "sleep", "done", "timeout"}]
  /\ \A f \in {queue, scan} : f \in [Units -> Seq(Packets)]
  /\ \A f \in {replied, waitingrecords} : f \in [Units -> SUBSET Packets]
  /\ status \in [Units -> [Packets -> {"new", "unstarted", "handed", "done", "timeout"}]]
  /\ resetting \in BOOLEAN /\ resets \in 0..MaxResets

Times(s, m) == Cardinality({i \in 1..Len(s) : s[i] = m})

\* Where u's dummy message is: with exter_task about to put it, in the port, or with the
\* handler task that has not released it.
DummiesOut(u) ==
  (IF expc = "message" /\ target = u THEN 1 ELSE 0)
  + Times(port[u], Dummy) + (IF tpc[u] = "release" THEN 1 ELSE 0)

\* The dummy message is put only when it is free: cmds_acked # cmds_complete is its lock.
DummyOnce ==
  /\ TypeOK
  /\ \A u \in Units : DummiesOut(u) = IF cmds_acked[u] = cmds_complete[u] THEN 0 ELSE 1

\* The host has packet p in how many places: the pipe, the thread, the list of records.
Held(u, p) ==
  Times(unit_pipe[u], p) + (IF p \in waitingrecords[u] THEN 1 ELSE 0)
  + (IF pck[u] = p /\ thpc[u] \in {"handle", "free", "mark"} THEN 1 ELSE 0)

\* A packet has one place until its reply, and is replied to only once the host has done with
\* it: a client may free it at once.  The host never has one that was put off.
OneHolder ==
  \A u \in Units, p \in Packets :
    /\ Times(port[u], p) + Times(queue[u], p) + (IF p \in replied[u] THEN 1 ELSE 0)
         = IF p <= sends[u] THEN 1 ELSE 0
    /\ Held(u, p) <= 1
    /\ p \in replied[u] \/ status[u][p] # "handed" => Held(u, p) = 0

\* The limit keeps its promise: a unit's thread never has more than MaxStarted commands, however
\* they end, so that filesys_handler never waits for room in the pipe.
PipeLimit ==
  \A u \in Units :
    Len(unit_pipe[u]) + Cardinality(waitingrecords[u])
      + (IF thpc[u] \in {"handle", "free", "mark"} THEN 1 ELSE 0) <= MaxStarted

\* exter_task will be called, or is at work and has still to come to unit u.
Coming == uae_int_requested \/ signalled
WillReach(u) == Coming \/ (expc # "wait" /\ unit_no <= u)

\* No native command is forgotten: whoever asked for it, exter_task comes to it.
NativeHeard == done < asked => Coming \/ expc # "wait"

\* A packet that is done while its unit is owed a message is not forgotten: a message is on its
\* way, or the walk for the last one still comes to the packet, or one will be sent.
OwedIsHeard ==
  \A u \in Units, p \in Packets :
    status[u][p] = "done" /\ p \notin replied[u] /\ cmds_acked[u] # cmds_sent[u] =>
      \/ cmds_acked[u] # cmds_complete[u]
      \/ tpc[u] = "done" /\ Times(scan[u], p) > 0
      \/ thpc[u] # "read" \/ WillReach(u)

\* Nor is one that has waited too long for a record's lock: its task is signalled, or walks.
TimeoutIsHeard ==
  \A u \in Units, p \in Packets :
    status[u][p] = "timeout" /\ p \notin replied[u] =>
      \/ Times(native2amiga_pending, u) > 0 \/ wake[u]
      \/ expc = "native" /\ target = u
      \/ tpc[u] = "timeout" /\ Times(scan[u], p) > 0

\* The interrupt whose request ends filesys_iteration has the packet it marked replied to.
MarkedIsReplied == \A u \in Units, p \in Packets : status[u][p] = "done" ~> p \in replied[u]
=============================================================================
