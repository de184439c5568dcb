----------------------------- MODULE HardfileIO -----------------------------
(***************************************************************************)
(* Asynchronous requests to a unit of uaehf.device (hardfile.cpp; the same *)
(* scheme is in scsiemul.cpp).  The emulator thread runs the program's     *)
(* calls: open, beginio, abortio, close, and the machine's reset.  It puts *)
(* a request into the unit's table d_request, as ASYNC_REQUEST_TEMP, and   *)
(* into the pipe of the unit's thread, which does the I/O, takes the       *)
(* request out of the table and replies it; CMD_ADDCHANGEINT's it keeps    *)
(* there instead, until CMD_REMCHANGEINT, which the emulator thread does   *)
(* itself.  change_sem is held while the thread processes a request; the   *)
(* emulator thread never takes it here.                                    *)
(*                                                                         *)
(* The pipe (CommPipe) carries whole messages; it is never full, as there  *)
(* are fewer requests than it has room for.  What the marks in the table   *)
(* promise an abort, that copies outlive their use, and that a reset ends  *)
(* the unit's only thread, does not hold of this code (see the README).    *)
(* Locals are cleared where they end.  Not modelled: the other quick       *)
(* commands, which leave table and pipe alone, and CMD_REMOVE.             *)
(***************************************************************************)
EXTENDS Naturals, Sequences, FiniteSets

CONSTANTS
  Requests, Bufs, Threads,  \* IORequests, copies of them on the heap, host threads
  None,
  Slots,                    \* MAX_ASYNC_REQUESTS
  MaxOpens                  \* bound: calls of hardfile_open between two resets

ASSUME HardfileAssumption ==
  /\ Slots \in Nat \ {0} /\ MaxOpens \in Nat /\ None \notin Requests \union Bufs
  /\ IsFiniteSet(Threads) /\ "emu" \notin Threads

Table == 1..Slots
Stop == [request |-> None, iobuf |-> None]

VARIABLES
  d_request, d_request_iobuf, temp,  \* the table: request, copy, is it ASYNC_REQUEST_TEMP?
  live,                              \* copies allocated and not freed
  requests,                          \* the pipe
  thread_running, change_sem,
  sync_sem,                          \* its count, None while there is no semaphore
  opencnt, opens,                    \* the device's open count; calls of open
  command, owner, content,           \* of each request: CMD_ADDCHANGEINT ("add") or another
                                     \* ("io"); "program" or "device"; what it holds
  pc, request, iobuf, slot,          \* of each thread: where it is, and its locals
  j,                                 \* hardfile_reset's place in the table, 0 at other times
  crowded                            \* was a thread started while another had still to end?
table == <<d_request, d_request_iobuf, temp>>
heap == <<table, live>>
sync == <<thread_running, change_sem, sync_sem>>
count == <<opencnt, opens>>
ioreq == <<command, owner, content>>
frames == <<request, iobuf, slot, j>>
hardfile_vars == <<heap, requests, sync, count, ioreq, pc, frames, crowded>>

Emu == "emu"
Actors == Threads \union {Emu}

Goto(a, l) == pc' = [pc EXCEPT ![a] = l]
Local(a, r, b) == request' = [request EXCEPT ![a] = r] /\ iobuf' = [iobuf EXCEPT ![a] = b]

Cleared == d_request' = [i \in Table |-> None] /\ d_request_iobuf' = [i \in Table |-> None]
           /\ temp' = [i \in Table |-> FALSE]

HardfileInit ==
  /\ d_request = [i \in Table |-> None] /\ d_request_iobuf = [i \in Table |-> None]
  /\ temp = [i \in Table |-> FALSE] /\ live = {} /\ requests = <<>>
  /\ thread_running = FALSE /\ change_sem = 1 /\ sync_sem = None /\ opencnt = 0 /\ opens = 0
  /\ crowded = FALSE
  /\ command = [r \in Requests |-> "io"] /\ j = 0
  /\ owner = [r \in Requests |-> "program"] /\ content = [r \in Requests |-> "old"]
  /\ pc = [a \in Actors |-> IF a = Emu THEN "idle" ELSE "dead"]
  /\ request = [a \in Actors |-> None] /\ iobuf = [a \in Actors |-> None]
  /\ slot = [a \in Actors |-> 1]

-----------------------------------------------------------------------------
(* The table, on either thread: each step reads or writes one field.       *)

First(r) == CHOOSE i \in Table : d_request[i] = r /\ \A k \in 1..(i - 1) : d_request[k] # r

\* Where actor a goes on when its request has an entry (back), and when it has none left.
Added(a) == IF a = Emu THEN "put" ELSE "keep"
NotAdded(a) == IF a = Emu THEN "put" ELSE "done"
Released(a) == IF a # Emu THEN "reply" ELSE IF j = 0 THEN "idle" ELSE "resetabort"

\* add_async_request: the entry that has the request already changes its type only; or it
\* claims a free one.
Reuse(a) ==
  /\ pc[a] = "claim" /\ \E i \in Table : d_request[i] = request[a]
  /\ slot' = [slot EXCEPT ![a] = First(request[a])] /\ Goto(a, "type")
  /\ UNCHANGED <<heap, requests, sync, count, ioreq, request, iobuf, j>>

Claim(a) ==
  /\ pc[a] = "claim" /\ \A i \in Table : d_request[i] # request[a]
  /\ IF \E i \in Table : d_request[i] = None
     THEN /\ slot' = [slot EXCEPT ![a] = First(None)]
          /\ d_request' = [d_request EXCEPT ![First(None)] = request[a]]
          /\ Goto(a, "fill")
     ELSE Goto(a, NotAdded(a)) /\ UNCHANGED <<slot, d_request>>
  /\ UNCHANGED <<d_request_iobuf, temp, live, requests, sync, count, ioreq, request, iobuf, j>>

FillIobuf(a) ==
  /\ pc[a] = "fill" /\ Goto(a, "type")
  /\ d_request_iobuf' = [d_request_iobuf EXCEPT ![slot[a]] = iobuf[a]]
  /\ UNCHANGED <<d_request, temp, live, requests, sync, count, ioreq, frames>>

\* beginio's type is ASYNC_REQUEST_TEMP, the thread's ASYNC_REQUEST_CHANGEINT.
FillType(a) ==
  /\ pc[a] = "type" /\ Goto(a, Added(a))
  /\ temp' = [temp EXCEPT ![slot[a]] = a = Emu] /\ slot' = [slot EXCEPT ![a] = 1]
  /\ UNCHANGED <<d_request, d_request_iobuf, live, requests, sync, count, ioreq, request, iobuf, j>>

\* release_async_request clears an entry's request before the rest of the entry.
Find(a) ==
  /\ pc[a] = "release"
  /\ IF \E i \in Table : d_request[i] = request[a]
     THEN /\ slot' = [slot EXCEPT ![a] = First(request[a])]
          /\ d_request' = [d_request EXCEPT ![First(request[a])] = None]
          /\ Goto(a, "free")
     ELSE Goto(a, Released(a)) /\ UNCHANGED <<slot, d_request>>
  /\ UNCHANGED <<d_request_iobuf, temp, live, requests, sync, count, ioreq, request, iobuf, j>>

Free(a) ==
  /\ pc[a] = "free" /\ Goto(a, "clear")
  /\ live' = live \ {d_request_iobuf[slot[a]]}
  /\ UNCHANGED <<table, requests, sync, count, ioreq, frames>>

Clear(a) ==
  /\ pc[a] = "clear" /\ Goto(a, Released(a))
  /\ d_request_iobuf' = [d_request_iobuf EXCEPT ![slot[a]] = None]
  /\ temp' = [temp EXCEPT ![slot[a]] = FALSE] /\ slot' = [slot EXCEPT ![a] = 1]
  /\ UNCHANGED <<d_request, live, requests, sync, count, ioreq, request, iobuf, j>>

TableStep(a) == Reuse(a) \/ Claim(a) \/ FillIobuf(a) \/ FillType(a) \/ Find(a) \/ Free(a) \/ Clear(a)

-----------------------------------------------------------------------------
(* The emulator thread.                                                    *)

\* The program calls open, beginio or abortio, each of which calls start_thread first.
\* beginio copies the request.
CallOpen ==
  /\ pc[Emu] = "idle" /\ opens < MaxOpens /\ opens' = opens + 1
  /\ Goto(Emu, "open")
  /\ UNCHANGED <<heap, requests, sync, opencnt, ioreq, frames>>

CallBeginIo ==
  /\ pc[Emu] = "idle" /\ opencnt > 0 /\ Goto(Emu, "begin")
  /\ \E r \in Requests, b \in Bufs \ live, c \in {"io", "add"} :
       /\ owner[r] = "program" /\ owner' = [owner EXCEPT ![r] = "device"]
       /\ content' = [content EXCEPT ![r] = "old"] /\ command' = [command EXCEPT ![r] = c]
       /\ live' = live \union {b} /\ Local(Emu, r, b)
  /\ UNCHANGED <<table, requests, sync, count, slot, j>>

CallAbortIo ==
  /\ pc[Emu] = "idle" /\ opencnt > 0 /\ Goto(Emu, "abort")
  /\ \E r \in Requests : Local(Emu, r, None)
  /\ UNCHANGED <<heap, requests, sync, count, ioreq, slot, j>>

\* beginio of CMD_REMCHANGEINT, with the request of a CMD_ADDCHANGEINT that has been kept: one
\* that comes before that is replied while the thread still has the request.
CallRemChangeInt ==
  /\ pc[Emu] = "idle" /\ opencnt > 0 /\ Goto(Emu, "remove")
  /\ \E r \in Requests : owner[r] = "device" /\ content[r] = "kept" /\ Local(Emu, r, None)
  /\ UNCHANGED <<heap, requests, sync, count, ioreq, slot, j>>

Call == CallOpen \/ CallBeginIo \/ CallAbortIo \/ CallRemChangeInt

\* start_thread: with no thread, it makes a new one and waits for it.
Then == [open |-> "opened", begin |-> "claim", abort |-> "mark", remove |-> "quick"]
Waits == [open |-> "openwait", begin |-> "beginwait", abort |-> "abortwait", remove |-> "removewait"]
Calls == DOMAIN Then

StartThread(l) ==
  /\ pc[Emu] = l
  /\ \/ thread_running /\ Goto(Emu, Then[l])
        /\ UNCHANGED <<table, requests, sync_sem, request, crowded>>
     \/ \E t \in Threads :
          /\ ~thread_running /\ pc[t] = "dead"
          /\ Cleared /\ requests' = <<>> /\ sync_sem' = 0
          /\ pc' = [pc EXCEPT ![t] = "start", ![Emu] = Waits[l]]
          /\ crowded' = (crowded \/ \E d \in Threads : pc[d] # "dead")
          /\ UNCHANGED request
  /\ UNCHANGED <<live, thread_running, change_sem, count, ioreq, iobuf, slot, j>>

\* Without a thread the call fails; beginio gives the request back at once, with an error.
Refuse(l) ==
  /\ Goto(Emu, "idle")
  /\ live' = IF l = "begin" THEN live \ {iobuf[Emu]} ELSE live
  /\ owner' = IF l \in {"begin", "remove"} THEN [owner EXCEPT ![request[Emu]] = "program"] ELSE owner

Started(l) ==
  /\ pc[Emu] = Waits[l] /\ sync_sem # 0 /\ sync_sem' = sync_sem - 1
  /\ IF thread_running THEN Goto(Emu, Then[l]) /\ UNCHANGED <<live, owner>> ELSE Refuse(l)
  /\ UNCHANGED <<table, requests, thread_running, change_sem, count, command, content, frames>>

Opened ==
  /\ pc[Emu] = "opened" /\ opencnt' = opencnt + 1 /\ Goto(Emu, "idle")
  /\ UNCHANGED <<heap, requests, sync, opens, ioreq, frames>>

\* It writes the request's flags back, and only then gives it to the thread.
WriteFlags ==
  /\ pc[Emu] = "put" /\ Goto(Emu, "post")
  /\ content' = [content EXCEPT ![request[Emu]] = "sent"]
  /\ UNCHANGED <<heap, requests, sync, count, command, owner, frames>>

Message == [request |-> request[Emu], iobuf |-> iobuf[Emu]]

\* Mutant of Post: the flags are written back after the thread was told.
PostThenPut ==
  \/ /\ pc[Emu] = "post" /\ Goto(Emu, "late") /\ requests' = Append(requests, Message)
     /\ UNCHANGED <<heap, sync, count, ioreq, frames>>
  \/ /\ pc[Emu] = "late" /\ Goto(Emu, "idle")
     /\ content' = [content EXCEPT ![request[Emu]] = "sent"]
     /\ UNCHANGED <<heap, requests, sync, count, command, owner, frames>>

Post ==
  /\ pc[Emu] = "post" /\ Goto(Emu, "idle") /\ Local(Emu, None, None)
  /\ requests' = Append(requests, Message)
  /\ UNCHANGED <<heap, sync, count, ioreq, slot, j>>

\* abortio sets io_Error, whether the device still has the request or not.
MarkAborted ==
  /\ pc[Emu] = "mark" /\ Goto(Emu, "scan")
  /\ content' = [content EXCEPT ![request[Emu]] = "aborted"]
  /\ UNCHANGED <<heap, requests, sync, count, command, owner, frames>>

Scan ==
  /\ pc[Emu] = "scan"
  /\ ~\E i \in Table : d_request[i] = request[Emu] /\ temp[i]
  /\ Goto(Emu, "release")
  /\ UNCHANGED <<heap, requests, sync, count, ioreq, frames>>

\* The program closes the unit when it has its requests back; the last close stops the thread.
Close ==
  /\ pc[Emu] = "idle" /\ opencnt > 0 /\ opencnt' = opencnt - 1
  /\ opencnt = 1 => \A r \in Requests : owner[r] = "program"
  /\ requests' = IF opencnt = 1 THEN Append(requests, Stop) ELSE requests
  /\ UNCHANGED <<heap, sync, opens, ioreq, pc, frames>>

\* It is done at once, and replied, whatever the thread does with the request.
RemChangeInt ==
  /\ pc[Emu] = "quick" /\ Goto(Emu, "release")
  /\ content' = [content EXCEPT ![request[Emu]] = "done"]
  /\ owner' = [owner EXCEPT ![request[Emu]] = "program"]
  /\ UNCHANGED <<heap, requests, sync, count, command, frames>>

\* hardfile_reset: it aborts the requests in the table, stops the thread, waits for it, and
\* clears everything.  A hard reset may have cleared the open count it looks at before.
\* Bound: a unit that is or was crowded is not reset.
Reset ==
  /\ pc[Emu] = "idle" /\ ~crowded
  /\ \/ opencnt > 0 /\ j' = 1 /\ Goto(Emu, "resetabort")
     \/ Goto(Emu, "resetstop") /\ UNCHANGED j
  /\ UNCHANGED <<heap, requests, sync, count, ioreq, request, iobuf, slot>>

ResetAbort ==
  /\ pc[Emu] = "resetabort"
  /\ IF j > Slots THEN Goto(Emu, "resetstop") /\ UNCHANGED <<request, j>>
     ELSE /\ j' = j + 1
          /\ request' = [request EXCEPT ![Emu] = d_request[j]]
          /\ IF d_request[j] = None THEN UNCHANGED pc ELSE Goto(Emu, "scan")
  /\ UNCHANGED <<heap, requests, sync, count, ioreq, iobuf, slot>>

ResetStop ==
  /\ pc[Emu] = "resetstop"
  /\ IF thread_running THEN requests' = Append(requests, Stop) /\ Goto(Emu, "resetwait")
     ELSE Goto(Emu, "resetclear") /\ UNCHANGED requests
  /\ j' = 0 /\ UNCHANGED <<heap, sync, count, ioreq, request, iobuf, slot>>

ResetWait ==
  /\ pc[Emu] = "resetwait" /\ ~thread_running /\ Goto(Emu, "resetclear")
  /\ sync_sem' = None
  /\ UNCHANGED <<heap, requests, thread_running, change_sem, count, ioreq, frames>>

ResetClear ==
  /\ pc[Emu] = "resetclear" /\ Goto(Emu, "idle")
  /\ Cleared /\ thread_running' = FALSE /\ sync_sem' = None /\ requests' = <<>>
  /\ opencnt' = 0 /\ opens' = 0
  /\ command' = [r \in Requests |-> "io"]
  /\ owner' = [r \in Requests |-> "program"] /\ content' = [r \in Requests |-> "old"]
  /\ UNCHANGED <<live, change_sem, frames>>

EmuStep ==
  \/ \E l \in Calls : Started(l)
  \/ Opened \/ TableStep(Emu) \/ WriteFlags \/ Post \/ MarkAborted \/ Scan \/ RemChangeInt
  \/ ResetAbort \/ ResetStop \/ ResetWait \/ ResetClear

-----------------------------------------------------------------------------
(* hardfile_thread.                                                        *)

PostSync == sync_sem' = IF sync_sem = None THEN None ELSE sync_sem + 1

Start(t) ==
  /\ pc[t] = "start" /\ thread_running' = TRUE /\ Goto(t, "started")
  /\ UNCHANGED <<heap, requests, change_sem, sync_sem, count, ioreq, frames>>

Report(t) ==
  /\ pc[t] = "started" /\ PostSync /\ Goto(t, "read")
  /\ UNCHANGED <<heap, requests, thread_running, change_sem, count, ioreq, frames>>

Read(t) ==
  /\ pc[t] = "read" /\ requests # <<>>
  /\ Local(t, Head(requests).request, Head(requests).iobuf)
  /\ requests' = Tail(requests) /\ Goto(t, "lock")
  /\ UNCHANGED <<heap, sync, count, ioreq, slot, j>>

\* Mutant of Lock: a thread that is to end does not wait for change_sem.
LockUnlessEnding(t) ==
  \/ /\ pc[t] = "lock" /\ request[t] = None /\ Goto(t, "exit")
     /\ UNCHANGED <<heap, requests, sync, count, ioreq, frames>>
  \/ /\ pc[t] = "lock" /\ request[t] # None /\ change_sem > 0 /\ change_sem' = change_sem - 1
     /\ Goto(t, "io")
     /\ UNCHANGED <<heap, requests, thread_running, sync_sem, count, ioreq, frames>>

Lock(t) ==
  /\ pc[t] = "lock" /\ change_sem > 0 /\ change_sem' = change_sem - 1
  /\ Goto(t, IF request[t] = None THEN "exit" ELSE "io")
  /\ UNCHANGED <<heap, requests, thread_running, sync_sem, count, ioreq, frames>>

\* hardfile_do_io: CMD_ADDCHANGEINT adds its request to the table, as one to be kept; the
\* others read and write the copy, which is copied into the request.
AddChangeInt(t) ==
  /\ pc[t] = "io" /\ command[request[t]] = "add" /\ Goto(t, "claim")
  /\ UNCHANGED <<heap, requests, sync, count, ioreq, frames>>

DoIo(t) ==
  /\ pc[t] = "done" \/ (pc[t] = "io" /\ command[request[t]] = "io")
  /\ Goto(t, "release") /\ content' = [content EXCEPT ![request[t]] = "done"]
  /\ UNCHANGED <<heap, requests, sync, count, command, owner, frames>>

\* A request that is kept is written back, and not replied.
Keep(t) ==
  /\ pc[t] = "keep" /\ Goto(t, "unlock")
  /\ content' = [content EXCEPT ![request[t]] = "kept"]
  /\ UNCHANGED <<heap, requests, sync, count, command, owner, frames>>

ReplyMsg(t) ==
  /\ pc[t] = "reply" /\ Goto(t, "unlock")
  /\ owner' = [owner EXCEPT ![request[t]] = "program"]
  /\ UNCHANGED <<heap, requests, sync, count, command, content, frames>>

Unlock(t) ==
  /\ pc[t] = "unlock" /\ change_sem' = change_sem + 1
  /\ Goto(t, "read") /\ Local(t, None, None)
  /\ UNCHANGED <<heap, requests, thread_running, sync_sem, count, ioreq, slot, j>>

Exit(t) ==
  /\ pc[t] = "exit" /\ thread_running' = FALSE /\ Goto(t, "exitsync")
  /\ UNCHANGED <<heap, requests, change_sem, sync_sem, count, ioreq, frames>>

ExitSync(t) ==
  /\ pc[t] = "exitsync" /\ PostSync /\ Goto(t, "exitunlock")
  /\ UNCHANGED <<heap, requests, thread_running, change_sem, count, ioreq, frames>>

ExitUnlock(t) ==
  /\ pc[t] = "exitunlock" /\ change_sem' = change_sem + 1 /\ Goto(t, "dead")
  /\ UNCHANGED <<heap, requests, thread_running, sync_sem, count, ioreq, frames>>

ThreadStep(t) ==
  \/ Start(t) \/ Report(t) \/ Read(t) \/ Lock(t) \/ AddChangeInt(t) \/ DoIo(t) \/ Keep(t)
  \/ TableStep(t) \/ ReplyMsg(t) \/ Unlock(t) \/ Exit(t) \/ ExitSync(t) \/ ExitUnlock(t)

HardfileNext ==
  \/ \E l \in Calls : StartThread(l)
  \/ UNCHANGED crowded /\ (Call \/ Close \/ Reset \/ EmuStep \/ \E t \in Threads : ThreadStep(t))
HardfileSpec == HardfileInit /\ [][HardfileNext]_hardfile_vars

-----------------------------------------------------------------------------
HardfileTypeOK ==
  /\ d_request \in [Table -> Requests \union {None}]
  /\ d_request_iobuf \in [Table -> Bufs \union {None}] /\ temp \in [Table -> BOOLEAN]
  /\ live \subseteq Bufs
  /\ requests \in Seq([request : Requests \union {None}, iobuf : Bufs \union {None}])
  /\ thread_running \in BOOLEAN /\ change_sem \in {0, 1} /\ sync_sem \in Nat \union {None}
  /\ opencnt \in Nat /\ opens \in 0..MaxOpens
  /\ command \in [Requests -> {"io", "add"}] /\ owner \in [Requests -> {"program", "device"}]
  /\ content \in [Requests -> {"old", "sent", "done", "kept", "aborted"}]
  /\ request \in [Actors -> Requests \union {None}] /\ iobuf \in [Actors -> Bufs \union {None}]
  /\ slot \in [Actors -> Table] /\ j \in 0..(Slots + 1)

\* Between its wait for change_sem and its post.
Locked == {"io", "done", "claim", "fill", "type", "keep", "release", "free", "clear", "reply",
           "unlock", "exit", "exitsync", "exitunlock"}

\* Threads of a unit that overlap, the old one with its last posts still to make, never work
\* at the same time: change_sem counts who has it, however they end and are started again.
OneWorks ==
  /\ HardfileTypeOK
  /\ Cardinality({t \in Threads : pc[t] \in Locked}) = 1 - change_sem

\* A request comes back to the program with the result of its I/O in it, or marked as aborted,
\* and then only an abort writes into it: as long as no thread has been started while another
\* had still to end, for a reset ends but one of them.
ResultKept ==
  [][\A r \in Requests :
       command[r] = "io" /\ ~crowded =>
         /\ owner[r] = "device" /\ owner'[r] = "program" =>
              content[r] \in {"done", "aborted"} \/ pc[Emu] \in {"beginwait", "resetclear"}
         /\ content'[r] # content[r] =>
              owner'[r] = "device" \/ pc[Emu] \in {"mark", "resetclear"}]_hardfile_vars
=============================================================================
