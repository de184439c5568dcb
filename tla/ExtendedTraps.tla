--------------------------- MODULE ExtendedTraps ---------------------------
(***************************************************************************)
(* Extended traps (traps.cpp): 68k code executes a trap whose host handler *)
(* runs on a thread of its own and may call 68k functions.  The emulator   *)
(* thread and the trap threads hand the one set of 68k registers to each   *)
(* other through two semaphores a context has, under trap_mutex.           *)
(*                                                                         *)
(* The 68k side is an operating system with several tasks: each has its    *)
(* own stack, may trap from ordinary code and from the functions handlers  *)
(* call, and may be switched between any two instructions unless the       *)
(* interrupt mask is 7.                                                    *)
(***************************************************************************)
EXTENDS Naturals

CONSTANTS
  Tasks,      \* 68k tasks
  Contexts,   \* addresses a TrapContext may have; bounds the traps under way
  NoContext,  \* the null pointer
  MaxCalls,   \* bound: 68k calls a handler makes
  Depth       \* bound: frames on a 68k stack

ASSUME TrapAssumption ==
  /\ Tasks # {} /\ NoContext \notin Contexts
  /\ MaxCalls \in Nat /\ Depth \in Nat \ {0}

VARIABLES
  regs,               \* the 68k registers
  stack,              \* [task -> its stack: the contexts m68k_call_handler pushed]
  switched,           \* [task -> its registers while it is switched out]
  trap_mutex, current_context,
  epc, ectx,          \* emulator thread: its place, and its local variable context
  live,               \* the contexts allocated
  tpc, calls,         \* trap threads: place, 68k calls begun
  saved_regs, call68k_func_addr, call68k_retval, switch_to_emu, switch_to_trap

m68k == <<regs, stack, switched>>
emu == <<epc, ectx>>
threads == <<tpc, calls>>
fields == <<saved_regs, call68k_func_addr, call68k_retval>>
sems == <<switch_to_emu, switch_to_trap>>
vars == <<m68k, trap_mutex, current_context, emu, live, threads, fields, sems>>

\* A function's address names the call it is the target of.
None == <<>>
Functions == {None} \cup (Contexts \X (1..MaxCalls))

\* The registers: whose they are, A7 (in frames), PC (its place, and the function it is in,
\* which is also what the function leaves in D0), and whether SR's mask is 7.
Places == {"code", "m68k_call", "m68k_return", "exit_trap"}
Registers == [task : Tasks, sp : 0..Depth, pc : Places, fn : Functions, masked : BOOLEAN]
Fresh(t) == [task |-> t, sp |-> 0, pc |-> "code", fn |-> None, masked |-> FALSE]
Zeroed == Fresh(CHOOSE t \in Tasks : TRUE)   \* a context not allocated, xcalloc's memory

Init ==
  /\ regs \in {Fresh(t) : t \in Tasks}
  /\ stack = [t \in Tasks |-> [i \in 1..Depth |-> NoContext]]
  /\ switched = [t \in Tasks |-> Fresh(t)]
  /\ trap_mutex = 1 /\ current_context = NoContext
  /\ epc = "run" /\ ectx = NoContext /\ live = {}
  /\ tpc = [c \in Contexts |-> "none"] /\ calls = [c \in Contexts |-> 0]
  /\ saved_regs = [c \in Contexts |-> Zeroed]
  /\ call68k_func_addr = [c \in Contexts |-> None]
  /\ call68k_retval = [c \in Contexts |-> None]
  /\ switch_to_emu = [c \in Contexts |-> 0] /\ switch_to_trap = [c \in Contexts |-> 0]

-----------------------------------------------------------------------------
(* 68k code, run by the emulator thread. *)

\* The operating system gives the processor to another task.
SwitchTask(t) ==
  /\ epc = "run" /\ ~regs.masked /\ t # regs.task
  /\ switched' = [switched EXCEPT ![regs.task] = regs, ![t] = Fresh(t)] /\ regs' = switched[t]
  /\ UNCHANGED <<stack, trap_mutex, current_context, emu, live, threads, fields, sems>>

\* A function called from a handler returns, through the return address on its stack.
Rts ==
  /\ epc = "run" /\ regs.pc = "code" /\ regs.fn # None
  /\ regs' = [regs EXCEPT !.pc = "m68k_return"]
  /\ UNCHANGED <<stack, switched, trap_mutex, current_context, emu, live, threads, fields, sems>>

\* trap_HandleExtendedTrap up to the start of the thread.
HandleExtendedTrap(c) ==
  /\ epc = "run" /\ regs.pc = "code" /\ c \notin live /\ regs.sp < Depth
  /\ live' = live \cup {c} /\ saved_regs' = [saved_regs EXCEPT ![c] = regs]
  /\ tpc' = [tpc EXCEPT ![c] = "start"]
  /\ ectx' = c /\ epc' = "trap"
  /\ UNCHANGED <<m68k, trap_mutex, current_context, calls, call68k_func_addr, call68k_retval, sems>>

TrapPost ==
  /\ epc = "trap"
  /\ switch_to_trap' = [switch_to_trap EXCEPT ![ectx] = @ + 1] /\ epc' = "await"
  /\ UNCHANGED <<m68k, trap_mutex, current_context, ectx, live, threads, fields, switch_to_emu>>

\* The end of trap_HandleExtendedTrap and of m68k_return_handler.
AwaitTrap ==
  /\ epc = "await" /\ switch_to_emu[ectx] > 0
  /\ switch_to_emu' = [switch_to_emu EXCEPT ![ectx] = @ - 1] /\ epc' = "run"
  /\ UNCHANGED <<m68k, trap_mutex, current_context, ectx, live, threads, fields, switch_to_trap>>

CallHandler ==
  /\ epc = "run" /\ regs.pc = "m68k_call"
  /\ ectx' = current_context /\ epc' = "unlock"
  /\ stack' = [stack EXCEPT ![regs.task][regs.sp + 1] = current_context]
  /\ regs' = [regs EXCEPT !.sp = @ + 1, !.pc = "code", !.fn = call68k_func_addr[current_context],
                          !.masked = saved_regs[current_context].masked]
  /\ UNCHANGED <<switched, trap_mutex, current_context, live, threads, fields, sems>>

\* Mutant of Unlock: the emulator thread leaves trap_mutex taken.
UnlockForgotten ==
  /\ epc = "unlock" /\ epc' = "run"
  /\ UNCHANGED <<m68k, trap_mutex, current_context, ectx, live, threads, fields, sems>>

\* The end of m68k_call_handler and of exit_trap_handler.
Unlock ==
  /\ epc = "unlock"
  /\ trap_mutex' = trap_mutex + 1 /\ epc' = "run"
  /\ UNCHANGED <<m68k, current_context, ectx, live, threads, fields, sems>>

ReturnLock ==
  /\ epc = "run" /\ regs.pc = "m68k_return"
  /\ trap_mutex = 1 /\ trap_mutex' = 0 /\ epc' = "return"
  /\ UNCHANGED <<m68k, current_context, ectx, live, threads, fields, sems>>

\* Mutant of ReturnHandler: the context is current_context, not the one on the stack.
ReturnCurrent ==
  /\ epc = "return"
  /\ LET c == current_context
     IN /\ ectx' = c
        /\ call68k_retval' = [call68k_retval EXCEPT ![c] = regs.fn]
        /\ switch_to_trap' = [switch_to_trap EXCEPT ![c] = @ + 1]
  /\ stack' = [stack EXCEPT ![regs.task][regs.sp] = NoContext]
  /\ regs' = [regs EXCEPT !.sp = @ - 1] /\ epc' = "await"
  /\ UNCHANGED <<switched, trap_mutex, current_context, live, threads,
                 saved_regs, call68k_func_addr, switch_to_emu>>

\* Mutant of ReturnHandler: the context is read from the stack and left there.
ReturnUnpopped ==
  /\ epc = "return"
  /\ LET c == stack[regs.task][regs.sp]
     IN /\ ectx' = c
        /\ call68k_retval' = [call68k_retval EXCEPT ![c] = regs.fn]
        /\ switch_to_trap' = [switch_to_trap EXCEPT ![c] = @ + 1]
  /\ epc' = "await"
  /\ UNCHANGED <<m68k, trap_mutex, current_context, live, threads,
                 saved_regs, call68k_func_addr, switch_to_emu>>

ReturnHandler ==
  /\ epc = "return"
  /\ LET c == stack[regs.task][regs.sp]
     IN /\ ectx' = c
        /\ call68k_retval' = [call68k_retval EXCEPT ![c] = regs.fn]
        /\ switch_to_trap' = [switch_to_trap EXCEPT ![c] = @ + 1]
  /\ stack' = [stack EXCEPT ![regs.task][regs.sp] = NoContext]
  /\ regs' = [regs EXCEPT !.sp = @ - 1] /\ epc' = "await"
  /\ UNCHANGED <<switched, trap_mutex, current_context, live, threads,
                 saved_regs, call68k_func_addr, switch_to_emu>>

\* Mutant of ExitJoin: the thread is not waited for.
ExitUnjoined ==
  /\ epc = "run" /\ regs.pc = "exit_trap"
  /\ ectx' = current_context /\ epc' = "exit"
  /\ UNCHANGED <<m68k, trap_mutex, current_context, live, threads, fields, sems>>

\* uae_wait_thread: the context is freed only when its thread is gone.
ExitJoin ==
  /\ epc = "run" /\ regs.pc = "exit_trap"
  /\ ectx' = current_context /\ tpc[current_context] = "exited"
  /\ tpc' = [tpc EXCEPT ![current_context] = "none"] /\ epc' = "exit"
  /\ UNCHANGED <<m68k, trap_mutex, current_context, live, calls, fields, sems>>

\* Restore the registers, free the context (what was in it is of no interest any more).
ExitTrapHandler ==
  /\ epc = "exit" /\ epc' = "unlock"
  /\ regs' = saved_regs[ectx] /\ live' = live \ {ectx}
  /\ saved_regs' = [saved_regs EXCEPT ![ectx] = Zeroed]
  /\ calls' = [calls EXCEPT ![ectx] = 0]
  /\ call68k_func_addr' = [call68k_func_addr EXCEPT ![ectx] = None]
  /\ call68k_retval' = [call68k_retval EXCEPT ![ectx] = None]
  /\ switch_to_emu' = [switch_to_emu EXCEPT ![ectx] = 0]
  /\ switch_to_trap' = [switch_to_trap EXCEPT ![ectx] = 0]
  /\ UNCHANGED <<stack, switched, trap_mutex, current_context, ectx, tpc>>

\* What the emulator thread does by itself once 68k code has trapped.
EmuHandler ==
  \/ TrapPost \/ AwaitTrap \/ CallHandler \/ Unlock
  \/ ReturnLock \/ ReturnHandler \/ ExitJoin \/ ExitTrapHandler

Emulator ==
  \/ EmuHandler \/ Rts
  \/ \E t \in Tasks : SwitchTask(t)
  \/ \E c \in Contexts : HandleExtendedTrap(c)

-----------------------------------------------------------------------------
(* A trap thread: trap_thread, its handler, and trap_Call68k. *)

Goto(c, from, to) == tpc[c] = from /\ tpc' = [tpc EXCEPT ![c] = to]

\* Mutant of ThreadStart: the thread does not wait for the emulator to switch to it.
ThreadStartAtOnce(c) ==
  /\ Goto(c, "start", "handler")
  /\ UNCHANGED <<m68k, trap_mutex, current_context, emu, live, calls, fields, sems>>

ThreadStart(c) ==
  /\ Goto(c, "start", "handler")
  /\ switch_to_trap[c] > 0 /\ switch_to_trap' = [switch_to_trap EXCEPT ![c] = @ - 1]
  /\ UNCHANGED <<m68k, trap_mutex, current_context, emu, live, calls, fields, switch_to_emu>>

HandlerCall(c) ==
  /\ Goto(c, "handler", "call_lock")
  /\ calls[c] < MaxCalls /\ calls' = [calls EXCEPT ![c] = @ + 1]
  /\ UNCHANGED <<m68k, trap_mutex, current_context, emu, live, fields, sems>>

HandlerReturn(c) ==
  /\ Goto(c, "handler", "end_lock")
  /\ UNCHANGED <<m68k, trap_mutex, current_context, emu, live, calls, fields, sems>>

LockMutex(c) ==
  /\ Goto(c, "call_lock", "call") \/ Goto(c, "end_lock", "end")
  /\ trap_mutex = 1 /\ trap_mutex' = 0
  /\ UNCHANGED <<m68k, current_context, emu, live, calls, fields, sems>>

Call68k(c) ==
  /\ Goto(c, "call", "call_post")
  /\ current_context' = c
  /\ call68k_func_addr' = [call68k_func_addr EXCEPT ![c] = <<c, calls[c]>>]
  /\ regs' = [regs EXCEPT !.masked = TRUE, !.pc = "m68k_call"]
  /\ UNCHANGED <<stack, switched, trap_mutex, emu, live, calls, saved_regs,
                 call68k_retval, sems>>

EndTrap(c) ==
  /\ Goto(c, "end", "end_post")
  /\ current_context' = c
  /\ regs' = [saved_regs[c] EXCEPT !.masked = TRUE, !.pc = "exit_trap"]
  /\ UNCHANGED <<stack, switched, trap_mutex, emu, live, calls, fields, sems>>

SwitchToEmu(c) ==
  /\ Goto(c, "call_post", "call_wait") \/ Goto(c, "end_post", "leaving")
  /\ switch_to_emu' = [switch_to_emu EXCEPT ![c] = @ + 1]
  /\ UNCHANGED <<m68k, trap_mutex, current_context, emu, live, calls, fields, switch_to_trap>>

CallResume(c) ==
  /\ Goto(c, "call_wait", "call_unlock")
  /\ switch_to_trap[c] > 0 /\ switch_to_trap' = [switch_to_trap EXCEPT ![c] = @ - 1]
  /\ UNCHANGED <<m68k, trap_mutex, current_context, emu, live, calls, fields, switch_to_emu>>

CallUnlock(c) ==
  /\ Goto(c, "call_unlock", "handler")
  /\ trap_mutex' = trap_mutex + 1
  /\ UNCHANGED <<m68k, current_context, emu, live, calls, fields, sems>>

ThreadExit(c) ==
  /\ Goto(c, "leaving", "exited")
  /\ UNCHANGED <<m68k, trap_mutex, current_context, emu, live, calls, fields, sems>>

TrapThread(c) ==
  \/ ThreadStart(c) \/ HandlerCall(c) \/ HandlerReturn(c) \/ LockMutex(c) \/ Call68k(c)
  \/ EndTrap(c) \/ SwitchToEmu(c) \/ CallResume(c) \/ CallUnlock(c) \/ ThreadExit(c)

-----------------------------------------------------------------------------
Next == Emulator \/ \E c \in Contexts : TrapThread(c)
Spec == Init /\ [][Next]_vars

\* Host threads run, and a handler ends.  Nothing is assumed of the 68k's scheduling.
FairSpec == Spec /\ WF_vars(EmuHandler) /\ \A c \in Contexts : WF_vars(TrapThread(c))

ThreadPlaces ==
  {"none", "start", "handler", "call_lock", "call", "call_post", "call_wait", "call_unlock",
   "end_lock", "end", "end_post", "leaving", "exited"}

TypeOK ==
  /\ regs \in Registers /\ stack \in [Tasks -> [1..Depth -> Contexts \cup {NoContext}]]
  /\ switched \in [Tasks -> Registers]
  /\ trap_mutex \in 0..1 /\ current_context \in Contexts \cup {NoContext}
  /\ epc \in {"run", "trap", "await", "unlock", "return", "exit"}
  /\ ectx \in Contexts \cup {NoContext} /\ live \subseteq Contexts
  /\ tpc \in [Contexts -> ThreadPlaces]
  /\ calls \in [Contexts -> 0..MaxCalls]
  /\ saved_regs \in [Contexts -> Registers]
  /\ call68k_func_addr \in [Contexts -> Functions] /\ call68k_retval \in [Contexts -> Functions]
  /\ switch_to_emu \in [Contexts -> 0..1] /\ switch_to_trap \in [Contexts -> 0..1]

\* The handler of c runs: its thread is between a switch to it and its switch back.
HandlerRuns(c) ==
  tpc[c] \in {"handler", "call_lock", "call", "call_post", "call_unlock", "end_lock", "end", "end_post"}
EmuRuns == epc \in {"run", "unlock", "return", "exit"}

\* The registers have one owner: two host threads never run 68k code or handlers at once,
\* although neither the registers nor the handlers' accesses to them are locked.
OneOwner ==
  /\ \A c, d \in Contexts : HandlerRuns(c) /\ HandlerRuns(d) => c = d
  /\ EmuRuns => \A c \in Contexts : ~HandlerRuns(c)

\* Nobody ever finds trap_mutex taken: a contender would hold the registers, which the
\* mutex's holder needs to get on, and the emulator would hang.
NeverContended ==
  /\ epc = "run" /\ regs.pc = "m68k_return" => trap_mutex = 1
  /\ \A c \in Contexts : tpc[c] \in {"call_lock", "end_lock"} => trap_mutex = 1

\* A handler finds the processor in the task that trapped and at the stack depth of the
\* trap, however many tasks ran and trapped during its 68k calls.
OwnFrame ==
  \A c \in Contexts : HandlerRuns(c) =>
    regs.task = saved_regs[c].task /\ regs.sp = saved_regs[c].sp

\* A 68k call gives the handler the result of the function it called.
OwnResult ==
  \A c \in Contexts : tpc[c] = "call_unlock" => call68k_retval[c] = <<c, calls[c]>>

\* No freed context is used: by its thread, by the emulator thread's wait, from a stack.
NoUseAfterFree ==
  /\ \A c \in Contexts : tpc[c] \notin {"none", "exited"} => c \in live
  /\ epc \in {"trap", "await", "exit"} => ectx \in live
  /\ \A t \in Tasks : LET r == IF t = regs.task THEN regs ELSE switched[t]
                      IN \A i \in 1..r.sp : stack[t][i] \in live

\* A switch away from the emulator comes back, and trap_mutex is given back by whichever
\* thread the protocol leaves it to.
EmuResumes == (epc # "run" ~> epc = "run") /\ (trap_mutex = 0 ~> trap_mutex = 1)
=============================================================================
