----------------------- MODULE ExtendedTraps_proofs -----------------------
(***************************************************************************)
(* The hand-over of the 68k registers between the emulator thread and the  *)
(* trap threads, for any number of tasks, contexts and calls and any depth *)
(* of the stacks.                                                          *)
(***************************************************************************)
EXTENDS ExtendedTraps, TLAPS

USE TrapAssumption

\* The context whose trap is under way: the emulator thread waits for its thread, has just
\* been called by it, or ends it.  All other contexts wait on a 68k stack for a return.
Called == epc = "run" /\ regs.pc \in {"m68k_call", "exit_trap"}
Active(c) == IF epc \in {"trap", "await", "exit"} THEN c = ectx ELSE Called /\ c = current_context

\* The registers of a task, and the function that runs on its stack at a depth.
Reg(t) == IF t = regs.task THEN regs ELSE switched[t]
FnAt(t, k) == IF k = 0 THEN None ELSE <<stack[t][k], calls[stack[t][k]]>>

NoSwitch(c) == switch_to_emu[c] = 0 /\ switch_to_trap[c] = 0

\* A context's thread has asked for the emulator: how the registers and current_context tell.
AskedCall(c) == current_context = c /\ regs.masked /\ regs.pc = "m68k_call"
AskedExit(c) == current_context = c /\ regs.masked /\ regs.pc = "exit_trap"

\* Who holds trap_mutex, and where the two threads can be.
Phase ==
  /\ Called => current_context \in live
  /\ epc \in {"trap", "await", "exit"} => ectx \in live
  /\ epc = "run" =>
       /\ trap_mutex = IF Called THEN 0 ELSE 1
       /\ regs.pc = "m68k_call" => tpc[current_context] = "call_wait"
       /\ regs.pc = "exit_trap" => tpc[current_context] \in {"leaving", "exited"}
       /\ Called => regs.masked /\ NoSwitch(current_context)
  /\ epc = "trap" => tpc[ectx] = "start" /\ NoSwitch(ectx) /\ trap_mutex = 1
  /\ epc = "unlock" => trap_mutex = 0 /\ regs.pc = "code"
  /\ epc = "return" => trap_mutex = 0 /\ regs.pc = "m68k_return" /\ regs.sp > 0
  /\ epc = "exit" => tpc[ectx] = "none" /\ NoSwitch(ectx) /\ trap_mutex = 0
  /\ epc = "await" =>
       /\ trap_mutex = IF tpc[ectx] \in {"start", "handler", "call_lock", "end_lock"} THEN 1 ELSE 0
       /\ \/ tpc[ectx] \in {"start", "call_wait"} /\ switch_to_trap[ectx] = 1 /\ switch_to_emu[ectx] = 0
          \/ HandlerRuns(ectx) /\ NoSwitch(ectx)
          \/ /\ tpc[ectx] \in {"call_wait", "leaving", "exited"}
             /\ switch_to_trap[ectx] = 0 /\ switch_to_emu[ectx] = 1
             /\ IF tpc[ectx] = "call_wait" THEN AskedCall(ectx) ELSE AskedExit(ectx)
       /\ tpc[ectx] = "call_post" => AskedCall(ectx)
       /\ tpc[ectx] = "end_post" => AskedExit(ectx)

\* The emulator thread runs the current task's code, or a function on its behalf.
CodeRuns == epc \in {"unlock", "return"} \/ (epc = "run" /\ ~Called)

\* Everyone else waits for the return of the function it called.
Others ==
  \A c \in Contexts : ~Active(c) => /\ NoSwitch(c)
                                    /\ tpc[c] = IF c \in live THEN "call_wait" ELSE "none"

\* What is on the stacks: contexts that wait, each at the depth of its trap.
WaitsAt(t, k) ==
  LET c == stack[t][k]
  IN c \in live /\ ~Active(c) /\ saved_regs[c].task = t /\ saved_regs[c].sp = k - 1
Stacks == \A t \in Tasks : \A k \in 1..Depth : k <= Reg(t).sp => WaitsAt(t, k)

\* What is in a context: registers of ordinary code, at a depth of its own.
Saved ==
  \A c \in live :
    LET s == saved_regs[c]
    IN /\ s.pc = "code" /\ s.sp < Depth /\ s.fn = FnAt(s.task, s.sp)
       /\ IF Active(c) THEN s.task = regs.task /\ s.sp = regs.sp
          ELSE s.sp < Reg(s.task).sp /\ stack[s.task][s.sp + 1] = c

\* A task runs the function its innermost waiting context called; one that is switched out
\* is in code that can be.
Frames ==
  /\ \A t \in Tasks : t # regs.task =>
       /\ switched[t].task = t /\ switched[t].fn = FnAt(t, switched[t].sp)
       /\ switched[t].pc \in {"code", "m68k_return"}
       /\ switched[t].pc = "m68k_return" => switched[t].sp > 0
  /\ CodeRuns => regs.fn = FnAt(regs.task, regs.sp)
  /\ epc = "run" /\ regs.pc = "m68k_return" => regs.sp > 0

\* The call a handler has made, and the result it is to get.
CallOf(c) == <<c, calls[c]>>
Asks(c) == tpc[c] = "call_post" \/ (tpc[c] = "call_wait" /\ Active(c) /\ switch_to_trap[c] = 0)
Answered(c) == tpc[c] = "call_unlock" \/ (tpc[c] = "call_wait" /\ switch_to_trap[c] = 1)
Results ==
  \A c \in Contexts :
    /\ tpc[c] \in {"call_lock", "call", "call_post", "call_wait", "call_unlock"} => calls[c] > 0
    /\ Asks(c) => call68k_func_addr[c] = CallOf(c)
    /\ Answered(c) => call68k_retval[c] = CallOf(c)

IInv == TypeOK /\ Phase /\ Others /\ Stacks /\ Saved /\ Frames /\ Results

-----------------------------------------------------------------------------
(* What the invariant says of the thread that runs, of contexts and of stacks. *)

LEMMA InvInit == Init => IInv
  <1> SUFFICES ASSUME Init PROVE IInv
    OBVIOUS
  <1>1. \A t \in Tasks : Fresh(t) \in Registers
    BY DEF Fresh, Registers, Places, Functions
  <1>2. Zeroed \in Registers
    BY DEF Zeroed, Fresh, Registers, Places, Functions
  <1>3. TypeOK
    BY <1>1, <1>2 DEF Init, TypeOK, Functions, ThreadPlaces
  <1>4. regs.pc = "code" /\ regs.sp = 0 /\ regs.fn = None /\ ~Called
    BY DEF Init, Fresh, Called
  <1>5. Phase
    BY <1>4 DEF Init, Phase
  <1>6. Others
    BY DEF Init, Others, NoSwitch
  <1>7. Stacks /\ Saved
    BY DEF Init, Stacks, WaitsAt, Saved, Reg, Fresh
  <1>8. Frames
    BY DEF Init, Frames, CodeRuns, FnAt, Fresh
  <1>9. Results
    BY DEF Init, Results, Asks, Answered
  <1> QED
    BY <1>3, <1>5, <1>6, <1>7, <1>8, <1>9 DEF IInv

\* Registers stay registers, whichever of them a step writes.
LEMMA ExceptPc ==
  ASSUME NEW r \in Registers, NEW p \in Places PROVE [r EXCEPT !.pc = p] \in Registers
  BY DEF Registers

LEMMA ExceptMask ==
  ASSUME NEW r \in Registers, NEW p \in Places
  PROVE  [r EXCEPT !.masked = TRUE, !.pc = p] \in Registers
  BY DEF Registers

LEMMA ExceptCall ==
  ASSUME NEW r \in Registers, r.sp < Depth, NEW f \in Functions, NEW b \in BOOLEAN,
         NEW p \in Places
  PROVE  [r EXCEPT !.sp = @ + 1, !.pc = p, !.fn = f, !.masked = b] \in Registers
  <1>1. r.sp + 1 \in 0..Depth
    BY DEF Registers
  <1> QED
    BY <1>1 DEF Registers

LEMMA ExceptSp ==
  ASSUME NEW r \in Registers, r.sp > 0 PROVE [r EXCEPT !.sp = @ - 1] \in Registers
  BY DEF Registers

LEMMA MaskedType ==
  ASSUME NEW r \in Registers PROVE r.masked \in BOOLEAN
  BY DEF Registers

\* The emulator thread waits for a thread that runs, and mutex and registers are the thread's.
LEMMA Runs ==
  ASSUME IInv, NEW c \in Contexts, HandlerRuns(c)
  PROVE  /\ c = ectx /\ epc = "await" /\ NoSwitch(c) /\ c \in live /\ Active(c) /\ ~Called
         /\ trap_mutex = IF tpc[c] \in {"handler", "call_lock", "end_lock"} THEN 1 ELSE 0
         /\ regs.task = saved_regs[c].task /\ regs.sp = saved_regs[c].sp
  <1>1. Active(c)
    BY DEF IInv, Others, HandlerRuns
  <1>2. c = ectx /\ epc = "await"
    BY <1>1 DEF Active, Called, IInv, Phase, HandlerRuns
  <1>3. c \in live /\ ~Called
    BY <1>2 DEF Called, IInv, Phase
  <1>4. /\ NoSwitch(c)
        /\ trap_mutex = IF tpc[c] \in {"handler", "call_lock", "end_lock"} THEN 1 ELSE 0
    BY <1>2 DEF IInv, Phase, HandlerRuns
  <1> QED
    BY <1>1, <1>2, <1>3, <1>4 DEF IInv, Saved

\* Where a context's frame is: under the top of its task's stack, or at it.
LEMMA SavedRange ==
  ASSUME IInv, NEW d \in live
  PROVE  /\ saved_regs[d].task \in Tasks /\ saved_regs[d].sp \in 0..Depth
         /\ saved_regs[d].sp < Depth /\ saved_regs[d].sp <= Reg(saved_regs[d].task).sp
         /\ ~Active(d) => /\ saved_regs[d].sp < Reg(saved_regs[d].task).sp
                          /\ stack[saved_regs[d].task][saved_regs[d].sp + 1] = d
         /\ Active(d) => saved_regs[d].task = regs.task /\ saved_regs[d].sp = regs.sp
  <1> DEFINE s == saved_regs[d]
  <1>1. s.task \in Tasks /\ s.sp \in 0..Depth /\ regs.sp \in 0..Depth
        /\ \A t \in Tasks : Reg(t).sp \in 0..Depth
    BY DEF IInv, TypeOK, Registers, Reg
  <1>2. /\ s.sp < Depth
        /\ IF Active(d) THEN s.task = regs.task /\ s.sp = regs.sp
           ELSE s.sp < Reg(s.task).sp /\ stack[s.task][s.sp + 1] = d
    BY DEF IInv, Saved
  <1>3. Reg(regs.task) = regs
    BY DEF Reg
  <1> QED
    BY <1>1, <1>2, <1>3

\* What a frame is: a context that waits.
LEMMA StackRange ==
  ASSUME IInv, NEW t \in Tasks, NEW k \in 1..Depth, k <= Reg(t).sp
  PROVE  /\ stack[t][k] \in live /\ stack[t][k] \in Contexts /\ ~Active(stack[t][k])
         /\ saved_regs[stack[t][k]].task = t /\ saved_regs[stack[t][k]].sp = k - 1
  BY DEF IInv, Stacks, WaitsAt, TypeOK

\* A thread's place stays a place.
LEMMA GotoType ==
  ASSUME tpc \in [Contexts -> ThreadPlaces], NEW c \in Contexts,
         NEW from, NEW to \in ThreadPlaces, Goto(c, from, to)
  PROVE  tpc' \in [Contexts -> ThreadPlaces]
  BY DEF Goto

\* Counting the calls of a handler that runs does not rename the functions on the stacks.
LEMMA FnKept ==
  ASSUME IInv, stack' = stack, \A c \in Contexts : ~Active(c) => calls'[c] = calls[c]
  PROVE \A t \in Tasks : \A k \in 0..Depth : k <= Reg(t).sp => FnAt(t, k)' = FnAt(t, k)
  BY DEF IInv, TypeOK, Stacks, WaitsAt, FnAt

\* Most steps leave the registers, the stacks and who waits on them as they are.
LEMMA Undisturbed ==
  ASSUME IInv, UNCHANGED <<m68k, live, calls, saved_regs>>,
         \A c \in Contexts : Active(c)' <=> Active(c),
         CodeRuns' => CodeRuns,
         epc' = "run" => epc = "run" \/ regs.pc # "m68k_return"
  PROVE  Stacks' /\ Saved' /\ Frames'
  <1>1. UNCHANGED <<regs, stack, switched>>
    BY DEF m68k
  <1>2. \A t : Reg(t)' = Reg(t)
    BY <1>1 DEF Reg
  <1>3. \A t, k : FnAt(t, k)' = FnAt(t, k)
    BY <1>1 DEF FnAt
  <1>4. Stacks'
    BY <1>1, <1>2 DEF IInv, Stacks, WaitsAt, TypeOK
  <1>5. Saved'
    BY <1>1, <1>2, <1>3 DEF IInv, Saved, TypeOK
  <1>6. Frames'
    BY <1>1, <1>3 DEF IInv, Frames, CodeRuns
  <1> QED
    BY <1>4, <1>5, <1>6

\* A handler gives back the registers it was given, but for PC and SR.
LEMMA HandedBack ==
  ASSUME IInv, epc = "await",
         regs'.task = regs.task, regs'.sp = regs.sp,
         UNCHANGED <<switched, stack, live, calls, saved_regs, epc, ectx>>
  PROVE  Stacks' /\ Saved' /\ Frames'
  <1>1. \A t \in Tasks : Reg(t)'.sp = Reg(t).sp
    BY DEF Reg
  <1>2. \A d \in Contexts : Active(d)' <=> Active(d)
    BY DEF Active
  <1>3. \A t, k : FnAt(t, k)' = FnAt(t, k)
    BY DEF FnAt
  <1>4. Stacks'
    <2> SUFFICES ASSUME NEW t \in Tasks, NEW k \in 1..Depth, k <= Reg(t)'.sp
                 PROVE  WaitsAt(t, k)'
      BY DEF Stacks
    <2> QED
      BY <1>1, <1>2, StackRange DEF WaitsAt
  <1>5. Saved'
    BY <1>1, <1>2, <1>3 DEF IInv, Saved, TypeOK, Registers
  <1>6. Frames'
    BY <1>3 DEF IInv, Frames, CodeRuns
  <1> QED
    BY <1>4, <1>5, <1>6

-----------------------------------------------------------------------------
(* The emulator thread. *)

\* Two tasks swap their registers; none of them is in a trap.
LEMMA InvSwitchTask ==
  ASSUME IInv, NEW t \in Tasks, SwitchTask(t) PROVE IInv'
  <1>1. /\ regs.task \in Tasks /\ t # regs.task /\ ~Called /\ epc = "run"
        /\ switched[t].task = t /\ switched[t].pc \in {"code", "m68k_return"}
    BY DEF SwitchTask, IInv, TypeOK, Registers, Phase, Frames, CodeRuns
  <1>2. regs' = switched[t] /\ switched'[regs.task] = regs
        /\ \A u \in Tasks : u # regs.task /\ u # t => switched'[u] = switched[u]
    BY <1>1 DEF SwitchTask, IInv, TypeOK
  <1>3. ~Called' /\ epc' = "run"
    BY <1>1 DEF Called, SwitchTask, emu
  <1>4. \A u \in Tasks : Reg(u)' = Reg(u)
    BY <1>1, <1>2 DEF Reg
  <1>5. \A c \in Contexts : ~Active(c) /\ ~Active(c)'
    BY <1>1, <1>3 DEF Active
  <1>6. UNCHANGED <<stack, trap_mutex, current_context, epc, ectx, live, tpc, calls, saved_regs,
          call68k_func_addr, call68k_retval, switch_to_emu, switch_to_trap>>
    BY DEF SwitchTask, emu, threads, fields, sems
  <1>7. TypeOK'
    <2>1. Fresh(t) \in Registers
      BY DEF Fresh, Registers, Places, Functions
    <2>2. switched' \in [Tasks -> Registers] /\ regs' \in Registers
      BY <2>1 DEF SwitchTask, IInv, TypeOK
    <2> QED
      BY <1>6, <2>2 DEF IInv, TypeOK
  <1>8. Phase'
    BY <1>1, <1>2, <1>3, <1>6 DEF IInv, Phase
  <1>9. Others'
    BY <1>5, <1>6 DEF IInv, Others, NoSwitch
  <1>10. Stacks'
    BY <1>4, <1>5, <1>6 DEF IInv, Stacks, WaitsAt, TypeOK
  <1>11. Saved'
    BY <1>4, <1>5, <1>6 DEF IInv, Saved, FnAt, TypeOK, Registers
  <1>12. Frames'
    <2>1. \A u, k : FnAt(u, k)' = FnAt(u, k)
      BY <1>6 DEF FnAt
    <2>2. regs.fn = FnAt(regs.task, regs.sp) /\ regs.pc \in {"code", "m68k_return"}
          /\ (regs.pc = "m68k_return" => regs.sp > 0)
      BY <1>1 DEF IInv, Frames, CodeRuns, TypeOK, Registers, Places, Called
    <2> QED
      BY <1>1, <1>2, <2>1, <2>2 DEF IInv, Frames, CodeRuns
  <1>13. Results'
    BY <1>5, <1>6 DEF IInv, Results, Asks, Answered, CallOf
  <1> QED
    BY <1>7, <1>8, <1>9, <1>10, <1>11, <1>12, <1>13 DEF IInv

LEMMA InvRts ==
  ASSUME IInv, Rts PROVE IInv'
  <1>1. ~Called /\ ~Called' /\ epc = "run" /\ epc' = "run"
    BY DEF Rts, Called, emu
  <1>2. regs' \in Registers
    BY ExceptPc DEF Rts, IInv, TypeOK, Places
  <1>3. regs.sp > 0
    BY <1>1 DEF Rts, IInv, TypeOK, Registers, Frames, CodeRuns, FnAt
  <1>4. TypeOK'
    BY <1>2 DEF Rts, IInv, TypeOK, emu, threads, fields, sems
  <1>5. Phase'
    BY <1>1 DEF Rts, IInv, Phase
  <1>6. Others'
    BY <1>1 DEF Rts, IInv, Others, Active, NoSwitch, threads, sems
  <1>7. Stacks'
    BY <1>1 DEF Rts, IInv, Stacks, WaitsAt, Active, fields, Reg
  <1>8. Saved'
    BY <1>1 DEF Rts, IInv, Saved, Active, Reg, FnAt, threads, fields
  <1>9. Frames'
    BY <1>1, <1>3 DEF Rts, IInv, Frames, CodeRuns, FnAt, threads
  <1>10. Results'
    BY <1>1 DEF Rts, IInv, Results, Asks, Answered, CallOf, Active, threads, fields, sems
  <1> QED
    BY <1>4, <1>5, <1>6, <1>7, <1>8, <1>9, <1>10 DEF IInv

\* A new context becomes active, at the depth its task is at.
LEMMA InvHandleExtendedTrap ==
  ASSUME IInv, NEW c \in Contexts, HandleExtendedTrap(c) PROVE IInv'
  <1>1. epc = "run" /\ ~Called /\ epc' = "trap" /\ ectx' = c /\ c \notin live
    BY DEF HandleExtendedTrap, Called
  <1>2. \A d \in Contexts : ~Active(d) /\ (Active(d)' <=> d = c)
    BY <1>1 DEF Active
  <1>3. UNCHANGED <<regs, stack, switched, calls>> /\ live' = live \cup {c}
        /\ saved_regs' = [saved_regs EXCEPT ![c] = regs]
    BY DEF HandleExtendedTrap, m68k
  <1>4. \A t : Reg(t)' = Reg(t)
    BY <1>3 DEF Reg
  <1>5. \A t, k : FnAt(t, k)' = FnAt(t, k)
    BY <1>3 DEF FnAt
  <1>6. TypeOK'
    <2>1. tpc' \in [Contexts -> ThreadPlaces]
      BY DEF HandleExtendedTrap, IInv, TypeOK, ThreadPlaces
    <2> QED
      BY <1>3, <2>1 DEF HandleExtendedTrap, IInv, TypeOK, sems
  <1>7. Phase'
    BY <1>2 DEF HandleExtendedTrap, IInv, TypeOK, Phase, Called, NoSwitch, Others, sems
  <1>8. Others'
    BY <1>2 DEF HandleExtendedTrap, IInv, Others, NoSwitch, sems
  <1>9. Stacks'
    <2> SUFFICES ASSUME NEW t \in Tasks, NEW k \in 1..Depth, k <= Reg(t)'.sp
                 PROVE  WaitsAt(t, k)'
      BY DEF Stacks
    <2>1. stack[t][k] \in live /\ stack[t][k] # c
      BY <1>1, <1>4, StackRange DEF WaitsAt
    <2> QED
      BY <1>2, <1>3, <1>4, <2>1, StackRange DEF WaitsAt
  <1>10. Saved'
    <2> SUFFICES ASSUME NEW d \in live \cup {c}
                 PROVE  LET s == saved_regs'[d]
                        IN /\ s.pc = "code" /\ s.sp < Depth /\ s.fn = FnAt(s.task, s.sp)
                           /\ IF d = c THEN s.task = regs.task /\ s.sp = regs.sp
                              ELSE s.sp < Reg(s.task).sp /\ stack[s.task][s.sp + 1] = d
      BY <1>2, <1>3, <1>4, <1>5 DEF Saved, IInv, TypeOK
    <2>1. CASE d = c
      BY <1>1, <2>1 DEF HandleExtendedTrap, IInv, TypeOK, Frames, CodeRuns
    <2>2. CASE d # c
      BY <1>2, <1>3, <2>2 DEF IInv, TypeOK, Saved
    <2> QED
      BY <2>1, <2>2
  <1>11. Frames'
    BY <1>1, <1>3, <1>5 DEF IInv, Frames, CodeRuns
  <1>12. Results'
    BY <1>2 DEF HandleExtendedTrap, IInv, Results, Asks, Answered, CallOf, Others, sems
  <1> QED
    BY <1>6, <1>7, <1>8, <1>9, <1>10, <1>11, <1>12 DEF IInv

LEMMA InvTrapPost ==
  ASSUME IInv, TrapPost PROVE IInv'
  <1>1. epc = "trap" /\ epc' = "await" /\ ectx \in live /\ ectx \in Contexts
        /\ NoSwitch(ectx) /\ tpc[ectx] = "start" /\ trap_mutex = 1
    BY DEF TrapPost, IInv, TypeOK, Phase
  <1>2. \A c \in Contexts : (Active(c) <=> c = ectx) /\ (Active(c)' <=> c = ectx)
    BY DEF Active, TrapPost
  <1>3. TypeOK'
    BY <1>1 DEF TrapPost, IInv, TypeOK, NoSwitch, m68k, threads, fields
  <1>4. Phase'
    BY DEF TrapPost, IInv, TypeOK, Phase, Called, NoSwitch, threads
  <1>5. Others'
    BY <1>2 DEF TrapPost, IInv, Others, NoSwitch, threads
  <1>6. Stacks' /\ Saved' /\ Frames'
    BY <1>2, Undisturbed DEF TrapPost, CodeRuns, threads, fields
  <1>7. Results'
    BY <1>1, <1>2 DEF TrapPost, IInv, Results, Asks, Answered, CallOf, threads, fields
  <1> QED
    BY <1>3, <1>4, <1>5, <1>6, <1>7 DEF IInv

LEMMA InvAwaitTrap ==
  ASSUME IInv, AwaitTrap PROVE IInv'
  <1>1. /\ epc = "await" /\ epc' = "run" /\ ectx \in live /\ ectx \in Contexts
        /\ current_context = ectx /\ Called' /\ regs.masked /\ trap_mutex = 0
        /\ switch_to_trap[ectx] = 0 /\ switch_to_emu[ectx] = 1
        /\ tpc[ectx] \in {"call_wait", "leaving", "exited"}
        /\ regs.pc = IF tpc[ectx] = "call_wait" THEN "m68k_call" ELSE "exit_trap"
    BY DEF AwaitTrap, IInv, TypeOK, Phase, NoSwitch, AskedCall, AskedExit, Called, m68k
  <1>2. \A c \in Contexts : (Active(c) <=> c = ectx) /\ (Active(c)' <=> c = ectx)
    BY <1>1 DEF Active, AwaitTrap
  <1>3. TypeOK'
    BY <1>1 DEF AwaitTrap, IInv, TypeOK, m68k, threads, fields
  <1>4. Phase'
    BY <1>1 DEF AwaitTrap, IInv, TypeOK, Phase, NoSwitch, m68k, threads
  <1>5. Others'
    BY <1>2 DEF AwaitTrap, IInv, Others, NoSwitch, threads
  <1>6. Stacks' /\ Saved' /\ Frames'
    BY <1>1, <1>2, Undisturbed DEF AwaitTrap, CodeRuns, threads, fields
  <1>7. Results'
    BY <1>2 DEF AwaitTrap, IInv, Results, Asks, Answered, CallOf, threads, fields
  <1> QED
    BY <1>3, <1>4, <1>5, <1>6, <1>7 DEF IInv

\* The active context goes on the stack and waits; nobody is active.
LEMMA InvCallHandler ==
  ASSUME IInv, CallHandler PROVE IInv'
  <1> DEFINE x == current_context
  <1>1. /\ x \in live /\ x \in Contexts /\ Called /\ epc = "run"
    BY DEF CallHandler, IInv, TypeOK, Phase, Called
  <1>2. \A c \in Contexts : (Active(c) <=> c = x) /\ ~Active(c)'
    BY DEF Active, CallHandler, Called
  <1>3. regs.task \in Tasks /\ regs.sp \in 0..Depth - 1 /\ saved_regs[x].task = regs.task
        /\ saved_regs[x].sp = regs.sp
    BY <1>1, <1>2 DEF IInv, TypeOK, Registers, Saved
  <1>4. \A t \in Tasks : \A k \in 1..Depth :
          stack'[t][k] = IF t = regs.task /\ k = regs.sp + 1 THEN x ELSE stack[t][k]
    BY DEF CallHandler, IInv, TypeOK
  <1>5. regs'.task = regs.task /\ regs'.sp = regs.sp + 1 /\ regs'.fn = call68k_func_addr[x]
    BY DEF CallHandler
  <1>6. \A t \in Tasks : Reg(t)'.sp = IF t = regs.task THEN Reg(t).sp + 1 ELSE Reg(t).sp
    BY DEF CallHandler, Reg
  <1>7. UNCHANGED <<switched, live, calls, saved_regs>>
    BY DEF CallHandler, threads, fields
  <1>8. ASSUME NEW t \in Tasks, NEW k \in 0..Depth, k <= Reg(t).sp
        PROVE  FnAt(t, k)' = FnAt(t, k)
    <2>1. CASE k = 0
      BY <2>1 DEF FnAt
    <2>2. CASE k # 0
      <3>1. k \in 1..Depth /\ ~ (t = regs.task /\ k = regs.sp + 1)
        BY <1>3, <1>8, <2>2 DEF Reg
      <3>2. stack'[t][k] = stack[t][k]
        BY <1>4, <3>1
      <3> QED
        BY <1>7, <3>2 DEF FnAt
    <2> QED
      BY <2>1, <2>2
  <1>9. TypeOK'
    <2>1. stack' \in [Tasks -> [1..Depth -> Contexts \cup {NoContext}]]
      BY <1>3 DEF CallHandler, IInv, TypeOK
    <2>2. saved_regs[x].masked \in BOOLEAN /\ "code" \in Places
          /\ call68k_func_addr[x] \in Functions
      BY <1>1, MaskedType DEF IInv, TypeOK, Places
    <2>3. regs' \in Registers
      <3>1. regs.sp < Depth
        BY <1>3
      <3> QED
        BY <2>2, <3>1, ExceptCall DEF CallHandler, IInv, TypeOK
    <2> QED
      BY <2>1, <2>3 DEF CallHandler, IInv, TypeOK, threads, fields, sems
  <1>10. Phase'
    BY <1>1 DEF CallHandler, IInv, Phase
  <1>11. Others'
    BY <1>1, <1>2 DEF CallHandler, IInv, Others, Phase, NoSwitch, threads, sems
  <1>12. Stacks'
    <2> SUFFICES ASSUME NEW t \in Tasks, NEW k \in 1..Depth, k <= Reg(t)'.sp
                 PROVE  WaitsAt(t, k)'
      BY DEF Stacks
    <2>1. CASE t = regs.task /\ k = regs.sp + 1
      BY <2>1, <1>1, <1>2, <1>3, <1>4, <1>7 DEF WaitsAt
    <2>2. CASE ~ (t = regs.task /\ k = regs.sp + 1)
      <3>1. k <= Reg(t).sp
        BY <2>2, <1>3, <1>6 DEF Reg
      <3> QED
        BY <3>1, <2>2, <1>2, <1>4, <1>7, StackRange DEF WaitsAt
    <2> QED
      BY <2>1, <2>2
  <1>13. Saved'
    <2> SUFFICES ASSUME NEW c \in live
                 PROVE  LET s == saved_regs[c]
                        IN /\ s.pc = "code" /\ s.sp < Depth /\ s.fn = FnAt(s.task, s.sp)'
                           /\ s.sp < Reg(s.task)'.sp /\ stack'[s.task][s.sp + 1] = c
      BY <1>2, <1>7 DEF Saved, IInv, TypeOK
    <2> DEFINE s == saved_regs[c]
    <2>1. s.pc = "code" /\ s.sp < Depth /\ s.fn = FnAt(s.task, s.sp)
      BY DEF IInv, Saved
    <2>2. s.task \in Tasks /\ s.sp \in 0..Depth /\ s.sp <= Reg(s.task).sp
      BY SavedRange
    <2>3. FnAt(s.task, s.sp)' = FnAt(s.task, s.sp)
      BY <1>7, <1>8, <2>2
    <2>4. CASE c = x
      <3>1. s.task = regs.task /\ s.sp = regs.sp
        BY <1>3, <2>4
      <3>2. stack'[s.task][s.sp + 1] = c
        BY <1>3, <1>4, <2>4
      <3>3. s.sp < Reg(s.task)'.sp
        BY <1>3, <1>6, <1>7, <3>1 DEF Reg
      <3> QED
        BY <2>1, <2>3, <3>2, <3>3
    <2>5. CASE c # x
      <3>1. s.sp < Reg(s.task).sp /\ stack[s.task][s.sp + 1] = c
        BY <1>2, <2>5, SavedRange DEF IInv, TypeOK
      <3>2. Reg(s.task).sp \in 0..Depth /\ s.sp + 1 \in 1..Depth
        BY <2>1 DEF IInv, TypeOK, Registers, Reg
      <3>3. stack'[s.task][s.sp + 1] = c
        BY <1>4, <2>2, <3>1, <3>2 DEF Reg
      <3>4. s.sp < Reg(s.task)'.sp
        BY <1>6, <1>7, <2>2, <3>1, <3>2
      <3> QED
        BY <2>1, <2>3, <3>3, <3>4
    <2> QED
      BY <2>4, <2>5
  <1>14. Frames'
    <2>1. call68k_func_addr[x] = <<x, calls[x]>>
      BY <1>1, <1>2 DEF CallHandler, IInv, Phase, Results, Asks, CallOf, NoSwitch
    <2>2. FnAt(regs.task, regs.sp)' = <<x, calls[x]>>
      BY <1>3, <1>4, <1>5, <1>7 DEF FnAt
    <2>3. \A t \in Tasks : t # regs.task => FnAt(t, switched[t].sp)' = FnAt(t, switched[t].sp)
      BY <1>7, <1>8 DEF IInv, TypeOK, Registers, Reg
    <2> QED
      BY <2>1, <2>2, <2>3, <1>7 DEF CallHandler, IInv, Frames, CodeRuns
  <1>15. Results'
    BY <1>2 DEF CallHandler, IInv, Results, Asks, Answered, CallOf, threads, fields, sems
  <1> QED
    BY <1>9, <1>10, <1>11, <1>12, <1>13, <1>14, <1>15 DEF IInv

LEMMA InvUnlock ==
  ASSUME IInv, Unlock PROVE IInv'
  <1>1. epc = "unlock" /\ epc' = "run" /\ trap_mutex = 0 /\ trap_mutex' = 1
        /\ regs.pc = "code" /\ ~Called /\ ~Called'
    BY DEF Unlock, IInv, Phase, Called, m68k
  <1>2. \A c \in Contexts : ~Active(c) /\ ~Active(c)'
    BY <1>1 DEF Active
  <1>3. TypeOK'
    BY <1>1 DEF Unlock, IInv, TypeOK, m68k, threads, fields, sems
  <1>4. Phase'
    BY <1>1 DEF Unlock, Phase, m68k
  <1>5. Others'
    BY <1>2 DEF Unlock, IInv, Others, NoSwitch, threads, sems
  <1>6. Stacks' /\ Saved' /\ Frames'
    BY <1>1, <1>2, Undisturbed DEF Unlock, CodeRuns, threads, fields
  <1>7. Results'
    BY <1>2 DEF Unlock, IInv, Results, Asks, Answered, CallOf, threads, fields, sems
  <1> QED
    BY <1>3, <1>4, <1>5, <1>6, <1>7 DEF IInv

LEMMA InvReturnLock ==
  ASSUME IInv, ReturnLock PROVE IInv'
  <1>1. epc = "run" /\ epc' = "return" /\ trap_mutex' = 0 /\ ~Called
        /\ regs.pc = "m68k_return" /\ regs.sp > 0
    BY DEF ReturnLock, IInv, Frames, CodeRuns, Called
  <1>2. \A c \in Contexts : ~Active(c) /\ ~Active(c)'
    BY <1>1 DEF Active, Called
  <1>3. TypeOK'
    BY DEF ReturnLock, IInv, TypeOK, m68k, threads, fields, sems
  <1>4. Phase'
    BY <1>1 DEF ReturnLock, Phase, Called, m68k
  <1>5. Others'
    BY <1>2 DEF ReturnLock, IInv, Others, NoSwitch, threads, sems
  <1>6. Stacks' /\ Saved' /\ Frames'
    BY <1>1, <1>2, Undisturbed DEF ReturnLock, CodeRuns, threads, fields
  <1>7. Results'
    BY <1>2 DEF ReturnLock, IInv, Results, Asks, Answered, CallOf, threads, fields, sems
  <1> QED
    BY <1>3, <1>4, <1>5, <1>6, <1>7 DEF IInv

\* The context at the top of the stack is active again: no other names that frame.
LEMMA InvReturnHandler ==
  ASSUME IInv, ReturnHandler PROVE IInv'
  <1> DEFINE x == stack[regs.task][regs.sp]
  <1>1. regs.task \in Tasks /\ regs.sp \in 1..Depth /\ regs.fn \in Functions /\ epc = "return"
    BY DEF ReturnHandler, IInv, TypeOK, Phase, Registers
  <1>2. x \in Contexts /\ x \in live /\ tpc[x] = "call_wait" /\ NoSwitch(x)
        /\ saved_regs[x].task = regs.task /\ saved_regs[x].sp = regs.sp - 1
    BY <1>1 DEF IInv, Stacks, WaitsAt, Reg, TypeOK, Others
  <1>3. \A c \in Contexts : ~Active(c) /\ (Active(c)' <=> c = x)
    BY DEF Active, Called, ReturnHandler
  <1>4. \A t \in Tasks : \A k \in 1..Depth :
          ~ (t = regs.task /\ k = regs.sp) => stack'[t][k] = stack[t][k]
    BY DEF ReturnHandler
  <1>5. \A t \in Tasks : Reg(t)'.sp = IF t = regs.task THEN regs.sp - 1 ELSE Reg(t).sp
    BY DEF ReturnHandler, Reg
  <1>6. UNCHANGED <<live, saved_regs>>
    BY DEF ReturnHandler
  <1>7. ASSUME NEW t \in Tasks, NEW k \in 1..Depth, k <= Reg(t)'.sp
        PROVE ~ (t = regs.task /\ k = regs.sp) /\ k <= Reg(t).sp
    BY <1>1, <1>5, <1>7 DEF Reg
  <1>8. regs'.task = regs.task /\ regs'.sp = regs.sp - 1 /\ regs'.pc = regs.pc
        /\ regs'.fn = regs.fn
    BY DEF ReturnHandler
  <1>9. /\ epc' = "await" /\ ectx' = x /\ trap_mutex = 0
        /\ UNCHANGED <<switched, trap_mutex, current_context, tpc, calls, call68k_func_addr,
                      switch_to_emu>>
    BY DEF ReturnHandler, IInv, Phase, threads
  <1>10. ASSUME NEW t \in Tasks, NEW k \in 0..Depth, ~ (t = regs.task /\ k = regs.sp)
        PROVE  FnAt(t, k)' = FnAt(t, k)
    <2>1. CASE k = 0
      BY <2>1 DEF FnAt
    <2>2. CASE k # 0
      <3>1. stack'[t][k] = stack[t][k]
        BY <1>4, <1>10, <2>2
      <3> QED
        BY <1>9, <3>1 DEF FnAt
    <2> QED
      BY <2>1, <2>2
  <1>11. TypeOK'
    <2>1. switch_to_trap' \in [Contexts -> 0..1]
      BY <1>2 DEF ReturnHandler, IInv, TypeOK, NoSwitch
    <2>2. regs' \in Registers
      <3>1. regs.sp > 0
        BY <1>1
      <3> QED
        BY <3>1, ExceptSp DEF ReturnHandler, IInv, TypeOK
    <2> QED
      BY <1>1, <2>1, <2>2 DEF ReturnHandler, IInv, TypeOK, threads
  <1>12. Phase'
    BY <1>2, <1>9 DEF ReturnHandler, IInv, TypeOK, Phase, Called, NoSwitch
  <1>13. Others'
    BY <1>3, <1>9 DEF ReturnHandler, IInv, Others, NoSwitch
  <1>14. Stacks'
    <2> SUFFICES ASSUME NEW t \in Tasks, NEW k \in 1..Depth, k <= Reg(t)'.sp
                 PROVE  WaitsAt(t, k)'
      BY DEF Stacks
    <2>1. ~ (t = regs.task /\ k = regs.sp) /\ k <= Reg(t).sp
      BY <1>7
    <2>2. stack[t][k] # x
      BY <1>1, <1>2, <2>1, StackRange DEF WaitsAt
    <2> QED
      BY <1>3, <1>4, <1>6, <2>1, <2>2, StackRange DEF WaitsAt
  <1>15. Saved'
    <2> SUFFICES ASSUME NEW c \in live
                 PROVE  (LET s == saved_regs[c]
                         IN /\ s.pc = "code" /\ s.sp < Depth /\ s.fn = FnAt(s.task, s.sp)
                            /\ IF Active(c) THEN s.task = regs.task /\ s.sp = regs.sp
                               ELSE s.sp < Reg(s.task).sp /\ stack[s.task][s.sp + 1] = c)'
      BY <1>6 DEF Saved
    <2>1. c \in Contexts /\ (Active(c)' <=> c = x)
      BY <1>3 DEF IInv, TypeOK
    <2> DEFINE s == saved_regs[c]
    <2>2. s.pc = "code" /\ s.sp < Depth /\ s.fn = FnAt(s.task, s.sp)
      BY DEF IInv, Saved
    <2>3. s.task \in Tasks /\ s.sp \in 0..Depth /\ s.sp < Reg(s.task).sp
          /\ stack[s.task][s.sp + 1] = c
      BY <1>3, SavedRange DEF IInv, TypeOK
    <2>4. Reg(s.task).sp \in 0..Depth /\ s.sp + 1 \in 1..Depth
      BY <2>3 DEF IInv, TypeOK, Registers, Reg
    <2>5. FnAt(s.task, s.sp)' = FnAt(s.task, s.sp)
      <3>1. ~ (s.task = regs.task /\ s.sp = regs.sp)
        BY <2>3 DEF Reg
      <3> QED
        BY <1>6, <2>3, <3>1, <1>10
    <2>6. CASE c = x
      BY <1>2, <1>6, <1>8, <2>1, <2>2, <2>5, <2>6
    <2>7. CASE c # x
      <3>1. ~ (s.task = regs.task /\ s.sp + 1 = regs.sp)
        BY <2>3, <2>7
      <3>2. stack'[s.task][s.sp + 1] = c
        BY <1>4, <2>3, <2>4, <3>1
      <3>3. s.sp < Reg(s.task)'.sp
        BY <1>5, <1>6, <2>3, <2>4, <3>1 DEF Reg
      <3> QED
        BY <1>6, <2>1, <2>2, <2>5, <2>7, <3>2, <3>3
    <2> QED
      BY <2>6, <2>7
  <1>16. Frames'
    <2>1. ASSUME NEW t \in Tasks, t # regs.task
          PROVE  FnAt(t, switched[t].sp)' = FnAt(t, switched[t].sp)
      <3>1. switched[t].sp \in 0..Depth
        BY DEF IInv, TypeOK, Registers
      <3> QED
        BY <1>9, <2>1, <3>1, <1>10
    <2> QED
      BY <1>8, <1>9, <2>1 DEF IInv, Frames, CodeRuns
  <1>17. Results'
    <2>1. call68k_retval'[x] = CallOf(x)
      BY <1>1, <1>2 DEF ReturnHandler, IInv, TypeOK, Frames, CodeRuns, FnAt, CallOf
    <2>2. \A c \in Contexts : c # x => /\ call68k_retval'[c] = call68k_retval[c]
                                      /\ switch_to_trap'[c] = switch_to_trap[c]
      BY DEF ReturnHandler
    <2>3. switch_to_trap'[x] = 1
      BY <1>2 DEF ReturnHandler, IInv, TypeOK, NoSwitch
    <2> QED
      BY <1>3, <1>9, <2>1, <2>2, <2>3 DEF IInv, Results, Asks, Answered, CallOf
  <1> QED
    BY <1>11, <1>12, <1>13, <1>14, <1>15, <1>16, <1>17 DEF IInv

LEMMA InvExitJoin ==
  ASSUME IInv, ExitJoin PROVE IInv'
  <1>1. /\ epc = "run" /\ epc' = "exit" /\ Called /\ ectx' = current_context /\ trap_mutex = 0
        /\ current_context \in live /\ current_context \in Contexts /\ NoSwitch(current_context)
    BY DEF ExitJoin, IInv, TypeOK, Phase, Called
  <1>2. \A c \in Contexts : (Active(c) <=> c = current_context)
        /\ (Active(c)' <=> c = current_context)
    BY <1>1 DEF Active
  <1>3. TypeOK'
    <2>1. tpc' \in [Contexts -> ThreadPlaces]
      BY DEF ExitJoin, IInv, TypeOK, ThreadPlaces
    <2> QED
      BY <2>1 DEF ExitJoin, IInv, TypeOK, m68k, fields, sems
  <1>4. Phase'
    BY <1>1 DEF ExitJoin, IInv, TypeOK, Phase, NoSwitch, sems
  <1>5. Others'
    BY <1>2 DEF ExitJoin, IInv, Others, NoSwitch, sems
  <1>6. Stacks' /\ Saved' /\ Frames'
    BY <1>2, Undisturbed DEF ExitJoin, CodeRuns, fields
  <1>7. Results'
    BY <1>2 DEF ExitJoin, IInv, Results, Asks, Answered, CallOf, fields, sems
  <1> QED
    BY <1>3, <1>4, <1>5, <1>6, <1>7 DEF IInv

\* The active context is freed; its registers are those the task trapped with.
LEMMA InvExitTrapHandler ==
  ASSUME IInv, ExitTrapHandler PROVE IInv'
  <1>1. ectx \in live /\ ectx \in Contexts /\ epc = "exit" /\ epc' = "unlock"
    BY DEF ExitTrapHandler, IInv, TypeOK, Phase
  <1>2. \A c \in Contexts : (Active(c) <=> c = ectx) /\ ~Active(c)'
    BY <1>1 DEF Active, Called
  <1>3. regs' = saved_regs[ectx] /\ regs'.task = regs.task /\ regs'.sp = regs.sp
        /\ regs'.fn = FnAt(regs.task, regs.sp) /\ regs.task \in Tasks /\ regs.sp \in 0..Depth
    BY <1>1, <1>2 DEF ExitTrapHandler, IInv, TypeOK, Registers, Saved
  <1>4. UNCHANGED <<switched, stack>> /\ live' = live \ {ectx}
        /\ \A c \in Contexts : c # ectx => saved_regs'[c] = saved_regs[c] /\ calls'[c] = calls[c]
    BY DEF ExitTrapHandler
  <1>5. \A t \in Tasks : Reg(t)'.sp = Reg(t).sp
    BY <1>3, <1>4 DEF Reg
  <1>6. \A t \in Tasks : \A k \in 0..Depth : k <= Reg(t).sp => FnAt(t, k)' = FnAt(t, k)
    BY <1>2, <1>4, FnKept
  <1>7. ASSUME NEW d \in live
        PROVE  /\ saved_regs[d].task \in Tasks /\ saved_regs[d].sp \in 0..Depth
               /\ saved_regs[d].sp <= Reg(saved_regs[d].task).sp
    BY SavedRange
  <1>8. TypeOK'
    <2>1. Zeroed \in Registers /\ None \in Functions
      BY DEF Zeroed, Fresh, Registers, Places, Functions
    <2> QED
      BY <1>1, <2>1 DEF ExitTrapHandler, IInv, TypeOK
  <1>9. Phase'
    BY <1>3 DEF ExitTrapHandler, IInv, Phase, Called, Saved
  <1>10. Others'
    BY <1>2 DEF ExitTrapHandler, IInv, Others, Phase, NoSwitch
  <1>11. Stacks'
    <2> SUFFICES ASSUME NEW t \in Tasks, NEW k \in 1..Depth, k <= Reg(t)'.sp
                 PROVE  WaitsAt(t, k)'
      BY DEF Stacks
    <2> QED
      BY <1>2, <1>4, <1>5, StackRange DEF WaitsAt
  <1>12. Saved'
    BY <1>2, <1>4, <1>5, <1>6, <1>7 DEF IInv, Saved, TypeOK
  <1>13. Frames'
    BY <1>1, <1>3, <1>4, <1>6 DEF IInv, Frames, CodeRuns, TypeOK, Registers, Reg
  <1>14. Results'
    BY <1>2 DEF ExitTrapHandler, IInv, Results, Asks, Answered, CallOf, Phase
  <1> QED
    BY <1>8, <1>9, <1>10, <1>11, <1>12, <1>13, <1>14 DEF IInv

-----------------------------------------------------------------------------
(* A trap thread. *)

LEMMA InvThreadStart ==
  ASSUME IInv, NEW c \in Contexts, ThreadStart(c) PROVE IInv'
  <1>1. /\ c = ectx /\ epc = "await" /\ c \in live /\ trap_mutex = 1
        /\ switch_to_trap[c] = 1 /\ switch_to_emu[c] = 0
    <2>1. tpc[c] = "start" /\ switch_to_trap[c] > 0
      BY DEF ThreadStart, Goto
    <2>2. Active(c)
      BY <2>1 DEF IInv, Others
    <2> QED
      BY <2>1, <2>2 DEF Active, Called, IInv, Phase, NoSwitch
  <1>2. \A d \in Contexts : (Active(d) <=> d = c) /\ (Active(d)' <=> d = c)
    BY <1>1 DEF Active, ThreadStart, emu
  <1>3. tpc' \in [Contexts -> ThreadPlaces]
    BY GotoType DEF ThreadStart, IInv, TypeOK, ThreadPlaces
  <1>4. TypeOK'
    <2>1. switch_to_trap' \in [Contexts -> 0..1]
      BY DEF ThreadStart, IInv, TypeOK
    <2> QED
      BY <1>3, <2>1 DEF ThreadStart, IInv, TypeOK, m68k, emu, fields
  <1>5. Phase'
    BY <1>1 DEF ThreadStart, Goto, IInv, TypeOK, Phase, Called, NoSwitch, HandlerRuns, emu
  <1>6. Others'
    BY <1>2 DEF ThreadStart, Goto, IInv, Others, NoSwitch
  <1>7. Stacks' /\ Saved' /\ Frames'
    BY <1>1, <1>2, Undisturbed DEF ThreadStart, CodeRuns, emu, fields
  <1>8. Results'
    BY <1>2 DEF ThreadStart, Goto, IInv, Results, Asks, Answered, CallOf, fields
  <1> QED
    BY <1>4, <1>5, <1>6, <1>7, <1>8 DEF IInv

\* The call that is counted is the active context's, which is on no stack.
LEMMA InvHandlerCall ==
  ASSUME IInv, NEW c \in Contexts, HandlerCall(c) PROVE IInv'
  <1>1. /\ c = ectx /\ epc = "await" /\ c \in live /\ NoSwitch(c) /\ ~Called /\ trap_mutex = 1
        /\ regs.task = saved_regs[c].task /\ regs.sp = saved_regs[c].sp
    BY Runs DEF HandlerCall, Goto, HandlerRuns
  <1>2. \A d \in Contexts : (Active(d) <=> d = c) /\ (Active(d)' <=> d = c)
    BY <1>1 DEF Active, HandlerCall, emu
  <1>3. tpc' \in [Contexts -> ThreadPlaces]
    BY GotoType DEF HandlerCall, IInv, TypeOK, ThreadPlaces
  <1>4. TypeOK'
    <2>1. calls' \in [Contexts -> 0..MaxCalls]
      BY DEF HandlerCall, IInv, TypeOK
    <2> QED
      BY <1>3, <2>1 DEF HandlerCall, IInv, TypeOK, m68k, emu, fields, sems
  <1>5. Phase'
    BY <1>1 DEF HandlerCall, Goto, Phase, Called, NoSwitch, HandlerRuns, emu, sems
  <1>6. Others'
    BY <1>2 DEF HandlerCall, Goto, IInv, Others, NoSwitch, sems
  <1>7. Stacks'
    BY <1>2 DEF HandlerCall, IInv, TypeOK, Stacks, WaitsAt, Reg, m68k, fields
  <1>8. Saved' /\ Frames'
    <2>1. Active(c) /\ ~Called
      BY Runs DEF HandlerCall, Goto, HandlerRuns
    <2>2. \A t \in Tasks : \A k \in 0..Depth : k <= Reg(t).sp => FnAt(t, k)' = FnAt(t, k)
      BY <2>1, FnKept DEF HandlerCall, m68k
    <2>3. UNCHANGED <<regs, switched, stack, live, saved_regs, epc, ectx, current_context>>
      BY DEF HandlerCall, m68k, emu, fields
    <2>4. \A t \in Tasks : Reg(t)' = Reg(t)
      BY <2>3 DEF Reg
    <2>5. \A d \in Contexts : Active(d)' <=> Active(d)
      BY <2>3 DEF Active, Called
    <2>6. ASSUME NEW d \in live
          PROVE  /\ saved_regs[d].task \in Tasks /\ saved_regs[d].sp \in 0..Depth
                 /\ saved_regs[d].sp <= Reg(saved_regs[d].task).sp
      BY SavedRange
    <2>7. Saved'
      BY <2>2, <2>3, <2>4, <2>5, <2>6 DEF IInv, Saved, TypeOK
    <2>8. Frames'
      BY <2>2, <2>3 DEF IInv, Frames, CodeRuns, TypeOK, Registers, Reg, Called
    <2> QED
      BY <2>7, <2>8
  <1>9. Results'
    BY <1>2 DEF HandlerCall, Goto, IInv, TypeOK, Results, Asks, Answered, CallOf, fields, sems
  <1> QED
    BY <1>4, <1>5, <1>6, <1>7, <1>8, <1>9 DEF IInv

LEMMA InvHandlerReturn ==
  ASSUME IInv, NEW c \in Contexts, HandlerReturn(c) PROVE IInv'
  <1>1. /\ c = ectx /\ epc = "await" /\ c \in live /\ NoSwitch(c) /\ ~Called /\ trap_mutex = 1
        /\ regs.task = saved_regs[c].task /\ regs.sp = saved_regs[c].sp
    BY Runs DEF HandlerReturn, Goto, HandlerRuns
  <1>2. \A d \in Contexts : (Active(d) <=> d = c) /\ (Active(d)' <=> d = c)
    BY <1>1 DEF Active, HandlerReturn, emu
  <1>3. tpc' \in [Contexts -> ThreadPlaces]
    BY GotoType DEF HandlerReturn, IInv, TypeOK, ThreadPlaces
  <1>4. TypeOK'
    BY <1>3 DEF HandlerReturn, IInv, TypeOK, m68k, emu, fields, sems
  <1>5. Phase'
    BY <1>1 DEF HandlerReturn, Goto, Phase, Called, NoSwitch, HandlerRuns, emu, sems
  <1>6. Others'
    BY <1>2 DEF HandlerReturn, Goto, IInv, Others, NoSwitch, sems
  <1>7. Stacks' /\ Saved' /\ Frames'
    BY <1>1, <1>2, Undisturbed DEF HandlerReturn, CodeRuns, emu, fields
  <1>8. Results'
    BY <1>2 DEF HandlerReturn, Goto, IInv, Results, Asks, Answered, CallOf, fields, sems
  <1> QED
    BY <1>4, <1>5, <1>6, <1>7, <1>8 DEF IInv

LEMMA InvLockMutex ==
  ASSUME IInv, NEW c \in Contexts, LockMutex(c) PROVE IInv'
  <1>1. /\ c = ectx /\ epc = "await" /\ c \in live /\ NoSwitch(c) /\ ~Called
        /\ regs.task = saved_regs[c].task /\ regs.sp = saved_regs[c].sp
    BY Runs DEF LockMutex, Goto, HandlerRuns
  <1>2. \A d \in Contexts : (Active(d) <=> d = c) /\ (Active(d)' <=> d = c)
    BY <1>1 DEF Active, LockMutex, emu
  <1>3. tpc' \in [Contexts -> ThreadPlaces]
    BY GotoType DEF LockMutex, IInv, TypeOK, ThreadPlaces
  <1>4. TypeOK'
    BY <1>3 DEF LockMutex, IInv, TypeOK, m68k, emu, fields, sems
  <1>5. Phase'
    BY <1>1 DEF LockMutex, Goto, IInv, TypeOK, Phase, Called, NoSwitch, HandlerRuns, emu, sems
  <1>6. Others'
    BY <1>2 DEF LockMutex, Goto, IInv, TypeOK, Others, NoSwitch, sems
  <1>7. Stacks' /\ Saved' /\ Frames'
    BY <1>1, <1>2, Undisturbed DEF LockMutex, CodeRuns, emu, fields
  <1>8. Results'
    BY <1>2 DEF LockMutex, Goto, IInv, TypeOK, Results, Asks, Answered, CallOf, fields, sems
  <1> QED
    BY <1>4, <1>5, <1>6, <1>7, <1>8 DEF IInv

LEMMA InvCall68k ==
  ASSUME IInv, NEW c \in Contexts, Call68k(c) PROVE IInv'
  <1>1. /\ c = ectx /\ epc = "await" /\ c \in live /\ NoSwitch(c) /\ ~Called /\ trap_mutex = 0
        /\ regs.task = saved_regs[c].task /\ regs.sp = saved_regs[c].sp
    BY Runs DEF Call68k, Goto, HandlerRuns
  <1>2. \A d \in Contexts : (Active(d) <=> d = c) /\ (Active(d)' <=> d = c)
    BY <1>1 DEF Active, Call68k, emu
  <1>3. tpc' \in [Contexts -> ThreadPlaces]
    BY GotoType DEF Call68k, IInv, TypeOK, ThreadPlaces
  <1>4. TypeOK'
    <2>1. <<c, calls[c]>> \in Functions
      <3>1. calls[c] \in 1..MaxCalls
        BY DEF Call68k, Goto, IInv, TypeOK, Results
      <3> QED
        BY <3>1 DEF Functions
    <2>2. regs' \in Registers
      BY ExceptMask DEF Call68k, IInv, TypeOK, Places
    <2> QED
      BY <1>3, <2>1, <2>2 DEF Call68k, IInv, TypeOK, emu, sems
  <1>5. Phase'
    <2>1. AskedCall(c)'
      BY DEF AskedCall, Call68k
    <2> QED
      BY <1>1, <2>1 DEF Call68k, Goto, Phase, HandlerRuns, NoSwitch, emu, sems
  <1>6. Others'
    BY <1>2 DEF Call68k, Goto, IInv, Others, NoSwitch, sems
  <1>7. Stacks' /\ Saved' /\ Frames'
    <2>1. /\ regs'.task = regs.task /\ regs'.sp = regs.sp
          /\ UNCHANGED <<switched, stack, live, calls, saved_regs, epc, ectx>>
      BY DEF Call68k, emu
    <2> QED
      BY <1>1, <2>1, HandedBack
  <1>8. Results'
    BY <1>2 DEF Call68k, Goto, IInv, TypeOK, Results, Asks, Answered, CallOf, sems
  <1> QED
    BY <1>4, <1>5, <1>6, <1>7, <1>8 DEF IInv

LEMMA InvEndTrap ==
  ASSUME IInv, NEW c \in Contexts, EndTrap(c) PROVE IInv'
  <1>1. /\ c = ectx /\ epc = "await" /\ c \in live /\ NoSwitch(c) /\ ~Called /\ trap_mutex = 0
        /\ regs.task = saved_regs[c].task /\ regs.sp = saved_regs[c].sp
    BY Runs DEF EndTrap, Goto, HandlerRuns
  <1>2. \A d \in Contexts : (Active(d) <=> d = c) /\ (Active(d)' <=> d = c)
    BY <1>1 DEF Active, EndTrap, emu
  <1>3. tpc' \in [Contexts -> ThreadPlaces]
    BY GotoType DEF EndTrap, IInv, TypeOK, ThreadPlaces
  <1>4. TypeOK'
    <2>1. regs' \in Registers
      BY ExceptMask DEF EndTrap, IInv, TypeOK, Places
    <2> QED
      BY <1>3, <2>1 DEF EndTrap, IInv, TypeOK, emu, fields, sems
  <1>5. Phase'
    <2>1. AskedExit(c)'
      BY DEF AskedExit, EndTrap
    <2> QED
      BY <1>1, <2>1 DEF EndTrap, Goto, Phase, HandlerRuns, NoSwitch, emu, sems
  <1>6. Others'
    BY <1>2 DEF EndTrap, Goto, IInv, Others, NoSwitch, sems
  <1>7. Stacks' /\ Saved' /\ Frames'
    <2>1. /\ regs'.task = regs.task /\ regs'.sp = regs.sp
          /\ UNCHANGED <<switched, stack, live, calls, saved_regs, epc, ectx>>
      BY <1>1 DEF EndTrap, emu, fields
    <2> QED
      BY <1>1, <2>1, HandedBack
  <1>8. Results'
    BY <1>2 DEF EndTrap, Goto, IInv, Results, Asks, Answered, CallOf, fields, sems
  <1> QED
    BY <1>4, <1>5, <1>6, <1>7, <1>8 DEF IInv

LEMMA InvSwitchToEmu ==
  ASSUME IInv, NEW c \in Contexts, SwitchToEmu(c) PROVE IInv'
  <1>1. /\ c = ectx /\ epc = "await" /\ c \in live /\ NoSwitch(c) /\ ~Called /\ trap_mutex = 0
        /\ regs.task = saved_regs[c].task /\ regs.sp = saved_regs[c].sp
    BY Runs DEF SwitchToEmu, Goto, HandlerRuns
  <1>2. \A d \in Contexts : (Active(d) <=> d = c) /\ (Active(d)' <=> d = c)
    BY <1>1 DEF Active, SwitchToEmu, emu
  <1>3. tpc' \in [Contexts -> ThreadPlaces]
    BY GotoType DEF SwitchToEmu, IInv, TypeOK, ThreadPlaces
  <1>4. TypeOK'
    <2>1. switch_to_emu' \in [Contexts -> 0..1]
      BY <1>1 DEF SwitchToEmu, IInv, TypeOK, NoSwitch
    <2> QED
      BY <1>3, <2>1 DEF SwitchToEmu, IInv, TypeOK, m68k, emu, fields
  <1>5. Phase'
    BY <1>1 DEF SwitchToEmu, Goto, IInv, TypeOK, Phase, NoSwitch, AskedCall, AskedExit,
       m68k, emu
  <1>6. Others'
    BY <1>2 DEF SwitchToEmu, Goto, IInv, TypeOK, Others, NoSwitch
  <1>7. Stacks' /\ Saved' /\ Frames'
    BY <1>1, <1>2, Undisturbed DEF SwitchToEmu, CodeRuns, emu, fields
  <1>8. Results'
    BY <1>1, <1>2 DEF SwitchToEmu, Goto, IInv, TypeOK, Results, Asks, Answered, CallOf,
       NoSwitch, fields
  <1> QED
    BY <1>4, <1>5, <1>6, <1>7, <1>8 DEF IInv

LEMMA InvCallResume ==
  ASSUME IInv, NEW c \in Contexts, CallResume(c) PROVE IInv'
  <1>1. /\ c = ectx /\ epc = "await" /\ c \in live /\ trap_mutex = 0
        /\ switch_to_trap[c] = 1 /\ switch_to_emu[c] = 0
    <2>1. tpc[c] = "call_wait" /\ switch_to_trap[c] > 0
      BY DEF CallResume, Goto
    <2>2. Active(c)
      BY <2>1 DEF IInv, Others, NoSwitch
    <2> QED
      BY <2>1, <2>2 DEF Active, Called, IInv, Phase, NoSwitch
  <1>2. \A d \in Contexts : (Active(d) <=> d = c) /\ (Active(d)' <=> d = c)
    BY <1>1 DEF Active, CallResume, emu
  <1>3. tpc' \in [Contexts -> ThreadPlaces]
    BY GotoType DEF CallResume, IInv, TypeOK, ThreadPlaces
  <1>4. TypeOK'
    <2>1. switch_to_trap' \in [Contexts -> 0..1]
      BY DEF CallResume, IInv, TypeOK
    <2> QED
      BY <1>3, <2>1 DEF CallResume, IInv, TypeOK, m68k, emu, fields
  <1>5. Phase'
    BY <1>1 DEF CallResume, Goto, IInv, TypeOK, Phase, Called, NoSwitch, HandlerRuns, emu
  <1>6. Others'
    BY <1>2 DEF CallResume, Goto, IInv, Others, NoSwitch
  <1>7. Stacks' /\ Saved' /\ Frames'
    BY <1>1, <1>2, Undisturbed DEF CallResume, CodeRuns, emu, fields
  <1>8. Results'
    BY <1>2 DEF CallResume, Goto, IInv, TypeOK, Results, Asks, Answered, CallOf, fields
  <1> QED
    BY <1>4, <1>5, <1>6, <1>7, <1>8 DEF IInv

LEMMA InvCallUnlock ==
  ASSUME IInv, NEW c \in Contexts, CallUnlock(c) PROVE IInv'
  <1>1. /\ c = ectx /\ epc = "await" /\ c \in live /\ NoSwitch(c) /\ ~Called /\ trap_mutex = 0
        /\ regs.task = saved_regs[c].task /\ regs.sp = saved_regs[c].sp
    BY Runs DEF CallUnlock, Goto, HandlerRuns
  <1>2. \A d \in Contexts : (Active(d) <=> d = c) /\ (Active(d)' <=> d = c)
    BY <1>1 DEF Active, CallUnlock, emu
  <1>3. tpc' \in [Contexts -> ThreadPlaces]
    BY GotoType DEF CallUnlock, IInv, TypeOK, ThreadPlaces
  <1>4. TypeOK'
    BY <1>1, <1>3 DEF CallUnlock, IInv, TypeOK, m68k, emu, fields, sems
  <1>5. Phase'
    BY <1>1 DEF CallUnlock, Goto, IInv, TypeOK, Phase, Called, NoSwitch, HandlerRuns, emu, sems
  <1>6. Others'
    BY <1>2 DEF CallUnlock, Goto, IInv, Others, NoSwitch, sems
  <1>7. Stacks' /\ Saved' /\ Frames'
    BY <1>1, <1>2, Undisturbed DEF CallUnlock, CodeRuns, emu, fields
  <1>8. Results'
    BY <1>2 DEF CallUnlock, Goto, IInv, Results, Asks, Answered, CallOf, fields, sems
  <1> QED
    BY <1>4, <1>5, <1>6, <1>7, <1>8 DEF IInv

LEMMA InvThreadExit ==
  ASSUME IInv, NEW c \in Contexts, ThreadExit(c) PROVE IInv'
  <1>1. \A d \in Contexts : Active(d)' <=> Active(d)
    BY DEF Active, Called, ThreadExit, m68k, emu
  <1>2. tpc' \in [Contexts -> ThreadPlaces]
    BY GotoType DEF ThreadExit, IInv, TypeOK, ThreadPlaces
  <1>3. TypeOK'
    BY <1>2 DEF ThreadExit, IInv, TypeOK, m68k, emu, fields, sems
  <1>4. Phase'
    BY DEF ThreadExit, Goto, IInv, Phase, Called, NoSwitch, HandlerRuns, AskedCall, AskedExit,
       m68k, emu, sems
  <1>5. Others'
    BY <1>1 DEF ThreadExit, Goto, IInv, Others, NoSwitch, sems
  <1>6. Stacks' /\ Saved' /\ Frames'
    BY <1>1, Undisturbed DEF ThreadExit, CodeRuns, Called, m68k, emu, fields
  <1>7. Results'
    BY <1>1 DEF ThreadExit, Goto, IInv, Results, Asks, Answered, CallOf, fields, sems
  <1> QED
    BY <1>3, <1>4, <1>5, <1>6, <1>7 DEF IInv

-----------------------------------------------------------------------------
LEMMA InvNext ==
  ASSUME IInv, [Next]_vars PROVE IInv'
  <1>1. CASE UNCHANGED vars
    BY <1>1 DEF vars, m68k, emu, threads, fields, sems, IInv, TypeOK, Phase, Others, Stacks,
       WaitsAt, Saved, CodeRuns, Frames, Results, Called, Active, Reg, FnAt, NoSwitch,
       AskedCall, AskedExit, HandlerRuns, CallOf, Asks, Answered
  <1>2. CASE Emulator
    BY <1>2, InvSwitchTask, InvRts, InvHandleExtendedTrap, InvTrapPost, InvAwaitTrap,
       InvCallHandler, InvUnlock, InvReturnLock, InvReturnHandler, InvExitJoin, InvExitTrapHandler
    DEF Emulator, EmuHandler
  <1>3. ASSUME NEW c \in Contexts, TrapThread(c) PROVE IInv'
    BY <1>3, InvThreadStart, InvHandlerCall, InvHandlerReturn, InvLockMutex, InvCall68k,
       InvEndTrap, InvSwitchToEmu, InvCallResume, InvCallUnlock, InvThreadExit DEF TrapThread
  <1> QED
    BY <1>1, <1>2, <1>3 DEF Next

\* The hand-over: IInv holds of every behaviour of traps.cpp's functions and threads.
THEOREM HandOver == Spec => []IInv
  <1>1. IInv /\ [Next]_vars => IInv'
    BY InvNext
  <1> QED
    BY InvInit, <1>1, PTL DEF Spec

\* Every variable keeps its type; no semaphore is posted twice before it is waited for.
THEOREM TypeCorrect == Spec => []TypeOK
  <1>1. IInv => TypeOK
    BY DEF IInv
  <1> QED
    BY HandOver, <1>1, PTL

\* The registers have one owner: a handler runs only while the emulator thread waits for it.
THEOREM RegistersOwned == Spec => []OneOwner
  <1>1. IInv => OneOwner
    <2> SUFFICES ASSUME IInv PROVE OneOwner
      OBVIOUS
    <2>1. \A c \in Contexts : HandlerRuns(c) => c = ectx /\ epc = "await"
      BY Runs
    <2> QED
      BY <2>1 DEF OneOwner, EmuRuns
  <1> QED
    BY HandOver, <1>1, PTL

\* Nobody ever finds trap_mutex taken: m68k_return_handler, trap_Call68k, the end of trap_thread.
THEOREM MutexFree == Spec => []NeverContended
  <1>1. IInv => NeverContended
    <2> SUFFICES ASSUME IInv PROVE NeverContended
      OBVIOUS
    <2>1. epc = "run" /\ regs.pc = "m68k_return" => trap_mutex = 1
      BY DEF IInv, Phase, Called
    <2>2. \A c \in Contexts : tpc[c] \in {"call_lock", "end_lock"} => trap_mutex = 1
      BY Runs DEF HandlerRuns
    <2> QED
      BY <2>1, <2>2 DEF NeverContended
  <1> QED
    BY HandOver, <1>1, PTL

\* A handler finds the task and the stack depth of its trap, after any of its 68k calls.
THEOREM FrameKept == Spec => []OwnFrame
  <1>1. IInv => OwnFrame
    BY Runs DEF OwnFrame
  <1> QED
    BY HandOver, <1>1, PTL

\* trap_Call68k gives the handler the result of the function it called.
THEOREM ResultKept == Spec => []OwnResult
  <1>1. IInv => OwnResult
    BY DEF IInv, Results, Answered, CallOf, OwnResult
  <1> QED
    BY HandOver, <1>1, PTL

\* No context exit_trap_handler has freed is used.
THEOREM ContextsLive == Spec => []NoUseAfterFree
  <1>1. IInv => NoUseAfterFree
    <2> SUFFICES ASSUME IInv PROVE NoUseAfterFree
      OBVIOUS
    <2>1. \A c \in Contexts : tpc[c] \notin {"none", "exited"} => c \in live
      BY DEF IInv, Others, Active, Phase
    <2>2. epc \in {"trap", "await", "exit"} => ectx \in live
      BY DEF IInv, Phase
    <2>3. ASSUME NEW t \in Tasks, NEW i \in 1..Reg(t).sp PROVE stack[t][i] \in live
      <3>1. i \in 1..Depth /\ i <= Reg(t).sp
        BY DEF IInv, TypeOK, Registers, Reg
      <3> QED
        BY <3>1, StackRange DEF WaitsAt
    <2> QED
      BY <2>1, <2>2, <2>3 DEF NoUseAfterFree, Reg
  <1> QED
    BY HandOver, <1>1, PTL
=============================================================================
