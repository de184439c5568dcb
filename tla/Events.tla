------------------------------- MODULE Events -------------------------------
(***************************************************************************)
(* The emulated clock (events.cpp, include/events.h).  currcycle counts    *)
(* cycles modulo 2^32; eventtab has an entry per periodic source, eventtab2*)
(* the one-shot events, all of which fire through the entry ev_misc.  The  *)
(* CPU calls do_cycles; due handlers run inside it and may themselves      *)
(* request events, also while MISC_handler is walking eventtab2.           *)
(*                                                                         *)
(* Handlers are arbitrary: any sequence of the calls that the sources in   *)
(* eventtab and the handlers in eventtab2 make.  There is one thread, so   *)
(* pc is the innermost function that calls out, and ret is MISC_handler's  *)
(* caller.                                                                 *)
(***************************************************************************)
EXTENDS Integers, FiniteSets

CONSTANTS
  Mod,       \* the clock's modulus, 2^32
  EvMax,     \* entries of eventtab; the last two are ev_misc and ev_hsync
  Ev2Max,    \* entries of eventtab2
  Ev2Misc,   \* its first entry that has no fixed owner
  Funcs,     \* handlers, with their data, of one-shot events
  MaxDelay,  \* bound: how far ahead an event is requested
  Line,      \* HSYNCTIME
  MaxCycles, \* bound: cycles of an instruction
  Pissoff    \* pissoff_value

ASSUME EventsAssumption ==
  /\ EvMax \in Nat /\ EvMax > 1 /\ Ev2Max \in Nat /\ Ev2Misc \in 0..(Ev2Max - 1)
  /\ MaxDelay \in Nat \ {0} /\ Line \in 1..MaxDelay /\ Pissoff \in Nat /\ MaxCycles \in Nat \ {0}
  /\ Mod \in Nat /\ MaxDelay < Mod - 1 /\ Funcs # {}

Evs == 0..(EvMax - 1)
Evs2 == 0..(Ev2Max - 1)
ev_misc == EvMax - 2
ev_hsync == EvMax - 1
Sources == Evs \ {ev_misc, ev_hsync}

VARIABLES
  currcycle, nextevent,     \* the clock, and when do_cycles must look at eventtab
  eventtab, eventtab2,      \* [entry -> when it is due, or Off], [entry -> the same and its handler]
  next,                     \* event2_newevent_xx's static: where it looks for a free entry
  recursive, dorecheck,     \* MISC_handler's statics
  do_cycles,                \* which form of it the preferences select
  pissoff, is_syncline,     \* cycles the CPU has for free; waiting for the host's time
  pc, ret,                  \* the function that runs, MISC_handler's caller
  left, i,                  \* do_cycles: cycles to add, entry whose handler runs
  j, recheck, mintime       \* MISC_handler: entry whose handler runs, its locals

clock == <<currcycle, nextevent>>
free == <<do_cycles, pissoff, is_syncline>>
statics == <<next, recursive, dorecheck>>
loop == <<left, i>>
misc == <<ret, j, recheck, mintime>>
vars == <<clock, eventtab, eventtab2, statics, free, pc, loop, misc>>

In(d) == (currcycle + d) % Mod                     \* the time d cycles from now
Dist(t) == (t + Mod - currcycle) % Mod             \* cycles from now to time t
Least(S) == CHOOSE x \in S : \A y \in S : x <= y
Never == Mod - 1                                   \* ~0

Times == 0..(Mod - 1)
Off == -1                                          \* not active
Inactive == [evtime |-> Off, func |-> CHOOSE f \in Funcs : TRUE]

\* events_schedule
Schedule(tab) ==
  In(Least({Never} \cup {Dist(tab[e]) : e \in {f \in Evs : tab[f] # Off}}))

Init ==
  /\ currcycle \in Times
  /\ eventtab = [e \in Evs |-> IF e = ev_hsync THEN In(Line) ELSE Off]
  /\ eventtab2 = [s \in Evs2 |-> Inactive]
  /\ nextevent = Schedule(eventtab)
  /\ next = Ev2Misc /\ recursive = 0 /\ dorecheck = FALSE
  /\ do_cycles \in {"norm", "fastest"} /\ pissoff = 0 /\ is_syncline = FALSE
  /\ pc = "cpu" /\ ret = "cpu" /\ left = 0 /\ i = 0 /\ j = 0 /\ recheck = FALSE /\ mintime = Never

-----------------------------------------------------------------------------
(* do_cycles, called by the CPU. *)

do_cycles_cpu_norm(c) ==
  /\ pc = "cpu" /\ do_cycles = "norm" /\ pc' = "loop" /\ left' = c
  /\ UNCHANGED <<clock, eventtab, eventtab2, statics, free, i, misc>>

\* Cycles of free CPU time do not move the clock; nor do any others while the host has
\* time left on this line.
KeepEmulating(c) ==
  /\ pc = "cpu" /\ do_cycles = "fastest"
  /\ \/ pissoff > c /\ pissoff' = pissoff - c
     \/ pissoff <= c /\ is_syncline /\ pissoff' = Pissoff
  /\ UNCHANGED <<clock, eventtab, eventtab2, statics, do_cycles, is_syncline, pc, loop, misc>>

\* Mutant of do_cycles_cpu_fastest: the end of the wait is not noted.
SynclineForever(c) ==
  /\ pc = "cpu" /\ do_cycles = "fastest" /\ pissoff <= c /\ ~is_syncline
  /\ pc' = "loop" /\ left' = c - pissoff /\ pissoff' = 0
  /\ UNCHANGED <<clock, eventtab, eventtab2, statics, do_cycles, is_syncline, i, misc>>

do_cycles_cpu_fastest(c) ==
  /\ pc = "cpu" /\ do_cycles = "fastest" /\ pissoff <= c
  /\ pc' = "loop" /\ left' = c - pissoff /\ pissoff' = 0 /\ is_syncline' = FALSE
  /\ UNCHANGED <<clock, eventtab, eventtab2, statics, do_cycles, i, misc>>

\* The preferences change.
SetDoCycles ==
  /\ pc = "cpu" /\ do_cycles' \in {"norm", "fastest"} \ {do_cycles}
  /\ UNCHANGED <<clock, eventtab, eventtab2, statics, pissoff, is_syncline, pc, loop, misc>>

Advance ==
  /\ pc = "loop"
  /\ IF Dist(nextevent) <= left
     THEN left' = left - Dist(nextevent) /\ currcycle' = nextevent /\ i' = 0 /\ pc' = "scan"
     ELSE left' = 0 /\ currcycle' = In(left) /\ pc' = "cpu" /\ UNCHANGED i
  /\ UNCHANGED <<nextevent, eventtab, eventtab2, statics, free, misc>>

\* MISC_handler's first lines.
EnterMisc(caller) ==
  /\ recursive' = 1 /\ eventtab' = [eventtab EXCEPT ![ev_misc] = Off]
  /\ pc' = "misc" /\ ret' = caller /\ j' = 0 /\ recheck' = FALSE /\ mintime' = Never

\* Run the handlers of the entries that are due, in order.
Scan ==
  LET due == {e \in Evs : e >= i /\ eventtab[e] = currcycle}
  IN /\ pc = "scan"
     /\ \/ /\ due = {} /\ nextevent' = Schedule(eventtab) /\ pc' = "loop" /\ i' = 0
           /\ UNCHANGED <<eventtab, recursive, misc>>
        \/ /\ due # {} /\ Least(due) = ev_misc /\ i' = ev_misc
           /\ EnterMisc("scan") /\ UNCHANGED nextevent
        \/ /\ due # {} /\ Least(due) # ev_misc /\ i' = Least(due)
           /\ pc' = "source" /\ UNCHANGED <<nextevent, eventtab, recursive, misc>>
     /\ UNCHANGED <<currcycle, eventtab2, next, dorecheck, free, left>>

\* A source's handler ends having set its next time; only hsync always has one.  In the
\* fastest mode hsync may start a wait for the host.
SourceReturn(t) ==
  /\ pc = "source" /\ pc' = "scan" /\ i' = i + 1
  /\ eventtab' = [eventtab EXCEPT ![i] = IF i = ev_hsync THEN In(Line) ELSE t]
  /\ nextevent' = Schedule(eventtab')
  /\ is_syncline' \in IF i = ev_hsync /\ do_cycles = "fastest" THEN BOOLEAN ELSE {is_syncline}
  /\ UNCHANGED <<currcycle, eventtab2, statics, do_cycles, pissoff, left, misc>>

-----------------------------------------------------------------------------
(* MISC_handler *)

\* Back to the caller (whose locals are its own; those of the call are gone).
LeaveMisc ==
  /\ recursive' = 0 /\ pc' = ret /\ i' = IF ret = "scan" THEN i + 1 ELSE i
  /\ ret' = "cpu" /\ j' = 0 /\ recheck' = FALSE /\ mintime' = Never
  /\ UNCHANGED eventtab2

\* Walk eventtab2 to the next entry that is due and call its handler; at the end walk it
\* again if handlers set entries, else arm ev_misc for the soonest.  With none pending the
\* entry is armed ~0 cycles ahead where long has 64 bits (mintime # ~0UL), else not.
MiscScan ==
  LET due == {s \in Evs2 : s >= j /\ eventtab2[s].evtime = currcycle}
      upto == IF due = {} THEN Ev2Max ELSE Least(due)
      soonest == Least({mintime} \cup
        {Dist(eventtab2[s].evtime) : s \in {t \in Evs2 : t >= j /\ t < upto /\ eventtab2[t].evtime # Off}})
  IN /\ pc = "misc"
     /\ \/ /\ due # {}
           /\ eventtab2' = [eventtab2 EXCEPT ![upto] = Inactive]
           /\ j' = upto /\ mintime' = soonest /\ pc' = "event2"
           /\ UNCHANGED <<nextevent, eventtab, recursive, i, recheck, ret>>
        \/ /\ due = {} /\ recheck
           /\ j' = 0 /\ recheck' = FALSE /\ mintime' = Never
           /\ UNCHANGED <<nextevent, eventtab, eventtab2, recursive, pc, i, ret>>
        \/ /\ due = {} /\ ~recheck
           /\ \/ /\ eventtab' = [eventtab EXCEPT ![ev_misc] = In(soonest)]
                 /\ nextevent' = Schedule(eventtab')
              \/ soonest = Never /\ UNCHANGED <<nextevent, eventtab>>
           /\ LeaveMisc
     /\ UNCHANGED <<currcycle, next, dorecheck, free, left>>

\* Mutant of Event2Return: only the entry itself is looked at again.
Event2ReturnOwn ==
  /\ pc = "event2" /\ pc' = "misc" /\ j' = j + 1 /\ dorecheck' = FALSE
  /\ recheck' = (recheck \/ eventtab2[j].evtime # Off)
  /\ UNCHANGED <<clock, eventtab, eventtab2, next, recursive, free, loop, ret, mintime>>

Event2Return ==
  /\ pc = "event2" /\ pc' = "misc" /\ j' = j + 1
  /\ IF dorecheck \/ eventtab2[j].evtime # Off
     THEN recheck' = TRUE /\ dorecheck' = FALSE
     ELSE UNCHANGED <<recheck, dorecheck>>
  /\ UNCHANGED <<clock, eventtab, eventtab2, next, recursive, free, loop, ret, mintime>>

-----------------------------------------------------------------------------
(* What the CPU's accesses to registers, and handlers, call. *)

Calls == pc \in {"cpu", "source", "event2"}

\* A source's time changes: blocks that set an entry call events_schedule.
SetSource(e, t) ==
  /\ Calls /\ ~(pc = "source" /\ i = e)
  /\ eventtab' = [eventtab EXCEPT ![e] = t]
  /\ nextevent' = Schedule(eventtab')
  /\ UNCHANGED <<currcycle, eventtab2, statics, free, pc, loop, misc>>

\* The entries with no owner, in the order they are tried.
Try(n) == Ev2Misc + ((next - Ev2Misc + n) % (Ev2Max - Ev2Misc))
Tries == 0..(Ev2Max - Ev2Misc - 1)

\* Mutant of NewEvent: MISC_handler is not called.
NewEventUnannounced(s, d, f) ==
  /\ eventtab2' = [eventtab2 EXCEPT ![s] = [evtime |-> In(d), func |-> f]]
  /\ UNCHANGED <<clock, eventtab, recursive, dorecheck, free, pc, loop, misc>>

\* event2_newevent_xx into entry s, then MISC_handler.  An entry that is in use may serve
\* only if it is the same event.
NewEvent(s, d, f) ==
  /\ eventtab2' = [eventtab2 EXCEPT ![s] = [evtime |-> In(d), func |-> f]]
  /\ IF recursive = 1
     THEN dorecheck' = TRUE /\ UNCHANGED <<eventtab, recursive, pc, misc>>
     ELSE EnterMisc(pc) /\ UNCHANGED dorecheck
  /\ UNCHANGED <<clock, free, loop>>

\* The handlers of eventtab2 never ask to be called at once.
Delays == IF pc = "event2" THEN 1..MaxDelay ELSE 0..MaxDelay

event2_newevent(s, d, f) == Calls /\ d \in Delays /\ NewEvent(s, d, f) /\ UNCHANGED next

event2_newevent2(d, f) ==
  LET fits(s) == eventtab2[s].evtime = Off \/ eventtab2[s] = [evtime |-> In(d), func |-> f]
      found == {n \in Tries : fits(Try(n))}
  IN /\ Calls /\ d \in Delays /\ found # {}     \* else "out of event2's!"
     /\ next' = Try(Least(found)) /\ NewEvent(Try(Least(found)), d, f)

event2_remevent(s) ==
  /\ Calls /\ eventtab2' = [eventtab2 EXCEPT ![s] = Inactive]
  /\ UNCHANGED <<clock, eventtab, statics, free, pc, loop, misc>>

\* event2_newevent_x_remove: every entry the handler is in.
event2_newevent_x_remove(f) ==
  /\ Calls
  /\ eventtab2' = [s \in Evs2 |-> IF eventtab2[s].func = f THEN Inactive ELSE eventtab2[s]]
  /\ UNCHANGED <<clock, eventtab, statics, free, pc, loop, misc>>

-----------------------------------------------------------------------------
RunClock ==
  \E c \in 1..MaxCycles : do_cycles_cpu_norm(c) \/ do_cycles_cpu_fastest(c)
Soon == {Off} \cup {In(d) : d \in 1..MaxDelay}
SourceReturns == \E t \in Soon : SourceReturn(t)
Walks == Advance \/ Scan \/ MiscScan

Next ==
  \/ SetDoCycles \/ RunClock \/ Walks \/ Event2Return \/ SourceReturns
  \/ \E c \in 1..MaxCycles : KeepEmulating(c)
  \/ \E e \in Sources, t \in Soon : SetSource(e, t)
  \/ \E s \in 0..(Ev2Misc - 1), d \in 0..MaxDelay, f \in Funcs : event2_newevent(s, d, f)
  \/ \E d \in 0..MaxDelay, f \in Funcs : event2_newevent2(d, f)
  \/ \E s \in 0..(Ev2Misc - 1) : event2_remevent(s)
  \/ \E f \in Funcs : event2_newevent_x_remove(f)
Spec == Init /\ [][Next]_vars

\* The CPU executes instructions, the host's time comes, and handlers return.
FairSpec ==
  /\ Spec /\ WF_vars(Walks)
  /\ SF_vars(RunClock) /\ SF_vars(Event2Return) /\ SF_vars(SourceReturns)

TypeOK ==
  /\ {currcycle, nextevent} \subseteq Times
  /\ eventtab \in [Evs -> Times \cup {Off}]
  /\ eventtab2 \in [Evs2 -> [evtime : Times \cup {Off}, func : Funcs]]
  /\ next \in Ev2Misc..(Ev2Max - 1) /\ recursive \in {0, 1} /\ dorecheck \in BOOLEAN
  /\ do_cycles \in {"norm", "fastest"} /\ pissoff \in 0..Pissoff /\ is_syncline \in BOOLEAN
  /\ pc \in {"cpu", "loop", "scan", "source", "misc", "event2"} /\ ret \in {"cpu", "scan", "source"}
  /\ left \in 0..MaxCycles /\ i \in 0..EvMax /\ j \in 0..Ev2Max
  /\ recheck \in BOOLEAN /\ mintime \in 0..Never

\* The times of the events that are pending.
Pending == ({eventtab[e] : e \in Evs \ {ev_misc}} \cup {eventtab2[s].evtime : s \in Evs2}) \ {Off}

\* No pending event is overtaken by the clock: it would fire 2^32 cycles later.
NotOvertaken == \A t \in Pending : Dist(t) <= MaxDelay

\* Whenever the CPU runs, do_cycles will stop at the soonest event, one-shots included:
\* whatever was requested, by whom, and inside which handler.  None is overtaken meanwhile.
Armed ==
  /\ TypeOK /\ NotOvertaken
  /\ pc = "cpu" =>
    /\ \A t \in Pending : 0 < Dist(nextevent) /\ Dist(nextevent) <= Dist(t)
    /\ \A s \in Evs2 : eventtab2[s].evtime # Off =>
         eventtab[ev_misc] # Off /\ Dist(eventtab[ev_misc]) <= Dist(eventtab2[s].evtime)

\* A one-shot event that has no owner to move it fires or is removed.
Fires == \A s \in Ev2Misc..(Ev2Max - 1) : eventtab2[s] # Inactive ~> eventtab2[s] = Inactive

\* Lines keep coming, however long the CPU is given the host's spare time.
LinesCome == []<>(pc = "source" /\ i = ev_hsync)
=============================================================================
