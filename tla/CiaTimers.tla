----------------------------- MODULE CiaTimers -----------------------------
(***************************************************************************)
(* The CIA timers as cia.cpp keeps them: the counters of both CIAs are     *)
(* those of the last CIA_calctimers, at oldcycles, and CIA_update brings   *)
(* them up to date whenever a register of theirs is written, at the event  *)
(* ev_cia, which CIA_calctimers sets to the first underflow to come, and   *)
(* at each vertical blank.  A read subtracts the time that has passed.     *)
(*                                                                         *)
(* Time is in emulated cycles, of which DIV10 are an E clock.  The event   *)
(* scheduler (Events) runs ev_cia in its very cycle, before any CPU access *)
(* of that cycle.                                                          *)
(***************************************************************************)
EXTENDS CiaChip, FiniteSets

CONSTANTS
  Inmodes,      \* bound: the inputs the program chooses for its timers
  DIV10,        \* cycles of an E clock
  MaxElapsed,   \* bound: cycles between two vertical blanks
  MaxWrites,    \* bound: registers written
  Enabled,      \* bound: the flags whose interrupt the program may enable
  CntMod        \* bound: 2^32, ciaasdr_cnt's type

ASSUME TimersAssumption ==
  {DIV10, CntMod} \subseteq Nat \ {0} /\ {MaxElapsed, MaxWrites} \subseteq Nat /\ Enabled \subseteq Flags

VARIABLES
  chip, intreq, bus,   \* as in Cia8520, the timers as of oldcycles
  elapsed,             \* get_cycles() - eventtab[ev_cia].oldcycles
  div10,               \* cycles of an E clock begun at oldcycles
  ciatime,             \* eventtab[ev_cia].evtime - oldcycles, 0 if it is not active
  writes
timers_vars == <<chip, intreq, bus, elapsed, div10, ciatime, writes>>

TimersInit ==
  /\ chip = [c \in Cias |-> ResetChip] /\ intreq = [c \in Cias |-> FALSE] /\ bus = 0
  /\ elapsed = 0 /\ div10 = 0 /\ ciatime = 0 /\ writes = 0

\* E clocks that have gone by after e cycles, and those a timer has counted.
Clocks(e) == (e + div10) \div DIV10

Passed(tm, n) == IF Clocked(tm) /\ n > tm.start THEN n - tm.start ELSE 0
Waited(tm, n) == IF ~Clocked(tm) THEN tm.start ELSE IF n > tm.start THEN 0 ELSE tm.start - n

-----------------------------------------------------------------------------
(* CIA_update_check: n E clocks go by.  An underflow is seen only if it is  *)
(* in the last of them.                                                     *)

UnderflowsA(ch, n) == Clocked(ch.a) /\ ch.a.t + 1 = Passed(ch.a, n)
UnderflowsB(ch, n) ==
  \/ Clocked(ch.b) /\ ch.b.t + 1 = Passed(ch.b, n)
  \/ UnderflowsA(ch, n) /\ Cascaded(ch.b) /\ ch.b.t = 0

Advanced(tm, n) == [tm EXCEPT !.t = @ - Passed(tm, n), !.start = Waited(tm, n)]
AdvancedB(ch, n) ==
  [Advanced(ch.b, n) EXCEPT !.t = @ - (IF UnderflowsA(ch, n) /\ Cascaded(ch.b) THEN 1 ELSE 0)]

\* Timer A of CIA-B shifts CIA-A's counter.
Serial(cs, n) ==
  LET a == IF "a" \in Cias /\ UnderflowsA(cs["a"], n) THEN [cs EXCEPT !["a"] = Shift(@)] ELSE cs
  IN IF "b" \in Cias /\ UnderflowsA(cs["b"], n) /\ Shifting(cs["b"])
     THEN [a EXCEPT !["a"].cnt = (@ + CntMod - 1) % CntMod] ELSE a

Updated(n) ==
  [c \in Cias |->
    LET ch == chip[c]
        under == {x \in {"a", "b"} : IF x = "a" THEN UnderflowsA(ch, n) ELSE UnderflowsB(ch, n)}
    IN [Serial(chip, n)[c] EXCEPT
          !.a = IF "a" \in under THEN Reload(Advanced(@, n)) ELSE Advanced(@, n),
          !.b = IF "b" \in under THEN Reload(AdvancedB(ch, n)) ELSE AdvancedB(ch, n),
          !.icr = @ \cup {IF x = "a" THEN "ta" ELSE "tb" : x \in under}]]

\* CIA_update: the interrupt of a CIA is thought over again after an underflow.
CIA_update(e) ==
  LET n == Clocks(e)
      new == Updated(n)
  IN [c \in Cias |-> IF UnderflowsA(chip[c], n) \/ UnderflowsB(chip[c], n)
                    THEN Rethink(new[c]) ELSE new[c]]

\* Mutant of NextUnderflows: CIA-B's timers are forgotten.
NextUnderflowsA(new, d) ==
  {d + DIV10 * (tm.t + tm.start) : tm \in {x \in {new["a"].a, new["a"].b} : Clocked(x)}}

\* CIA_calctimers, with the timers as they are to be: the event is set to the first underflow.
NextUnderflows(new, d) ==
  {d + DIV10 * (tm.t + tm.start) : tm \in {x \in UNION {{new[c].a, new[c].b} : c \in Cias} : Clocked(x)}}

CIA_calctimers(e) ==
  LET d == (e + div10) % DIV10
      times == NextUnderflows(chip', DIV10 - d)
  IN /\ elapsed' = 0 /\ div10' = d
     /\ ciatime' = IF times = {} THEN 0 ELSE CHOOSE x \in times : \A y \in times : x <= y

-----------------------------------------------------------------------------
\* ICR(): Paula's request bit is set when the CIA's interrupt begins.
Becomes(new) ==
  /\ chip' = new
  /\ intreq' = [c \in Cias |-> intreq[c] \/ (chip'[c].ir /\ ~chip[c].ir)]

\* A cycle goes by; in the cycle it is set to, the event runs CIA_handler.
Cycle ==
  /\ elapsed < MaxElapsed
  /\ IF elapsed + 1 = ciatime
     THEN Becomes(CIA_update(ciatime)) /\ CIA_calctimers(ciatime)
     ELSE elapsed' = elapsed + 1 /\ UNCHANGED <<chip, intreq, div10, ciatime>>
  /\ UNCHANGED <<bus, writes>>

\* CIA_vsync_prehandler
Vsync == Becomes(CIA_update(elapsed)) /\ CIA_calctimers(elapsed) /\ UNCHANGED <<bus, writes>>

\* A register of the timers is written: CIA_update, the register, CIA_calctimers.
Write(c, new) ==
  /\ writes < MaxWrites /\ writes' = writes + 1
  /\ Becomes([CIA_update(elapsed) EXCEPT ![c] = new])
  /\ CIA_calctimers(elapsed) /\ UNCHANGED bus

WriteLo(c, n) ==
  LET ch == CIA_update(elapsed)[c] IN \E v \in Bytes : Write(c, WithTimer(ch, n, SetLo(ch[n], v)))
WriteHi(c, n) ==
  LET ch == CIA_update(elapsed)[c] IN \E v \in Bytes : Write(c, WithTimer(ch, n, SetHi(ch[n], v)))
WriteCra(c) ==
  LET ch == CIA_update(elapsed)[c]
  IN \E cr \in Controls("a"), out \in BOOLEAN :
       /\ cr.mode \in Inmodes /\ (out => c \in SpOut)
       /\ Write(c, [ch EXCEPT !.a = SetControl(@, cr), !.out = out])
WriteCrb(c) ==
  LET ch == CIA_update(elapsed)[c]
  IN \E cr \in Controls("b") :
       cr.mode \in Inmodes /\ Write(c, [ch EXCEPT !.b = SetControl(@, cr)])
WriteSdr(c) == Write(c, SetSdr(CIA_update(elapsed)[c]))

\* The registers that need no CIA_update.
Plain(c, new) == Becomes([chip EXCEPT ![c] = new]) /\ UNCHANGED <<bus, elapsed, div10, ciatime>>
WriteMask(c) ==
  /\ writes < MaxWrites /\ writes' = writes + 1
  /\ \E on \in BOOLEAN, f \in Enabled : Plain(c, SetMask(chip[c], on, f))

\* keyreq, cia_diskindex
RaiseFlag(c) ==
  LET f == IF c = "a" THEN "sp" ELSE "flag"
  IN f \in Enabled /\ Plain(c, Rethink([chip[c] EXCEPT !.icr = @ \cup {f}])) /\ UNCHANGED writes
ReadIcr(c) == Plain(c, [chip[c] EXCEPT !.icr = {}, !.ir = FALSE]) /\ UNCHANGED writes

\* compute_passed_time, and the byte of the counter it leaves.
ReadTimer(c, n) ==
  /\ \E hi \in BOOLEAN :
       bus' = ReadByte([chip[c][n] EXCEPT !.t = @ - Passed(chip[c][n], Clocks(elapsed))], hi)
  /\ UNCHANGED <<chip, intreq, elapsed, div10, ciatime, writes>>

\* Mutant of WriteIntreq: rethink_cias is forgotten.
WriteIntreqClears(c) ==
  /\ intreq' = [intreq EXCEPT ![c] = FALSE]
  /\ UNCHANGED <<chip, bus, elapsed, div10, ciatime, writes>>

\* INTREQ clears the bit and rethink_cias has it set again while the line is held.
WriteIntreq(c) ==
  /\ intreq' = [intreq EXCEPT ![c] = chip[c].ir]
  /\ UNCHANGED <<chip, bus, elapsed, div10, ciatime, writes>>

TimersNext ==
  \/ Cycle \/ Vsync
  \/ \E c \in Cias : WriteCra(c) \/ WriteCrb(c) \/ WriteSdr(c) \/ WriteMask(c) \/ RaiseFlag(c)
                     \/ ReadIcr(c) \/ WriteIntreq(c)
  \/ \E c \in Cias, n \in {"a", "b"} : WriteLo(c, n) \/ WriteHi(c, n) \/ ReadTimer(c, n)
TimersSpec == TimersInit /\ [][TimersNext]_timers_vars

-----------------------------------------------------------------------------
TimersTypeOK ==
  /\ chip \in [Cias -> Chip] /\ intreq \in [Cias -> BOOLEAN] /\ bus \in Bytes
  /\ elapsed \in 0..MaxElapsed /\ div10 \in 0..(DIV10 - 1) /\ writes \in 0..MaxWrites
  /\ ciatime = 0 \/ ciatime > elapsed

\* The timers as they are now, had they been brought up to date.
Now(tm) == [tm EXCEPT !.t = @ - Passed(tm, Clocks(elapsed)), !.start = Waited(tm, Clocks(elapsed))]
Abstract == INSTANCE Cia8520 WITH
  chip <- [c \in Cias |-> [chip[c] EXCEPT !.a = Now(@), !.b = Now(@)]]

\* The program cannot tell the timers from ones that count every E clock: no underflow is
\* missed or late, no count read is off, whenever the registers are written.
EveryClockCounted ==
  Abstract!Init /\ [][UNCHANGED Abstract!vars \/ Abstract!Next]_timers_vars

\* While a flag that is enabled has not been read the interrupt stays requested, whatever
\* the program writes to INTREQ.
Held == TimersTypeOK /\ \A c \in Cias : chip[c].icr \cap chip[c].mask # {} => intreq[c]
=============================================================================
