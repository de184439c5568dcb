------------------------------- MODULE CiaTod -------------------------------
(***************************************************************************)
(* CIA-B's line counter TOD, as cia.cpp keeps it.  Each line has one       *)
(* pulse, ciab_tod_hoffset color clocks into it.  Unless the alarm is due, *)
(* nothing is scheduled for the pulse: it is counted when the program      *)
(* looks at TOD (CIAB_tod_check) or else when the line ends.               *)
(*                                                                         *)
(* clk is the time since the line began in cycles, of which CYCLE_UNIT are *)
(* a color clock.  The event scheduler (Events) runs an event in its very  *)
(* cycle, before any CPU access of that cycle.                             *)
(***************************************************************************)
EXTENDS Integers

CONSTANTS
  Byte,       \* values of a byte of TOD, 256
  TodMed,     \* values of the part that the ciatodbug carries into, 4096
  CYCLE_UNIT, \* cycles of a color clock
  MaxHpos,    \* color clocks of a line
  Hoffset     \* the pulse's place in the line, TOD_INC_DELAY included

ASSUME TodAssumption ==
  /\ Byte \in Nat \ {0, 1} /\ TodMed \in Nat \ {0} /\ (Byte * Byte * Byte) % TodMed = 0
  /\ CYCLE_UNIT \in Nat \ {0} /\ MaxHpos \in Nat /\ Hoffset \in 1..(MaxHpos - 1)

Tods == 0..(Byte * Byte * Byte - 1)
LineCycles == MaxHpos * CYCLE_UNIT
None == -1

VARIABLES
  ciabtod, ciabalarm, ciabtodon, icr,  \* registers; icr is the alarm's flag in ciabicr
  ciabtlatch, ciabtol,                 \* TOD is latched, and its latched value
  ciab_tod_event_state,                \* 0 no pulse, 1 to be counted, 2 has an event, 3 counted
  events,                              \* when CIAB_tod_inc_event runs
  clk,
  rom,                                 \* the CPU's pc is in the Kickstart ROM
  ciatodbug, fastest,                  \* preferences: the carry's bug; m68k_speed < 0
  expected                             \* history: TOD after the pulse, None if it was stopped
                                       \* or written since the last one
regs == <<ciabtod, ciabalarm, ciabtodon, icr>>
latch == <<ciabtlatch, ciabtol>>
prefs == <<ciatodbug, fastest>>
vars == <<regs, latch, ciab_tod_event_state, events, clk, rom, prefs, expected>>

hpos == clk \div CYCLE_UNIT                                \* current_hpos()
Succ(tod) == (tod + 1) % (Byte * Byte * Byte)
Weight(k) == IF k = 0 THEN 1 ELSE IF k = 1 THEN Byte ELSE Byte * Byte
ByteOf(tod, k) == (tod \div Weight(k)) % Byte
SetByte(tod, k, b) == tod + (b - ByteOf(tod, k)) * Weight(k)

Init ==
  /\ ciabtod = 0 /\ ciabalarm = 0 /\ ciabtodon = FALSE /\ icr = FALSE
  /\ ciabtlatch = FALSE /\ ciabtol = 0
  /\ ciab_tod_event_state = 0 /\ events = {} /\ clk = 0 /\ expected = None
  /\ rom \in BOOLEAN /\ ciatodbug \in BOOLEAN /\ fastest \in BOOLEAN

\* Does TOD reach the alarm?  With the bug, a carry out of TODMED passes the old high part.
checkalarm(tod, alarm, inc) ==
  \/ tod = alarm
  \/ /\ ciatodbug /\ inc
     /\ tod % TodMed = 0
     /\ (((tod - 1) % (Byte * Byte * Byte)) \div TodMed) * TodMed = alarm

\* ciab_checkalarm: does the alarm's flag go up?
Alarm(tod, alarm, inc) == (rom \/ tod # 0 \/ alarm # 0) /\ checkalarm(tod, alarm, inc)

\* What the functions below change; their value is the new one.
Tod(t, i, st, ev) == [tod |-> t, icr |-> i, state |-> st, events |-> ev]
State == Tod(ciabtod, icr, ciab_tod_event_state, events)

\* CIAB_tod_inc, with or without the interrupt.
CIAB_tod_inc(s, irq) ==
  IF ciabtodon
  THEN Tod(Succ(s.tod), s.icr \/ (irq /\ Alarm(Succ(s.tod), ciabalarm, TRUE)), 3, s.events)
  ELSE Tod(s.tod, s.icr, 3, s.events)

\* Mutant of CIAB_tod_check: it leaves the pulse to the end of the line.
CheckNothing(s) == s
CIAB_tod_check(s) ==
  IF s.state # 1 \/ ~ciabtodon THEN s
  ELSE IF hpos >= Hoffset \/ fastest THEN CIAB_tod_inc(s, TRUE)
  ELSE Tod(s.tod, s.icr, 2, s.events \union {clk + (Hoffset - hpos)})

\* CIAB_tod_handler, at the start of a line: the alarm needs an event in this line.
\* Mutant: the alarm is left to whoever reads TOD.
NoAlarmEvent(s) == IF ciabtodon THEN Tod(s.tod, s.icr, 1, s.events) ELSE s
CIAB_tod_handler(s) ==
  IF ~ciabtodon THEN s
  ELSE IF ~checkalarm(Succ(s.tod), ciabalarm, TRUE) THEN Tod(s.tod, s.icr, 1, s.events)
  ELSE Tod(s.tod, s.icr, 2, {Hoffset})

\* CIA_hsync_posthandler(TRUE): the pulse of the line that ends.
\* Mutant: a pulse nobody looked at is dropped.
NeverCounted(s) == Tod(s.tod, s.icr, 0, s.events)
CountLate(s) ==
  LET c == IF s.state = 1 THEN CIAB_tod_inc(s, FALSE) ELSE s IN Tod(c.tod, c.icr, 0, c.events)

Becomes(s) ==
  /\ ciabtod' = s.tod /\ icr' = s.icr
  /\ ciab_tod_event_state' = s.state /\ events' = s.events

-----------------------------------------------------------------------------
\* A cycle passes, and CIAB_tod_inc_event runs if it is due.
CIAB_tod_inc_event(s) ==
  LET t == Tod(s.tod, s.icr, s.state, s.events \ {clk + 1})
  IN IF clk + 1 \in s.events /\ s.state = 2 THEN CIAB_tod_inc(t, TRUE) ELSE t

Cycle ==
  /\ clk + 1 < LineCycles /\ clk' = clk + 1
  /\ Becomes(CIAB_tod_inc_event(State))
  /\ UNCHANGED <<ciabalarm, ciabtodon, latch, rom, prefs, expected>>

\* The line ends; with external sync (BPLCON0's ERSY) the CIA has no pulse.
Hsync(ciahsync) ==
  /\ clk + 1 = LineCycles /\ clk' = 0
  /\ IF ciahsync
     THEN LET s == CIAB_tod_handler(CountLate(State))
          IN Becomes(s) /\ expected' = IF ciabtodon THEN Succ(s.tod) ELSE None
     ELSE UNCHANGED <<ciabtod, icr, ciab_tod_event_state, events, expected>>
  /\ UNCHANGED <<ciabalarm, ciabtodon, latch, rom, prefs>>

\* ReadCIAB, registers 8 to 10.  alarmbit is CRB's bit 7, which the program sets as it likes.
ReadTod(k, alarmbit) ==
  /\ Becomes(CIAB_tod_check(State))
  /\ \/ k = 0 /\ ciabtlatch' = FALSE /\ UNCHANGED ciabtol
     \/ (k = 1 \/ (k = 2 /\ ciabtlatch)) /\ UNCHANGED latch
     \/ k = 2 /\ ~ciabtlatch /\ ciabtlatch' = ~alarmbit /\ ciabtol' = ciabtod'
  /\ UNCHANGED <<ciabalarm, ciabtodon, clk, rom, prefs, expected>>

\* The byte it returns.
Returned(k) == ByteOf(IF k = 2 \/ ciabtlatch THEN ciabtol' ELSE ciabtod', k)

\* WriteCIAB, registers 8 to 10 with CRB's bit 7 clear: the high byte stops TOD, the
\* low one starts it.
WriteTod(k, b) ==
  LET s == CIAB_tod_check(State)
      tod == SetByte(s.tod, k, b)
  IN /\ Becomes(Tod(tod, s.icr \/ (k = 0 /\ Alarm(tod, ciabalarm, FALSE)), s.state, s.events))
     /\ ciabtodon' = (k = 0 \/ (k = 1 /\ ciabtodon))
     /\ expected' = None
     /\ UNCHANGED <<ciabalarm, latch, clk, rom, prefs>>

\* The same with bit 7 set.  Mutant: the alarm is moved before the pulse is looked at.
WriteAlarmFirst(k, b) ==
  /\ ciabalarm' = SetByte(ciabalarm, k, b)
  /\ UNCHANGED <<ciabtod, ciabtodon, icr, ciab_tod_event_state, events, latch, clk, rom, prefs,
                 expected>>
WriteAlarm(k, b) ==
  /\ Becomes(CIAB_tod_check(State))
  /\ ciabalarm' = SetByte(ciabalarm, k, b)
  /\ UNCHANGED <<ciabtodon, latch, clk, rom, prefs, expected>>

ReadIcr ==
  /\ icr' = FALSE
  /\ UNCHANGED <<ciabtod, ciabalarm, ciabtodon, latch, ciab_tod_event_state, events, clk, rom,
                 prefs, expected>>

\* The CPU runs on, in or out of the ROM.
Jump ==
  /\ rom' = ~rom
  /\ UNCHANGED <<regs, latch, ciab_tod_event_state, events, clk, prefs, expected>>

\* CIA_reset, after init_eventtab, which drops all events and starts a line.
Reset ==
  /\ ciabtod' = 0 /\ ciabalarm' = 0 /\ ciabtodon' = FALSE /\ icr' = FALSE
  /\ ciabtlatch' = FALSE /\ ciabtol' = 0
  /\ ciab_tod_event_state' = 0 /\ events' = {} /\ clk' = 0 /\ expected' = None
  /\ UNCHANGED <<rom, prefs>>

Next ==
  \/ Cycle \/ ReadIcr \/ Jump \/ Reset
  \/ \E ciahsync \in BOOLEAN : Hsync(ciahsync)
  \/ \E k \in 0..2 :
       \/ \E alarmbit \in BOOLEAN : ReadTod(k, alarmbit)
       \/ \E b \in 0..(Byte - 1) : WriteTod(k, b) \/ WriteAlarm(k, b)

Spec == Init /\ [][Next]_vars

-----------------------------------------------------------------------------
\* Values are in their ranges, at most one event is under way, exactly while the state
\* says so, and a pulse whose counting is put off will not reach the alarm: counted
\* without an interrupt (CIA_hsync_posthandler) it loses none.
TypeOK ==
  /\ ciabtod \in Tods /\ ciabalarm \in Tods /\ ciabtol \in Tods /\ clk \in 0..(LineCycles - 1)
  /\ ciab_tod_event_state \in 0..3 /\ expected \in Tods \union {None}
  /\ \A e \in events : events = {e} /\ e \in clk..(LineCycles - 1)
  /\ (events # {}) = (ciab_tod_event_state = 2)
  /\ ciab_tod_event_state = 1 => ciabtodon /\ ~checkalarm(Succ(ciabtod), ciabalarm, TRUE)

\* Each pulse counts once: when the CIA's next line begins, TOD is what it was at the start
\* of the last one plus one, however it was read and wherever the alarm was moved.  A stopped
\* TOD does not move until the program writes it, not even for a pulse that was under way.
EachLineCounts ==
  [][/\ Hsync(TRUE) /\ expected # None => CountLate(State).tod = expected
     /\ ~ciabtodon /\ ciabtod' # ciabtod =>
          ciabtod' = 0 \/ \E k \in 0..2, b \in 0..(Byte - 1) : WriteTod(k, b)]_vars

\* A program that reads TOD after the pulse sees it counted, and three reads, high byte
\* first, make one value of TOD, that of the first read, whatever is counted between.
ReadsCurrent ==
  [][\A k \in 0..2 : \A alarmbit \in BOOLEAN : ReadTod(k, alarmbit) =>
       /\ hpos >= Hoffset /\ expected # None => ciabtod' = expected
       /\ Returned(k) = ByteOf(IF ciabtlatch THEN ciabtol ELSE ciabtod', k)]_vars

\* TOD never comes to the alarm unannounced: whenever a pulse takes it there the flag goes
\* up.  Of an alarm at 0 nothing is said: the comment in ciab_checkalarm wants none for code of
\* the ROM, and the test below it leaves it out for all other code.
AlarmRaised ==
  [][(/\ ciabtod' = Succ(ciabtod) /\ expected # None /\ expected' # None
      /\ ciabtod' = ciabalarm /\ ciabalarm # 0) => icr']_vars
=============================================================================
