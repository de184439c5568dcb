------------------------------ MODULE CiaChip ------------------------------
(***************************************************************************)
(* The registers of a CIA (cia.cpp): two timers, the serial port as an     *)
(* output, and interrupt control.  How they change when the program writes *)
(* them; Cia8520 and CiaTimers say how they change with time.              *)
(*                                                                         *)
(* A timer whose input is the CNT pin ("cnt") stands still: no E clock     *)
(* moves it.                                                               *)
(***************************************************************************)
EXTENDS Integers

CONSTANTS
  Cias,         \* the CIAs there are: a subset of {"a", "b"}
  SpOut,        \* bound: the CIAs whose serial port is made an output
  Byte,         \* bound: values of a register byte, 256
  ShiftClocks   \* timer A underflows that shift a byte out, 8 * 2

ASSUME CiaAssumption ==
  Cias \subseteq {"a", "b"} /\ SpOut \subseteq Cias /\ {Byte, ShiftClocks} \subseteq Nat \ {0}

Count == 0..(Byte * Byte - 1)
Bytes == 0..(Byte - 1)
Modes(n) == IF n = "a" THEN {"clock", "cnt"} ELSE {"clock", "cnt", "a"}
Flags == {"ta", "tb", "sp", "flag"}
CIASTARTCYCLESHI == 3
CIASTARTCYCLESCRA == 2

\* A timer, with the bits of its control register.
Timer(n) == [t : Count, start : 0..3, latch : Count, run : BOOLEAN, oneshot : BOOLEAN, mode : Modes(n)]
Chip == [a : Timer("a"), b : Timer("b"), out : BOOLEAN, cnt : 0..ShiftClocks, load : BOOLEAN,
         icr : SUBSET Flags, mask : SUBSET Flags, ir : BOOLEAN]

ResetTimer == [t |-> Byte * Byte - 1, start |-> 0, latch |-> Byte * Byte - 1, run |-> FALSE,
               oneshot |-> FALSE, mode |-> "clock"]
ResetChip == [a |-> ResetTimer, b |-> ResetTimer, out |-> FALSE, cnt |-> 0, load |-> FALSE,
              icr |-> {}, mask |-> {}, ir |-> FALSE]

Clocked(tm) == tm.run /\ tm.mode = "clock"
Cascaded(tm) == tm.run /\ tm.mode = "a"
Reload(tm) == [tm EXCEPT !.t = tm.latch, !.run = @ /\ ~tm.oneshot]
Shifting(ch) == ch.out /\ ~ch.a.oneshot /\ ch.cnt > 0

Rethink(ch) == [ch EXCEPT !.ir = @ \/ ch.icr \cap ch.mask # {}]

\* Timer A's underflow shifts the serial port; the byte waiting follows the one that is out.
Shift(ch) ==
  IF ~Shifting(ch) THEN ch
  ELSE IF ch.cnt > 1 THEN [ch EXCEPT !.cnt = @ - 1]
  ELSE [ch EXCEPT !.cnt = IF ch.load THEN ShiftClocks ELSE 0, !.load = FALSE, !.icr = @ \cup {"sp"}]

-----------------------------------------------------------------------------
(* Registers. *)

SetLo(tm, v) == [tm EXCEPT !.latch = (@ \div Byte) * Byte + v]

\* Writing the high byte loads a stopped timer, and starts a one-shot one.
SetHi(tm, v) ==
  LET latch == v * Byte + (tm.latch % Byte)
  IN [tm EXCEPT !.latch = latch, !.t = IF tm.run /\ ~tm.oneshot THEN @ ELSE latch,
                !.run = @ \/ tm.oneshot, !.start = IF tm.oneshot THEN CIASTARTCYCLESHI ELSE @]

SetControl(tm, cr) ==
  [tm EXCEPT !.start = IF cr.run /\ ~tm.run THEN CIASTARTCYCLESCRA ELSE @,
             !.run = cr.run, !.oneshot = cr.oneshot, !.mode = cr.mode,
             !.t = IF cr.strobe THEN tm.latch ELSE @]
Controls(n) == [run : BOOLEAN, oneshot : BOOLEAN, mode : Modes(n), strobe : BOOLEAN]

WithTimer(ch, n, tm) == IF n = "a" THEN [ch EXCEPT !.a = tm] ELSE [ch EXCEPT !.b = tm]
SetSdr(ch) ==
  IF ~(ch.out /\ ch.a.run) THEN ch
  ELSE [ch EXCEPT !.cnt = IF @ = 0 THEN ShiftClocks ELSE @, !.load = (ch.cnt # 0)]
SetMask(ch, on, f) == Rethink([ch EXCEPT !.mask = IF on THEN @ \cup {f} ELSE @ \ {f}])
ReadByte(tm, hi) == IF hi THEN tm.t \div Byte ELSE tm.t % Byte
=============================================================================
