------------------------------ MODULE Cia8520 ------------------------------
(***************************************************************************)
(* What the CIAs of an Amiga do at each E clock: their timers count, the   *)
(* serial port shifts, and Paula is asked for an interrupt.                *)
(*                                                                         *)
(* This is the promise of cia.cpp, which does not count E clocks but works *)
(* out on demand how many have gone by (CiaTimers implements this).        *)
(***************************************************************************)
EXTENDS CiaChip

VARIABLES
  chip,     \* [CIA -> its timers, serial port and interrupt control]
  intreq,   \* [CIA -> Paula's request bit for it, PORTS or EXTER]
  bus       \* the byte last read from a timer

vars == <<chip, intreq, bus>>

Init == chip = [c \in Cias |-> ResetChip] /\ intreq = [c \in Cias |-> FALSE] /\ bus = 0

\* Paula latches the edge of a CIA's interrupt line.
Becomes(new) ==
  chip' = new /\ intreq' = [c \in Cias |-> intreq[c] \/ (chip'[c].ir /\ ~chip[c].ir)]

Down(tm) == IF tm.t = 0 THEN Reload(tm) ELSE [tm EXCEPT !.t = @ - 1]
Tick(tm) == IF tm.start > 0 THEN [tm EXCEPT !.start = @ - 1] ELSE Down(tm)

\* The timers that underflow at this E clock; timer B may count timer A's underflows.
Ends(tm) == Clocked(tm) /\ tm.start = 0 /\ tm.t = 0
Carries(ch) == Ends(ch.a) /\ Cascaded(ch.b)
Under(ch) ==
  (IF Ends(ch.a) THEN {"ta"} ELSE {}) \cup (IF Ends(ch.b) \/ (Carries(ch) /\ ch.b.t = 0) THEN {"tb"} ELSE {})

\* What one E clock does to a CIA.
Clock(ch) ==
  LET shifted == IF Ends(ch.a) THEN Shift(ch) ELSE ch
  IN Rethink([shifted EXCEPT
       !.a = IF Clocked(ch.a) THEN Tick(ch.a) ELSE ch.a,
       !.b = IF Clocked(ch.b) THEN Tick(ch.b) ELSE IF Carries(ch) THEN Down(ch.b) ELSE ch.b,
       !.icr = @ \cup Under(ch)])

EClock == Becomes([c \in Cias |-> Clock(chip[c])]) /\ UNCHANGED bus

Write(c, new) == Becomes([chip EXCEPT ![c] = new]) /\ UNCHANGED bus
WriteLatch(c, n) ==
  LET ch == chip[c]
  IN \E v \in Bytes : \/ Write(c, WithTimer(ch, n, SetLo(ch[n], v)))
                      \/ Write(c, WithTimer(ch, n, SetHi(ch[n], v)))
WriteControl(c, n) ==
  LET ch == chip[c]
  IN \E cr \in Controls(n), out \in {ch.out} \cup (IF n = "a" THEN {~ch.out} ELSE {}) :
       Write(c, [WithTimer(ch, n, SetControl(ch[n], cr)) EXCEPT !.out = out])
WriteSdr(c) == Write(c, SetSdr(chip[c]))
WriteMask(c) == LET ch == chip[c] IN \E on \in BOOLEAN, f \in Flags : Write(c, SetMask(ch, on, f))
RaiseFlag(c) ==
  LET ch == chip[c]
  IN \E f \in {"sp", "flag"} : Write(c, Rethink([ch EXCEPT !.icr = @ \cup {f}]))
ReadIcr(c) == Write(c, [chip[c] EXCEPT !.icr = {}, !.ir = FALSE])
ReadTimer(c, n) ==
  /\ UNCHANGED <<chip, intreq>>
  /\ \E hi \in BOOLEAN : bus' = ReadByte(chip[c][n], hi)

\* Paula's bit comes back at once while the line is still held.
WriteIntreq(c) == UNCHANGED <<chip, bus>> /\ intreq' = [intreq EXCEPT ![c] = chip[c].ir]

Next ==
  \/ \E c \in Cias, n \in {"a", "b"} : ReadTimer(c, n)
  \/ \E c \in Cias : WriteIntreq(c) \/ ReadIcr(c)
  \/ EClock
  \/ \E c \in Cias : RaiseFlag(c) \/ WriteSdr(c) \/ WriteMask(c)
  \/ \E c \in Cias, n \in {"a", "b"} : WriteLatch(c, n) \/ WriteControl(c, n)
Spec == Init /\ [][Next]_vars
=============================================================================
