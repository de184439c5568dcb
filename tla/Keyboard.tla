------------------------------ MODULE Keyboard ------------------------------
(***************************************************************************)
(* From the keys of the host to the program: the ring of keybuf.cpp, and   *)
(* the keyboard's end of the handshake in cia.cpp.  Every 16 lines, if the *)
(* last code has been acknowledged, the next one is put in CIA-A's serial  *)
(* register and flagged in its interrupt register; a code that is not      *)
(* acknowledged in Frames vertical blanks is sent again, for ever.  After  *)
(* a reset three codes of the keyboard's own come first.                   *)
(*                                                                         *)
(* All this is on the emulator thread.  The other end, the program's       *)
(* interrupt handler, is external: it reads the interrupt register, the    *)
(* serial register, and acknowledges with a pulse of CRA's SPMODE bit.     *)
(***************************************************************************)
EXTENDS Naturals, Sequences, SequencesExt

CONSTANTS
  KEYBUF_SIZE,
  Frames,       \* 64: kblostsynccnt starts at 8 * maxvpos * 8 and loses maxvpos a frame
  MaxKeys,      \* bound: keys pressed
  MaxResets     \* bound: resets

KeyboardAssumption == KEYBUF_SIZE \in Nat \ {0, 1} /\ Frames \in Nat \ {0} /\ MaxKeys \in Nat /\ MaxResets \in Nat
ASSUME KeyboardAssumption

\* A code stands for when it is to be sent: the power-up codes 1, 2 and 3, and then keys in
\* the order the ring accepted them.
PowerUp == 1..3
Keys == 4..(3 + MaxKeys)
Codes == PowerUp \union Keys

VARIABLES
  keybuf, kpb_first, kpb_last, pressed,   \* the ring; the last key it accepted
  kbstate, kbcode, kblostsynccnt,         \* kblostsynccnt in frames
  ciaasdr, sp, enabled, spmode,           \* the register, its flag in ciaaicr, the flag's mask, CRA's bit
  pc, got, twice,    \* the handler; the codes it read since the reset, and whether one came twice
  base, late,        \* the keys before base went to a machine before; a code was sent again while
                     \* the handler was at work
  resets
ring == <<keybuf, kpb_first, kpb_last, pressed>>
keyboard == <<kbstate, kbcode, kblostsynccnt>>
program == <<enabled, pc, got, twice>>
vars == <<ring, keyboard, ciaasdr, sp, spmode, program, base, late, resets>>

Init ==
  /\ keybuf = [i \in 0..(KEYBUF_SIZE - 1) |-> 0] /\ kpb_first = 0 /\ kpb_last = 0 /\ pressed = 3
  /\ kbstate = 0 /\ kbcode = 0 /\ kblostsynccnt = 0
  /\ ciaasdr = 0 /\ sp = FALSE /\ enabled = FALSE /\ spmode = FALSE
  /\ pc = "idle" /\ got = <<>> /\ twice = FALSE /\ base = 4 /\ late = FALSE /\ resets = 0

keys_available == kpb_first # kpb_last
After(i) == (i + 1) % KEYBUF_SIZE

\* record_key; a key that finds the ring full is not accepted.
record_key ==
  /\ pressed < 3 + MaxKeys /\ After(kpb_first) # kpb_last /\ pressed' = pressed + 1
  /\ keybuf' = [keybuf EXCEPT ![kpb_first] = pressed + 1] /\ kpb_first' = After(kpb_first)
  /\ UNCHANGED <<kpb_last, keyboard, ciaasdr, sp, spmode, program, base, late, resets>>

\* keyreq
keyreq(code) == ciaasdr' = code /\ kblostsynccnt' = Frames /\ sp' = TRUE

\* Mutant: it does not wait for the acknowledgement of the last code.
check_keyboardHasty ==
  /\ keys_available \/ kbstate < 3
  /\ IF kbstate < 3
     THEN kbcode' = kbstate + 1 /\ kbstate' = kbstate + 1 /\ UNCHANGED kpb_last
     ELSE kbcode' = keybuf[kpb_last] /\ kpb_last' = After(kpb_last) /\ UNCHANGED kbstate
  /\ keyreq(kbcode')
  /\ UNCHANGED <<keybuf, kpb_first, pressed, spmode, program, base, late, resets>>
check_keyboard ==
  /\ (keys_available \/ kbstate < 3) /\ kblostsynccnt = 0
  /\ IF kbstate < 3
     THEN kbcode' = kbstate + 1 /\ kbstate' = kbstate + 1 /\ UNCHANGED kpb_last
     ELSE kbcode' = keybuf[kpb_last] /\ kpb_last' = After(kpb_last) /\ UNCHANGED kbstate
  /\ keyreq(kbcode')
  /\ UNCHANGED <<keybuf, kpb_first, pressed, spmode, program, base, late, resets>>

\* CIA_vsync_prehandler
\* Mutant: the code is given up instead of being sent again.
VsyncGivesUp ==
  /\ kblostsynccnt' = IF kblostsynccnt > 0 THEN kblostsynccnt - 1 ELSE 0
  /\ UNCHANGED <<ring, kbstate, kbcode, ciaasdr, sp, late, spmode, program, base, resets>>
Vsync ==
  /\ IF kblostsynccnt # 1
     THEN /\ kblostsynccnt' = IF kblostsynccnt > 0 THEN kblostsynccnt - 1 ELSE 0
          /\ UNCHANGED <<ciaasdr, sp, late>>
     ELSE keyreq(kbcode) /\ late' = (late \/ pc # "idle")
  /\ UNCHANGED <<ring, kbstate, kbcode, spmode, program, base, resets>>

\* CIA_reset; the ring keeps its keys, a code under way is lost.
Reset ==
  /\ resets < MaxResets /\ resets' = resets + 1
  /\ kbstate' = 0 /\ kblostsynccnt' = 0 /\ ciaasdr' = 0 /\ sp' = FALSE /\ spmode' = FALSE
  /\ enabled' = FALSE /\ pc' = "idle" /\ got' = <<>> /\ twice' = FALSE /\ late' = FALSE
  /\ base' = IF keys_available THEN keybuf[kpb_last] ELSE pressed + 1
  /\ UNCHANGED <<ring, kbcode>>

-----------------------------------------------------------------------------
(* The program.  Its handler runs when a flag is set that it has enabled.  *)

Plain == UNCHANGED <<ring, keyboard, spmode, base, late, resets>>
Enable == ~enabled /\ enabled' = TRUE /\ Plain /\ UNCHANGED <<ciaasdr, sp, pc, got, twice>>

\* The interrupt register is cleared by reading it, though its reader may want another flag.
ReadIcr ==
  /\ pc = "idle" /\ sp /\ enabled /\ sp' = FALSE /\ pc' = "read"
  /\ Plain /\ UNCHANGED <<ciaasdr, enabled, got, twice>>
MissFlag == pc = "idle" /\ sp /\ sp' = FALSE /\ Plain /\ UNCHANGED <<ciaasdr, program>>

ReadSdr ==
  /\ pc = "read" /\ pc' = "begin"
  /\ IF got # <<>> /\ Last(got) = ciaasdr THEN twice' = TRUE /\ UNCHANGED got
     ELSE got' = Append(got, ciaasdr) /\ UNCHANGED twice
  /\ Plain /\ UNCHANGED <<ciaasdr, sp, enabled>>

Begin ==
  /\ pc = "begin" /\ spmode' = TRUE /\ pc' = "end"
  /\ UNCHANGED <<ring, keyboard, ciaasdr, sp, enabled, got, twice, base, late, resets>>

\* Register 14 of WriteCIAA: "handshake end".
HandshakeEnd == kblostsynccnt' = IF spmode THEN 0 ELSE kblostsynccnt
End ==
  /\ pc = "end" /\ HandshakeEnd /\ spmode' = FALSE /\ pc' = "idle"
  /\ UNCHANGED <<ring, kbstate, kbcode, ciaasdr, sp, enabled, got, twice, base, late, resets>>

Handler == ReadIcr \/ ReadSdr \/ Begin \/ End
Next == record_key \/ check_keyboard \/ Vsync \/ Reset \/ Enable \/ MissFlag \/ Handler

\* Lines and frames go by.  The program enables the interrupt some time, its handler goes on,
\* and not every flag is read by somebody else.
Spec ==
  /\ Init /\ [][Next]_vars
  /\ WF_vars(check_keyboard) /\ WF_vars(Vsync)
  /\ WF_vars(Enable) /\ SF_vars(ReadIcr) /\ WF_vars(ReadSdr \/ Begin \/ End)

-----------------------------------------------------------------------------
TypeOK ==
  /\ keybuf \in [0..(KEYBUF_SIZE - 1) -> Keys \union {0}] /\ pressed \in 3..(3 + MaxKeys)
  /\ kpb_first \in DOMAIN keybuf /\ kpb_last \in DOMAIN keybuf
  /\ kbstate \in 0..3 /\ kbcode \in Codes \union {0} /\ kblostsynccnt \in 0..Frames
  /\ ciaasdr \in Codes \union {0} /\ sp \in BOOLEAN /\ enabled \in BOOLEAN /\ spmode \in BOOLEAN
  /\ pc \in {"idle", "read", "begin", "end"} /\ got \in Seq(Codes) /\ twice \in BOOLEAN
  /\ base \in 4..(4 + MaxKeys) /\ late \in BOOLEAN /\ resets \in 0..MaxResets

\* What the machine should get, after the power-up codes: the keys left in the ring at reset
\* and the later ones.
Due(i) == IF i \in PowerUp THEN i ELSE base + i - 4

\* Unless a code was sent again while the handler was at work on it, the program gets every
\* code once, in order, the power-up codes first: no code is overwritten before it was read.
Exact == TypeOK /\ (late \/ (~twice /\ \A i \in DOMAIN got : got[i] = Due(i)))

\* Every key the ring accepted gets to the program, however often its flag is cleared by
\* another reader; a reset may lose the one under way.
Delivered == \A k \in Keys : pressed >= k ~> (late \/ k < base \/ \E i \in DOMAIN got : got[i] = k)
=============================================================================
