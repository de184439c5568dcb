------------------------------ MODULE Blitter ------------------------------
(***************************************************************************)
(* When a blit runs and who learns of its end: blitter.cpp without the     *)
(* data it moves, the registers of custom.cpp that start, hold up and ask  *)
(* for it, and the Copper waiting for it.                                  *)
(*                                                                         *)
(* There are three blitters in the code.  "event": one event per blit      *)
(* does all its work, late by the time it would have taken.  "immediate":  *)
(* the write to BLTSIZE does.  "exact": a cycle of the bus at a time; the  *)
(* last word is written two cycles after the blitter calls itself done.    *)
(* A blit is a number of words to make and to store; its kind says         *)
(* whether D is enabled ("copy") or not ("test"), or whether it is a line, *)
(* "odd" if its width is not two.                                          *)
(***************************************************************************)
EXTENDS Integers

CONSTANT Words           \* words of a blit
BlitterAssumption == Words \in Nat \ {0}
ASSUME BlitterAssumption

Kinds == {"copy", "test", "line", "odd"}
Lines == {"line", "odd"}

VARIABLES
  prefs,    \* the mode, whether the chip set is AGA, whether the CPU is fast
  dmacon,   \* dmaen (DMA_BLITTER)
  blt       \* blt_info and the statics of blitter.cpp, see Idle
blitter_vars == <<prefs, dmacon, blt>>

exact == prefs.mode = "exact"
immediate_blits == prefs.mode = "immediate"

(***************************************************************************)
(* event is ev2_blitter; todo are the words blitter_next_cycle has not     *)
(* made; held is ddat1use, a word made and not stored.  bltwait is the     *)
(* Copper's COP_bltwait, wake its wake-up in eventtab2.  The rest is       *)
(* history: owed are the words of the last BLTSIZE that have no result     *)
(* yet, told its interrupts; clean says that nothing was under way when it *)
(* was written.                                                            *)
(***************************************************************************)
Idle == [main |-> FALSE, pending |-> FALSE, finald |-> 0, interrupt |-> TRUE, event |-> FALSE,
         slowdown |-> 0, kind |-> "test", todo |-> 0, held |-> FALSE,
         bltwait |-> FALSE, wake |-> FALSE, owed |-> 0, told |-> 0, clean |-> FALSE]
BlitterInit ==
  /\ prefs \in [mode : {"event", "immediate"}, aga : BOOLEAN, fast : {FALSE}]
                 \union [mode : {"exact"}, aga : BOOLEAN, fast : BOOLEAN]
  /\ dmacon = FALSE /\ blt = Idle

blit_busy ==
  /\ blt.main \/ blt.finald # 0
  /\ prefs.aga \/ blt.pending \/ blt.main

-----------------------------------------------------------------------------
blitter_done_notify(b) == [b EXCEPT !.wake = b.wake \/ b.bltwait]

\* Mutant: the interrupt is raised again at the final D.
InterruptAgain(b, done) ==
  IF ~done /\ (~exact \/ prefs.fast) THEN [b EXCEPT !.main = FALSE]
  ELSE blitter_done_notify([b EXCEPT !.main = FALSE, !.interrupt = TRUE, !.told = b.told + 1])
blitter_interrupt(b, done) ==
  IF b.interrupt \/ (~done /\ (~exact \/ prefs.fast)) THEN [b EXCEPT !.main = FALSE]
  ELSE blitter_done_notify([b EXCEPT !.main = FALSE, !.interrupt = TRUE, !.told = b.told + 1])

\* Mutant: no one is told of the end of a blit whose interrupt came before.
DoneQuietly(b) ==
  [blitter_interrupt([b EXCEPT !.held = FALSE, !.finald = 0], TRUE) EXCEPT !.event = FALSE]
blitter_done(b) ==
  LET i == blitter_interrupt([b EXCEPT !.held = FALSE, !.finald = 0], TRUE)
  IN [(IF b.interrupt THEN blitter_done_notify(i) ELSE i) EXCEPT !.event = FALSE]

\* Mutant: the final D is forgotten.
DoneAtOnce(b) == blitter_done(b)
\* After the last word is made, a copy's last word is still to be stored.
blitter_maybe_done_early(b) ==
  IF b.kind = "copy" /\ b.held
  THEN blitter_interrupt([b EXCEPT !.finald = 3], FALSE) ELSE blitter_done(b)

actually_do_blit(b) == [b EXCEPT !.main = FALSE, !.owed = 0]
blitter_doit(b) == blitter_done(IF b.kind = "odd" THEN b ELSE actually_do_blit(b))

\* blitter_handler; an immediate blit is not under way outside the write that starts it, so the
\* way out after 20000 tries without DMA is not taken.
blitter_handler(b) ==
  CASE ~dmacon -> [b EXCEPT !.event = TRUE]
    [] dmacon /\ b.slowdown > 0 /\ ~immediate_blits -> [b EXCEPT !.event = TRUE, !.slowdown = -1]
    [] OTHER -> blitter_doit(b)

blitter_start_init(b) == [b EXCEPT !.held = FALSE, !.interrupt = FALSE]

\* do_blitter: BLTSIZE has been written.
do_blitter(b, kind) ==
  LET s == [blitter_start_init(b) EXCEPT
              !.kind = kind, !.todo = Words, !.slowdown = 0,
              !.pending = ~dmacon, !.main = b.main \/ dmacon,
              !.owed = IF kind = "odd" /\ ~exact THEN 0 ELSE Words, !.told = 0,
              !.clean = ~b.main /\ b.finald = 0]
  IN CASE exact -> [s EXCEPT !.pending = FALSE, !.main = TRUE]
       [] ~exact /\ dmacon /\ (kind = "odd" \/ immediate_blits) -> blitter_doit(s)
       [] ~exact /\ ~dmacon /\ (kind = "odd" \/ immediate_blits) -> s
       [] OTHER -> [s EXCEPT !.event = TRUE]

\* maybe_blit: a write to a register has a running blit done at once, unless it is to a modulo and
\* the first line is not over (early).  The exact blitter catches up by cycles.
maybe_blit(b, early) == IF ~b.main \/ exact \/ early THEN b ELSE blitter_handler(b)

blitter_check_start(b) ==
  LET s == blitter_start_init([b EXCEPT !.pending = FALSE, !.main = TRUE])
  IN IF ~b.pending \/ b.main THEN b ELSE IF immediate_blits THEN blitter_doit(s) ELSE s

-----------------------------------------------------------------------------
BLTSIZE ==
  \E kind \in Kinds : blt' = do_blitter(maybe_blit(blt, FALSE), kind) /\ UNCHANGED <<prefs, dmacon>>

\* Any other register of the blitter; early only for the modulos.
BLTREG == \E early \in BOOLEAN : blt' = maybe_blit(blt, early) /\ UNCHANGED <<prefs, dmacon>>

DMACON ==
  /\ dmacon' \in BOOLEAN
  /\ blt' = (IF dmacon' THEN blitter_check_start(blt) ELSE blt) /\ UNCHANGED prefs

\* The event of the blit is due.
Event ==
  /\ blt.event /\ blt' = blitter_handler([blt EXCEPT !.event = FALSE])
  /\ UNCHANGED <<prefs, dmacon>>

\* blitter_slowdown, at a line's end, when bitplanes took cycles from the blit; its caller looks at
\* the mode and at blt_info.blit_main (custom.cpp:6830).
blitter_slowdown ==
  /\ ~exact /\ blt.main /\ blt.slowdown >= 0 /\ blt.kind \notin Lines
  /\ blt' = [blt EXCEPT !.slowdown = 1] /\ UNCHANGED <<prefs, dmacon>>

\* One cycle of the loop of decide_blitter_maybe_write.  Without the bus only the wait for the
\* final D goes on.
finald_now == IF blt.finald > 1 THEN blt.finald - 1 ELSE blt.finald
BusyCycle ==
  /\ exact /\ blt.finald > 1 /\ blt' = [blt EXCEPT !.finald = finald_now]
  /\ UNCHANGED <<prefs, dmacon>>

FinalD(b) == blitter_done([b EXCEPT !.owed = IF b.clean THEN 0 ELSE @])

\* A word is made; a copy stores the one before it, anything else has its result.
MakeWord(b) ==
  LET m == [b EXCEPT !.todo = b.todo - 1, !.held = b.kind = "copy",
                     !.owed = IF b.kind = "copy" /\ ~b.held THEN @ ELSE @ - 1]
  IN IF m.todo = 0 THEN blitter_maybe_done_early(m) ELSE m
DmaCycle ==
  LET b == [blt EXCEPT !.finald = finald_now] IN
  /\ exact /\ dmacon /\ (b.main \/ b.finald # 0)
  /\ \/ b.finald = 1 /\ blt' = FinalD(b)
     \/ b.finald # 1 /\ b.main /\ blt' = MakeWord(b)
     \/ b.finald # 1 /\ ~b.main /\ blt' = b
  /\ UNCHANGED <<prefs, dmacon>>

\* blitter_force_finish, for a saved state or a CPU that has to give way (blitnasty), with the DMA
\* on for as long as it takes.
blitter_force_finish ==
  /\ blt.main \/ blt.finald # 0
  /\ blt' = blitter_done([blt EXCEPT !.main = FALSE, !.todo = 0,
                                     !.owed = IF blt.main /\ blt.finald # 0 THEN @ ELSE 0])
  /\ UNCHANGED <<prefs, dmacon>>

custom_reset ==
  /\ dmacon' = FALSE
  /\ blt' = [blt EXCEPT !.main = FALSE, !.finald = 0, !.pending = FALSE, !.interrupt = TRUE,
                        !.event = FALSE, !.bltwait = FALSE, !.wake = FALSE,
                        !.owed = 0, !.told = 0, !.clean = FALSE]
  /\ UNCHANGED prefs

-----------------------------------------------------------------------------
\* The Copper comes to a WAIT that also waits for the blitter.
CopperWait ==
  ~blt.bltwait /\ blit_busy /\ blt' = [blt EXCEPT !.bltwait = TRUE] /\ UNCHANGED <<prefs, dmacon>>
blitter_done_notify_wakeup ==
  blt.wake /\ blt' = [blt EXCEPT !.bltwait = FALSE, !.wake = FALSE] /\ UNCHANGED <<prefs, dmacon>>
\* A new frame, or a write to COPJMP, starts its list again.
COPJMP == blt.bltwait /\ blt' = [blt EXCEPT !.bltwait = FALSE] /\ UNCHANGED <<prefs, dmacon>>

BlitterNext ==
  \/ BLTSIZE \/ BLTREG \/ DMACON \/ Event \/ blitter_slowdown \/ BusyCycle \/ DmaCycle
  \/ blitter_force_finish \/ custom_reset \/ CopperWait \/ blitter_done_notify_wakeup \/ COPJMP

\* Events come when they are due, and some cycles of each line are free of other DMA.
BlitterFairness ==
  WF_blitter_vars(Event) /\ WF_blitter_vars(DmaCycle) /\ WF_blitter_vars(blitter_done_notify_wakeup)
BlitterSpec == BlitterInit /\ [][BlitterNext]_blitter_vars /\ BlitterFairness

-----------------------------------------------------------------------------
State ==
  [main : BOOLEAN, pending : BOOLEAN, finald : 0..3, interrupt : BOOLEAN, event : BOOLEAN,
   slowdown : {-1, 0, 1}, kind : Kinds, todo : 0..Words, held : BOOLEAN, bltwait : BOOLEAN,
   wake : BOOLEAN, owed : 0..Words, told : 0..2, clean : BOOLEAN]
BlitterTypeOK ==
  /\ prefs \in [mode : {"event", "immediate", "exact"}, aga : BOOLEAN, fast : BOOLEAN]
  /\ dmacon \in BOOLEAN
  /\ blt \in State

\* A program that finds the blitter idle after it wrote BLTSIZE, with the DMA given, finds the
\* blit's results: all of them, or all but the final D, which the chip itself lets run late; and
\* nothing is left in the event table that would carry the blit out a second time.
\* (custom.cpp, blit_busy; blitter.cpp, blitter_maybe_done_early and blitter_done)
IdleMeansDone ==
  BlitterTypeOK /\ (blt.clean /\ ~blit_busy /\ ~blt.pending =>
    /\ blt.owed = 0 \/ (blt.finald # 0 /\ blt.owed = 1)
    /\ ~blt.event)

\* A blit ends with one interrupt: not a second one with the final D, none before its results are
\* there but for the final D of a CPU that is not fast, and none left out.
\* (blitter.cpp, blitter_interrupt)
OneInterrupt ==
  blt.clean =>
    /\ blt.told <= 1
    /\ blt.told = 1 => blt.owed = 0 \/ (blt.finald # 0 /\ blt.owed = 1 /\ ~prefs.fast)
    /\ ~blt.main /\ ~blt.pending /\ blt.finald = 0 => blt.told = 1

\* A Copper that waits for the blitter goes on when the blit is done, whatever the CPU writes in
\* between, unless the DMA is taken away, the blit was started over another one, or it is a line
\* of a wrong width that waited for its DMA.  (custom.cpp, blitter_done_notify)
CopperGoesOn ==
  blt.bltwait ~> \/ ~blt.bltwait \/ ~dmacon \/ ~blt.clean \/ (blt.kind = "odd" /\ ~exact)
=============================================================================
