------------------------- MODULE CustomChips_proofs -------------------------
(***************************************************************************)
(* Two of the custom chips' parts, each for itself.  The blitter, for      *)
(* blits of any length in its three ways of working: when a blit's results *)
(* are there and who is told of them.  And the way from INTREQ to the CPU, *)
(* for any lines with any levels, masks and number of delayed calls of     *)
(* doint, in all four configurations.                                      *)
(***************************************************************************)
EXTENDS Blitter, Interrupts, TLAPS

-----------------------------------------------------------------------------
(* The blitter.                                                            *)

\* What a blitter that goes on word by word owes: a word for each that is still to be made and
\* the one that is held, and the interrupt until it has told of the end.
ExactSound(b) ==
  /\ ~b.pending /\ ~b.event
  /\ b.main => b.todo > 0 /\ b.owed = b.todo + (IF b.held THEN 1 ELSE 0) /\ (b.held => b.kind = "copy")
  /\ b.clean =>
       /\ b.main => b.finald = 0 /\ ~b.interrupt /\ b.told = 0
       /\ b.finald # 0 => ~b.main /\ b.owed = 1 /\ (b.interrupt <=> ~prefs.fast)
                          /\ b.told = (IF b.interrupt THEN 1 ELSE 0)
       /\ ~b.main /\ b.finald = 0 => b.owed = 0 /\ b.told = 1 /\ b.interrupt

\* What one that works at an event owes: everything while it runs or waits for its DMA, nothing
\* when it does neither.
Due(b, dma) ==
  /\ b.pending => ~dma /\ ~b.main
  /\ b.main \/ b.pending => ~b.interrupt /\ b.told = 0 /\ (b.kind = "odd" => b.owed = 0)
Over(b) == b.owed = 0 /\ b.told = 1 /\ b.interrupt /\ ~b.event
EventSound(b, dma) ==
  /\ b.finald = 0 /\ (immediate_blits => ~b.main /\ ~b.event)
  /\ b.clean => Due(b, dma) /\ (~b.main /\ ~b.pending => Over(b))

\* A blit that waits for its DMA has told once at most, and can be told of once more.
Counted(b) ==
  /\ b \in State
  /\ ~b.interrupt => b.told <= 1
  /\ b.pending => b.told <= 1 /\ (~b.interrupt => b.told = 0)

Sound(b, dma) == Counted(b) /\ (exact => ExactSound(b)) /\ (~exact => EventSound(b, dma))
Prefs == prefs \in [mode : {"event", "immediate", "exact"}, aga : BOOLEAN, fast : BOOLEAN]
BlitInv == Prefs /\ dmacon \in BOOLEAN /\ Sound(blt, dmacon)

LEMMA Same ==
  ASSUME prefs' = prefs, Prefs, dmacon' \in BOOLEAN, Sound(blt', dmacon') PROVE BlitInv'
  BY DEF BlitInv, Sound, Prefs, Counted, ExactSound, EventSound, Due, Over, State, exact, immediate_blits

LEMMA Sizes ==
  /\ Words \in Nat /\ Words > 0 /\ Words \in 0..Words /\ 0 \in 0..Words /\ 0 \in 0..3 /\ 3 \in 0..3
  /\ 0 \in 0..2 /\ 1 \in 0..2 /\ 0 \in {-1, 0, 1} /\ 1 \in {-1, 0, 1} /\ -1 \in {-1, 0, 1}
  /\ TRUE \in BOOLEAN /\ FALSE \in BOOLEAN /\ "test" \in Kinds
  BY BlitterAssumption DEF BlitterAssumption, Kinds

\* A field may take any value of its type.
LEMMA Setting ==
  ASSUME NEW b \in State
  PROVE  /\ \A m \in BOOLEAN : [b EXCEPT !.main = m] \in State
         /\ \A m \in BOOLEAN : [b EXCEPT !.pending = m] \in State
         /\ \A m \in BOOLEAN : [b EXCEPT !.interrupt = m] \in State
         /\ \A m \in BOOLEAN : [b EXCEPT !.event = m] \in State
         /\ \A m \in BOOLEAN : [b EXCEPT !.held = m] \in State
         /\ \A m \in BOOLEAN : [b EXCEPT !.bltwait = m] \in State
         /\ \A m \in BOOLEAN : [b EXCEPT !.wake = m] \in State
         /\ \A m \in BOOLEAN : [b EXCEPT !.clean = m] \in State
         /\ \A m \in 0..3 : [b EXCEPT !.finald = m] \in State
         /\ \A m \in {-1, 0, 1} : [b EXCEPT !.slowdown = m] \in State
         /\ \A m \in Kinds : [b EXCEPT !.kind = m] \in State
         /\ \A m \in 0..Words : [b EXCEPT !.todo = m] \in State
         /\ \A m \in 0..Words : [b EXCEPT !.owed = m] \in State
         /\ \A m \in 0..2 : [b EXCEPT !.told = m] \in State
  BY SMT DEF State

LEMMA Fields ==
  ASSUME NEW b \in State
  PROVE  /\ b.main \in BOOLEAN /\ b.pending \in BOOLEAN /\ b.interrupt \in BOOLEAN
         /\ b.event \in BOOLEAN /\ b.held \in BOOLEAN /\ b.bltwait \in BOOLEAN
         /\ b.wake \in BOOLEAN /\ b.clean \in BOOLEAN
         /\ b.finald \in 0..3 /\ b.slowdown \in {-1, 0, 1} /\ b.kind \in Kinds
         /\ b.todo \in 0..Words /\ b.owed \in 0..Words /\ b.told \in 0..2
  BY DEF State

\* The interrupt, told of at most once for each start.
LEMMA InterruptIs ==
  ASSUME NEW b \in State, NEW d \in BOOLEAN, ~b.interrupt => b.told <= 1
  PROVE  LET c == blitter_interrupt(b, d)
             silent == b.interrupt \/ (~d /\ (~exact \/ prefs.fast))
         IN /\ c \in State /\ ~c.main /\ c.pending = b.pending /\ c.event = b.event
            /\ c.finald = b.finald /\ c.held = b.held /\ c.kind = b.kind /\ c.todo = b.todo
            /\ c.owed = b.owed /\ c.clean = b.clean /\ c.slowdown = b.slowdown
            /\ silent => c.interrupt = b.interrupt /\ c.told = b.told
            /\ ~silent => c.interrupt /\ c.told = b.told + 1
  <1> DEFINE c == blitter_interrupt(b, d)
             silent == b.interrupt \/ (~d /\ (~exact \/ prefs.fast))
  <1>1. CASE silent
    <2>1. c = [b EXCEPT !.main = FALSE]
      BY <1>1 DEF blitter_interrupt
    <2>2. c \in State
      BY <2>1, Setting
    <2> QED
      BY <1>1, <2>1, <2>2 DEF State
  <1>2. CASE ~silent
    <2> DEFINE w == b.wake \/ b.bltwait
               n == b.told + 1
    <2>1. w \in BOOLEAN /\ n \in 0..2 /\ TRUE \in BOOLEAN /\ FALSE \in BOOLEAN
      BY <1>2, Fields
    <2>2. c = [b EXCEPT !.main = FALSE, !.interrupt = TRUE, !.told = n, !.wake = w]
      BY <1>2 DEF blitter_interrupt, blitter_done_notify, State
    <2>3. c \in State
      <3> HIDE DEF w, n, c
      <3> QED
        BY <2>1, <2>2, Setting
    <2> QED
      BY <1>2, <2>2, <2>3 DEF State
  <1> QED
    BY <1>1, <1>2

LEMMA DoneIs ==
  ASSUME NEW b \in State, ~b.interrupt => b.told <= 1
  PROVE  LET c == blitter_done(b)
         IN /\ c \in State /\ ~c.main /\ ~c.held /\ ~c.event /\ c.finald = 0 /\ c.interrupt
            /\ c.pending = b.pending /\ c.kind = b.kind /\ c.todo = b.todo /\ c.owed = b.owed
            /\ c.clean = b.clean
            /\ c.told = IF b.interrupt THEN b.told ELSE b.told + 1
  <1> DEFINE a == [b EXCEPT !.held = FALSE, !.finald = 0]
             i == blitter_interrupt(a, TRUE)
             n == IF b.interrupt THEN blitter_done_notify(i) ELSE i
  <1>1. /\ a \in State /\ ~a.held /\ a.finald = 0 /\ a.interrupt = b.interrupt /\ a.told = b.told
        /\ a.pending = b.pending /\ a.kind = b.kind /\ a.todo = b.todo /\ a.owed = b.owed
        /\ a.clean = b.clean
    <2>1. a \in State
      BY Setting, Sizes
    <2> QED
      BY <2>1 DEF State
  <1> HIDE DEF a
  <1>2. /\ i \in State /\ ~i.main /\ ~i.held /\ i.finald = 0 /\ i.interrupt
        /\ i.pending = b.pending /\ i.kind = b.kind /\ i.todo = b.todo /\ i.owed = b.owed
        /\ i.clean = b.clean /\ i.told = IF b.interrupt THEN b.told ELSE b.told + 1
    <2>1. ~a.interrupt => a.told <= 1
      BY <1>1
    <2>2. /\ i \in State /\ ~i.main /\ i.pending = a.pending /\ i.finald = a.finald /\ i.held = a.held
          /\ i.kind = a.kind /\ i.todo = a.todo /\ i.owed = a.owed /\ i.clean = a.clean
          /\ a.interrupt => i.interrupt = a.interrupt /\ i.told = a.told
          /\ ~a.interrupt => i.interrupt /\ i.told = a.told + 1
      BY <1>1, <2>1, InterruptIs, Zenon
    <2> HIDE DEF i
    <2> QED
      BY <1>1, <2>2
  <1> HIDE DEF i
  <1>3. /\ n \in State /\ ~n.main /\ ~n.held /\ n.finald = 0 /\ n.interrupt
        /\ n.pending = b.pending /\ n.kind = b.kind /\ n.todo = b.todo /\ n.owed = b.owed
        /\ n.clean = b.clean /\ n.told = IF b.interrupt THEN b.told ELSE b.told + 1
    <2>1. CASE ~b.interrupt
      BY <1>2, <2>1
    <2>2. CASE b.interrupt
      <3> DEFINE w == i.wake \/ i.bltwait
      <3>1. n = [i EXCEPT !.wake = w] /\ w \in BOOLEAN
        BY <1>2, <2>2, Fields DEF blitter_done_notify
      <3>2. n \in State
        <4> HIDE DEF w, n
        <4> QED
          BY <1>2, <3>1, Setting
      <3> QED
        BY <1>2, <3>1, <3>2, <2>2 DEF State
    <2> QED
      BY <2>1, <2>2
  <1>4. blitter_done(b) = [n EXCEPT !.event = FALSE]
    BY DEF blitter_done, n, i, a
  <1> HIDE DEF n
  <1>5. blitter_done(b) \in State
    BY <1>3, <1>4, Setting, Sizes
  <1> QED
    BY <1>3, <1>4, <1>5 DEF State

\* The work is done when it is found due: the DMA is on and no cycles were taken from it.
LEMMA DoitIs ==
  ASSUME NEW b \in State, ~b.interrupt => b.told <= 1
  PROVE  LET c == blitter_doit(b)
         IN /\ c \in State /\ ~c.main /\ ~c.event /\ c.finald = 0 /\ c.interrupt
            /\ c.pending = b.pending /\ c.kind = b.kind /\ c.clean = b.clean
            /\ c.owed = (IF b.kind = "odd" THEN b.owed ELSE 0)
            /\ c.told = IF b.interrupt THEN b.told ELSE b.told + 1
  <1> DEFINE a == IF b.kind = "odd" THEN b ELSE actually_do_blit(b)
  <1>1. /\ a \in State /\ a.interrupt = b.interrupt /\ a.told = b.told /\ a.pending = b.pending
        /\ a.kind = b.kind /\ a.clean = b.clean /\ a.owed = (IF b.kind = "odd" THEN b.owed ELSE 0)
    <2>1. CASE b.kind = "odd"
      BY <2>1
    <2>2. CASE b.kind # "odd"
      <3>1. a = [b EXCEPT !.main = FALSE, !.owed = 0]
        BY <2>2 DEF actually_do_blit
      <3>2. FALSE \in BOOLEAN /\ 0 \in 0..Words
        BY Sizes
      <3>3. a \in State
        <4> HIDE DEF a
        <4> QED
          BY <3>1, <3>2, Setting
      <3> QED
        BY <2>2, <3>1, <3>3 DEF State
    <2> QED
      BY <2>1, <2>2
  <1>2. blitter_doit(b) = blitter_done(a)
    BY DEF blitter_doit
  <1> HIDE DEF a
  <1> QED
    BY <1>1, <1>2, DoneIs

\* What a blit that is under way is when it may be carried out.
LEMMA HandlerKeeps ==
  ASSUME NEW b, Counted(b), ~exact, ~immediate_blits, b.finald = 0, dmacon \in BOOLEAN,
         b.clean => Due(b, dmacon) /\ (b.main \/ b.pending)
  PROVE  Sound(blitter_handler(b), dmacon)
  <1> DEFINE c == blitter_handler(b)
  <1>1. b \in State
    BY DEF Counted
  <1>2. CASE ~dmacon
    <2>1. c = [b EXCEPT !.event = TRUE]
      BY <1>2 DEF blitter_handler
    <2>2. c \in State
      BY <1>1, <2>1, Setting, Sizes
    <2>3. /\ c.main = b.main /\ c.pending = b.pending /\ c.interrupt = b.interrupt /\ c.told = b.told
          /\ c.kind = b.kind /\ c.owed = b.owed /\ c.clean = b.clean /\ c.finald = b.finald
      BY <1>1, <2>1 DEF State
    <2> QED
      BY <2>2, <2>3 DEF Sound, Counted, EventSound, Due
  <1>3. CASE dmacon /\ b.slowdown > 0
    <2>1. c = [b EXCEPT !.event = TRUE, !.slowdown = -1]
      BY <1>3 DEF blitter_handler
    <2>2. c \in State
      <3> DEFINE l == -1
      <3>1. TRUE \in BOOLEAN /\ l \in {-1, 0, 1} /\ c = [b EXCEPT !.event = TRUE, !.slowdown = l]
        BY <2>1
      <3> HIDE DEF l, c
      <3> QED
        BY <1>1, <3>1, Setting
    <2>3. /\ c.main = b.main /\ c.pending = b.pending /\ c.interrupt = b.interrupt /\ c.told = b.told
          /\ c.kind = b.kind /\ c.owed = b.owed /\ c.clean = b.clean /\ c.finald = b.finald
      BY <1>1, <2>1 DEF State
    <2> QED
      BY <2>2, <2>3 DEF Sound, Counted, EventSound, Due
  <1>4. CASE dmacon /\ ~(b.slowdown > 0)
    <2>1. c = blitter_doit(b)
      BY <1>4 DEF blitter_handler
    <2>2. ~b.interrupt => b.told <= 1
      BY DEF Counted
    <2>3. /\ c \in State /\ ~c.main /\ ~c.event /\ c.finald = 0 /\ c.interrupt
          /\ c.pending = b.pending /\ c.kind = b.kind /\ c.clean = b.clean
          /\ c.owed = (IF b.kind = "odd" THEN b.owed ELSE 0)
          /\ c.told = IF b.interrupt THEN b.told ELSE b.told + 1
      BY <1>1, <2>1, <2>2, DoitIs
    <2> HIDE DEF c
    <2>4. Counted(c)
      BY <1>1, <2>3, Fields DEF Counted
    <2>5. b.clean => ~b.pending /\ b.main /\ ~b.interrupt /\ b.told = 0 /\ (b.kind = "odd" => b.owed = 0)
      BY <1>4 DEF Due
    <2>6. c.clean => Due(c, dmacon) /\ Over(c)
      BY <2>3, <2>5 DEF Due, Over
    <2>7. EventSound(c, dmacon)
      BY <2>3, <2>6 DEF EventSound
    <2> QED
      BY <2>4, <2>7 DEF Sound, c
  <1> QED
    BY <1>2, <1>3, <1>4

LEMMA MaybeKeeps ==
  ASSUME NEW b, Sound(b, dmacon), dmacon \in BOOLEAN, NEW early
  PROVE  Sound(maybe_blit(b, early), dmacon)
  <1>1. CASE ~b.main \/ exact \/ early
    BY <1>1 DEF maybe_blit
  <1>2. CASE ~(~b.main \/ exact \/ early)
    <2>1. /\ Counted(b) /\ ~exact /\ ~immediate_blits /\ b.finald = 0
          /\ b.clean => Due(b, dmacon) /\ (b.main \/ b.pending)
      BY <1>2 DEF Sound, EventSound
    <2>2. maybe_blit(b, early) = blitter_handler(b)
      BY <1>2 DEF maybe_blit
    <2> QED
      BY <2>1, <2>2, HandlerKeeps
  <1> QED
    BY <1>1, <1>2

LEMMA StartKeeps ==
  ASSUME NEW b, Sound(b, dmacon), NEW kind \in Kinds, dmacon \in BOOLEAN
  PROVE  Sound(do_blitter(b, kind), dmacon)
  <1> DEFINE owes == IF kind = "odd" /\ ~exact THEN 0 ELSE Words
             s == [blitter_start_init(b) EXCEPT
                     !.kind = kind, !.todo = Words, !.slowdown = 0,
                     !.pending = ~dmacon, !.main = b.main \/ dmacon,
                     !.owed = owes, !.told = 0, !.clean = ~b.main /\ b.finald = 0]
             c == do_blitter(b, kind)
  <1>1. b \in State
    BY DEF Sound, Counted
  <1>2. /\ s \in State /\ ~s.held /\ ~s.interrupt /\ s.kind = kind /\ s.todo = Words
        /\ (s.pending <=> ~dmacon) /\ (s.main <=> b.main \/ dmacon) /\ s.owed = owes /\ s.told = 0
        /\ (s.clean <=> ~b.main /\ b.finald = 0) /\ s.finald = b.finald /\ s.event = b.event
    <2> DEFINE p == ~dmacon
               m == b.main \/ dmacon
               l == ~b.main /\ b.finald = 0
               i == blitter_start_init(b)
    <2>1. i \in State /\ ~i.held /\ ~i.interrupt /\ i.finald = b.finald /\ i.event = b.event
      <3>1. i = [b EXCEPT !.held = FALSE, !.interrupt = FALSE]
        BY DEF blitter_start_init
      <3>2. i \in State
        BY <1>1, <3>1, Setting, Sizes
      <3> QED
        BY <1>1, <3>1, <3>2 DEF State
    <2>2. p \in BOOLEAN /\ m \in BOOLEAN /\ l \in BOOLEAN /\ owes \in 0..Words
      BY <1>1, Fields, Sizes
    <2>3. s = [i EXCEPT !.kind = kind, !.todo = Words, !.slowdown = 0, !.pending = p, !.main = m,
                        !.owed = owes, !.told = 0, !.clean = l]
      OBVIOUS
    <2>4. s \in State
      <3> HIDE DEF s, p, m, l, i, owes
      <3> QED
        BY <2>1, <2>2, <2>3, Setting, Sizes
    <2>5. /\ ~s.held /\ ~s.interrupt /\ s.finald = b.finald /\ s.event = b.event
          /\ s.kind = kind /\ s.todo = Words /\ s.owed = owes /\ s.told = 0
          /\ s.pending = p /\ s.main = m /\ s.clean = l
      <3> HIDE DEF i, p, m, l, owes
      <3> QED
        BY <2>1, <2>2, <2>3 DEF State
    <2> QED
      BY <2>4, <2>5
  <1>3. c = CASE exact -> [s EXCEPT !.pending = FALSE, !.main = TRUE]
              [] ~exact /\ dmacon /\ (kind = "odd" \/ immediate_blits) -> blitter_doit(s)
              [] ~exact /\ ~dmacon /\ (kind = "odd" \/ immediate_blits) -> s
              [] OTHER -> [s EXCEPT !.event = TRUE]
    BY DEF do_blitter
  <1> HIDE DEF c
  <1>4. CASE exact
    <2>1. c = [s EXCEPT !.pending = FALSE, !.main = TRUE]
      BY <1>3, <1>4
    <2>2. owes = Words /\ ~b.event
      BY <1>4 DEF Sound, ExactSound
    <2> HIDE DEF s, owes
    <2>3. c \in State
      BY <1>2, <2>1, Setting, Sizes
    <2>4. /\ ~c.pending /\ c.main /\ ~c.event /\ ~c.held /\ ~c.interrupt /\ c.todo = Words
          /\ c.owed = Words /\ c.told = 0 /\ c.clean = s.clean /\ c.finald = b.finald
      BY <1>2, <2>1, <2>2, <2>3 DEF State
    <2>5. c.clean => c.finald = 0
      BY <1>2, <2>4
    <2>6. Counted(c)
      BY <2>3, <2>4 DEF Counted
    <2>7. ExactSound(c)
      BY <2>4, <2>5, Sizes DEF ExactSound
    <2> QED
      BY <1>4, <2>6, <2>7 DEF Sound, c
  <1>5. CASE ~exact /\ dmacon /\ (kind = "odd" \/ immediate_blits)
    <2>1. c = blitter_doit(s)
      BY <1>3, <1>5
    <2>2. kind = "odd" => owes = 0
      BY <1>5
    <2> HIDE DEF s, owes
    <2>3. /\ c \in State /\ ~c.main /\ ~c.event /\ c.finald = 0 /\ c.interrupt
          /\ c.pending = s.pending /\ c.owed = (IF s.kind = "odd" THEN s.owed ELSE 0)
          /\ c.told = s.told + 1
      BY <1>2, <2>1, DoitIs
    <2>4. ~c.pending /\ c.owed = 0 /\ c.told = 1
      BY <1>2, <1>5, <2>2, <2>3
    <2>5. Counted(c)
      BY <2>3, <2>4 DEF Counted
    <2>6. EventSound(c, dmacon)
      BY <2>3, <2>4 DEF EventSound, Due, Over
    <2> QED
      BY <1>5, <2>5, <2>6 DEF Sound, c
  <1>6. CASE ~exact /\ ~dmacon /\ (kind = "odd" \/ immediate_blits)
    <2>1. c = s
      BY <1>3, <1>6
    <2>2. (kind = "odd" => owes = 0) /\ b.finald = 0 /\ (immediate_blits => ~b.main /\ ~b.event)
      BY <1>6 DEF Sound, EventSound
    <2> HIDE DEF s, owes
    <2>3. Counted(c)
      BY <1>2, <2>1 DEF Counted
    <2>4. s.clean => Due(s, dmacon) /\ s.pending
      BY <1>2, <1>6, <2>2 DEF Due
    <2>5. EventSound(c, dmacon)
      BY <1>2, <1>6, <2>1, <2>2, <2>4 DEF EventSound
    <2> QED
      BY <1>6, <2>3, <2>5 DEF Sound, c
  <1>7. CASE ~exact /\ kind # "odd" /\ ~immediate_blits
    <2>1. c = [s EXCEPT !.event = TRUE]
      BY <1>3, <1>7
    <2>2. b.finald = 0
      BY <1>7 DEF Sound, EventSound
    <2> HIDE DEF s, owes
    <2>3. c \in State
      BY <1>2, <2>1, Setting, Sizes
    <2>4. /\ c.main = s.main /\ c.pending = s.pending /\ ~c.interrupt /\ c.told = 0 /\ c.kind = kind
          /\ c.clean = s.clean /\ c.finald = 0
      BY <1>2, <2>1, <2>2, <2>3 DEF State
    <2>5. c.clean => ~b.main
      BY <1>2, <2>4
    <2>6. Counted(c)
      BY <2>3, <2>4 DEF Counted
    <2>7. c.clean => Due(c, dmacon) /\ (c.main \/ c.pending)
      BY <1>2, <1>7, <2>4, <2>5 DEF Due
    <2>8. EventSound(c, dmacon)
      BY <1>7, <2>4, <2>7 DEF EventSound
    <2> QED
      BY <1>7, <2>6, <2>8 DEF Sound, c
  <1> QED
    BY <1>4, <1>5, <1>6, <1>7

LEMMA CheckStartKeeps ==
  ASSUME NEW b, Sound(b, dmacon)
  PROVE  Sound(blitter_check_start(b), TRUE)
  <1> DEFINE i == [b EXCEPT !.pending = FALSE, !.main = TRUE]
             s == blitter_start_init(i)
             c == blitter_check_start(b)
  <1>1. b \in State
    BY DEF Sound, Counted
  <1>2. CASE ~b.pending \/ b.main
    <2>1. c = b
      BY <1>2 DEF blitter_check_start
    <2>2. b.clean /\ ~exact => ~b.pending
      BY <1>2 DEF Sound, EventSound, Due
    <2>3. EventSound(b, dmacon) /\ ~exact => EventSound(b, TRUE)
      BY <2>2 DEF EventSound, Due
    <2> QED
      BY <2>1, <2>3 DEF Sound
  <1>3. CASE b.pending /\ ~b.main
    <2>1. ~exact
      BY <1>3 DEF Sound, ExactSound
    <2>2. /\ s \in State /\ s.main /\ ~s.pending /\ ~s.interrupt /\ s.told = b.told /\ s.kind = b.kind
          /\ s.owed = b.owed /\ s.clean = b.clean /\ s.finald = b.finald
      <3>1. i \in State
        BY <1>1, Setting, Sizes
      <3>2. s \in State
        BY <3>1, Setting, Sizes DEF blitter_start_init
      <3> QED
        BY <1>1, <3>1, <3>2 DEF blitter_start_init, State
    <2>3. /\ b.told <= 1 /\ b.finald = 0
          /\ b.clean => b.told = 0 /\ (b.kind = "odd" => b.owed = 0)
      BY <1>3, <2>1 DEF Sound, Counted, EventSound, Due
    <2>4. CASE immediate_blits
      <3>1. c = blitter_doit(s)
        BY <1>3, <2>4 DEF blitter_check_start
      <3> HIDE DEF s, c
      <3>2. /\ c \in State /\ ~c.main /\ ~c.event /\ c.finald = 0 /\ c.interrupt /\ c.clean = s.clean
            /\ c.pending = s.pending /\ c.owed = (IF s.kind = "odd" THEN s.owed ELSE 0)
            /\ c.told = s.told + 1
        BY <2>2, <2>3, <3>1, DoitIs
      <3>3. c.clean => c.told = 1 /\ c.owed = 0
        BY <2>2, <2>3, <3>2
      <3>4. Counted(c)
        BY <2>2, <2>3, <3>2 DEF Counted
      <3>5. EventSound(c, TRUE)
        BY <2>2, <3>2, <3>3 DEF EventSound, Due, Over
      <3> QED
        BY <2>1, <3>4, <3>5 DEF Sound, c
    <2>5. CASE ~immediate_blits
      <3>1. c = s
        BY <1>3, <2>5 DEF blitter_check_start
      <3> HIDE DEF s, c
      <3>2. Counted(c)
        BY <2>2, <2>3, <3>1 DEF Counted
      <3>3. s.clean => Due(s, TRUE)
        BY <2>2, <2>3 DEF Due
      <3>4. EventSound(c, TRUE)
        BY <2>2, <2>3, <2>5, <3>1, <3>3 DEF EventSound
      <3> QED
        BY <2>1, <3>2, <3>4 DEF Sound, c
    <2> QED
      BY <2>4, <2>5
  <1> QED
    BY <1>2, <1>3

\* Whoever sets only the Copper's fields or slowdown leaves the rest sound.
LEMMA Aside ==
  ASSUME NEW b, NEW c \in State, Sound(b, dmacon),
         c.main = b.main, c.pending = b.pending, c.event = b.event, c.finald = b.finald,
         c.interrupt = b.interrupt, c.told = b.told, c.kind = b.kind, c.todo = b.todo,
         c.held = b.held, c.owed = b.owed, c.clean = b.clean
  PROVE  Sound(c, dmacon)
  <1>1. Counted(c)
    BY DEF Sound, Counted
  <1>2. exact => ExactSound(c)
    BY DEF Sound, ExactSound
  <1>3. ~exact => EventSound(c, dmacon)
    BY DEF Sound, EventSound, Due, Over
  <1> QED
    BY <1>1, <1>2, <1>3 DEF Sound

LEMMA EventKeeps ==
  ASSUME BlitInv, Event PROVE Sound(blt', dmacon)
  <1> DEFINE b == [blt EXCEPT !.event = FALSE]
  <1>1. Sound(blt, dmacon) /\ blt \in State /\ blt.event /\ dmacon \in BOOLEAN
    BY DEF BlitInv, Event, Sound, Counted
  <1>2. ~exact /\ ~immediate_blits
    BY <1>1 DEF Sound, ExactSound, EventSound
  <1>3. b \in State
    BY <1>1, Setting, Sizes
  <1>4. /\ b.main = blt.main /\ b.pending = blt.pending /\ b.finald = blt.finald
        /\ b.interrupt = blt.interrupt /\ b.told = blt.told /\ b.kind = blt.kind
        /\ b.owed = blt.owed /\ b.clean = blt.clean
    BY <1>1 DEF State
  <1>5. blt' = blitter_handler(b)
    BY DEF Event
  <1> HIDE DEF b
  <1>6. Counted(b) /\ b.finald = 0
    BY <1>1, <1>2, <1>3, <1>4 DEF Sound, Counted, EventSound
  <1>7. b.clean => Due(b, dmacon) /\ (b.main \/ b.pending)
    BY <1>1, <1>2, <1>4 DEF Sound, EventSound, Due, Over
  <1>8. Sound(blitter_handler(b), dmacon)
    BY <1>1, <1>2, <1>6, <1>7, HandlerKeeps
  <1> QED
    BY <1>5, <1>8

\* The end of a blit that works by cycles.
LEMMA ExactDone ==
  ASSUME NEW b \in State, exact, ~b.interrupt => b.told <= 1, ~b.pending,
         b.clean => b.owed = 0 /\ b.told = (IF b.interrupt THEN 1 ELSE 0)
  PROVE  Sound(blitter_done(b), dmacon)
  <1> DEFINE c == blitter_done(b)
  <1>1. /\ c \in State /\ ~c.main /\ ~c.held /\ ~c.event /\ c.finald = 0 /\ c.interrupt
        /\ c.pending = b.pending /\ c.kind = b.kind /\ c.todo = b.todo /\ c.owed = b.owed
        /\ c.clean = b.clean
        /\ c.told = IF b.interrupt THEN b.told ELSE b.told + 1
    BY DoneIs
  <1> HIDE DEF c
  <1>2. Counted(c)
    BY <1>1 DEF Counted
  <1>3. ExactSound(c)
    BY <1>1 DEF ExactSound
  <1> QED
    BY <1>2, <1>3 DEF Sound, c

\* A cycle brings the final D nearer.
LEMMA WaitKeeps ==
  ASSUME BlitInv, exact
  PROVE  LET b == [blt EXCEPT !.finald = finald_now] IN Sound(b, dmacon) /\ ExactSound(b)
  <1> DEFINE f == finald_now
             b == [blt EXCEPT !.finald = f]
  <1>1. Sound(blt, dmacon) /\ blt \in State /\ ExactSound(blt)
    BY DEF BlitInv, Sound, Counted
  <1>2. f \in 0..3 /\ (f = 0 <=> blt.finald = 0)
    BY <1>1, Fields DEF finald_now
  <1> HIDE DEF f
  <1>3. b \in State
    BY <1>1, <1>2, Setting
  <1>4. /\ b.main = blt.main /\ b.pending = blt.pending /\ b.event = blt.event /\ b.finald = f
        /\ b.interrupt = blt.interrupt /\ b.told = blt.told /\ b.kind = blt.kind
        /\ b.todo = blt.todo /\ b.held = blt.held /\ b.owed = blt.owed /\ b.clean = blt.clean
    BY <1>1 DEF State
  <1> HIDE DEF b
  <1>5. Counted(b)
    BY <1>1, <1>3, <1>4 DEF Sound, Counted
  <1>6. ExactSound(b)
    BY <1>1, <1>2, <1>4 DEF ExactSound
  <1> QED
    BY <1>5, <1>6 DEF Sound, b, f

LEMMA FinalKeeps ==
  ASSUME NEW b, Sound(b, dmacon), exact, b.finald = 1 PROVE Sound(FinalD(b), dmacon)
  <1> DEFINE o == IF b.clean THEN 0 ELSE b.owed
             a == [b EXCEPT !.owed = o]
  <1>1. b \in State /\ Counted(b) /\ ExactSound(b)
    BY DEF Sound, Counted
  <1>2. o \in 0..Words
    BY <1>1, Fields, Sizes
  <1>3. (b.clean => o = 0) /\ FinalD(b) = blitter_done(a)
    BY DEF FinalD
  <1> HIDE DEF o
  <1>4. a \in State
    BY <1>1, <1>2, Setting
  <1>5. /\ a.pending = b.pending /\ a.interrupt = b.interrupt /\ a.told = b.told /\ a.owed = o
        /\ a.clean = b.clean
    BY <1>1, <1>4 DEF State
  <1> HIDE DEF a
  <1>6. /\ ~a.interrupt => a.told <= 1
        /\ ~a.pending
        /\ a.clean => a.owed = 0 /\ a.told = (IF a.interrupt THEN 1 ELSE 0)
    BY <1>1, <1>3, <1>5 DEF Counted, ExactSound
  <1>7. Sound(blitter_done(a), dmacon)
    BY <1>4, <1>6, ExactDone
  <1> QED
    BY <1>3, <1>7

LEMMA WordKeeps ==
  ASSUME NEW b, Sound(b, dmacon), exact, b.main, Prefs PROVE Sound(MakeWord(b), dmacon)
  <1> DEFINE t == b.todo - 1
             h == b.kind = "copy"
             o == IF h /\ ~b.held THEN b.owed ELSE b.owed - 1
             m == [b EXCEPT !.todo = t, !.held = h, !.owed = o]
  <1>1. b \in State /\ Counted(b) /\ ExactSound(b)
    BY DEF Sound, Counted
  <1>2. /\ b.todo \in 0..Words /\ b.owed \in 0..Words /\ b.todo > 0 /\ ~b.pending /\ ~b.event
        /\ b.owed = b.todo + (IF b.held THEN 1 ELSE 0) /\ (b.held => h)
        /\ b.clean => b.finald = 0 /\ ~b.interrupt /\ b.told = 0
    BY <1>1, Fields DEF ExactSound
  <1>3. t \in 0..Words /\ h \in BOOLEAN /\ o \in 0..Words /\ o = t + (IF h THEN 1 ELSE 0)
    BY <1>2, Sizes
  <1>4. MakeWord(b) = IF m.todo = 0 THEN blitter_maybe_done_early(m) ELSE m
    BY DEF MakeWord
  <1>5. m \in State
    <2> HIDE DEF t, h, o
    <2> QED
      BY <1>1, <1>3, Setting
  <1>6. /\ m.main = b.main /\ m.pending = b.pending /\ m.event = b.event /\ m.finald = b.finald
        /\ m.interrupt = b.interrupt /\ m.told = b.told /\ m.kind = b.kind
        /\ m.todo = t /\ m.held = h /\ m.owed = o /\ m.clean = b.clean
    <2> HIDE DEF t, h, o
    <2> QED
      BY <1>1, <1>3 DEF State
  <1>7. h <=> m.kind = "copy"
    BY <1>6
  <1> HIDE DEF m, t, h, o
  <1>8. Counted(m)
    BY <1>1, <1>5, <1>6 DEF Counted
  <1>9. CASE t # 0
    <2>1. MakeWord(b) = m
      BY <1>4, <1>6, <1>9
    <2>2. ExactSound(m)
      BY <1>2, <1>3, <1>6, <1>7, <1>9 DEF ExactSound
    <2> QED
      BY <1>8, <2>1, <2>2 DEF Sound
  <1>10. CASE t = 0 /\ ~h
    <2>1. MakeWord(b) = blitter_done(m)
      BY <1>4, <1>6, <1>7, <1>10 DEF blitter_maybe_done_early
    <2>2. /\ ~m.interrupt => m.told <= 1
          /\ ~m.pending
          /\ m.clean => m.owed = 0 /\ m.told = (IF m.interrupt THEN 1 ELSE 0)
      BY <1>2, <1>3, <1>6, <1>8, <1>10 DEF Counted
    <2> QED
      BY <1>5, <2>1, <2>2, ExactDone
  <1>11. CASE t = 0 /\ h
    <2> DEFINE a == [m EXCEPT !.finald = 3]
               c == blitter_interrupt(a, FALSE)
    <2>1. MakeWord(b) = c
      BY <1>4, <1>6, <1>7, <1>11 DEF blitter_maybe_done_early
    <2>2. a \in State
      BY <1>5, Setting, Sizes
    <2>3. /\ a.pending = m.pending /\ a.event = m.event /\ a.finald = 3
          /\ a.interrupt = m.interrupt /\ a.told = m.told /\ a.owed = m.owed /\ a.clean = m.clean
      BY <1>5, <2>2 DEF State
    <2> HIDE DEF a
    <2>4. ~a.interrupt => a.told <= 1
      BY <1>8, <2>3 DEF Counted
    <2>5. /\ c \in State /\ ~c.main /\ c.pending = a.pending /\ c.event = a.event
          /\ c.finald = a.finald /\ c.owed = a.owed /\ c.clean = a.clean
          /\ a.interrupt \/ prefs.fast => c.interrupt = a.interrupt /\ c.told = a.told
          /\ ~(a.interrupt \/ prefs.fast) => c.interrupt /\ c.told = a.told + 1
      BY <2>2, <2>4, InterruptIs, Zenon
    <2> HIDE DEF c
    <2>6. Counted(c)
      BY <1>2, <1>6, <2>3, <2>4, <2>5 DEF Counted
    <2>7. c.clean => c.owed = 1 /\ (c.interrupt <=> ~prefs.fast) /\ c.told = (IF c.interrupt THEN 1 ELSE 0)
      BY <1>2, <1>3, <1>6, <1>11, <2>3, <2>5
    <2>8. ExactSound(c)
      BY <1>2, <1>6, <2>3, <2>5, <2>7 DEF ExactSound
    <2> QED
      BY <2>1, <2>6, <2>8 DEF Sound
  <1> QED
    BY <1>9, <1>10, <1>11

LEMMA FinishKeeps ==
  ASSUME BlitInv, blitter_force_finish PROVE Sound(blt', dmacon)
  <1> DEFINE o == IF blt.main /\ blt.finald # 0 THEN blt.owed ELSE 0
             a == [blt EXCEPT !.main = FALSE, !.todo = 0, !.owed = o]
             c == blitter_done(a)
  <1>1. Sound(blt, dmacon) /\ blt \in State /\ Counted(blt) /\ (blt.main \/ blt.finald # 0)
    BY DEF BlitInv, Sound, Counted, blitter_force_finish
  <1>2. o \in 0..Words /\ FALSE \in BOOLEAN /\ 0 \in 0..Words
    BY <1>1, Fields, Sizes
  <1>3. blt' = c
    BY DEF blitter_force_finish
  <1>4. blt.clean => blt.told = (IF blt.interrupt THEN 1 ELSE 0) /\ o = 0
    <2>1. CASE exact
      BY <1>1, <2>1 DEF Sound, ExactSound
    <2>2. CASE ~exact
      BY <1>1, <2>2 DEF Sound, EventSound, Due
    <2> QED
      BY <2>1, <2>2
  <1> HIDE DEF o
  <1>5. a \in State
    BY <1>1, <1>2, Setting
  <1>6. /\ a.pending = blt.pending /\ a.interrupt = blt.interrupt /\ a.told = blt.told /\ a.owed = o
        /\ a.clean = blt.clean
    BY <1>1, <1>2 DEF State
  <1> HIDE DEF a
  <1>7. ~a.interrupt => a.told <= 1
    BY <1>1, <1>6 DEF Counted
  <1>8. CASE exact
    <2>1. ~a.pending /\ (a.clean => a.owed = 0 /\ a.told = (IF a.interrupt THEN 1 ELSE 0))
      BY <1>1, <1>4, <1>6, <1>8 DEF Sound, ExactSound
    <2> QED
      BY <1>3, <1>5, <1>7, <1>8, <2>1, ExactDone
  <1>9. CASE ~exact
    <2>1. /\ c \in State /\ ~c.main /\ ~c.event /\ c.finald = 0 /\ c.interrupt
          /\ c.pending = a.pending /\ c.owed = a.owed /\ c.clean = a.clean
          /\ c.told = IF a.interrupt THEN a.told ELSE a.told + 1
      BY <1>5, <1>7, DoneIs
    <2> HIDE DEF c
    <2>2. Counted(c)
      BY <1>1, <1>6, <2>1 DEF Counted
    <2>3. blt.finald = 0 /\ blt.main
      BY <1>1, <1>9 DEF Sound, EventSound
    <2>4. c.clean => ~c.pending /\ c.told = 1 /\ c.owed = 0
      BY <1>1, <1>4, <1>6, <1>9, <2>1, <2>3 DEF Sound, EventSound, Due
    <2>5. EventSound(c, dmacon)
      BY <2>1, <2>4 DEF EventSound, Due, Over
    <2> QED
      BY <1>3, <1>9, <2>2, <2>5 DEF Sound
  <1> QED
    BY <1>8, <1>9

LEMMA ResetSound ==
  ASSUME BlitInv, custom_reset PROVE Sound(blt', FALSE)
  <1> DEFINE c == [blt EXCEPT !.main = FALSE, !.finald = 0, !.pending = FALSE, !.interrupt = TRUE,
                              !.event = FALSE, !.bltwait = FALSE, !.wake = FALSE,
                              !.owed = 0, !.told = 0, !.clean = FALSE]
  <1>1. blt' = c /\ blt \in State
    BY DEF custom_reset, BlitInv, Sound, Counted
  <1>2. c \in State
    BY <1>1, Setting, Sizes
  <1>3. /\ ~c.main /\ ~c.pending /\ ~c.event /\ c.interrupt /\ c.finald = 0 /\ c.told = 0 /\ ~c.clean
    BY <1>1 DEF State
  <1> HIDE DEF c
  <1>4. Counted(c) /\ ExactSound(c) /\ EventSound(c, FALSE)
    BY <1>2, <1>3 DEF Counted, ExactSound, EventSound
  <1> QED
    BY <1>1, <1>4 DEF Sound

LEMMA BlitInit == BlitterInit => BlitInv
  <1> SUFFICES ASSUME BlitterInit PROVE BlitInv
    OBVIOUS
  <1>1. Prefs /\ dmacon \in BOOLEAN
    BY DEF BlitterInit, Prefs
  <1>2. /\ blt \in State /\ ~blt.main /\ ~blt.pending /\ ~blt.event /\ blt.interrupt /\ blt.finald = 0
        /\ blt.told = 0 /\ ~blt.clean
    BY Sizes DEF BlitterInit, Idle, State
  <1>3. Counted(blt) /\ ExactSound(blt) /\ EventSound(blt, dmacon)
    BY <1>2 DEF Counted, ExactSound, EventSound
  <1> QED
    BY <1>1, <1>3 DEF BlitInv, Sound

LEMMA BlitNext ==
  ASSUME BlitInv, [BlitterNext]_blitter_vars PROVE BlitInv'
  <1>1. Prefs /\ dmacon \in BOOLEAN /\ Sound(blt, dmacon) /\ blt \in State
    BY DEF BlitInv, Sound, Counted
  <1>2. CASE UNCHANGED blitter_vars
    BY <1>1, <1>2, Same DEF blitter_vars
  <1>3. CASE BLTSIZE
    <2>1. PICK kind \in Kinds : blt' = do_blitter(maybe_blit(blt, FALSE), kind)
      BY <1>3 DEF BLTSIZE
    <2>2. Sound(maybe_blit(blt, FALSE), dmacon)
      BY <1>1, MaybeKeeps
    <2>3. Sound(blt', dmacon)
      BY <1>1, <2>1, <2>2, StartKeeps
    <2> QED
      BY <1>1, <1>3, <2>3, Same DEF BLTSIZE
  <1>4. CASE BLTREG
    <2>1. PICK early \in BOOLEAN : blt' = maybe_blit(blt, early)
      BY <1>4 DEF BLTREG
    <2>2. Sound(blt', dmacon)
      BY <1>1, <2>1, MaybeKeeps
    <2> QED
      BY <1>1, <1>4, <2>2, Same DEF BLTREG
  <1>5. CASE DMACON
    <2>1. dmacon' \in BOOLEAN /\ prefs' = prefs
      BY <1>5 DEF DMACON
    <2>2. CASE dmacon'
      <3>1. Sound(blt', TRUE) /\ dmacon' = TRUE
        BY <1>1, <1>5, <2>1, <2>2, CheckStartKeeps DEF DMACON
      <3>2. Sound(blt', dmacon')
        BY <3>1
      <3> QED
        BY <1>1, <2>1, <3>2, Same
    <2>3. CASE ~dmacon'
      <3>1. blt' = blt
        BY <1>5, <2>3 DEF DMACON
      <3>2. ~exact => EventSound(blt, dmacon')
        BY <1>1, <2>3 DEF Sound, EventSound, Due
      <3>3. Sound(blt', dmacon')
        BY <1>1, <3>1, <3>2 DEF Sound
      <3> QED
        BY <1>1, <2>1, <3>3, Same
    <2> QED
      BY <2>2, <2>3
  <1>6. CASE Event
    BY <1>1, <1>6, EventKeeps, Same DEF Event
  <1>7. CASE blitter_slowdown
    <2>1. blt' = [blt EXCEPT !.slowdown = 1]
      BY <1>7 DEF blitter_slowdown
    <2>2. blt' \in State
      BY <1>1, <2>1, Setting, Sizes
    <2>3. Sound(blt', dmacon)
      <3> DEFINE c == [blt EXCEPT !.slowdown = 1]
      <3>1. c \in State
        BY <2>1, <2>2
      <3>2. /\ c.main = blt.main /\ c.pending = blt.pending /\ c.event = blt.event
            /\ c.finald = blt.finald /\ c.interrupt = blt.interrupt /\ c.told = blt.told
            /\ c.kind = blt.kind /\ c.todo = blt.todo /\ c.held = blt.held /\ c.owed = blt.owed
            /\ c.clean = blt.clean
        BY <1>1 DEF State
      <3> HIDE DEF c
      <3>3. Sound(c, dmacon)
        BY <1>1, <3>1, <3>2, Aside
      <3> QED
        BY <2>1, <3>3 DEF c
    <2> QED
      BY <1>1, <1>7, <2>3, Same DEF blitter_slowdown
  <1>8. CASE BusyCycle
    <2>1. Sound(blt', dmacon)
      BY <1>8, WaitKeeps DEF BusyCycle
    <2> QED
      BY <1>1, <1>8, <2>1, Same DEF BusyCycle
  <1>9. CASE DmaCycle
    <2> DEFINE b == [blt EXCEPT !.finald = finald_now]
    <2>1. exact
      BY <1>9 DEF DmaCycle
    <2>2. Sound(b, dmacon)
      BY <2>1, WaitKeeps
    <2>3. \/ b.finald = 1 /\ blt' = FinalD(b)
          \/ b.finald # 1 /\ b.main /\ blt' = MakeWord(b)
          \/ b.finald # 1 /\ ~b.main /\ blt' = b
      BY <1>9 DEF DmaCycle
    <2> HIDE DEF b
    <2>4. Sound(blt', dmacon)
      BY <1>1, <2>1, <2>2, <2>3, FinalKeeps, WordKeeps
    <2> QED
      BY <1>1, <1>9, <2>4, Same DEF DmaCycle
  <1>10. CASE blitter_force_finish
    BY <1>1, <1>10, FinishKeeps, Same DEF blitter_force_finish
  <1>11. CASE custom_reset
    <2>1. dmacon' = FALSE /\ prefs' = prefs
      BY <1>11 DEF custom_reset
    <2>2. Sound(blt', dmacon')
      BY <1>11, <2>1, ResetSound
    <2> QED
      BY <1>1, <2>1, <2>2, Same
  <1>12. CASE CopperWait \/ blitter_done_notify_wakeup \/ COPJMP
    <2>1. PICK w \in BOOLEAN, k \in BOOLEAN : blt' = [blt EXCEPT !.bltwait = w, !.wake = k]
      <3>1. blt.wake \in BOOLEAN /\ blt.bltwait \in BOOLEAN
        BY <1>1, Fields
      <3>2. CASE CopperWait
        <4>1. blt' = [blt EXCEPT !.bltwait = TRUE, !.wake = blt.wake]
          BY <1>1, <3>2 DEF CopperWait, State
        <4> QED
          BY <3>1, <4>1
      <3>3. CASE blitter_done_notify_wakeup
        BY <3>3 DEF blitter_done_notify_wakeup
      <3>4. CASE COPJMP
        <4>1. blt' = [blt EXCEPT !.bltwait = FALSE, !.wake = blt.wake]
          BY <1>1, <3>4 DEF COPJMP, State
        <4> QED
          BY <3>1, <4>1
      <3> QED
        BY <1>12, <3>2, <3>3, <3>4
    <2> DEFINE c == [blt EXCEPT !.bltwait = w, !.wake = k]
    <2>2. c \in State
      BY <1>1, Setting
    <2>3. /\ c.main = blt.main /\ c.pending = blt.pending /\ c.event = blt.event
          /\ c.finald = blt.finald /\ c.interrupt = blt.interrupt /\ c.told = blt.told
          /\ c.kind = blt.kind /\ c.todo = blt.todo /\ c.held = blt.held /\ c.owed = blt.owed
          /\ c.clean = blt.clean
      BY <1>1 DEF State
    <2>4. Sound(c, dmacon)
      <3> HIDE DEF c
      <3> QED
        BY <1>1, <2>2, <2>3, Aside
    <2> QED
      BY <1>1, <1>12, <2>1, <2>4, Same DEF CopperWait, blitter_done_notify_wakeup, COPJMP
  <1> QED
    BY <1>2, <1>3, <1>4, <1>5, <1>6, <1>7, <1>8, <1>9, <1>10, <1>11, <1>12 DEF BlitterNext

\* Everything a blit still owes the program, and whether it has told of its end, can be seen from
\* where it is.
THEOREM BlitSound == BlitterSpec => []BlitInv
  <1>1. BlitInv /\ [BlitterNext]_blitter_vars => BlitInv'
    BY BlitNext
  <1> QED
    BY BlitInit, <1>1, PTL DEF BlitterSpec

\* A program that finds the blitter idle finds the blit's results, and nothing in the event table.
THEOREM ResultsThere == BlitterSpec => []IdleMeansDone
  <1>1. BlitInv => IdleMeansDone
    <2> SUFFICES ASSUME BlitInv PROVE IdleMeansDone
      OBVIOUS
    <2>1. BlitterTypeOK
      BY DEF BlitInv, BlitterTypeOK, Prefs, Sound, Counted
    <2>2. ASSUME blt.clean, ~blit_busy, ~blt.pending
          PROVE  (blt.owed = 0 \/ (blt.finald # 0 /\ blt.owed = 1)) /\ ~blt.event
      <3>1. ~blt.main
        BY <2>2 DEF blit_busy
      <3>2. CASE exact
        BY <2>2, <3>1, <3>2 DEF BlitInv, Sound, ExactSound
      <3>3. CASE ~exact
        BY <2>2, <3>1, <3>3 DEF BlitInv, Sound, EventSound, Over
      <3> QED
        BY <3>2, <3>3
    <2> QED
      BY <2>1, <2>2 DEF IdleMeansDone
  <1> QED
    BY BlitSound, <1>1, PTL

\* A blit ends with one interrupt.
THEOREM ToldOnce == BlitterSpec => []OneInterrupt
  <1>1. BlitInv => OneInterrupt
    <2> SUFFICES ASSUME BlitInv, blt.clean
                 PROVE  /\ blt.told <= 1
                        /\ blt.told = 1 => \/ blt.owed = 0
                                           \/ blt.finald # 0 /\ blt.owed = 1 /\ ~prefs.fast
                        /\ ~blt.main /\ ~blt.pending /\ blt.finald = 0 => blt.told = 1
      BY DEF OneInterrupt
    <2>1. CASE exact
      BY <2>1 DEF BlitInv, Sound, ExactSound
    <2>2. CASE ~exact
      BY <2>2 DEF BlitInv, Sound, EventSound, Due, Over
    <2> QED
      BY <2>1, <2>2
  <1> QED
    BY BlitSound, <1>1, PTL

-----------------------------------------------------------------------------
(* From INTREQ to the CPU.                                                 *)

USE InterruptsAssumption DEF InterruptsAssumption

-----------------------------------------------------------------------------
(* intlev, the highest of the levels that are requested and enabled.       *)

LEMMA Highest ==
  ASSUME NEW S \in SUBSET (0..6), S # {}
  PROVE  Max(S) \in S /\ \A y \in S : y <= Max(S)
  <1> DEFINE Tops(x) == x \in S /\ \A y \in S : x >= y
  <1>1. \A y \in S : y \in Nat /\ y <= 6
    OBVIOUS
  <1>2. \A n \in 0..6 : (\A y \in S : y <= n) => n \in S \/ \A y \in S : y <= n - 1
    BY <1>1
  <1>3. (\A y \in S : y <= 6) => (\E x \in S : Tops(x)) \/ (\A y \in S : y <= 5)
    BY <1>1, <1>2
  <1>4. (\A y \in S : y <= 5) => (\E x \in S : Tops(x)) \/ (\A y \in S : y <= 4)
    BY <1>1, <1>2
  <1>5. (\A y \in S : y <= 4) => (\E x \in S : Tops(x)) \/ (\A y \in S : y <= 3)
    BY <1>1, <1>2
  <1>6. (\A y \in S : y <= 3) => (\E x \in S : Tops(x)) \/ (\A y \in S : y <= 2)
    BY <1>1, <1>2
  <1>7. (\A y \in S : y <= 2) => (\E x \in S : Tops(x)) \/ (\A y \in S : y <= 1)
    BY <1>1, <1>2
  <1>8. (\A y \in S : y <= 1) => (\E x \in S : Tops(x)) \/ (\A y \in S : y <= 0)
    BY <1>1, <1>2
  <1>9. (\A y \in S : y <= 0) => (\E x \in S : Tops(x)) \/ (\A y \in S : y <= -1)
    BY <1>1, <1>2
  <1>10. \E y \in S : y > -1
    <2>1. \E y : y \in S
      OBVIOUS
    <2> QED
      BY <2>1, <1>1
  <1>11. \E x \in S : Tops(x)
    <2> HIDE DEF Tops
    <2> QED
      BY <1>1, <1>10, <1>3, <1>4, <1>5, <1>6, <1>7, <1>8, <1>9
  <1> QED
    BY <1>11 DEF Max

LEMMA LevelFacts ==
  ASSUME NEW req \in SUBSET Bits, NEW ena
  PROVE  /\ LevelOf(req, ena) \in 0..6
         /\ Master \in ena => \A b \in req \intersect ena : Level[b] <= LevelOf(req, ena)
         /\ \/ LevelOf(req, ena) = 0
            \/ Master \in ena /\ \E b \in req \intersect ena : LevelOf(req, ena) = Level[b]
  <1> DEFINE S == {0} \union {Level[b] : b \in req \intersect ena}
  <1>1. S \in SUBSET (0..6) /\ S # {}
    BY SMT
  <1>2. Max(S) \in S /\ \A y \in S : y <= Max(S)
    BY <1>1, Highest
  <1> QED
    BY <1>1, <1>2 DEF LevelOf

\* Fewer requests or fewer enabled bits do not raise the level.
LEMMA LevelFalls ==
  ASSUME NEW req \in SUBSET Bits, NEW more \in SUBSET Bits, req \subseteq more,
         NEW ena, NEW ena2, ena \subseteq ena2
  PROVE  LevelOf(req, ena) <= LevelOf(more, ena2)
  <1>1. /\ LevelOf(req, ena) \in 0..6 /\ LevelOf(more, ena2) \in 0..6
        /\ \/ LevelOf(req, ena) = 0
           \/ Master \in ena /\ \E b \in req \intersect ena : LevelOf(req, ena) = Level[b]
    BY LevelFacts
  <1>2. Master \in ena2 => \A b \in more \intersect ena2 : Level[b] <= LevelOf(more, ena2)
    BY LevelFacts
  <1> QED
    BY <1>1, <1>2

LEMMA IntlevType == TypeOK => intlev \in 0..6
  BY LevelFacts DEF TypeOK, intlev

-----------------------------------------------------------------------------
\* What the CPU has been told: Heeded, and that the level latched for it in mode "delay" is
\* too low only while a doint is to come.
Known ==
  /\ Wanted => spcflags # {} \/ doints > 0 \/ pc = "entered"
  /\ Delay /\ doints = 0 /\ pc # "entered" => intlev <= ipl_pin
IInv == TypeOK /\ Known

\* doint tells all there is.
LEMMA Dointed ==
  ASSUME TypeOK', doint, mode' = mode
  PROVE  Known' /\ (Delay => ipl_pin' = intlev')
  <1>1. intlev' \in 0..6 /\ intmask' \in 0..7
    BY LevelFacts DEF TypeOK, intlev
  <1> QED
    BY <1>1 DEF doint, Known, Wanted, Delay, Compatible

LEMMA DelayedTold ==
  ASSUME IInv, TypeOK', doint_delay, mode' = mode, intmask' = intmask, pc' = pc
  PROVE  Known'
  <1>1. CASE Compatible
    BY <1>1 DEF IInv, TypeOK, doint_delay, Known
  <1>2. CASE ~Compatible
    BY <1>2, Dointed DEF doint_delay
  <1> QED
    BY <1>1, <1>2

\* Where nobody is told the level has not risen.
LEMMA NothingToTell ==
  ASSUME IInv, TypeOK', NoDoint, intlev' <= intlev, mode' = mode, intmask' = intmask,
         pc = "entered" => pc' = "entered"
  PROVE  Known'
  <1>1. intlev' \in 0..6 /\ intlev \in 0..6 /\ intmask \in 0..7
    BY LevelFacts DEF IInv, TypeOK, intlev
  <1> QED
    BY <1>1 DEF IInv, Known, NoDoint, Wanted, Delay, TypeOK

-----------------------------------------------------------------------------
(* Writes to INTREQ and INTENA.                                            *)

\* What an operation that changes INTREQ or INTENA keeps of the types.
Typed ==
  /\ mode' \in Modes /\ intreq' \subseteq Bits /\ intena' \subseteq Bits \union {Master}
  /\ doints' \in 0..MaxDoints /\ spcflags' \subseteq {"INT", "DOINT"} /\ ipl_pin' \in 0..6

LEMMA DointTyped ==
  ASSUME TypeOK, doint, mode' = mode, intreq' \subseteq Bits,
         intena' \subseteq Bits \union {Master}, doints' \in 0..MaxDoints
  PROVE  Typed
  <1>1. intlev' \in 0..6
    BY LevelFacts DEF intlev
  <1> QED
    BY <1>1 DEF TypeOK, doint, Typed

LEMMA DelayTyped ==
  ASSUME TypeOK, doint_delay, mode' = mode, intreq' \subseteq Bits,
         intena' \subseteq Bits \union {Master}
  PROVE  Typed
  <1>1. CASE Compatible
    <2>1. doints < MaxDoints /\ doints' = doints + 1 /\ UNCHANGED <<spcflags, ipl_pin>>
      BY <1>1 DEF doint_delay
    <2>2. doints' \in 0..MaxDoints
      BY <2>1 DEF TypeOK
    <2> QED
      BY <2>1, <2>2 DEF TypeOK, Typed
  <1>2. CASE ~Compatible
    BY <1>2, DointTyped DEF doint_delay, TypeOK
  <1> QED
    BY <1>1, <1>2

LEMMA QuietTyped ==
  ASSUME TypeOK, NoDoint, mode' = mode, intreq' \subseteq Bits,
         intena' \subseteq Bits \union {Master}
  PROVE  Typed
  BY DEF TypeOK, NoDoint, Typed

LEMMA INTENATyped ==
  ASSUME TypeOK, mode' = mode, NEW set \in BOOLEAN, NEW b \in SUBSET (Bits \union {Master}),
         INTENA(set, b)
  PROVE  Typed /\ (doint_delay \/ (NoDoint /\ intlev' <= intlev))
  <1>1. intena' \subseteq Bits \union {Master} /\ intreq' = intreq /\ intreq' \subseteq Bits
    BY DEF INTENA, TypeOK
  <1>2. CASE set /\ intena' # intena
    BY <1>1, <1>2, DelayTyped DEF INTENA
  <1>3. CASE ~(set /\ intena' # intena)
    <2>1. NoDoint /\ intena' \subseteq intena
      BY <1>3 DEF INTENA
    <2> QED
      BY <1>1, <2>1, QuietTyped, LevelFalls DEF intlev
  <1> QED
    BY <1>2, <1>3

LEMMA INTREQTyped ==
  ASSUME TypeOK, mode' = mode, NEW set \in BOOLEAN, NEW b \in SUBSET Bits, INTREQ(set, b)
  PROVE  Typed /\ (doint_delay \/ (NoDoint /\ intlev' <= intlev))
  <1> DEFINE written == IF set THEN intreq \union b ELSE intreq \ b
             again == (cia \/ uae_int_requested) /\ "ports" \notin written
  <1>1. intena' = intena /\ intena' \subseteq Bits \union {Master} /\ intreq' \subseteq Bits
    BY DEF INTREQ, TypeOK
  <1>2. CASE set \/ again
    BY <1>1, <1>2, DelayTyped DEF INTREQ
  <1>3. CASE ~(set \/ again)
    <2>1. NoDoint /\ intreq' = intreq \ b
      BY <1>3 DEF INTREQ
    <2> QED
      BY <1>1, <2>1, QuietTyped, LevelFalls DEF intlev, TypeOK
  <1> QED
    BY <1>2, <1>3

LEMMA INTREQ_0Typed ==
  ASSUME TypeOK, mode' = mode, NEW b \in SUBSET Bits, INTREQ_0(b)
  PROVE  Typed /\ doint_delay
  BY DelayTyped DEF INTREQ_0, TypeOK

LEMMA SafeTyped ==
  ASSUME TypeOK, mode' = mode, SafeInterruptSet
  PROVE  Typed /\ (doint_delay \/ (NoDoint /\ intlev' <= intlev))
  <1>1. CASE "ports" \in intreq
    <2>1. UNCHANGED <<intreq, intena>> /\ NoDoint
      BY <1>1 DEF SafeInterruptSet
    <2>2. intlev' = intlev /\ intlev \in 0..6
      BY <2>1, LevelFacts DEF intlev, TypeOK
    <2> QED
      BY <2>1, <2>2, QuietTyped DEF TypeOK
  <1>2. CASE "ports" \notin intreq
    BY <1>2, INTREQ_0Typed DEF SafeInterruptSet
  <1> QED
    BY <1>1, <1>2

-----------------------------------------------------------------------------
(* Steps of the chips, the devices and the host keep the CPU's state.      *)

LEMMA ChipsInv ==
  ASSUME IInv, UNCHANGED <<mode, cpu>>, Typed, cia' \in BOOLEAN, uae_int_requested' \in BOOLEAN,
         \/ doint_delay
         \/ NoDoint /\ intlev' <= intlev
         \/ doint
  PROVE  IInv'
  <1>1. TypeOK'
    BY DEF IInv, TypeOK, Typed, cpu
  <1> QED
    BY <1>1, DelayedTold, NothingToTell, Dointed DEF IInv, cpu

LEMMA Devices ==
  ASSUME IInv, Request \/ CiaOn \/ Copper \/ DelayedDoint \/ Hsync \/ HostRequests
  PROVE  IInv'
  <1> USE DEF IInv
  <1>0. cia \in BOOLEAN /\ uae_int_requested \in BOOLEAN
    BY DEF TypeOK
  <1>1. CASE Request
    <2>1. PICK b \in Bits : Chips(INTREQ_0({b})) /\ UNCHANGED devices
      BY <1>1 DEF Request
    <2>2. Typed /\ doint_delay
      BY <2>1, INTREQ_0Typed DEF Chips
    <2> QED
      BY <2>1, <2>2, <1>0, ChipsInv DEF Chips, devices
  <1>2. CASE CiaOn
    <2>1. Typed /\ (doint_delay \/ (NoDoint /\ intlev' <= intlev))
      BY <1>2, SafeTyped DEF CiaOn, Chips
    <2> QED
      BY <1>2, <2>1, <1>0, ChipsInv DEF CiaOn, Chips
  <1>3. CASE Copper
    <2>1. PICK set \in BOOLEAN, b \in Bits : Chips(INTREQ(set, {b})) /\ UNCHANGED devices
      BY <1>3 DEF Copper
    <2>2. Typed /\ (doint_delay \/ (NoDoint /\ intlev' <= intlev))
      BY <2>1, INTREQTyped DEF Chips
    <2> QED
      BY <2>1, <2>2, <1>0, ChipsInv DEF Chips, devices
  <1>4. CASE DelayedDoint
    <2>1. Typed
      BY <1>4, DointTyped DEF DelayedDoint, Chips, TypeOK
    <2> QED
      BY <1>4, <2>1, <1>0, ChipsInv DEF DelayedDoint, Chips, devices
  <1>5. CASE Hsync
    <2>1. Typed /\ (doint_delay \/ (NoDoint /\ intlev' <= intlev))
      BY <1>5, SafeTyped DEF Hsync, Chips
    <2> QED
      BY <1>5, <2>1, <1>0, ChipsInv DEF Hsync, Chips, devices
  <1>6. CASE HostRequests
    <2>1. Typed /\ NoDoint
      BY <1>6, QuietTyped DEF HostRequests, TypeOK
    <2>2. intlev' <= intlev
      BY <1>6, LevelFalls DEF HostRequests, intlev, TypeOK
    <2> QED
      BY <1>6, <2>1, <2>2, <1>0, ChipsInv DEF HostRequests
  <1> QED
    BY <1>1, <1>2, <1>3, <1>4, <1>5, <1>6

-----------------------------------------------------------------------------
(* The CPU.                                                                *)

\* An interrupt is entered: doint is called at its end.
LEMMA EnterInv ==
  ASSUME IInv, NEW n \in 0..6, NEW l \in {"finish", "resume"}, Enter(n, l), mode' = mode,
         spcflags' \subseteq {"INT", "DOINT"}
  PROVE  IInv'
  <1>1. stopped' \in BOOLEAN /\ cia' \in BOOLEAN /\ uae_int_requested' \in BOOLEAN
    BY DEF IInv, TypeOK, Enter, devices
  <1>2. TypeOK'
    BY <1>1 DEF IInv, TypeOK, Enter, devices
  <1> QED
    BY <1>2 DEF IInv, Known, Enter

\* The flags that are left tell what there is to tell.
LEMMA FinishInv ==
  ASSUME IInv, NEW f \in SUBSET {"INT", "DOINT"}, Finish(f), mode' = mode, pc # "entered",
         Wanted /\ doints = 0 => f # {}
  PROVE  IInv'
  <1>1. UNCHANGED <<intreq, intena, cia, uae_int_requested, doints, ipl_pin, stopped, intmask, ret>>
    BY DEF Finish, devices
  <1>2. TypeOK'
    BY <1>1 DEF IInv, TypeOK, Finish
  <1>3. spcflags' = {} => f = {}
    BY DEF Finish
  <1>4. intlev' = intlev /\ intlev \in 0..6 /\ intmask \in 0..7
    BY <1>1, IntlevType DEF intlev, IInv, TypeOK
  <1>5. Known'
    BY <1>1, <1>3, <1>4 DEF IInv, TypeOK, Known, Wanted, Delay, Finish
  <1> QED
    BY <1>2, <1>5 DEF IInv

LEMMA InterruptInv ==
  ASSUME IInv, Interrupt, mode' = mode, pc # "entered"
  PROVE  IInv'
  <1>0. intlev \in 0..6 /\ ipl \in 0..6 /\ intmask \in 0..7 /\ spcflags \subseteq {"INT", "DOINT"}
    BY IntlevType DEF IInv, TypeOK
  <1>1. CASE Delay /\ ipl > intmask
    BY <1>0, <1>1, EnterInv DEF Interrupt
  <1>2. CASE ~Delay /\ "INT" \in spcflags /\ intlev > intmask
    BY <1>0, <1>2, EnterInv DEF Interrupt
  <1>3. CASE ~Delay /\ "INT" \in spcflags /\ ~(intlev > intmask)
    <2>1. Finish({}) /\ ~Wanted
      BY <1>3 DEF Interrupt, Wanted
    <2> QED
      BY <2>1, FinishInv
  <1>4. CASE (Delay /\ ~(ipl > intmask)) \/ (~Delay /\ "INT" \notin spcflags)
    <2>1. Finish(spcflags)
      BY <1>4 DEF Interrupt
    <2>2. Wanted /\ doints = 0 => spcflags # {}
      BY DEF IInv, Known, TypeOK
    <2> QED
      BY <1>0, <2>1, <2>2, FinishInv
  <1> QED
    BY <1>1, <1>2, <1>3, <1>4

LEMMA EnteredInv ==
  ASSUME IInv, Entered
  PROVE  IInv'
  <1>0. intlev \in 0..6 /\ intmask \in 0..7 /\ spcflags \subseteq {"INT", "DOINT"}
        /\ ret \in {"finish", "resume"}
    BY IntlevType DEF IInv, TypeOK
  <1>1. CASE Compatible /\ intlev > intmask
    BY <1>0, <1>1, EnterInv DEF Entered
  <1>2. CASE ~(Compatible /\ intlev > intmask)
    <2>1. /\ UNCHANGED <<mode, intreq, intena, cia, uae_int_requested, doints>> /\ doint
          /\ UNCHANGED <<stopped, intmask, ret>> /\ pc' = ret
      BY <1>2 DEF Entered, devices
    <2>2. Typed
      BY <2>1, DointTyped DEF IInv, TypeOK
    <2>3. ipl' \in 0..6
      <3>1. ipl' = intlev \/ ipl' = ipl
        BY <1>2 DEF Entered
      <3> QED
        BY <1>0, <3>1 DEF IInv, TypeOK
    <2>4. stopped' \in BOOLEAN /\ cia' \in BOOLEAN /\ uae_int_requested' \in BOOLEAN
      BY <2>1 DEF IInv, TypeOK
    <2>5. TypeOK'
      BY <1>0, <2>1, <2>2, <2>3, <2>4 DEF IInv, TypeOK, Typed
    <2> QED
      BY <2>1, <2>5, Dointed DEF IInv
  <1> QED
    BY <1>1, <1>2

LEMMA WriteSRInv ==
  ASSUME IInv, WriteSR
  PROVE  IInv'
  <1>1. PICK m \in Masks : MakeFromSR(m)
    BY DEF WriteSR
  <1>2. /\ UNCHANGED <<mode, intreq, intena, cia, uae_int_requested, doints, ipl, ret>>
        /\ pc = "execute" /\ pc' = "fetch" /\ stopped' \in BOOLEAN /\ intmask' = m
    BY <1>1 DEF WriteSR, MakeFromSR, devices
  <1>3. intlev' = intlev /\ intlev \in 0..6
    BY <1>2, IntlevType DEF intlev, IInv
  <1>4. cia' \in BOOLEAN /\ uae_int_requested' \in BOOLEAN /\ m \in 0..7
    BY <1>2 DEF IInv, TypeOK
  <1>5. CASE m = intmask
    <2>1. UNCHANGED <<spcflags, ipl_pin>>
      BY <1>1, <1>5 DEF MakeFromSR
    <2>2. TypeOK'
      BY <1>2, <1>4, <2>1 DEF IInv, TypeOK
    <2> QED
      BY <1>2, <1>3, <1>5, <2>1, <2>2 DEF IInv, TypeOK, Known, Wanted, Delay
  <1>6. CASE m # intmask /\ mode = "fast"
    <2>1. spcflags' = spcflags \union {"DOINT", "INT"} /\ ipl_pin' = ipl_pin
      BY <1>1, <1>6 DEF MakeFromSR
    <2>2. TypeOK'
      BY <1>2, <1>4, <2>1 DEF IInv, TypeOK
    <2> QED
      BY <1>2, <1>6, <2>1, <2>2 DEF IInv, Known, Delay
  <1>7. CASE m # intmask /\ mode # "fast"
    <2>1. doint
      BY <1>1, <1>7 DEF MakeFromSR
    <2>2. Typed
      BY <1>2, <2>1, DointTyped DEF IInv, TypeOK
    <2>3. TypeOK'
      BY <1>2, <1>4, <2>2 DEF IInv, TypeOK, Typed
    <2> QED
      BY <1>2, <2>1, <2>3, Dointed DEF IInv
  <1> QED
    BY <1>5, <1>6, <1>7

\* A register's write, and then the step: the mask stays.
LEMMA RegisterTyped ==
  ASSUME TypeOK, mode' = mode, Register
  PROVE  /\ Typed /\ (doint_delay \/ (NoDoint /\ intlev' <= intlev))
         /\ cia' \in BOOLEAN /\ uae_int_requested' \in BOOLEAN
  <1>0. cia \in BOOLEAN /\ uae_int_requested \in BOOLEAN
    BY DEF TypeOK
  <1>1. ASSUME NEW set \in BOOLEAN, NEW b \in Bits, INTREQ(set, {b}), UNCHANGED devices
        PROVE  /\ Typed /\ (doint_delay \/ (NoDoint /\ intlev' <= intlev))
               /\ cia' \in BOOLEAN /\ uae_int_requested' \in BOOLEAN
    BY <1>0, <1>1, INTREQTyped DEF devices
  <1>2. ASSUME NEW set \in BOOLEAN, NEW b \in Bits \union {Master}, INTENA(set, {b}),
               UNCHANGED devices
        PROVE  /\ Typed /\ (doint_delay \/ (NoDoint /\ intlev' <= intlev))
               /\ cia' \in BOOLEAN /\ uae_int_requested' \in BOOLEAN
    BY <1>0, <1>2, INTENATyped DEF devices
  <1>3. ASSUME UNCHANGED <<intreq, intena>>, NoDoint
        PROVE  Typed /\ NoDoint /\ intlev' <= intlev
    BY <1>3, QuietTyped, LevelFalls DEF intlev, TypeOK
  <1> QED
    BY <1>0, <1>1, <1>2, <1>3 DEF Register, devices

LEMMA WriteRegisterInv ==
  ASSUME IInv, WriteRegister
  PROVE  IInv'
  <1>1. /\ UNCHANGED <<mode, stopped, intmask, ret>> /\ Register
        /\ pc = "execute" /\ pc' \in {"check", "fetch"}
    BY DEF WriteRegister
  <1>2. /\ Typed /\ (doint_delay \/ (NoDoint /\ intlev' <= intlev))
        /\ cia' \in BOOLEAN /\ uae_int_requested' \in BOOLEAN
    BY <1>1, RegisterTyped DEF IInv
  <1>3. ipl' \in 0..6
    <2>1. ipl' = ipl_pin \/ ipl' = ipl
      BY DEF WriteRegister, Sampled
    <2> QED
      BY <2>1 DEF IInv, TypeOK
  <1>4. TypeOK'
    BY <1>1, <1>2, <1>3 DEF IInv, TypeOK, Typed
  <1>5. CASE NoDoint /\ intlev' <= intlev
    BY <1>1, <1>4, <1>5, NothingToTell DEF IInv
  <1>6. CASE doint_delay /\ Compatible
    BY <1>4, <1>6 DEF IInv, TypeOK, doint_delay, Known
  <1>7. CASE doint_delay /\ ~Compatible
    BY <1>1, <1>4, <1>7, Dointed DEF doint_delay, IInv
  <1> QED
    BY <1>2, <1>5, <1>6, <1>7

LEMMA FetchInv ==
  ASSUME IInv, Fetch
  PROVE  IInv'
  <1>1. /\ UNCHANGED <<mode, intreq, intena, cia, uae_int_requested, stopped, intmask, ret>>
        /\ NoDoint /\ pc = "fetch" /\ pc' = "check"
    BY DEF Fetch, devices
  <1>2. ipl' \in 0..6
    <2>1. ipl' = ipl_pin \/ ipl' = ipl
      BY DEF Fetch, Sampled
    <2> QED
      BY <2>1 DEF IInv, TypeOK
  <1>3. stopped' \in BOOLEAN /\ cia' \in BOOLEAN /\ uae_int_requested' \in BOOLEAN
    BY <1>1 DEF IInv, TypeOK
  <1>4. TypeOK'
    BY <1>1, <1>2, <1>3 DEF IInv, TypeOK, NoDoint
  <1>5. intlev' <= intlev
    BY <1>1, IntlevType DEF intlev, IInv
  <1> QED
    BY <1>1, <1>4, <1>5, NothingToTell DEF IInv

\* The polls of the host's request, in the translated code and in a stopped CPU.
LEMMA PollInv ==
  ASSUME IInv, CheckUae, pc # "entered", pc' \in {"special", "stoptest"},
         UNCHANGED <<mode, devices, doints, stopped, intmask, ipl, ret>>
  PROVE  IInv'
  <1>1. stopped' \in BOOLEAN /\ cia' \in BOOLEAN /\ uae_int_requested' \in BOOLEAN
    BY DEF IInv, TypeOK, devices
  <1>2. CASE uae_int_requested
    <2>1. doint /\ intreq' = intreq \union {"ports"} /\ intena' = intena
      BY <1>2 DEF CheckUae
    <2>2. Typed
      BY <2>1, DointTyped DEF IInv, TypeOK
    <2>3. TypeOK'
      BY <1>1, <2>2 DEF IInv, TypeOK, Typed
    <2> QED
      BY <2>1, <2>3, Dointed DEF IInv
  <1>3. CASE ~uae_int_requested
    <2>1. NoDoint /\ UNCHANGED <<intreq, intena>>
      BY <1>3 DEF CheckUae, NoDoint
    <2>2. TypeOK'
      BY <1>1, <2>1 DEF IInv, TypeOK, NoDoint
    <2>3. intlev' <= intlev
      BY <2>1, IntlevType DEF intlev, IInv
    <2> QED
      BY <2>1, <2>2, <2>3, NothingToTell DEF IInv
  <1> QED
    BY <1>2, <1>3

LEMMA SpecialInv ==
  ASSUME IInv, Special
  PROVE  IInv'
  <1>1. mode' = mode /\ pc # "entered"
    BY DEF Special
  <1>2. CASE ~stopped /\ spcflags = {}
    <2>1. Finish({})
      BY <1>2 DEF Special
    <2>2. ~(Wanted /\ doints = 0)
      BY <1>1, <1>2 DEF IInv, Known, TypeOK
    <2> QED
      BY <1>1, <2>1, <2>2, FinishInv
  <1>3. CASE ~stopped /\ spcflags # {}
    BY <1>1, <1>3, InterruptInv DEF Special
  <1>4. CASE stopped
    <2>1. /\ UNCHANGED <<intreq, intena, cia, uae_int_requested, stopped, intmask, ipl, ret>>
          /\ NoDoint /\ pc' = "stop"
      BY <1>4 DEF Special, devices
    <2>2. stopped' \in BOOLEAN /\ cia' \in BOOLEAN /\ uae_int_requested' \in BOOLEAN
      BY <2>1 DEF IInv, TypeOK
    <2>3. TypeOK'
      BY <1>1, <2>1, <2>2 DEF IInv, TypeOK, NoDoint
    <2>4. intlev' <= intlev
      BY <2>1, IntlevType DEF intlev, IInv
    <2> QED
      BY <1>1, <2>1, <2>3, <2>4, NothingToTell DEF IInv
  <1> QED
    BY <1>2, <1>3, <1>4

\* A stopped CPU drops the flags when the level it knows is no higher than its mask.
LEMMA StopTestInv ==
  ASSUME IInv, StopTest
  PROVE  IInv'
  <1> DEFINE n == IF Delay THEN ipl_pin ELSE IF spcflags # {} THEN intlev ELSE 0
  <1>1. /\ UNCHANGED <<mode, intreq, intena, cia, uae_int_requested, doints, ipl_pin>>
        /\ pc = "stoptest" /\ spcflags' = IF Delay THEN spcflags \ {"INT"} ELSE {}
    BY DEF StopTest, devices
  <1>2. intlev' = intlev /\ intlev \in 0..6 /\ n \in 0..6 /\ intmask \in 0..7
    BY <1>1, IntlevType DEF intlev, IInv, TypeOK
  <1>3. cia' \in BOOLEAN /\ uae_int_requested' \in BOOLEAN /\ stopped \in BOOLEAN
    BY <1>1 DEF IInv, TypeOK
  <1>4. ipl' \in 0..6
    <2>1. ipl' = ipl_pin \/ ipl' = ipl
      BY DEF StopTest
    <2> QED
      BY <2>1 DEF IInv, TypeOK
  <1>5. CASE n > intmask
    <2>1. stopped' = FALSE /\ intmask' = n /\ pc' = "entered" /\ ret' = "resume"
      BY <1>5 DEF StopTest
    <2>2. stopped' \in BOOLEAN /\ spcflags' \subseteq {"INT", "DOINT"} /\ intmask' \in 0..7
      <3>1. stopped' \in BOOLEAN
        BY <2>1
      <3>2. spcflags' \subseteq {"INT", "DOINT"}
        BY <1>1 DEF IInv, TypeOK
      <3>3. intmask' \in 0..7
        <4> HIDE DEF n
        <4> QED
          BY <1>2, <2>1
      <3> QED
        BY <3>1, <3>2, <3>3
    <2>3. TypeOK'
      BY <1>1, <1>3, <1>4, <2>1, <2>2 DEF IInv, TypeOK
    <2> QED
      BY <2>1, <2>3 DEF IInv, Known
  <1>6. CASE ~(n > intmask)
    <2>1. pc' = "stop" /\ UNCHANGED <<stopped, intmask, ret>>
      BY <1>6 DEF StopTest
    <2>2. TypeOK'
      <3>1. stopped' \in BOOLEAN /\ spcflags' \subseteq {"INT", "DOINT"}
        BY <1>1, <1>3, <2>1 DEF IInv, TypeOK
      <3> QED
        BY <1>1, <1>3, <1>4, <2>1, <3>1 DEF IInv, TypeOK
    <2>3. Wanted => doints > 0
      BY <1>1, <1>2, <1>6 DEF IInv, TypeOK, Known, Wanted
    <2>4. Known'
      BY <1>1, <1>2, <2>1, <2>3 DEF IInv, Known, Wanted, Delay
    <2> QED
      BY <2>2, <2>4 DEF IInv
  <1> QED
    BY <1>5, <1>6

LEMMA CpuInv ==
  ASSUME IInv, CpuStep
  PROVE  IInv'
  <1>1. CASE Poll
    BY <1>1, PollInv DEF Poll
  <1>2. CASE StopPoll
    BY <1>2, PollInv DEF StopPoll
  <1>3. CASE Resume
    BY <1>3, InterruptInv DEF Resume
  <1>4. CASE End
    <2>1. Wanted /\ doints = 0 => spcflags # {}
      BY <1>4 DEF End, IInv, Known, TypeOK
    <2> QED
      BY <1>4, <2>1, FinishInv DEF End, IInv, TypeOK
  <1> QED
    BY <1>1, <1>2, <1>3, <1>4, WriteSRInv, WriteRegisterInv, FetchInv, EnteredInv, SpecialInv,
       StopTestInv DEF CpuStep

LEMMA InvInit == ASSUME Init PROVE IInv
  <1>1. LevelOf(intreq, intena) = 0
    BY DEF Init, LevelOf, Master
  <1>2. TypeOK
    <2>1. cia \in BOOLEAN /\ uae_int_requested \in BOOLEAN /\ stopped \in BOOLEAN
      BY DEF Init
    <2>2. doints \in 0..MaxDoints /\ intmask \in 0..7
      BY DEF Init
    <2> QED
      BY <2>1, <2>2 DEF Init, TypeOK
  <1> QED
    BY <1>1, <1>2 DEF Init, IInv, Known, Wanted, intlev, TypeOK

LEMMA InvStep == ASSUME IInv, Next PROVE IInv'
  BY Devices, CpuInv DEF Next

LEMMA InvStutter == ASSUME IInv, UNCHANGED vars PROVE IInv'
  <1>1. UNCHANGED <<mode, intreq, intena, cia, uae_int_requested, doints, spcflags, ipl_pin>>
        /\ UNCHANGED <<stopped, intmask, ipl, pc, ret>>
    BY DEF vars, devices, cpu
  <1>2. stopped' \in BOOLEAN /\ cia' \in BOOLEAN /\ uae_int_requested' \in BOOLEAN
    BY <1>1 DEF IInv, TypeOK
  <1>3. TypeOK'
    BY <1>1, <1>2 DEF IInv, TypeOK
  <1> QED
    BY <1>1, <1>3 DEF IInv, Known, Wanted, intlev, Delay

-----------------------------------------------------------------------------
\* What the CPU has been told is always enough for it to look.
THEOREM Inductive == Spec => []IInv
  <1>1. Init => IInv
    BY InvInit
  <1>2. IInv /\ [Next]_vars => IInv'
    BY InvStep, InvStutter
  <1> QED
    BY <1>1, <1>2, PTL DEF Spec

\* A level above the mask is never forgotten, whatever the program, the Copper, the devices and
\* the host's threads write in between.
THEOREM NeverForgotten == Spec => []Heeded
  <1>1. IInv => Heeded
    BY DEF IInv, Known, Heeded
  <1> QED
    BY <1>1, Inductive, PTL

-----------------------------------------------------------------------------
(* Mode "delay": what is latched has been asked for.                       *)

Asked == asked.before \union asked.now
Told == \* of a step, what doint and all that is not doint do
  \/ ipl_pin' = ipl_pin /\ spcflags' = spcflags
  \/ ipl_pin' = intlev' /\ (ipl_pin' > intmask' => spcflags' # {})

\* A level latched in ipl_pin that is higher than the mask was asked for in this instruction or
\* in the one before, and at the end of an instruction in this one, unless ipl has it too and
\* it is entered now.  It has its flag.
Fresh ==
  /\ asked \in [before : SUBSET (0..6), now : SUBSET (0..6)]
  /\ Delay =>
       /\ intlev \in asked.now
       /\ ipl_pin > intmask => ipl_pin \in Asked /\ (pc = "entered" \/ spcflags # {})
       /\ pc \in {"check", "resume", "finish"} /\ ipl > intmask => ipl \in Asked
       /\ pc = "check" => ipl_pin \in asked.now \/ ipl = ipl_pin
       /\ pc \in {"resume", "finish"} => ipl_pin \in asked.now
       /\ pc = "entered" => intmask \in Asked

NewInstruction == pc' # pc /\ (pc' = "execute" \/ (pc = "stoptest" /\ pc' = "stop"))

LEMMA Remembers ==
  ASSUME Fresh, Remember, TypeOK', Delay
  PROVE  /\ asked' \in [before : SUBSET (0..6), now : SUBSET (0..6)] /\ intlev' \in asked'.now
         /\ NewInstruction => asked'.before = asked.now
         /\ ~NewInstruction => asked'.before = asked.before /\ asked.now \subseteq asked'.now
  <1>1. intlev' \in 0..6
    BY LevelFacts DEF TypeOK, intlev
  <1>2. CASE NewInstruction
    <2>1. asked' = [before |-> asked.now, now |-> {intlev'}]
      BY <1>2 DEF Remember, NewInstruction
    <2> QED
      BY <1>1, <1>2, <2>1 DEF Fresh
  <1>3. CASE ~NewInstruction
    <2>1. asked' = [asked EXCEPT !.now = @ \union {intlev'}]
      BY <1>3 DEF Remember, NewInstruction
    <2> QED
      BY <1>1, <1>3, <2>1 DEF Fresh
  <1> QED
    BY <1>2, <1>3

\* Steps with which the CPU's place and level stay.
LEMMA FreshAside ==
  ASSUME IInv, IInv', Fresh, Remember, Delay, Told, UNCHANGED <<mode, cpu>>
  PROVE  Fresh'
  <1>1. ~NewInstruction
    BY DEF NewInstruction, cpu
  <1>2. intlev' \in 0..6 /\ ipl_pin' \in 0..6 /\ intmask \in 0..7 /\ ipl \in 0..6
    BY IntlevType, LevelFacts DEF IInv, TypeOK, intlev
  <1>3. /\ asked' \in [before : SUBSET (0..6), now : SUBSET (0..6)] /\ intlev' \in asked'.now
        /\ asked'.before = asked.before /\ asked.now \subseteq asked'.now
    BY <1>1, Remembers DEF IInv
  <1> QED
    BY <1>2, <1>3 DEF Fresh, Asked, Told, cpu, Delay

LEMMA DelayQuiet ==
  ASSUME Delay, doint_delay \/ NoDoint
  PROVE  UNCHANGED <<spcflags, ipl_pin>>
  BY DEF doint_delay, NoDoint, Delay, Compatible

LEMMA DointTold ==
  ASSUME Delay, doint, mode' = mode
  PROVE  Told
  BY DEF Delay, doint, Told

LEMMA DevicesFresh ==
  ASSUME IInv, IInv', Fresh, Remember, Delay,
         Request \/ CiaOn \/ Copper \/ DelayedDoint \/ Hsync \/ HostRequests
  PROVE  Fresh'
  <1>1. UNCHANGED <<mode, cpu>>
    BY DEF Request, CiaOn, Copper, DelayedDoint, Hsync, HostRequests, Chips
  <1>2. Told
    <2>1. CASE DelayedDoint
      BY <1>1, <2>1, DointTold DEF DelayedDoint, Chips
    <2>2. CASE ~DelayedDoint
      <3>1. doint_delay \/ NoDoint
        BY <2>2 DEF Request, CiaOn, Copper, Hsync, HostRequests, Chips, SafeInterruptSet,
           INTREQ, INTREQ_0
      <3> QED
        BY <3>1, DelayQuiet DEF Told
    <2> QED
      BY <2>1, <2>2
  <1> QED
    BY <1>1, <1>2, FreshAside

\* Entering: at the end of it everything has been looked at again.
LEMMA EnterFresh ==
  ASSUME IInv, IInv', Fresh, Remember, Delay, mode' = mode, NEW n \in 0..6, n \in Asked,
         intmask' = n, ipl_pin' = ipl_pin, pc' = "entered", pc # "stoptest" \/ n = ipl_pin,
         ipl_pin' > n => ipl_pin > intmask
  PROVE  Fresh'
  <1>1. ~NewInstruction
    BY DEF NewInstruction
  <1>2. ipl_pin \in 0..6 /\ intmask \in 0..7
    BY DEF IInv, TypeOK
  <1>3. /\ asked' \in [before : SUBSET (0..6), now : SUBSET (0..6)] /\ intlev' \in asked'.now
        /\ asked'.before = asked.before /\ asked.now \subseteq asked'.now
    BY <1>1, Remembers DEF IInv
  <1> QED
    BY <1>2, <1>3 DEF Fresh, Asked, Delay

LEMMA FinishFresh ==
  ASSUME IInv, IInv', Fresh, Remember, Delay, mode' = mode, Finish(spcflags),
         pc \in {"check", "resume", "finish"}, ~(ipl > intmask) \/ spcflags = {} \/ pc = "finish"
  PROVE  Fresh'
  <1>1. NewInstruction
    BY DEF NewInstruction, Finish
  <1>2. ipl_pin \in 0..6 /\ intmask \in 0..7 /\ ipl \in 0..6
    BY DEF IInv, TypeOK
  <1>3. /\ asked' \in [before : SUBSET (0..6), now : SUBSET (0..6)] /\ intlev' \in asked'.now
        /\ asked'.before = asked.now
    BY <1>1, Remembers DEF IInv
  <1>4. /\ ipl_pin' = ipl_pin /\ ipl' = ipl_pin /\ intmask' = intmask /\ pc' = "execute"
        /\ spcflags # {} => spcflags' # {}
    BY DEF Finish, Delay
  <1>5. ipl_pin > intmask => ipl_pin \in asked.now
    BY <1>2 DEF Fresh
  <1> QED
    BY <1>2, <1>3, <1>4, <1>5 DEF Fresh, Asked, Delay

LEMMA InterruptFresh ==
  ASSUME IInv, IInv', Fresh, Remember, Delay, mode' = mode, Interrupt, pc \in {"check", "resume"}
  PROVE  Fresh'
  <1>1. ipl \in 0..6 /\ intmask \in 0..7
    BY DEF IInv, TypeOK
  <1>2. CASE ipl > intmask
    <2>1. Enter(ipl, "finish")
      BY <1>2 DEF Interrupt
    <2>2. intmask' = ipl /\ ipl_pin' = ipl_pin /\ pc' = "entered"
      BY <2>1 DEF Enter
    <2>3. ipl \in Asked
      BY <1>2 DEF Fresh
    <2>4. ipl_pin' > ipl => ipl_pin > intmask
      BY <1>1, <1>2, <2>2 DEF IInv, TypeOK
    <2> QED
      BY <1>1, <2>2, <2>3, <2>4, EnterFresh
  <1>3. CASE ~(ipl > intmask)
    BY <1>3, FinishFresh DEF Interrupt
  <1> QED
    BY <1>2, <1>3

LEMMA EnteredFresh ==
  ASSUME IInv, IInv', Fresh, Remember, Delay, Entered
  PROVE  Fresh'
  <1>1. intlev \in 0..6 /\ intmask \in 0..7 /\ mode' = mode /\ pc = "entered" /\ Compatible
    BY IntlevType DEF IInv, TypeOK, Entered, Compatible, Delay, Enter
  <1>2. CASE intlev > intmask
    <2>1. intmask' = intlev /\ ipl_pin' = ipl_pin /\ pc' = "entered"
      BY <1>1, <1>2 DEF Entered, Enter
    <2>2. intlev \in Asked /\ (ipl_pin' > intlev => ipl_pin > intmask)
      BY <1>1, <1>2, <2>1 DEF Fresh, Asked, IInv, TypeOK
    <2> QED
      BY <1>1, <2>1, <2>2, EnterFresh
  <1>3. CASE ~(intlev > intmask)
    <2>1. UNCHANGED <<intreq, intena, intmask>> /\ doint /\ pc' = ret /\ ipl' = intlev
      BY <1>3 DEF Entered, Delay
    <2>2. intlev' = intlev /\ ipl_pin' = intlev
      BY <1>1, <2>1, Dointed DEF intlev, IInv
    <2>3. ~NewInstruction /\ ret \in {"finish", "resume"}
      BY <1>1, <2>1 DEF NewInstruction, IInv, TypeOK
    <2>4. asked' \in [before : SUBSET (0..6), now : SUBSET (0..6)] /\ intlev' \in asked'.now
      BY Remembers DEF IInv
    <2> QED
      BY <1>1, <1>3, <2>1, <2>2, <2>3, <2>4 DEF Fresh, Asked, Delay
  <1> QED
    BY <1>2, <1>3

\* The rest of an instruction: the level is sampled where its last access is.
LEMMA InstructionFresh ==
  ASSUME IInv, IInv', Fresh, Remember, Delay, WriteSR \/ WriteRegister \/ Fetch
  PROVE  Fresh'
  <1>1. ~NewInstruction /\ mode' = mode /\ pc \in {"execute", "fetch"} /\ pc' \in {"fetch", "check"}
    BY DEF WriteSR, WriteRegister, Fetch, NewInstruction
  <1>2. /\ asked' \in [before : SUBSET (0..6), now : SUBSET (0..6)] /\ intlev' \in asked'.now
        /\ asked'.before = asked.before /\ asked.now \subseteq asked'.now
    BY <1>1, Remembers DEF IInv
  <1>3. /\ ipl_pin \in 0..6 /\ ipl_pin' \in 0..6 /\ intmask \in 0..7 /\ intmask' \in 0..7
        /\ ipl' \in 0..6
    BY DEF IInv, TypeOK
  <1>4. \/ ipl_pin' = ipl_pin /\ spcflags' = spcflags /\ intmask' = intmask
        \/ ipl_pin' = intlev' /\ (ipl_pin' > intmask' => spcflags' # {})
    <2>1. CASE WriteSR
      <3>1. PICK m \in Masks : MakeFromSR(m)
        BY <2>1 DEF WriteSR
      <3>2. CASE m = intmask
        BY <3>1, <3>2 DEF MakeFromSR
      <3>3. CASE m # intmask
        <4>1. doint
          BY <3>1, <3>3 DEF MakeFromSR, Delay
        <4> QED
          BY <1>1, <4>1 DEF doint, Delay
      <3> QED
        BY <3>2, <3>3
    <2>2. CASE WriteRegister
      <3>1. doint_delay \/ NoDoint
        BY <2>2 DEF WriteRegister, Register, INTREQ, INTENA
      <3> QED
        BY <2>2, <3>1, DelayQuiet DEF WriteRegister
    <2>3. CASE Fetch
      BY <2>3 DEF Fetch, NoDoint
    <2> QED
      BY <2>1, <2>2, <2>3
  <1>5. pc' = "check" => ipl' = ipl_pin /\ ipl_pin' = ipl_pin
    <2>1. CASE WriteSR
      BY <2>1 DEF WriteSR
    <2>2. CASE WriteRegister
      <3>1. doint_delay \/ NoDoint
        BY <2>2 DEF WriteRegister, Register, INTREQ, INTENA
      <3> QED
        BY <2>2, <3>1, DelayQuiet DEF WriteRegister, Sampled
    <2>3. CASE Fetch
      BY <2>3 DEF Fetch, NoDoint, Sampled
    <2> QED
      BY <2>1, <2>2, <2>3
  <1>6. ipl_pin' > intmask' => ipl_pin' \in Asked' /\ spcflags' # {}
    <2>1. CASE ipl_pin' = ipl_pin /\ spcflags' = spcflags /\ intmask' = intmask
      BY <1>1, <1>2, <2>1 DEF Fresh, Asked
    <2>2. CASE ipl_pin' = intlev' /\ (ipl_pin' > intmask' => spcflags' # {})
      BY <1>2, <2>2 DEF Asked
    <2> QED
      BY <1>4, <2>1, <2>2
  <1> QED
    BY <1>1, <1>2, <1>3, <1>5, <1>6 DEF Fresh, Asked, Delay

LEMMA StopFresh ==
  ASSUME IInv, IInv', Fresh, Remember, Delay, StopPoll \/ StopTest \/ (Special /\ stopped)
  PROVE  Fresh'
  <1>1. /\ ipl_pin \in 0..6 /\ ipl_pin' \in 0..6 /\ intmask \in 0..7 /\ intmask' \in 0..7
        /\ intlev \in 0..6
    BY IntlevType DEF IInv, TypeOK
  <1>2. mode' = mode /\ mode = "delay"
    BY DEF StopPoll, StopTest, Special, Delay
  <1>3. CASE StopPoll \/ (Special /\ stopped)
    <2>1. ~NewInstruction /\ pc' \in {"stop", "stoptest"} /\ intmask' = intmask
      BY <1>2, <1>3 DEF StopPoll, Special, NewInstruction, Finish, Interrupt, Enter
    <2>2. Told
      <3>1. CASE StopPoll /\ uae_int_requested
        BY <1>2, <3>1, DointTold DEF StopPoll, CheckUae
      <3>2. CASE ~(StopPoll /\ uae_int_requested)
        BY <1>3, <3>2 DEF StopPoll, CheckUae, Special, NoDoint, Told
      <3> QED
        BY <3>1, <3>2
    <2>3. /\ asked' \in [before : SUBSET (0..6), now : SUBSET (0..6)] /\ intlev' \in asked'.now
          /\ asked'.before = asked.before /\ asked.now \subseteq asked'.now
      BY <2>1, Remembers DEF IInv
    <2>4. ipl_pin' > intmask' => ipl_pin' \in Asked' /\ spcflags' # {}
      BY <1>1, <1>3, <2>1, <2>2, <2>3 DEF Fresh, Asked, Told, StopPoll, Special
    <2> QED
      BY <2>1, <2>3, <2>4 DEF Fresh, Delay
  <1>4. CASE StopTest /\ ipl_pin > intmask
    <2>1. intmask' = ipl_pin /\ ipl_pin' = ipl_pin /\ pc' = "entered"
      BY <1>4 DEF StopTest, Delay
    <2>2. ipl_pin \in Asked
      BY <1>4 DEF Fresh
    <2> QED
      BY <1>1, <1>2, <2>1, <2>2, EnterFresh
  <1>5. CASE StopTest /\ ~(ipl_pin > intmask)
    <2>1. pc = "stoptest" /\ pc' = "stop" /\ intmask' = intmask /\ ipl_pin' = ipl_pin
      BY <1>5 DEF StopTest, Delay
    <2>2. asked' \in [before : SUBSET (0..6), now : SUBSET (0..6)] /\ intlev' \in asked'.now
      BY Remembers DEF IInv
    <2> QED
      BY <1>1, <1>5, <2>1, <2>2 DEF Fresh, Delay
  <1> QED
    BY <1>3, <1>4, <1>5

LEMMA CpuFresh ==
  ASSUME IInv, IInv', Fresh, Remember, Delay, CpuStep
  PROVE  Fresh'
  <1>1. CASE Poll
    BY <1>1 DEF Poll, Delay
  <1>2. CASE Special /\ ~stopped
    <2>1. pc = "check" /\ mode' = mode
      BY <1>2 DEF Special, Delay
    <2>2. CASE spcflags = {}
      <3>1. Finish(spcflags)
        BY <1>2, <2>2 DEF Special
      <3> QED
        BY <2>1, <2>2, <3>1, FinishFresh
    <2>3. CASE spcflags # {}
      BY <1>2, <2>1, <2>3, InterruptFresh DEF Special
    <2> QED
      BY <2>2, <2>3
  <1>3. CASE Resume
    BY <1>3, InterruptFresh DEF Resume
  <1>4. CASE End
    BY <1>4, FinishFresh DEF End
  <1>5. CASE Special /\ stopped
    BY <1>5, StopFresh
  <1> QED
    BY <1>1, <1>2, <1>3, <1>4, <1>5, EnteredFresh, InstructionFresh, StopFresh DEF CpuStep

FInv == IInv /\ Fresh

LEMMA FreshInit == ASSUME Init PROVE FInv
  <1>1. IInv
    BY InvInit
  <1>2. intlev = 0
    BY DEF Init, intlev, LevelOf, Master
  <1>3. asked \in [before : SUBSET (0..6), now : SUBSET (0..6)] /\ 0 \in asked.now
    BY DEF Init
  <1>4. ~(ipl_pin > intmask)
    BY <1>1 DEF IInv, TypeOK, Init
  <1> QED
    BY <1>1, <1>2, <1>3, <1>4 DEF Init, FInv, Fresh

LEMMA FreshStep == ASSUME FInv, [Next]_vars PROVE FInv'
  <1>1. IInv'
    BY InvStep, InvStutter DEF FInv
  <1>2. CASE UNCHANGED vars
    <2>1. /\ UNCHANGED <<mode, intreq, intena, spcflags, ipl_pin, asked>>
          /\ UNCHANGED <<intmask, ipl, pc>>
      BY <1>2 DEF vars, cpu
    <2> QED
      BY <1>1, <2>1 DEF FInv, Fresh, Asked, intlev, Delay
  <1>3. CASE Next
    <2>1. mode' = mode /\ Remember
      BY <1>3 DEF Next, Request, CiaOn, Copper, DelayedDoint, Hsync, HostRequests, Chips, CpuStep,
         WriteSR, WriteRegister, Fetch, Entered, Poll, Special, StopPoll, StopTest, Resume, End
    <2>2. CASE Delay
      BY <1>1, <1>3, <2>1, <2>2, DevicesFresh, CpuFresh DEF Next, FInv
    <2>3. CASE ~Delay
      <3>1. asked' = asked
        BY <2>1, <2>3 DEF Remember
      <3> QED
        BY <1>1, <2>1, <2>3, <3>1 DEF FInv, Fresh, Delay
    <2> QED
      BY <2>2, <2>3
  <1> QED
    BY <1>2, <1>3

\* In mode "delay", where the level goes to the CPU by way of two latches, an interrupt that is
\* entered was asked for in this instruction or in the one before.
THEOREM NoneStale == Spec => []NotStale
  <1>1. Init => FInv
    BY FreshInit
  <1>2. FInv /\ [Next]_vars => FInv'
    BY FreshStep
  <1>3. FInv => NotStale
    BY DEF FInv, Fresh, NotStale, Asked
  <1> QED
    BY <1>1, <1>2, <1>3, PTL DEF Spec
=============================================================================
