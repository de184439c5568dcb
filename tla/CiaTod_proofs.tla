---------------------------- MODULE CiaTod_proofs ----------------------------
(***************************************************************************)
(* CIA-B's line counter, for bytes, lines, cycles of a color clock and a   *)
(* place of the pulse of any size: each line counts once, what is read is  *)
(* current, and no alarm is passed unannounced.                            *)
(***************************************************************************)
EXTENDS CiaTod, TLAPS

-----------------------------------------------------------------------------
(* Arithmetic.                                                             *)

Values == Byte * Byte * Byte

LEMMA Sizes ==
  /\ Byte \in Nat /\ Byte > 1 /\ Values \in Nat /\ Values > 1
  /\ CYCLE_UNIT \in Nat /\ CYCLE_UNIT > 0
  /\ MaxHpos \in Nat /\ Hoffset \in Nat /\ Hoffset > 0 /\ Hoffset < MaxHpos
  <1>1. /\ Byte \in Nat /\ Byte > 1 /\ CYCLE_UNIT \in Nat /\ CYCLE_UNIT > 0
        /\ MaxHpos \in Nat /\ Hoffset \in Nat /\ Hoffset > 0 /\ Hoffset < MaxHpos
    BY TodAssumption DEF TodAssumption
  <1>2. Byte * Byte \in Nat /\ Byte * Byte >= Byte
    BY <1>1
  <1>3. Values \in Nat /\ Values >= Byte * Byte
    BY <1>1, <1>2 DEF Values
  <1> QED
    BY <1>1, <1>2, <1>3

LEMMA Divides ==
  ASSUME NEW a \in Nat, NEW m \in Nat, m > 0
  PROVE  /\ a \div m \in Nat /\ a % m \in Nat /\ a % m < m
         /\ a % m = a - m * (a \div m)
  BY SMT

LEMMA SuccIs ==
  ASSUME NEW t \in Tods
  PROVE  Succ(t) \in Tods /\ Succ(t) # t
  <1>1. t \in Nat /\ t < Values /\ Values \in Nat /\ Values > 1
    BY Sizes DEF Tods, Values
  <1>2. \A n \in Nat : n > 1 /\ t < n => (t + 1) % n = IF t + 1 < n THEN t + 1 ELSE 0
    <2>1. SUFFICES ASSUME NEW n \in Nat, n > 1, t < n
                   PROVE  (t + 1) % n = IF t + 1 < n THEN t + 1 ELSE 0
      OBVIOUS
    <2>2. CASE t + 1 < n
      BY <1>1, <2>1, <2>2, SMT
    <2>3. CASE t + 1 = n
      BY <1>1, <2>1, <2>3, SMT
    <2> QED
      BY <1>1, <2>1, <2>2, <2>3
  <1>3. Succ(t) = IF t + 1 < Values THEN t + 1 ELSE 0
    BY <1>1, <1>2 DEF Succ, Values
  <1>4. Tods = 0..(Values - 1)
    BY DEF Tods, Values
  <1> QED
    BY <1>1, <1>3, <1>4

LEMMA ByteSet ==
  ASSUME NEW t \in Tods, NEW k \in 0..2, NEW b \in 0..(Byte - 1)
  PROVE  SetByte(t, k, b) \in Tods
  <1> DEFINE w == Weight(k)
             h == t \div w
             q == h \div Byte
             d == h % Byte
             r == t % w
             rest == IF k = 0 THEN Byte * Byte ELSE IF k = 1 THEN Byte ELSE 1
  <1>1. /\ w \in Nat /\ w > 0 /\ rest \in Nat /\ t \in Nat /\ t < Values
        /\ b \in Nat /\ b + 1 <= Byte
    BY Sizes DEF Weight, Tods, Values
  <1>2. (w * Byte) * rest = Values
    BY Sizes DEF Weight, Values
  <1> HIDE DEF w, rest
  <1>3. h \in Nat /\ r \in Nat /\ r < w /\ r = t - w * h
    BY <1>1, Divides
  <1> HIDE DEF h, r
  <1>4. q \in Nat /\ d \in Nat /\ d < Byte /\ d = h - Byte * q
    BY <1>3, Sizes, Divides
  <1>5. SetByte(t, k, b) = t + (b - d) * w
    BY DEF SetByte, ByteOf, w, h, d
  <1> HIDE DEF q, d
  <1>6. t + (b - d) * w = (w * Byte) * q + b * w + r
    BY <1>1, <1>3, <1>4, Sizes
  <1>7. (w * Byte) * q <= t
    <2>1. w * h = w * d + (w * Byte) * q /\ w * d \in Nat
      BY <1>1, <1>3, <1>4, Sizes
    <2> QED
      BY <2>1, <1>1, <1>3, <1>4, Sizes
  <1>8. q < rest
    <2>1. q >= rest => (w * Byte) * q >= (w * Byte) * rest
      BY <1>1, <1>4, Sizes
    <2> QED
      BY <2>1, <1>1, <1>2, <1>4, <1>7, Sizes
  <1>9. (w * Byte) * (q + 1) <= Values
    BY <1>1, <1>2, <1>4, <1>8, Sizes
  <1>10. b * w + r < w * Byte /\ b * w + r \in Nat
    <2>1. (b + 1) * w <= w * Byte /\ (b + 1) * w = b * w + w /\ b * w \in Nat
      BY <1>1, Sizes
    <2> QED
      BY <2>1, <1>1, <1>3, Sizes
  <1>11. (w * Byte) * (q + 1) = (w * Byte) * q + w * Byte /\ (w * Byte) * q \in Nat
    BY <1>1, <1>4, Sizes
  <1>12. SetByte(t, k, b) \in 0..(Values - 1)
    <2> DEFINE above == (w * Byte) * q
               below == b * w + r
               one == w * Byte
    <2>1. SetByte(t, k, b) = above + below
      BY <1>1, <1>3, <1>4, <1>5, <1>6, <1>10, <1>11, Sizes
    <2>2. /\ above \in Nat /\ below \in Nat /\ one \in Nat
          /\ below < one /\ above + one <= Values
      BY <1>1, <1>9, <1>10, <1>11, Sizes
    <2> HIDE DEF above, below, one
    <2> QED
      BY <2>1, <2>2, Sizes
  <1> QED
    BY <1>12 DEF Tods, Values

\* The color clock that it is.
LEMMA Clock ==
  ASSUME NEW c \in Nat, c < LineCycles
  PROVE  LET h == c \div CYCLE_UNIT
         IN  h \in Nat /\ CYCLE_UNIT * h <= c /\ c + 1 <= CYCLE_UNIT * (h + 1)
  <1> DEFINE h == c \div CYCLE_UNIT
  <1>1. /\ h \in Nat /\ c % CYCLE_UNIT \in Nat /\ c % CYCLE_UNIT < CYCLE_UNIT
        /\ c % CYCLE_UNIT = c - CYCLE_UNIT * h
    BY Sizes, Divides
  <1> HIDE DEF h
  <1>2. CYCLE_UNIT * (h + 1) = CYCLE_UNIT * h + CYCLE_UNIT
    BY <1>1, Sizes
  <1>3. h \in Nat /\ CYCLE_UNIT * h <= c /\ c + 1 <= CYCLE_UNIT * (h + 1)
    BY <1>1, <1>2, Sizes
  <1> QED
    BY <1>3 DEF h

\* The pulse comes within the line.
PulseAt == Hoffset * CYCLE_UNIT
LEMMA PulseInLine ==
  LineCycles \in Nat /\ PulseAt \in Nat /\ PulseAt < LineCycles /\ Hoffset <= PulseAt
  <1>1. (Hoffset + 1) * CYCLE_UNIT <= MaxHpos * CYCLE_UNIT
    BY Sizes
  <1>2. /\ (Hoffset + 1) * CYCLE_UNIT = Hoffset * CYCLE_UNIT + CYCLE_UNIT
        /\ Hoffset * CYCLE_UNIT >= Hoffset
    BY Sizes
  <1> QED
    BY <1>1, <1>2, Sizes DEF LineCycles, PulseAt

\* Before the pulse its event is set to a time not later than it; at hpos of Hoffset it is over.
LEMMA PulseAhead ==
  ASSUME NEW c \in Nat, c < LineCycles
  PROVE  LET h == c \div CYCLE_UNIT
         IN  IF h >= Hoffset THEN PulseAt <= c ELSE c + (Hoffset - h) \in (c + 1)..PulseAt
  <1> DEFINE h == c \div CYCLE_UNIT
  <1>1. h \in Nat /\ CYCLE_UNIT * h <= c /\ c + 1 <= CYCLE_UNIT * (h + 1)
    BY Clock
  <1> HIDE DEF h
  <1>2. h >= Hoffset => CYCLE_UNIT * h >= Hoffset * CYCLE_UNIT
    BY <1>1, Sizes
  <1>3. CASE h >= Hoffset
    BY <1>1, <1>2, <1>3, Sizes DEF PulseAt, h
  <1>4. CASE h < Hoffset
    <2> DEFINE n == Hoffset - (h + 1)
    <2>1. n \in Nat /\ Hoffset = h + 1 + n
      BY <1>1, <1>4, Sizes
    <2> HIDE DEF n
    <2>2. Hoffset * CYCLE_UNIT = CYCLE_UNIT * (h + 1) + CYCLE_UNIT * n /\ CYCLE_UNIT * n >= n
      BY <1>1, <2>1, Sizes
    <2>3. c + (Hoffset - h) <= Hoffset * CYCLE_UNIT /\ CYCLE_UNIT * (h + 1) \in Nat
      BY <1>1, <2>1, <2>2, Sizes
    <2> QED
      BY <1>1, <1>4, <2>3, Sizes, PulseInLine DEF PulseAt, h
  <1> QED
    BY <1>1, <1>3, <1>4, Sizes

-----------------------------------------------------------------------------
(* The invariant.                                                          *)

\* The counter t, the state st of its pulse and the events ev at time c of a line.  A pulse with
\* an event has it ahead, within the line; one that is put off will not reach the alarm; and
\* TOD is what is expected, or will be with the pulse.
Sound(t, st, ev, c) ==
  /\ t \in Tods /\ st \in 0..3
  /\ \A e \in ev : ev = {e} /\ e \in (c + 1)..PulseAt
  /\ ev # {} <=> st = 2
  /\ st = 1 => ciabtodon /\ ~checkalarm(Succ(t), ciabalarm, TRUE)
  /\ expected # None => /\ ciabtodon /\ st # 0
                        /\ expected = IF st = 3 THEN t ELSE Succ(t)

IInv ==
  /\ ciabalarm \in Tods /\ ciabtol \in Tods /\ expected \in Tods \union {None}
  /\ clk \in Nat /\ clk < LineCycles
  /\ Sound(ciabtod, ciab_tod_event_state, events, clk)

LEMMA Typed == IInv => TypeOK
  <1> SUFFICES ASSUME IInv PROVE TypeOK
    OBVIOUS
  <1>1. clk \in 0..(LineCycles - 1) /\ \A e \in events : e \in clk..(LineCycles - 1)
    BY PulseInLine DEF IInv, Sound
  <1> QED
    BY <1>1 DEF IInv, Sound, TypeOK

LEMMA ZeroIn == 0 \in Tods /\ None \notin Tods
  BY Sizes DEF Tods, Values, None

LEMMA Starts == Init => IInv
  BY Sizes, PulseInLine, ZeroIn DEF Init, IInv, Sound

\* The pulse is counted, with t the new counter and i whether the alarm's flag is up.
Counts(t, i, irq) ==
  IF ciabtodon THEN t = Succ(ciabtod) /\ (irq /\ Alarm(t, ciabalarm, TRUE) => i) ELSE t = ciabtod

LEMMA IncIs ==
  ASSUME NEW st, NEW ev, NEW irq \in BOOLEAN
  PROVE  \E t, i : /\ CIAB_tod_inc(Tod(ciabtod, icr, st, ev), irq) = Tod(t, i, 3, ev)
                   /\ Counts(t, i, irq)
  <1>1. CASE ciabtodon
    <2> DEFINE t == Succ(ciabtod)
               i == icr \/ (irq /\ Alarm(t, ciabalarm, TRUE))
    <2>1. CIAB_tod_inc(Tod(ciabtod, icr, st, ev), irq) = Tod(t, i, 3, ev)
      BY <1>1 DEF CIAB_tod_inc, Tod
    <2>2. Counts(t, i, irq)
      BY <1>1 DEF Counts
    <2> QED
      BY <2>1, <2>2
  <1>2. CASE ~ciabtodon
    <2>1. CIAB_tod_inc(Tod(ciabtod, icr, st, ev), irq) = Tod(ciabtod, icr, 3, ev)
      BY <1>2 DEF CIAB_tod_inc, Tod
    <2>2. Counts(ciabtod, icr, irq)
      BY <1>2 DEF Counts
    <2> QED
      BY <2>1, <2>2
  <1> QED
    BY <1>1, <1>2

LEMMA CountedSound ==
  ASSUME IInv, ciab_tod_event_state \in 1..2, NEW t, NEW i, NEW irq,
         Counts(t, i, irq), NEW c \in Nat
  PROVE  Sound(t, 3, {}, c)
  <1>1. t \in Tods /\ (ciabtodon => t = Succ(ciabtod))
    BY SuccIs DEF IInv, Sound, Counts
  <1>2. expected # None => ciabtodon /\ expected = Succ(ciabtod)
    BY DEF IInv, Sound
  <1> QED
    BY <1>1, <1>2 DEF Sound

\* What looking at TOD makes of it: afterwards no pulse is put off, and one that is over is counted.
Looked(t, i, st, ev) ==
  /\ Sound(t, st, ev, clk) /\ st # 1
  /\ expected # None /\ hpos >= Hoffset => t = expected
  /\ t = ciabtod \/ (ciabtodon /\ t = Succ(ciabtod) /\ (Alarm(t, ciabalarm, TRUE) => i))

LEMMA CheckIs ==
  ASSUME IInv
  PROVE  \E t, i, st, ev : CIAB_tod_check(State) = Tod(t, i, st, ev) /\ Looked(t, i, st, ev)
  <1> DEFINE st == ciab_tod_event_state
  <1>1. IF hpos >= Hoffset THEN PulseAt <= clk ELSE clk + (Hoffset - hpos) \in (clk + 1)..PulseAt
    BY PulseAhead DEF IInv, hpos
  <1>2. State.state = st /\ State = Tod(ciabtod, icr, st, events)
    BY DEF State, Tod
  <1>3. CASE st # 1 \/ ~ciabtodon
    <2>1. CIAB_tod_check(State) = Tod(ciabtod, icr, st, events)
      BY <1>2, <1>3 DEF CIAB_tod_check
    <2>2. st # 1
      BY <1>3 DEF IInv, Sound
    <2>3. hpos >= Hoffset => st # 2
      <3>1. SUFFICES ASSUME hpos >= Hoffset, st = 2 PROVE FALSE
        OBVIOUS
      <3>2. PICK e \in events : e \in (clk + 1)..PulseAt
        BY <3>1 DEF IInv, Sound
      <3> QED
        BY <3>1, <3>2, <1>1, PulseInLine DEF IInv
    <2>4. Sound(ciabtod, st, events, clk) /\ st \in 0..3
      BY DEF IInv, Sound
    <2>5. expected # None /\ hpos >= Hoffset => ciabtod = expected
      BY <2>2, <2>3, <2>4 DEF Sound
    <2>6. Looked(ciabtod, icr, st, events)
      BY <2>2, <2>4, <2>5 DEF Looked
    <2> QED
      BY <2>1, <2>6
  <1>4. CASE st = 1 /\ ciabtodon /\ (hpos >= Hoffset \/ fastest)
    <2>1. CIAB_tod_check(State) = CIAB_tod_inc(State, TRUE)
      BY <1>2, <1>4 DEF CIAB_tod_check
    <2>2. PICK t, i : CIAB_tod_inc(State, TRUE) = Tod(t, i, 3, events) /\ Counts(t, i, TRUE)
      BY <1>2, IncIs
    <2>3. events = {} /\ clk \in Nat
      BY <1>4 DEF IInv, Sound
    <2>4. Sound(t, 3, {}, clk)
      <3>1. ciab_tod_event_state \in 1..2
        BY <1>4
      <3> QED
        BY <3>1, <2>2, <2>3, CountedSound
    <2>5. expected # None => t = expected
      BY <2>4 DEF Sound
    <2>6. ciabtodon /\ t = Succ(ciabtod) /\ (Alarm(t, ciabalarm, TRUE) => i)
      BY <1>4, <2>2, Zenon DEF Counts
    <2>7. Looked(t, i, 3, events)
      <3>1. Sound(t, 3, events, clk) /\ 3 # 1
        BY <2>3, <2>4
      <3> QED
        BY <3>1, <2>5, <2>6, Zenon DEF Looked
    <2> QED
      BY <2>1, <2>2, <2>7
  <1>5. CASE st = 1 /\ ciabtodon /\ ~(hpos >= Hoffset) /\ ~fastest
    <2> DEFINE at == clk + (Hoffset - hpos)
    <2>1. events = {}
      BY <1>5 DEF IInv, Sound
    <2>2. CIAB_tod_check(State) = Tod(ciabtod, icr, 2, {at})
      <3>1. CIAB_tod_check(State) = Tod(State.tod, State.icr, 2, State.events \union {at})
        BY <1>2, <1>5 DEF CIAB_tod_check
      <3>2. State.tod = ciabtod /\ State.icr = icr /\ State.events = {}
        BY <2>1 DEF State, Tod
      <3> QED
        BY <3>1, <3>2
    <2>3. at \in (clk + 1)..PulseAt
      BY <1>1, <1>5
    <2> HIDE DEF at
    <2>4. Looked(ciabtod, icr, 2, {at})
      BY <1>5, <2>3 DEF Looked, IInv, Sound
    <2> QED
      BY <2>2, <2>4
  <1> QED
    BY <1>3, <1>4, <1>5

Late(t) ==
  /\ t \in Tods /\ (expected # None => t = expected)
  /\ t = ciabtod \/ (ciabtodon /\ t = Succ(ciabtod) /\ t # ciabalarm)

\* A pulse at the end of a line has no event; counted there, it does not reach the alarm.
LEMMA LateIs ==
  ASSUME IInv, clk + 1 = LineCycles
  PROVE  /\ events = {} /\ ciab_tod_event_state # 2
         /\ \E t, i : CountLate(State) = Tod(t, i, 0, {}) /\ Late(t)
  <1> DEFINE st == ciab_tod_event_state
  <1>1. events = {} /\ st # 2
    BY PulseInLine DEF IInv, Sound
  <1>2. State = Tod(ciabtod, icr, st, {}) /\ State.state = st
    BY <1>1 DEF State, Tod
  <1>3. CASE st = 1
    <2>1. PICK t, i : CIAB_tod_inc(State, FALSE) = Tod(t, i, 3, {}) /\ Counts(t, i, FALSE)
      BY <1>2, IncIs
    <2>2. CountLate(State) = Tod(t, i, 0, {})
      <3>1. LET c == Tod(t, i, 3, {}) IN CountLate(State) = Tod(c.tod, c.icr, 0, c.events)
        BY <1>2, <1>3, <2>1 DEF CountLate
      <3> QED
        BY <3>1 DEF Tod
    <2>3. ciabtodon /\ ~checkalarm(Succ(ciabtod), ciabalarm, TRUE)
      BY <1>3 DEF IInv, Sound
    <2>4. t = Succ(ciabtod)
      BY <2>1, <2>3 DEF Counts
    <2>5. t \in Tods /\ t # ciabalarm
      BY <2>3, <2>4, SuccIs DEF IInv, Sound, checkalarm
    <2>6. expected # None => t = expected
      BY <1>3, <2>4 DEF IInv, Sound
    <2> QED
      BY <1>1, <2>2, <2>3, <2>4, <2>5, <2>6 DEF Late
  <1>4. CASE st # 1
    <2>1. CountLate(State) = Tod(ciabtod, icr, 0, {})
      BY <1>2, <1>4 DEF CountLate, Tod
    <2>2. ciabtod \in Tods /\ (expected # None => ciabtod = expected)
      BY <1>1, <1>4 DEF IInv, Sound
    <2> QED
      BY <1>1, <2>1, <2>2 DEF Late
  <1> QED
    BY <1>3, <1>4

LEMMA BecomesIs ==
  ASSUME NEW t, NEW i, NEW st, NEW ev, Becomes(Tod(t, i, st, ev))
  PROVE  ciabtod' = t /\ icr' = i /\ ciab_tod_event_state' = st /\ events' = ev
  BY DEF Becomes, Tod

\* A counter that is sound stays so, unless an alarm is moved under a pulse that is put off.
LEMMA StaysSound ==
  ASSUME NEW t, NEW st, NEW ev, NEW c, Sound(t, st, ev, c),
         ciabtod' = t, ciab_tod_event_state' = st, events' = ev, clk' = c,
         UNCHANGED <<ciabtodon, prefs, expected>>, ciabalarm' = ciabalarm \/ st # 1
  PROVE  Sound(ciabtod, ciab_tod_event_state, events, clk)'
  <1>1. st = 1 => (checkalarm(Succ(ciabtod), ciabalarm, TRUE)'
                    <=> checkalarm(Succ(t), ciabalarm, TRUE))
    BY DEF checkalarm, prefs
  <1>2. /\ t \in Tods /\ st \in 0..3
        /\ \A e \in ev : ev = {e} /\ e \in (c + 1)..PulseAt
        /\ ev # {} <=> st = 2
        /\ st = 1 => ciabtodon /\ ~checkalarm(Succ(ciabtod), ciabalarm, TRUE)'
    BY <1>1 DEF Sound
  <1>3. expected # None => ciabtodon /\ st # 0 /\ expected = IF st = 3 THEN t ELSE Succ(t)
    BY DEF Sound
  <1> QED
    BY <1>2, <1>3 DEF Sound, PulseAt

-----------------------------------------------------------------------------
(* Each action preserves it.                                               *)

LEMMA CycleKeeps == ASSUME IInv, Cycle PROVE IInv'
  <1>1. /\ clk + 1 < LineCycles /\ clk' = clk + 1 /\ clk' \in Nat
        /\ UNCHANGED <<ciabalarm, ciabtodon, ciabtol, prefs, expected>>
    BY DEF Cycle, IInv, latch
  <1>2. State = Tod(ciabtod, icr, ciab_tod_event_state, events)
        /\ State.events = events /\ State.state = ciab_tod_event_state
        /\ State.tod = ciabtod /\ State.icr = icr
    BY DEF State, Tod
  <1>3. CASE clk + 1 \in events
    <2>1. ciab_tod_event_state = 2 /\ events \ {clk + 1} = {}
      BY <1>3 DEF IInv, Sound
    <2>2. PICK t, i : /\ CIAB_tod_inc(Tod(ciabtod, icr, 2, {}), TRUE) = Tod(t, i, 3, {})
                      /\ Counts(t, i, TRUE)
      BY IncIs
    <2>3. Becomes(Tod(t, i, 3, {}))
      BY <1>2, <1>3, <2>1, <2>2 DEF Cycle, CIAB_tod_inc_event
    <2>4. ciabtod' = t /\ ciab_tod_event_state' = 3 /\ events' = {}
      BY <2>3, BecomesIs
    <2>5. Sound(t, 3, {}, clk')
      <3>1. ciab_tod_event_state \in 1..2
        BY <2>1
      <3> QED
        BY <1>1, <2>2, <3>1, CountedSound
    <2>6. Sound(ciabtod, ciab_tod_event_state, events, clk)'
      BY <1>1, <2>4, <2>5, StaysSound
    <2> QED
      BY <1>1, <2>6 DEF IInv, LineCycles
  <1>4. CASE clk + 1 \notin events
    <2>1. events \ {clk + 1} = events
      BY <1>4
    <2>2. Becomes(Tod(ciabtod, icr, ciab_tod_event_state, events))
      BY <1>2, <1>4, <2>1 DEF Cycle, CIAB_tod_inc_event
    <2>3. UNCHANGED <<ciabtod, ciab_tod_event_state, events>>
      BY <2>2, BecomesIs
    <2>4. \A e \in events : e \in (clk' + 1)..PulseAt
      BY <1>1, <1>4, PulseInLine DEF IInv, Sound
    <2>5. Sound(ciabtod, ciab_tod_event_state, events, clk')
      BY <2>4 DEF IInv, Sound
    <2>6. Sound(ciabtod, ciab_tod_event_state, events, clk)'
      BY <1>1, <2>3, <2>5, StaysSound
    <2> QED
      BY <1>1, <2>6 DEF IInv, LineCycles
  <1> QED
    BY <1>3, <1>4

LEMMA HsyncKeeps == ASSUME IInv, NEW ciahsync \in BOOLEAN, Hsync(ciahsync) PROVE IInv'
  <1>1. /\ clk + 1 = LineCycles /\ clk' = 0 /\ 0 \in Nat /\ 0 < LineCycles
        /\ UNCHANGED <<ciabalarm, ciabtodon, ciabtol, prefs>>
    BY PulseInLine DEF Hsync, IInv, latch
  <1>2. CASE ~ciahsync
    <2>1. UNCHANGED <<ciabtod, ciab_tod_event_state, events, expected>>
      BY <1>2 DEF Hsync
    <2>2. Sound(ciabtod, ciab_tod_event_state, events, 0)
      BY <1>1, LateIs DEF IInv, Sound
    <2>3. Sound(ciabtod, ciab_tod_event_state, events, clk)'
      BY <1>1, <2>1, <2>2, StaysSound
    <2> QED
      BY <1>1, <2>1, <2>3 DEF IInv, LineCycles
  <1>3. CASE ciahsync
    <2>0. PICK t, i : CountLate(State) = Tod(t, i, 0, {}) /\ Late(t)
      BY <1>1, LateIs, Zenon
    <2>1. CountLate(State) = Tod(t, i, 0, {}) /\ t \in Tods
      BY <2>0 DEF Late
    <2> DEFINE s == CIAB_tod_handler(Tod(t, i, 0, {}))
    <2>2. Becomes(s) /\ expected' = IF ciabtodon THEN Succ(s.tod) ELSE None
      BY <1>3, <2>1 DEF Hsync
    <2>3. CASE ~ciabtodon
      <3>1. s = Tod(t, i, 0, {})
        BY <2>3 DEF CIAB_tod_handler
      <3>2. ciabtod' = t /\ ciab_tod_event_state' = 0 /\ events' = {} /\ expected' = None
        BY <2>2, <2>3, <3>1, BecomesIs
      <3> QED
        BY <1>1, <2>1, <3>2 DEF IInv, LineCycles, Sound
    <2>4. CASE ciabtodon /\ ~checkalarm(Succ(t), ciabalarm, TRUE)
      <3>1. s = Tod(t, i, 1, {}) /\ s.tod = t
        BY <2>4 DEF CIAB_tod_handler, Tod
      <3>2. ciabtod' = t /\ ciab_tod_event_state' = 1 /\ events' = {} /\ expected' = Succ(t)
        BY <2>2, <2>4, <3>1, BecomesIs
      <3>3. ~checkalarm(Succ(ciabtod), ciabalarm, TRUE)'
        BY <1>1, <2>4, <3>2 DEF checkalarm, prefs
      <3>4. Succ(t) \in Tods
        BY <2>1, SuccIs
      <3>5. Sound(ciabtod, ciab_tod_event_state, events, clk)'
        <4>1. ciabtodon' /\ ciabtod' \in Tods
          BY <1>1, <2>1, <2>4, <3>2
        <4>2. /\ ciab_tod_event_state' \in 0..3 /\ (events' # {} <=> ciab_tod_event_state' = 2)
              /\ \A e \in events' : events' = {e} /\ e \in (clk' + 1)..PulseAt'
          BY <3>2
        <4>3. /\ ciab_tod_event_state' # 0
              /\ expected' = IF ciab_tod_event_state' = 3 THEN ciabtod' ELSE Succ(ciabtod')
          BY <3>2
        <4> QED
          BY <4>1, <4>2, <4>3, <3>3, Zenon DEF Sound
      <3> QED
        BY <1>1, <3>2, <3>4, <3>5 DEF IInv, LineCycles
    <2>5. CASE ciabtodon /\ checkalarm(Succ(t), ciabalarm, TRUE)
      <3>1. s = Tod(t, i, 2, {Hoffset}) /\ s.tod = t
        BY <2>5 DEF CIAB_tod_handler, Tod
      <3>2. ciabtod' = t /\ ciab_tod_event_state' = 2 /\ events' = {Hoffset} /\ expected' = Succ(t)
        BY <2>2, <2>5, <3>1, BecomesIs
      <3>3. Succ(t) \in Tods
        BY <2>1, SuccIs
      <3>4. Hoffset \in (clk' + 1)..PulseAt' /\ PulseAt' = PulseAt
        BY <1>1, Sizes, PulseInLine DEF PulseAt
      <3>5. Sound(ciabtod, ciab_tod_event_state, events, clk)'
        BY <1>1, <2>1, <2>5, <3>2, <3>4 DEF Sound
      <3> QED
        BY <1>1, <3>2, <3>3, <3>5 DEF IInv, LineCycles
    <2> QED
      BY <2>3, <2>4, <2>5
  <1> QED
    BY <1>2, <1>3

\* What a register access leaves, after the look at TOD.
LEMMA LookKeeps ==
  ASSUME IInv, Becomes(CIAB_tod_check(State)), UNCHANGED <<ciabtodon, clk, prefs, expected>>,
         ciabalarm' \in Tods, ciabtol' \in Tods
  PROVE  /\ IInv'
         /\ expected # None /\ hpos >= Hoffset => ciabtod' = expected
         /\ ciabtod' = ciabtod \/ (ciabtodon /\ ciabtod' = Succ(ciabtod)
                                   /\ (Alarm(ciabtod', ciabalarm, TRUE) => icr'))
  <1>1. PICK t, i, st, ev : CIAB_tod_check(State) = Tod(t, i, st, ev) /\ Looked(t, i, st, ev)
    BY CheckIs
  <1>2. ciabtod' = t /\ icr' = i /\ ciab_tod_event_state' = st /\ events' = ev
    BY <1>1, BecomesIs
  <1>3. Sound(t, st, ev, clk) /\ st # 1
    BY <1>1 DEF Looked
  <1>4. Sound(ciabtod, ciab_tod_event_state, events, clk)'
    BY <1>2, <1>3, StaysSound
  <1>5. IInv'
    BY <1>4 DEF IInv, LineCycles
  <1>6. expected # None /\ hpos >= Hoffset => ciabtod' = expected
    BY <1>1, <1>2 DEF Looked
  <1>7. \/ ciabtod' = ciabtod
        \/ ciabtodon /\ ciabtod' = Succ(ciabtod) /\ (Alarm(ciabtod', ciabalarm, TRUE) => icr')
    BY <1>1, <1>2, Zenon DEF Looked
  <1> QED
    BY <1>5, <1>6, <1>7

LEMMA ReadTodKeeps == ASSUME IInv, NEW k \in 0..2, NEW alarmbit, ReadTod(k, alarmbit) PROVE IInv'
  <1>1. /\ Becomes(CIAB_tod_check(State))
        /\ UNCHANGED <<ciabalarm, ciabtodon, clk, rom, prefs, expected>>
    BY DEF ReadTod
  <1>2. PICK t, i, st, ev : CIAB_tod_check(State) = Tod(t, i, st, ev) /\ Looked(t, i, st, ev)
    BY CheckIs
  <1>3. ciabtod' \in Tods
    BY <1>1, <1>2, BecomesIs DEF Looked, Sound
  <1>4. ciabtol' \in Tods
    BY <1>3 DEF ReadTod, IInv, latch
  <1> QED
    BY <1>1, <1>4, LookKeeps DEF IInv

LEMMA WriteTodKeeps ==
  ASSUME IInv, NEW k \in 0..2, NEW b \in 0..(Byte - 1), WriteTod(k, b)
  PROVE  IInv' /\ expected' = None
  <1>1. PICK t, i, st, ev : CIAB_tod_check(State) = Tod(t, i, st, ev) /\ Looked(t, i, st, ev)
    BY CheckIs
  <1> DEFINE w == SetByte(t, k, b)
             f == i \/ (k = 0 /\ Alarm(w, ciabalarm, FALSE))
  <1>2. t \in Tods /\ st \in 0..3 /\ st # 1
    BY <1>1 DEF Looked, Sound
  <1>3. w \in Tods
    BY <1>2, ByteSet
  <1>4. Becomes(Tod(w, f, st, ev))
    <2>1. /\ Tod(t, i, st, ev).tod = t /\ Tod(t, i, st, ev).icr = i
          /\ Tod(t, i, st, ev).state = st /\ Tod(t, i, st, ev).events = ev
      BY DEF Tod
    <2>2. Becomes(Tod(w, Tod(t, i, st, ev).icr \/ (k = 0 /\ Alarm(w, ciabalarm, FALSE)), st, ev))
      BY <1>1, <2>1 DEF WriteTod
    <2> QED
      BY <2>1, <2>2
  <1> HIDE DEF w, f
  <1>5. ciabtod' = w /\ ciab_tod_event_state' = st /\ events' = ev
    BY <1>4, BecomesIs
  <1>6. expected' = None /\ UNCHANGED <<ciabalarm, ciabtol, clk>>
    BY DEF WriteTod, latch
  <1>7. \A e \in ev : ev = {e} /\ e \in (clk + 1)..PulseAt
    BY <1>1 DEF Looked, Sound
  <1>8. ev # {} <=> st = 2
    BY <1>1 DEF Looked, Sound
  <1>9. Sound(ciabtod, ciab_tod_event_state, events, clk)'
    BY <1>2, <1>3, <1>5, <1>6, <1>7, <1>8 DEF Sound, PulseAt
  <1> QED
    BY <1>6, <1>9 DEF IInv, LineCycles

LEMMA WriteAlarmKeeps ==
  ASSUME IInv, NEW k \in 0..2, NEW b \in 0..(Byte - 1), WriteAlarm(k, b) PROVE IInv'
  <1>1. /\ Becomes(CIAB_tod_check(State))
        /\ UNCHANGED <<ciabtodon, clk, prefs, expected>> /\ ciabtol' = ciabtol
        /\ ciabalarm' = SetByte(ciabalarm, k, b)
    BY DEF WriteAlarm, latch
  <1>2. ciabalarm' \in Tods /\ ciabtol' \in Tods
    BY <1>1, ByteSet DEF IInv
  <1> QED
    BY <1>1, <1>2, LookKeeps

\* Steps that leave the counter alone.
LEMMA IdleKeeps ==
  ASSUME IInv, UNCHANGED <<ciabtod, ciabalarm, ciabtodon, latch, ciab_tod_event_state, events,
                           clk, prefs, expected>>
  PROVE  IInv'
  <1>1. Sound(ciabtod, ciab_tod_event_state, events, clk)'
    BY StaysSound DEF IInv
  <1> QED
    BY <1>1 DEF IInv, LineCycles, latch

LEMMA ResetKeeps == ASSUME Reset PROVE IInv' /\ ciabtod' = 0 /\ expected' = None
  BY Sizes, PulseInLine, ZeroIn DEF Reset, IInv, Sound, LineCycles

LEMMA StepKeeps == IInv /\ [Next]_vars => IInv'
  <1> SUFFICES ASSUME IInv, [Next]_vars PROVE IInv'
    OBVIOUS
  <1>1. CASE Cycle
    BY <1>1, CycleKeeps
  <1>2. CASE ReadIcr
    BY <1>2, IdleKeeps DEF ReadIcr
  <1>3. CASE Jump
    BY <1>3, IdleKeeps DEF Jump, regs
  <1>4. CASE Reset
    BY <1>4, ResetKeeps
  <1>5. CASE \E ciahsync \in BOOLEAN : Hsync(ciahsync)
    BY <1>5, HsyncKeeps
  <1>6. CASE \E k \in 0..2 : \E alarmbit \in BOOLEAN : ReadTod(k, alarmbit)
    BY <1>6, ReadTodKeeps
  <1>7. CASE \E k \in 0..2 : \E b \in 0..(Byte - 1) : WriteTod(k, b)
    BY <1>7, WriteTodKeeps
  <1>8. CASE \E k \in 0..2 : \E b \in 0..(Byte - 1) : WriteAlarm(k, b)
    BY <1>8, WriteAlarmKeeps
  <1>9. CASE UNCHANGED vars
    BY <1>9, IdleKeeps DEF vars, regs
  <1> QED
    BY <1>1, <1>2, <1>3, <1>4, <1>5, <1>6, <1>7, <1>8, <1>9 DEF Next

-----------------------------------------------------------------------------
(* What the properties say of a step.                                      *)

\* The counter moves by a pulse, whose alarm is announced, by a program's write, or to 0.
LEMMA Moves ==
  ASSUME IInv, [Next]_vars
  PROVE  \/ ciabtod' = ciabtod
         \/ ciabtodon /\ ciabtod' = Succ(ciabtod) /\ (Alarm(ciabtod', ciabalarm, TRUE) => icr')
         \/ ciabtodon /\ ciabtod' = Succ(ciabtod) /\ ciabtod' # ciabalarm
         \/ (\E k \in 0..2, b \in 0..(Byte - 1) : WriteTod(k, b)) /\ expected' = None
         \/ ciabtod' = 0 /\ expected' = None
  <1>1. CASE Cycle
    <2>1. State = Tod(ciabtod, icr, ciab_tod_event_state, events)
          /\ State.events = events /\ State.state = ciab_tod_event_state
          /\ State.tod = ciabtod /\ State.icr = icr
      BY DEF State, Tod
    <2> DEFINE ev == events \ {clk + 1}
    <2>2. PICK t, i :
            /\ CIAB_tod_inc(Tod(ciabtod, icr, ciab_tod_event_state, ev), TRUE) = Tod(t, i, 3, ev)
            /\ Counts(t, i, TRUE)
      BY IncIs
    <2>3. \/ Becomes(Tod(t, i, 3, ev))
          \/ Becomes(Tod(ciabtod, icr, ciab_tod_event_state, ev))
      BY <1>1, <2>1, <2>2 DEF Cycle, CIAB_tod_inc_event
    <2>4. ciabtod' = ciabtod \/ (ciabtod' = t /\ icr' = i)
      BY <2>3, BecomesIs
    <2>5. CASE ciabtod' = t /\ icr' = i
      <3>1. Counts(ciabtod', icr', TRUE)
        BY <2>2, <2>5, Zenon
      <3> QED
        BY <3>1, Zenon DEF Counts
    <2> QED
      BY <2>4, <2>5
  <1>2. CASE ReadIcr
    BY <1>2 DEF ReadIcr
  <1>3. CASE Jump
    BY <1>3 DEF Jump, regs
  <1>4. CASE Reset
    BY <1>4, ResetKeeps
  <1>5. CASE \E ciahsync \in BOOLEAN : Hsync(ciahsync)
    <2>1. PICK ciahsync \in BOOLEAN : Hsync(ciahsync)
      BY <1>5
    <2>2. CASE ~ciahsync
      BY <2>1, <2>2 DEF Hsync
    <2>3. CASE ciahsync
      <3>1. clk + 1 = LineCycles
        BY <2>1 DEF Hsync
      <3>2. PICK t, i : CountLate(State) = Tod(t, i, 0, {}) /\ Late(t)
        BY <3>1, LateIs, Zenon
      <3>3. Becomes(CIAB_tod_handler(Tod(t, i, 0, {})))
        BY <2>1, <2>3, <3>2 DEF Hsync
      <3>4. /\ Tod(t, i, 0, {}).tod = t
            /\ CIAB_tod_handler(Tod(t, i, 0, {})).tod = t
        BY DEF CIAB_tod_handler, Tod
      <3>5. ciabtod' = t
        BY <3>3, <3>4 DEF Becomes
      <3> QED
        BY <3>2, <3>5 DEF Late
    <2> QED
      BY <2>2, <2>3
  <1>6. CASE \E k \in 0..2 : \E alarmbit \in BOOLEAN : ReadTod(k, alarmbit)
    <2>1. PICK k \in 0..2, alarmbit \in BOOLEAN : ReadTod(k, alarmbit)
      BY <1>6
    <2>2. IInv'
      BY <2>1, ReadTodKeeps
    <2>3. /\ Becomes(CIAB_tod_check(State)) /\ UNCHANGED <<ciabtodon, clk, prefs, expected>>
          /\ ciabalarm' \in Tods /\ ciabtol' \in Tods
      BY <2>1, <2>2 DEF ReadTod, IInv
    <2> QED
      BY <2>3, LookKeeps, Zenon
  <1>7. CASE \E k \in 0..2 : \E b \in 0..(Byte - 1) : WriteTod(k, b)
    BY <1>7, WriteTodKeeps
  <1>8. CASE \E k \in 0..2 : \E b \in 0..(Byte - 1) : WriteAlarm(k, b)
    <2>1. PICK k \in 0..2, b \in 0..(Byte - 1) : WriteAlarm(k, b)
      BY <1>8
    <2>2. IInv'
      BY <2>1, WriteAlarmKeeps
    <2>3. /\ Becomes(CIAB_tod_check(State)) /\ UNCHANGED <<ciabtodon, clk, prefs, expected>>
          /\ ciabalarm' \in Tods /\ ciabtol' \in Tods
      BY <2>1, <2>2 DEF WriteAlarm, IInv
    <2> QED
      BY <2>3, LookKeeps, Zenon
  <1>9. CASE UNCHANGED vars
    BY <1>9 DEF vars, regs
  <1> QED
    BY <1>1, <1>2, <1>3, <1>4, <1>5, <1>6, <1>7, <1>8, <1>9 DEF Next

-----------------------------------------------------------------------------
THEOREM Inductive == Spec => []IInv
  BY Starts, StepKeeps, PTL DEF Spec

\* A pulse that is put off will not reach the alarm, and there is an event for one that may.
THEOREM PutOffSafely == Spec => []TypeOK
  BY Inductive, Typed, PTL

\* Each line counts once, and a stopped counter stands still (CIA_hsync_posthandler).
THEOREM CountsOnce == Spec => EachLineCounts
  <1>1. ASSUME IInv, Hsync(TRUE), expected # None PROVE CountLate(State).tod = expected
    <2>1. clk + 1 = LineCycles
      BY <1>1 DEF Hsync
    <2>2. PICK t, i : CountLate(State) = Tod(t, i, 0, {}) /\ Late(t)
      BY <1>1, <2>1, LateIs, Zenon
    <2> QED
      BY <1>1, <2>2 DEF Late, Tod
  <1>2. ASSUME IInv, [Next]_vars, ~ciabtodon, ciabtod' # ciabtod
        PROVE  ciabtod' = 0 \/ \E k \in 0..2, b \in 0..(Byte - 1) : WriteTod(k, b)
    BY <1>2, Moves
  <1> QED
    BY <1>1, <1>2, Inductive, PTL DEF Spec, EachLineCounts

\* A read after the pulse sees it counted; the bytes are those of one value (ReadCIAB).
THEOREM ReadsCurrentTod == Spec => ReadsCurrent
  <1>1. ASSUME IInv, NEW k \in 0..2, NEW alarmbit \in BOOLEAN, ReadTod(k, alarmbit)
        PROVE  /\ hpos >= Hoffset /\ expected # None => ciabtod' = expected
               /\ Returned(k) = ByteOf(IF ciabtlatch THEN ciabtol ELSE ciabtod', k)
    <2>1. IInv'
      BY <1>1, ReadTodKeeps
    <2>2. /\ Becomes(CIAB_tod_check(State)) /\ UNCHANGED <<ciabtodon, clk, prefs, expected>>
          /\ ciabalarm' \in Tods /\ ciabtol' \in Tods
      BY <1>1, <2>1 DEF ReadTod, IInv
    <2>3. hpos >= Hoffset /\ expected # None => ciabtod' = expected
      BY <1>1, <2>2, LookKeeps, Zenon
    <2>4. (IF k = 2 \/ ciabtlatch THEN ciabtol' ELSE ciabtod')
            = IF ciabtlatch THEN ciabtol ELSE ciabtod'
      BY <1>1 DEF ReadTod, latch
    <2> QED
      BY <2>3, <2>4 DEF Returned
  <1>2. ASSUME IInv
        PROVE  \A k \in 0..2 : \A alarmbit \in BOOLEAN : ReadTod(k, alarmbit) =>
                 /\ hpos >= Hoffset /\ expected # None => ciabtod' = expected
                 /\ Returned(k) = ByteOf(IF ciabtlatch THEN ciabtol ELSE ciabtod', k)
    BY <1>1, <1>2
  <1> QED
    BY <1>2, Inductive, PTL DEF Spec, ReadsCurrent

\* No alarm is passed unannounced (CIAB_tod_handler, CIAB_tod_check).
THEOREM Announced == Spec => AlarmRaised
  <1>1. ASSUME IInv, [Next]_vars, ciabtod' = Succ(ciabtod), expected' # None,
               ciabtod' = ciabalarm, ciabalarm # 0
        PROVE  icr'
    <2>1. Succ(ciabtod) # ciabtod
      BY <1>1, SuccIs DEF IInv, Sound
    <2>2. Alarm(ciabtod', ciabalarm, TRUE)
      BY <1>1 DEF Alarm, checkalarm
    <2>3. \/ ciabtod' = ciabtod
          \/ ciabtodon /\ ciabtod' = Succ(ciabtod) /\ (Alarm(ciabtod', ciabalarm, TRUE) => icr')
          \/ ciabtodon /\ ciabtod' = Succ(ciabtod) /\ ciabtod' # ciabalarm
          \/ (\E k \in 0..2, b \in 0..(Byte - 1) : WriteTod(k, b)) /\ expected' = None
          \/ ciabtod' = 0 /\ expected' = None
      BY <1>1, Moves
    <2>4. ciabtod' # ciabtod /\ ~(ciabtod' # ciabalarm) /\ expected' # None
      BY <1>1, <2>1
    <2>5. Alarm(ciabtod', ciabalarm, TRUE) => icr'
      BY <2>3, <2>4, Zenon
    <2> QED
      BY <2>2, <2>5, Zenon
  <1> QED
    BY <1>1, Inductive, PTL DEF Spec, AlarmRaised
=============================================================================
