---------------------------- MODULE Timing_proofs ----------------------------
(***************************************************************************)
(* The clock never overtakes an event: for any modulus, tables of any      *)
(* size, any handlers, delays and instructions (Events).                   *)
(*                                                                         *)
(* The CIA timers, which lean on that, are worked out from the clock and   *)
(* yet count every E clock: they implement Cia8520, for bytes and E clocks *)
(* of any size (CiaTimers).                                                *)
(***************************************************************************)
EXTENDS Events, CiaTimers, WellFoundedInduction, TLAPS

USE EventsAssumption DEF EventsAssumption

-----------------------------------------------------------------------------
(* Arithmetic of the clock, which is known to go round at most once.       *)

Far(c, t) == (t + Mod - c) % Mod      \* Dist from time c
Later(c, d) == (c + d) % Mod          \* In from time c

LEMMA ModIs ==
  ASSUME NEW a \in 0..(2 * Mod - 1)
  PROVE  a % Mod = IF a < Mod THEN a ELSE a - Mod
  <1>1. \A q \in Nat, r \in 0..(Mod - 1) : (Mod * q + r) % Mod = r
    BY SMT
  <1>2. CASE a < Mod
    BY <1>2, SMT
  <1>3. CASE a >= Mod
    <2>1. a = Mod * 1 + (a - Mod) /\ a - Mod \in 0..(Mod - 1)
      BY <1>3, SMT
    <2>2. (Mod * 1 + (a - Mod)) % Mod = a - Mod
      BY <1>1, <2>1
    <2> QED
      BY <1>3, <2>1, <2>2
  <1> QED
    BY <1>2, <1>3

LEMMA FarIs ==
  ASSUME NEW c \in Times, NEW t \in Times
  PROVE  /\ Far(c, t) = IF t >= c THEN t - c ELSE t + Mod - c
         /\ Far(c, t) \in 0..Never /\ (Far(c, t) = 0 <=> t = c)
  <1>1. t + Mod - c \in 0..(2 * Mod - 1)
    BY DEF Times
  <1>2. Far(c, t) = IF t + Mod - c < Mod THEN t + Mod - c ELSE t + Mod - c - Mod
    <2>1. (t + Mod - c) % Mod = IF t + Mod - c < Mod THEN t + Mod - c ELSE t + Mod - c - Mod
      <3> DEFINE a == t + Mod - c
      <3> HIDE DEF a
      <3>1. a \in 0..(2 * Mod - 1)
        BY <1>1 DEF a
      <3>2. a % Mod = IF a < Mod THEN a ELSE a - Mod
        BY <3>1, ModIs
      <3> QED
        BY <3>1, <3>2 DEF a, Times
    <2> QED
      BY <2>1 DEF Far
  <1> QED
    BY <1>2 DEF Times, Never

LEMMA LaterIs ==
  ASSUME NEW c \in Times, NEW d \in 0..Never
  PROVE  /\ Later(c, d) = IF c + d < Mod THEN c + d ELSE c + d - Mod
         /\ Later(c, d) \in Times
  <1>1. c + d \in 0..(2 * Mod - 1)
    BY DEF Times, Never
  <1>2. Later(c, d) = IF c + d < Mod THEN c + d ELSE c + d - Mod
    <2>1. (c + d) % Mod = IF c + d < Mod THEN c + d ELSE c + d - Mod
      <3> DEFINE a == c + d
      <3> HIDE DEF a
      <3>1. a \in 0..(2 * Mod - 1)
        BY <1>1 DEF a
      <3>2. a % Mod = IF a < Mod THEN a ELSE a - Mod
        BY <3>1, ModIs
      <3> QED
        BY <3>1, <3>2 DEF a, Times, Never
    <2> QED
      BY <2>1 DEF Later
  <1> QED
    BY <1>2 DEF Times, Never

LEMMA FarLater ==
  ASSUME NEW c \in Times, NEW d \in 0..Never
  PROVE  Far(c, Later(c, d)) = d
  <1>1. /\ Later(c, d) = IF c + d < Mod THEN c + d ELSE c + d - Mod
        /\ Later(c, d) \in Times
    BY LaterIs
  <1>2. Far(c, Later(c, d)) = IF Later(c, d) >= c THEN Later(c, d) - c ELSE Later(c, d) + Mod - c
    BY <1>1, FarIs
  <1> QED
    BY <1>1, <1>2 DEF Times, Never

LEMMA LaterFar ==
  ASSUME NEW c \in Times, NEW t \in Times
  PROVE  Later(c, Far(c, t)) = t
  <1>1. Far(c, t) = (IF t >= c THEN t - c ELSE t + Mod - c) /\ Far(c, t) \in 0..Never
    BY FarIs
  <1>2. Later(c, Far(c, t)) = IF c + Far(c, t) < Mod THEN c + Far(c, t) ELSE c + Far(c, t) - Mod
    BY <1>1, LaterIs
  <1> QED
    BY <1>1, <1>2 DEF Times, Never

\* A time that is not passed is nearer by as much as the clock has moved.
LEMMA Nearer ==
  ASSUME NEW c \in Times, NEW t \in Times, NEW a \in 0..Far(c, t)
  PROVE  Far(Later(c, a), t) = Far(c, t) - a
  <1>1. a \in 0..Never
    BY FarIs DEF Never
  <1>2. /\ Far(c, t) = IF t >= c THEN t - c ELSE t + Mod - c
        /\ Later(c, a) = IF c + a < Mod THEN c + a ELSE c + a - Mod
        /\ Later(c, a) \in Times
    BY <1>1, FarIs, LaterIs
  <1>3. Far(Later(c, a), t) = IF t >= Later(c, a) THEN t - Later(c, a) ELSE t + Mod - Later(c, a)
    BY <1>2, FarIs
  <1> QED
    BY <1>1, <1>2, <1>3 DEF Times, Never

LEMMA Delays1 == 0..MaxDelay \subseteq 0..Never /\ Line \in 1..MaxDelay /\ MaxDelay < Never
  BY DEF Never

LEMMA LeastIs ==
  ASSUME NEW S \in SUBSET Nat, S # {}
  PROVE  Least(S) \in S /\ \A y \in S : Least(S) <= y
  <1> DEFINE R == OpToRel(<, Nat)
  <1>1. IsWellFoundedOn(R, Nat)
    BY NatLessThanWellFounded
  <1>2. \E x \in S : \A y \in S : ~ (<<y, x>> \in R)
    <2> HIDE DEF R
    <2> QED
      BY <1>1, WFMin
  <1>3. \A x, y \in S : <<y, x>> \notin R => x <= y
    <2> SUFFICES ASSUME NEW x \in S, NEW y \in S, <<y, x>> \notin R PROVE x <= y
      OBVIOUS
    <2>1. x \in Nat /\ y \in Nat
      OBVIOUS
    <2>2. y < x => <<y, x>> \in R
      BY <2>1 DEF OpToRel
    <2> HIDE DEF R
    <2> QED
      BY <2>1, <2>2
  <1>4. \E x \in S : \A y \in S : x <= y
    <2> HIDE DEF R
    <2> QED
      BY <1>2, <1>3
  <1> QED
    BY <1>4 DEF Least

-----------------------------------------------------------------------------
(* The invariant.                                                          *)

\* Within MISC_handler, and the function that it returns to.
InMisc == pc \in {"misc", "event2"}
Outer == IF InMisc THEN ret ELSE pc

\* No event is further ahead than it can be asked for.
Ahead ==
  /\ \A e \in Evs \ {ev_misc} : eventtab[e] # Off => Far(currcycle, eventtab[e]) <= MaxDelay
  /\ \A s \in Evs2 :
       eventtab2[s].evtime # Off => Far(currcycle, eventtab2[s].evtime) <= MaxDelay

\* While the clock may move it is stopped at the soonest entry of eventtab.
Stops ==
  Outer \in {"cpu", "loop"} =>
    /\ Far(currcycle, nextevent) > 0
    /\ \A e \in Evs :
         eventtab[e] # Off => Far(currcycle, nextevent) <= Far(currcycle, eventtab[e])

\* While do_cycles runs handlers, the entries before its own are not due, even if they were
\* set by a later handler.
Handled ==
  Outer \in {"scan", "source"} => \A e \in Evs : e < i => eventtab[e] # currcycle

\* Outside MISC_handler, ev_misc is set for the soonest one-shot event.
Announced ==
  ~InMisc => \A s \in Evs2 :
    eventtab2[s].evtime # Off =>
      /\ eventtab[ev_misc] # Off
      /\ Far(currcycle, eventtab[ev_misc]) <= Far(currcycle, eventtab2[s].evtime)

\* Inside, mintime is that of the entries behind it, which are not due, unless it will walk
\* them again.
Walked(s) == s < j \/ (pc = "event2" /\ s = j)
Walk ==
  InMisc => \A s \in Evs2 :
    Walked(s) /\ eventtab2[s].evtime # Off =>
      /\ eventtab2[s].evtime # currcycle
      /\ recheck \/ dorecheck \/ mintime <= Far(currcycle, eventtab2[s].evtime)

\* MISC_handler's statics, and where the indices are.
Places ==
  /\ recursive = IF InMisc THEN 1 ELSE 0
  /\ dorecheck => pc = "event2"
  /\ InMisc => eventtab[ev_misc] = Off /\ mintime > 0 /\ (ret = "scan" => i = ev_misc)
  /\ pc = "event2" => j \in Evs2
  /\ Outer = "source" => i \in Evs \ {ev_misc}

IInv == TypeOK /\ Ahead /\ Stops /\ Handled /\ Announced /\ Walk /\ Places

-----------------------------------------------------------------------------
LEMMA Types ==
  ASSUME TypeOK
  PROVE  /\ currcycle \in Times /\ nextevent \in Times
         /\ \A e \in Evs : eventtab[e] # Off => eventtab[e] \in Times
         /\ \A s \in Evs2 : eventtab2[s].evtime # Off => eventtab2[s].evtime \in Times
         /\ ev_misc \in Evs /\ ev_hsync \in Evs /\ ev_misc # ev_hsync
  BY DEF TypeOK, Evs, ev_misc, ev_hsync

\* events_schedule
LEMMA ScheduleIs ==
  ASSUME currcycle \in Times, NEW tab \in [Evs -> Times \union {Off}]
  PROVE  /\ Schedule(tab) \in Times
         /\ \A e \in Evs : tab[e] # Off => Far(currcycle, Schedule(tab)) <= Far(currcycle, tab[e])
         /\ (\A e \in Evs : tab[e] # currcycle) => Far(currcycle, Schedule(tab)) > 0
  <1> DEFINE S == {Never} \union {Dist(tab[e]) : e \in {f \in Evs : tab[f] # Off}}
  <1>1. \A e \in Evs : tab[e] # Off => tab[e] \in Times /\ Dist(tab[e]) = Far(currcycle, tab[e])
    BY DEF Dist, Far
  <1>2. \A e \in Evs : tab[e] # Off => Far(currcycle, tab[e]) \in 0..Never
    BY <1>1, FarIs
  <1>3. S \in SUBSET (0..Never) /\ S # {} /\ 0..Never \subseteq Nat
    BY <1>1, <1>2 DEF Never
  <1>4. Least(S) \in S /\ \A y \in S : Least(S) <= y
    <2> HIDE DEF S
    <2> QED
      BY <1>3, LeastIs
  <1>5. Schedule(tab) = Later(currcycle, Least(S))
    BY DEF Schedule, In, Later
  <1>6. Least(S) \in 0..Never
    BY <1>3, <1>4
  <1>7. Far(currcycle, Schedule(tab)) = Least(S) /\ Schedule(tab) \in Times
    BY <1>5, <1>6, FarLater, LaterIs
  <1>8. ASSUME NEW e \in Evs, tab[e] # Off PROVE Least(S) <= Far(currcycle, tab[e])
    <2>1. Far(currcycle, tab[e]) \in S
      BY <1>1, <1>8
    <2> QED
      BY <1>4, <2>1
  <1>9. ASSUME \A e \in Evs : tab[e] # currcycle PROVE Least(S) # 0
    <2>1. \A e \in Evs : tab[e] # Off => Far(currcycle, tab[e]) # 0
      BY <1>1, <1>9, FarIs
    <2>2. Never # 0
      BY DEF Never
    <2> QED
      BY <1>1, <1>4, <2>1, <2>2
  <1> QED
    BY <1>6, <1>7, <1>8, <1>9 DEF Never

\* A time asked for.
LEMMA InIs ==
  ASSUME currcycle \in Times, NEW d \in 0..MaxDelay
  PROVE  /\ In(d) \in Times /\ Far(currcycle, In(d)) = d
         /\ In(d) # Off /\ (d > 0 => In(d) # currcycle)
  <1>1. d \in 0..Never /\ In(d) = Later(currcycle, d)
    BY Delays1 DEF In, Later
  <1>2. In(d) \in Times /\ Far(currcycle, In(d)) = d
    BY <1>1, LaterIs, FarLater
  <1> QED
    BY <1>2, FarIs DEF Off, Times

LEMMA SoonIs ==
  ASSUME currcycle \in Times, NEW t \in Soon
  PROVE  /\ t \in Times \union {Off} /\ t # currcycle
         /\ t # Off => Far(currcycle, t) <= MaxDelay
  <1>1. Off \notin Times
    BY DEF Off, Times
  <1>2. CASE t = Off
    BY <1>1, <1>2
  <1>3. CASE t # Off
    <2>1. PICK d \in 1..MaxDelay : t = In(d)
      BY <1>3 DEF Soon
    <2> QED
      BY <2>1, InIs
  <1> QED
    BY <1>2, <1>3

-----------------------------------------------------------------------------
(* The variables keep their types.                                         *)

LEMMA TypeInit == ASSUME Init PROVE TypeOK
  <1>1. currcycle \in Times
    BY DEF Init
  <1>2. In(Line) \in Times
    BY <1>1, Delays1, InIs
  <1>3. eventtab \in [Evs -> Times \union {Off}]
    BY <1>2 DEF Init
  <1>4. nextevent \in Times
    BY <1>1, <1>3, ScheduleIs DEF Init
  <1>5. Inactive \in [evtime : Times \union {Off}, func : Funcs]
    BY DEF Inactive
  <1>6. eventtab2 \in [Evs2 -> [evtime : Times \union {Off}, func : Funcs]]
    BY <1>5 DEF Init
  <1>7. next \in Ev2Misc..(Ev2Max - 1) /\ mintime \in 0..Never /\ i \in 0..EvMax /\ j \in 0..Ev2Max
    BY DEF Init, Never
  <1>8. dorecheck \in BOOLEAN /\ is_syncline \in BOOLEAN /\ recheck \in BOOLEAN
    BY DEF Init
  <1> QED
    BY <1>1, <1>3, <1>4, <1>6, <1>7, <1>8 DEF Init, TypeOK

\* MISC_handler is entered ...
LEMMA EnterTypes ==
  ASSUME TypeOK, NEW caller \in {"cpu", "scan", "source"}, EnterMisc(caller)
  PROVE  /\ recursive' = 1 /\ pc' = "misc" /\ ret' = caller /\ j' = 0 /\ mintime' = Never
         /\ recheck' = FALSE
         /\ eventtab' \in [Evs -> Times \union {Off}] /\ eventtab'[ev_misc] = Off
         /\ \A e \in Evs \ {ev_misc} : eventtab'[e] = eventtab[e]
  BY Types DEF EnterMisc, TypeOK

\* ... and it arms ev_misc for an event that is still to come.
LEMMA SoonestIs ==
  ASSUME TypeOK, Places, InMisc, NEW upto \in 0..Ev2Max,
         \A s \in Evs2 : s >= j /\ s < upto => eventtab2[s].evtime # currcycle
  PROVE  LET S == {mintime} \cup {Dist(eventtab2[s].evtime) :
                     s \in {t \in Evs2 : t >= j /\ t < upto /\ eventtab2[t].evtime # Off}}
         IN /\ Least(S) \in 1..mintime
            /\ \A s \in Evs2 : s >= j /\ s < upto /\ eventtab2[s].evtime # Off =>
                 Least(S) <= Far(currcycle, eventtab2[s].evtime)
  <1> DEFINE S == {mintime} \cup {Dist(eventtab2[s].evtime) :
                     s \in {t \in Evs2 : t >= j /\ t < upto /\ eventtab2[t].evtime # Off}}
  <1>1. \A s \in Evs2 : eventtab2[s].evtime # Off =>
          Dist(eventtab2[s].evtime) = Far(currcycle, eventtab2[s].evtime)
    BY DEF Dist, Far
  <1>2. \A s \in Evs2 : s >= j /\ s < upto /\ eventtab2[s].evtime # Off =>
          Far(currcycle, eventtab2[s].evtime) \in 1..Never
    <2> SUFFICES ASSUME NEW s \in Evs2, s >= j, s < upto, eventtab2[s].evtime # Off
                 PROVE  Far(currcycle, eventtab2[s].evtime) \in 1..Never
      OBVIOUS
    <2>1. eventtab2[s].evtime \in Times /\ eventtab2[s].evtime # currcycle /\ currcycle \in Times
      BY Types
    <2> QED
      BY <2>1, FarIs DEF Never
  <1>3. mintime \in 1..Never
    BY DEF TypeOK, Places
  <1>4. S \in SUBSET Nat /\ S # {} /\ \A x \in S : x > 0
    BY <1>1, <1>2, <1>3 DEF Never
  <1>5. Least(S) \in S /\ \A y \in S : Least(S) <= y
    <2> HIDE DEF S
    <2> QED
      BY <1>4, LeastIs
  <1>6. Least(S) \in 1..mintime
    <2>1. mintime \in S
      OBVIOUS
    <2> HIDE DEF S
    <2>2. Least(S) \in Nat /\ Least(S) > 0 /\ Least(S) <= mintime
      BY <1>4, <1>5, <2>1
    <2> QED
      BY <1>3, <2>2
  <1>7. ASSUME NEW s \in Evs2, s >= j, s < upto, eventtab2[s].evtime # Off
        PROVE  Least(S) <= Far(currcycle, eventtab2[s].evtime)
    <2>1. Far(currcycle, eventtab2[s].evtime) \in S
      BY <1>1, <1>7
    <2> HIDE DEF S
    <2> QED
      BY <1>5, <2>1
  <1> QED
    BY <1>6, <1>7

\* What a step keeps that leaves the events and MISC_handler alone.
LEMMA KeepEvents ==
  ASSUME UNCHANGED <<currcycle, eventtab, eventtab2>>
  PROVE  Ahead => Ahead'
  BY DEF Ahead

-----------------------------------------------------------------------------
(* do_cycles.                                                              *)

\* It is called, or the preferences change.
LEMMA CpuKeeps ==
  ASSUME IInv,
         \/ SetDoCycles \/ RunClock \/ \E c \in 1..MaxCycles : KeepEmulating(c)
  PROVE  IInv'
  <1>1. /\ UNCHANGED <<currcycle, nextevent, eventtab, eventtab2, next, recursive, dorecheck>>
        /\ UNCHANGED <<i, ret, j, recheck, mintime>> /\ pc = "cpu" /\ pc' \in {"cpu", "loop"}
    BY DEF SetDoCycles, RunClock, KeepEmulating, do_cycles_cpu_norm, do_cycles_cpu_fastest, clock,
       statics, free, loop, misc
  <1>2. do_cycles' \in {"norm", "fastest"} /\ pissoff' \in 0..Pissoff /\ left' \in 0..MaxCycles
    BY DEF IInv, TypeOK, SetDoCycles, RunClock, KeepEmulating, do_cycles_cpu_norm,
       do_cycles_cpu_fastest, free, loop
  <1>3. is_syncline' \in BOOLEAN
    <2>1. is_syncline' = is_syncline \/ is_syncline' = FALSE
      BY DEF SetDoCycles, RunClock, KeepEmulating, do_cycles_cpu_norm, do_cycles_cpu_fastest, free
    <2> QED
      BY <2>1 DEF IInv, TypeOK
  <1>4. TypeOK'
    BY <1>1, <1>2, <1>3 DEF IInv, TypeOK
  <1>5. ~InMisc /\ ~InMisc' /\ Outer = "cpu" /\ Outer' \in {"cpu", "loop"}
    BY <1>1 DEF InMisc, Outer
  <1>6. Stops' /\ Handled' /\ Announced'
    BY <1>1, <1>5 DEF IInv, Stops, Handled, Announced
  <1>7. Walk' /\ Places'
    BY <1>1, <1>5 DEF IInv, Walk, Places
  <1> QED
    BY <1>1, <1>4, <1>6, <1>7, KeepEvents DEF IInv

\* The clock moves no further than the soonest event.
LEMMA AdvanceKeeps == ASSUME IInv, Advance PROVE IInv'
  <1>1. /\ pc = "loop" /\ ~InMisc /\ Outer = "loop" /\ currcycle \in Times /\ nextevent \in Times
        /\ left \in 0..MaxCycles
        /\ UNCHANGED <<nextevent, eventtab, eventtab2, next, recursive, dorecheck, do_cycles, pissoff>>
        /\ UNCHANGED <<is_syncline, ret, j, recheck, mintime>>
    BY Types DEF IInv, TypeOK, Advance, InMisc, Outer, statics, free, misc
  <1> DEFINE n == Far(currcycle, nextevent)
  <1>2. Dist(nextevent) = n /\ n \in 1..Never
    BY <1>1, FarIs DEF IInv, Stops, Dist, Far, Never
  <1>3. \A e \in Evs : eventtab[e] # Off =>
          n <= Far(currcycle, eventtab[e]) /\ Far(currcycle, eventtab[e]) \in 0..Never
    BY <1>1, Types, FarIs DEF IInv, Stops
  <1>4. \A s \in Evs2 : eventtab2[s].evtime # Off =>
          /\ n <= Far(currcycle, eventtab2[s].evtime)
          /\ Far(currcycle, eventtab2[s].evtime) \in 0..Never
    <2> SUFFICES ASSUME NEW s \in Evs2, eventtab2[s].evtime # Off
                 PROVE  /\ n <= Far(currcycle, eventtab2[s].evtime)
                        /\ Far(currcycle, eventtab2[s].evtime) \in 0..Never
      OBVIOUS
    <2>1. Far(currcycle, eventtab2[s].evtime) \in 0..Never
      BY <1>1, Types, FarIs DEF IInv
    <2>2. /\ eventtab[ev_misc] # Off /\ ev_misc \in Evs
          /\ Far(currcycle, eventtab[ev_misc]) <= Far(currcycle, eventtab2[s].evtime)
      BY <1>1, Types DEF IInv, Announced
    <2>3. n <= Far(currcycle, eventtab[ev_misc]) /\ Far(currcycle, eventtab[ev_misc]) \in 0..Never
      BY <1>3, <2>2
    <2> QED
      BY <1>2, <2>1, <2>2, <2>3 DEF Never
  <1> HIDE DEF n
  <1>5. PICK a \in 0..n :
          /\ currcycle' = Later(currcycle, a) /\ left' \in 0..MaxCycles
          /\ \/ pc' = "scan" /\ i' = 0
             \/ pc' = "cpu" /\ i' = i /\ a < n
    <2>1. CASE n <= left
      <3>1. currcycle' = nextevent /\ left' = left - n /\ pc' = "scan" /\ i' = 0
        BY <1>2, <2>1 DEF Advance
      <3>2. currcycle' = Later(currcycle, n)
        BY <1>1, <3>1, LaterFar DEF n
      <3> QED
        BY <1>1, <1>2, <2>1, <3>1, <3>2 DEF Never
    <2>2. CASE ~(n <= left)
      <3>1. currcycle' = In(left) /\ left' = 0 /\ pc' = "cpu" /\ i' = i
        BY <1>2, <2>2 DEF Advance
      <3>2. currcycle' = Later(currcycle, left)
        BY <3>1 DEF In, Later
      <3> QED
        BY <1>1, <1>2, <2>2, <3>1, <3>2 DEF Never
    <2> QED
      BY <2>1, <2>2
  <1>6. currcycle' \in Times
    <2>1. a \in 0..Never
      BY <1>2, <1>5 DEF Never
    <2> QED
      BY <1>1, <1>5, <2>1, LaterIs
  <1>7. /\ Far(currcycle', nextevent') = n - a
        /\ \A e \in Evs : eventtab[e] # Off =>
             Far(currcycle', eventtab'[e]) = Far(currcycle, eventtab[e]) - a
        /\ \A s \in Evs2 : eventtab2[s].evtime # Off =>
             Far(currcycle', eventtab2'[s].evtime) = Far(currcycle, eventtab2[s].evtime) - a
    <2>1. \A t \in Times : n <= Far(currcycle, t) => Far(currcycle', t) = Far(currcycle, t) - a
      <3> SUFFICES ASSUME NEW t \in Times, n <= Far(currcycle, t)
                   PROVE  Far(currcycle', t) = Far(currcycle, t) - a
        OBVIOUS
      <3>1. a \in 0..Far(currcycle, t)
        BY <1>1, <1>2, <1>5, FarIs DEF Never
      <3> QED
        BY <1>1, <1>5, <3>1, Nearer
    <2>2. Far(currcycle', nextevent') = n - a
      BY <1>1, <1>2, <2>1 DEF n
    <2> QED
      BY <1>1, <1>3, <1>4, <2>1, <2>2, Types DEF IInv
  <1>8. TypeOK'
    <2>1. i' \in 0..EvMax /\ pc' \in {"cpu", "scan"}
      BY <1>5 DEF IInv, TypeOK
    <2> QED
      BY <1>1, <1>5, <1>6, <2>1 DEF IInv, TypeOK
  <1>9. Ahead'
    BY <1>1, <1>2, <1>3, <1>4, <1>5, <1>7 DEF IInv, Ahead, Never
  <1>10. ~InMisc' /\ Outer' = pc'
    BY <1>5 DEF InMisc, Outer
  <1>11. Stops'
    BY <1>1, <1>2, <1>3, <1>5, <1>7, <1>10 DEF Stops, Never
  <1>12. Handled'
    BY <1>5, <1>10 DEF Handled, Evs
  <1>13. Announced'
    <2> SUFFICES ASSUME NEW s \in Evs2, eventtab2'[s].evtime # Off
                 PROVE  /\ eventtab'[ev_misc] # Off
                        /\ Far(currcycle', eventtab'[ev_misc]) <= Far(currcycle', eventtab2'[s].evtime)
      BY DEF Announced
    <2>1. /\ eventtab[ev_misc] # Off /\ ev_misc \in Evs
          /\ Far(currcycle, eventtab[ev_misc]) <= Far(currcycle, eventtab2[s].evtime)
      BY <1>1, Types DEF IInv, Announced
    <2> QED
      BY <1>1, <1>2, <1>3, <1>4, <1>5, <1>7, <2>1 DEF Never
  <1>14. Walk' /\ Places'
    BY <1>1, <1>5, <1>10 DEF IInv, Walk, Places
  <1> QED
    BY <1>8, <1>9, <1>11, <1>12, <1>13, <1>14 DEF IInv

\* The walk over eventtab: a handler is called for what is due, and at its end nothing is.
LEMMA ScanKeeps == ASSUME IInv, Scan PROVE IInv'
  <1> DEFINE due == {e \in Evs : e >= i /\ eventtab[e] = currcycle}
  <1>1. /\ pc = "scan" /\ ~InMisc /\ Outer = "scan" /\ currcycle \in Times
        /\ UNCHANGED <<currcycle, eventtab2, next, dorecheck, do_cycles, pissoff, is_syncline, left>>
        /\ eventtab \in [Evs -> Times \union {Off}] /\ currcycle # Off /\ dorecheck = FALSE
    BY DEF IInv, TypeOK, Places, Scan, InMisc, Outer, free, Times, Off
  <1>2. \A e \in Evs : e < i => eventtab[e] # currcycle
    BY <1>1 DEF IInv, Handled
  <1>3. due # {} => Least(due) \in due /\ \A e \in due : Least(due) <= e
    <2>1. due \in SUBSET Nat
      BY DEF Evs
    <2> HIDE DEF due
    <2> QED
      BY <2>1, LeastIs
  <1>4. CASE due = {} /\ nextevent' = Schedule(eventtab) /\ pc' = "loop" /\ i' = 0
             /\ UNCHANGED <<eventtab, recursive, misc>>
    <2>1. UNCHANGED <<ret, j, recheck, mintime>> /\ ~InMisc' /\ Outer' = "loop"
      BY <1>4 DEF misc, InMisc, Outer
    <2>2. \A e \in Evs : eventtab[e] # currcycle
      <3> SUFFICES ASSUME NEW e \in Evs, eventtab[e] = currcycle PROVE FALSE
        OBVIOUS
      <3>1. e >= i
        BY <1>2 DEF Evs, IInv, TypeOK
      <3> QED
        BY <1>4, <3>1
    <2>3. /\ nextevent' \in Times /\ Far(currcycle, nextevent') > 0
          /\ \A e \in Evs : eventtab[e] # Off => Far(currcycle, nextevent') <= Far(currcycle, eventtab[e])
      BY <1>1, <1>4, <2>2, ScheduleIs
    <2>4. TypeOK'
      BY <1>1, <1>4, <2>1, <2>3 DEF IInv, TypeOK
    <2>5. Stops'
      BY <1>1, <1>4, <2>1, <2>3 DEF Stops
    <2>6. Ahead' /\ Handled' /\ Announced'
      BY <1>1, <1>4, <2>1 DEF IInv, Ahead, Handled, Announced
    <2>7. Walk' /\ Places'
      BY <1>1, <1>4, <2>1 DEF IInv, Walk, Places
    <2> QED
      BY <2>4, <2>5, <2>6, <2>7 DEF IInv
  <1>5. CASE due # {} /\ Least(due) = ev_misc /\ i' = ev_misc /\ EnterMisc("scan")
             /\ UNCHANGED nextevent
    <2>1. /\ recursive' = 1 /\ pc' = "misc" /\ ret' = "scan" /\ j' = 0 /\ mintime' = Never
          /\ recheck' = FALSE
          /\ eventtab' \in [Evs -> Times \union {Off}] /\ eventtab'[ev_misc] = Off
          /\ \A e \in Evs \ {ev_misc} : eventtab'[e] = eventtab[e]
      BY <1>5, EnterTypes DEF IInv
    <2>2. InMisc' /\ Outer' = "scan"
      BY <2>1 DEF InMisc, Outer
    <2>3. recheck' \in BOOLEAN
      BY <2>1
    <2>4. TypeOK'
      BY <1>1, <1>5, <2>1, <2>3 DEF IInv, TypeOK, Never, ev_misc
    <2>5. Ahead'
      BY <1>1, <2>1 DEF IInv, Ahead
    <2>6. Handled'
      <3> SUFFICES ASSUME NEW e \in Evs, e < ev_misc PROVE eventtab'[e] # currcycle
        BY <1>1, <1>5 DEF Handled
      <3>1. eventtab'[e] = eventtab[e]
        BY <2>1 DEF Evs, ev_misc
      <3>2. e \notin due
        BY <1>3, <1>5 DEF Evs, ev_misc
      <3>3. e < i \/ e >= i
        BY DEF Evs, IInv, TypeOK
      <3> QED
        BY <1>2, <3>1, <3>2, <3>3
    <2>7. Walk'
      BY <2>1, <2>2 DEF Walk, Walked, Evs2
    <2>8. Stops' /\ Announced' /\ Places'
      BY <1>1, <1>5, <2>1, <2>2 DEF Stops, Announced, Places, Never
    <2> QED
      BY <2>4, <2>5, <2>6, <2>7, <2>8 DEF IInv
  <1>6. CASE due # {} /\ Least(due) # ev_misc /\ i' = Least(due) /\ pc' = "source"
             /\ UNCHANGED <<nextevent, eventtab, recursive, misc>>
    <2>1. /\ UNCHANGED <<ret, j, recheck, mintime>> /\ ~InMisc' /\ Outer' = "source"
          /\ i' \in Evs \ {ev_misc}
      BY <1>3, <1>6 DEF misc, InMisc, Outer
    <2>2. TypeOK'
      BY <1>1, <1>6, <2>1 DEF IInv, TypeOK, Evs
    <2>3. Handled'
      <3> SUFFICES ASSUME NEW e \in Evs, e < i' PROVE eventtab[e] # currcycle
        BY <1>1, <1>6 DEF Handled
      <3>1. e \notin due
        BY <1>3, <1>6, <2>1 DEF Evs
      <3>2. e < i \/ e >= i
        BY DEF Evs, IInv, TypeOK
      <3> QED
        BY <1>2, <3>1, <3>2
    <2>4. Stops' /\ Ahead' /\ Announced'
      BY <1>1, <1>6, <2>1 DEF IInv, Stops, Ahead, Announced
    <2>5. Walk' /\ Places'
      BY <1>1, <1>6, <2>1 DEF IInv, Walk, Places
    <2> QED
      BY <2>2, <2>3, <2>4, <2>5 DEF IInv
  <1> QED
    BY <1>4, <1>5, <1>6 DEF Scan

-----------------------------------------------------------------------------
(* A source's entry is set, by its handler or by others.                   *)

LEMMA SetKeeps ==
  ASSUME IInv, NEW e \in Evs \ {ev_misc}, NEW t \in Times \union {Off}, t # currcycle,
         t # Off => Far(currcycle, t) <= MaxDelay, t # Off => Far(currcycle, t) > 0,
         eventtab' = [eventtab EXCEPT ![e] = t], nextevent' = Schedule(eventtab'),
         UNCHANGED <<currcycle, eventtab2>>
  PROVE  /\ nextevent' \in Times /\ eventtab' \in [Evs -> Times \union {Off}]
         /\ eventtab'[ev_misc] = eventtab[ev_misc] /\ Ahead'
         /\ (Outer \in {"cpu", "loop"} =>
               /\ Far(currcycle, nextevent') > 0
               /\ \A f \in Evs : eventtab'[f] # Off =>
                    Far(currcycle, nextevent') <= Far(currcycle, eventtab'[f]))
  <1>1. /\ eventtab' \in [Evs -> Times \union {Off}] /\ currcycle \in Times /\ currcycle # Off
        /\ \A f \in Evs : eventtab'[f] = IF f = e THEN t ELSE eventtab[f]
        /\ ev_misc \in Evs
    BY Types DEF IInv, TypeOK, Times, Off
  <1>2. /\ nextevent' \in Times
        /\ \A f \in Evs : eventtab'[f] # Off =>
             Far(currcycle, nextevent') <= Far(currcycle, eventtab'[f])
        /\ (\A f \in Evs : eventtab'[f] # currcycle) => Far(currcycle, nextevent') > 0
    BY <1>1, ScheduleIs
  <1>3. ASSUME Outer \in {"cpu", "loop"}, NEW f \in Evs PROVE eventtab'[f] # currcycle
    <2>1. CASE f = e
      BY <1>1, <2>1
    <2>2. CASE f # e /\ eventtab[f] # Off
      <3>1. /\ Far(currcycle, nextevent) > 0
            /\ Far(currcycle, nextevent) <= Far(currcycle, eventtab[f])
        BY <1>3, <2>2 DEF IInv, Stops
      <3>2. Far(currcycle, nextevent) \in 0..Never /\ eventtab[f] \in Times
        BY <1>1, <2>2, FarIs, Types DEF IInv
      <3>3. Far(currcycle, eventtab[f]) \in 0..Never
            /\ (Far(currcycle, eventtab[f]) = 0 <=> eventtab[f] = currcycle)
        BY <1>1, <3>2, FarIs
      <3> QED
        BY <1>1, <2>2, <3>1, <3>2, <3>3 DEF Never
    <2>3. CASE f # e /\ eventtab[f] = Off
      BY <1>1, <2>3
    <2> QED
      BY <2>1, <2>2, <2>3
  <1>4. Ahead'
    BY <1>1 DEF IInv, Ahead
  <1> QED
    BY <1>1, <1>2, <1>3, <1>4

LEMMA SoonFar == ASSUME currcycle \in Times, NEW t \in Soon, t # Off PROVE Far(currcycle, t) > 0
  <1>1. t \in Times /\ t # currcycle
    BY SoonIs
  <1> QED
    BY <1>1, FarIs DEF Never

LEMMA SourceReturnKeeps == ASSUME IInv, SourceReturns PROVE IInv'
  <1>1. PICK u \in Soon : SourceReturn(u)
    BY DEF SourceReturns
  <1>2. /\ pc = "source" /\ pc' = "scan" /\ i' = i + 1 /\ i \in Evs \ {ev_misc}
        /\ UNCHANGED <<currcycle, eventtab2, next, recursive, dorecheck, do_cycles, pissoff, left>>
        /\ UNCHANGED <<ret, j, recheck, mintime>>
        /\ ~InMisc /\ ~InMisc' /\ Outer = "source" /\ Outer' = "scan" /\ currcycle \in Times
    BY <1>1 DEF SourceReturn, statics, misc, InMisc, Outer, IInv, Places, TypeOK
  <1> DEFINE t == IF i = ev_hsync THEN In(Line) ELSE u
  <1>3. /\ t \in Times \union {Off} /\ t # currcycle
        /\ t # Off => Far(currcycle, t) <= MaxDelay
        /\ t # Off => Far(currcycle, t) > 0
    <2>1. Line \in 0..MaxDelay /\ Line > 0 /\ Line <= MaxDelay
      OBVIOUS
    <2>2. In(Line) \in Times /\ Far(currcycle, In(Line)) = Line /\ In(Line) # currcycle
      BY <1>2, <2>1, InIs
    <2> QED
      BY <1>2, <2>1, <2>2, SoonIs, SoonFar
  <1>4. eventtab' = [eventtab EXCEPT ![i] = t] /\ nextevent' = Schedule(eventtab')
    BY <1>1 DEF SourceReturn
  <1> HIDE DEF t
  <1>5. /\ nextevent' \in Times /\ eventtab' \in [Evs -> Times \union {Off}]
        /\ eventtab'[ev_misc] = eventtab[ev_misc] /\ Ahead'
    BY <1>2, <1>3, <1>4, SetKeeps
  <1>6. TypeOK'
    <2>1. is_syncline' \in BOOLEAN
      BY <1>1 DEF SourceReturn, IInv, TypeOK
    <2>2. i + 1 \in 0..EvMax
      BY <1>2 DEF Evs
    <2> QED
      BY <1>2, <1>5, <2>1, <2>2 DEF IInv, TypeOK
  <1>7. Handled'
    <2> SUFFICES ASSUME NEW e \in Evs, e < i + 1 PROVE eventtab'[e] # currcycle
      BY <1>2 DEF Handled
    <2>1. CASE e = i
      BY <1>2, <1>3, <1>4, <2>1 DEF IInv, TypeOK
    <2>2. CASE e # i
      <3>1. e < i
        BY <1>2, <2>2 DEF Evs
      <3> QED
        BY <1>2, <1>4, <2>2, <3>1 DEF IInv, TypeOK, Handled
    <2> QED
      BY <2>1, <2>2
  <1>8. Stops' /\ Announced'
    BY <1>2, <1>5 DEF IInv, Stops, Announced
  <1>9. Walk' /\ Places'
    BY <1>2 DEF IInv, Walk, Places
  <1> QED
    BY <1>5, <1>6, <1>7, <1>8, <1>9 DEF IInv

LEMMA SetSourceKeeps ==
  ASSUME IInv, NEW e \in Sources, NEW t \in Soon, SetSource(e, t)
  PROVE  IInv'
  <1>1. /\ UNCHANGED <<currcycle, eventtab2, next, recursive, dorecheck, do_cycles, pissoff>>
        /\ UNCHANGED <<is_syncline, pc, left, i, ret, j, recheck, mintime>>
        /\ eventtab' = [eventtab EXCEPT ![e] = t] /\ nextevent' = Schedule(eventtab')
        /\ e \in Evs \ {ev_misc} /\ currcycle \in Times
    BY DEF SetSource, statics, free, loop, misc, Sources, IInv, TypeOK
  <1>2. /\ t \in Times \union {Off} /\ t # currcycle
        /\ t # Off => Far(currcycle, t) <= MaxDelay
        /\ t # Off => Far(currcycle, t) > 0
    BY <1>1, SoonIs, SoonFar
  <1>3. /\ nextevent' \in Times /\ eventtab' \in [Evs -> Times \union {Off}]
        /\ eventtab'[ev_misc] = eventtab[ev_misc] /\ Ahead'
        /\ (Outer \in {"cpu", "loop"} =>
              /\ Far(currcycle, nextevent') > 0
              /\ \A f \in Evs : eventtab'[f] # Off =>
                   Far(currcycle, nextevent') <= Far(currcycle, eventtab'[f]))
    BY <1>1, <1>2, SetKeeps
  <1>4. TypeOK'
    BY <1>1, <1>3 DEF IInv, TypeOK
  <1>5. (InMisc' <=> InMisc) /\ Outer' = Outer
    BY <1>1 DEF InMisc, Outer
  <1>6. Stops'
    BY <1>1, <1>3, <1>5 DEF Stops
  <1>7. Handled'
    BY <1>1, <1>2, <1>5 DEF IInv, TypeOK, Handled
  <1>8. Announced'
    BY <1>1, <1>3, <1>5 DEF IInv, Announced
  <1>9. Walk' /\ Places'
    BY <1>1, <1>3, <1>5 DEF IInv, Walk, Walked, Places
  <1> QED
    BY <1>3, <1>4, <1>6, <1>7, <1>8, <1>9 DEF IInv

-----------------------------------------------------------------------------
(* MISC_handler.                                                           *)

\* The walk over eventtab2: the next handler, the walk again, or ev_misc armed and back.
LEMMA MiscScanKeeps == ASSUME IInv, MiscScan PROVE IInv'
  <1> DEFINE due == {s \in Evs2 : s >= j /\ eventtab2[s].evtime = currcycle}
             upto == IF due = {} THEN Ev2Max ELSE Least(due)
             soonest == Least({mintime} \cup {Dist(eventtab2[s].evtime) :
                          s \in {t \in Evs2 : t >= j /\ t < upto /\ eventtab2[t].evtime # Off}})
  <1>1. /\ pc = "misc" /\ InMisc /\ Outer = ret /\ currcycle \in Times
        /\ UNCHANGED <<currcycle, next, dorecheck, do_cycles, pissoff, is_syncline, left>>
        /\ dorecheck = FALSE /\ eventtab[ev_misc] = Off /\ j \in 0..Ev2Max
        /\ mintime \in 1..Never /\ ret \in {"cpu", "scan", "source"} /\ recursive = 1
    BY DEF IInv, TypeOK, Places, MiscScan, InMisc, Outer, free
  <1>2. due # {} => Least(due) \in due /\ \A s \in due : Least(due) <= s
    <2>1. due \in SUBSET Nat
      BY DEF Evs2
    <2> HIDE DEF due
    <2> QED
      BY <2>1, LeastIs
  <1>3. upto \in 0..Ev2Max /\ \A s \in Evs2 : s >= j /\ s < upto => eventtab2[s].evtime # currcycle
    <2>1. CASE due = {}
      BY <2>1
    <2>2. CASE due # {}
      <3>1. upto = Least(due) /\ upto \in Evs2
        BY <1>2, <2>2
      <3>2. ASSUME NEW s \in Evs2, s >= j, s < upto, eventtab2[s].evtime = currcycle PROVE FALSE
        <4>1. Least(due) <= s
          BY <1>2, <2>2, <3>2
        <4> QED
          BY <3>1, <3>2, <4>1 DEF Evs2
      <3> HIDE DEF upto, due
      <3> QED
        BY <3>1, <3>2 DEF Evs2
    <2> QED
      BY <2>1, <2>2
  <1>4. /\ soonest \in 1..mintime
        /\ \A s \in Evs2 : s >= j /\ s < upto /\ eventtab2[s].evtime # Off =>
             soonest <= Far(currcycle, eventtab2[s].evtime)
    <2> HIDE DEF upto
    <2> QED
      BY <1>1, <1>3, SoonestIs DEF IInv
  \* What is known of the entries before upto.
  <1>5. \A s \in Evs2 : s < upto /\ eventtab2[s].evtime # Off =>
          /\ eventtab2[s].evtime # currcycle
          /\ recheck \/ soonest <= Far(currcycle, eventtab2[s].evtime)
    <2> SUFFICES ASSUME NEW s \in Evs2, s < upto, eventtab2[s].evtime # Off
                 PROVE  /\ eventtab2[s].evtime # currcycle
                        /\ recheck \/ soonest <= Far(currcycle, eventtab2[s].evtime)
      OBVIOUS
    <2>1. Far(currcycle, eventtab2[s].evtime) \in 0..Never
      BY <1>1, Types, FarIs DEF IInv
    <2>2. CASE s >= j
      <3> HIDE DEF upto, soonest
      <3> QED
        BY <1>3, <1>4, <2>2
    <2>3. CASE s < j
      <3>1. /\ eventtab2[s].evtime # currcycle
            /\ recheck \/ mintime <= Far(currcycle, eventtab2[s].evtime)
        BY <1>1, <2>3 DEF IInv, Walk, Walked
      <3> HIDE DEF upto, soonest
      <3> QED
        BY <1>1, <1>4, <2>1, <3>1 DEF Never
    <2>4. s \in Nat
      BY DEF Evs2
    <2> HIDE DEF upto, soonest
    <2> QED
      BY <1>1, <2>2, <2>3, <2>4
  <1>6. CASE /\ due # {}
             /\ eventtab2' = [eventtab2 EXCEPT ![upto] = Inactive]
             /\ j' = upto /\ mintime' = soonest /\ pc' = "event2"
             /\ UNCHANGED <<nextevent, eventtab, recursive, i, recheck, ret>>
    <2>1. upto \in Evs2 /\ InMisc' /\ Outer' = ret
      BY <1>2, <1>6 DEF InMisc, Outer
    <2> HIDE DEF due, upto, soonest
    <2>2. Inactive \in [evtime : Times \union {Off}, func : Funcs] /\ Inactive.evtime = Off
      BY DEF Inactive
    <2>3. /\ eventtab2' \in [Evs2 -> [evtime : Times \union {Off}, func : Funcs]]
          /\ \A s \in Evs2 : s # upto => eventtab2'[s] = eventtab2[s]
          /\ eventtab2'[upto].evtime = Off
      BY <1>6, <2>1, <2>2 DEF IInv, TypeOK
    <2>4. TypeOK'
      <3>1. mintime' \in 0..Never /\ j' \in 0..Ev2Max /\ pc' \in {"event2"}
        BY <1>1, <1>3, <1>4, <1>6 DEF Never
      <3> QED
        BY <1>1, <1>6, <2>3, <3>1 DEF IInv, TypeOK
    <2>5. Ahead'
      <3>1. \A s \in Evs2 : eventtab2'[s].evtime # Off => eventtab2'[s] = eventtab2[s]
        BY <2>3
      <3> QED
        BY <1>1, <1>6, <3>1 DEF IInv, Ahead
    <2>6. Walk'
      <3> SUFFICES ASSUME NEW s \in Evs2, Walked(s)', eventtab2'[s].evtime # Off
                   PROVE  /\ eventtab2'[s].evtime # currcycle
                          /\ recheck \/ soonest <= Far(currcycle, eventtab2'[s].evtime)
        BY <1>1, <1>6 DEF Walk
      <3>1. s # upto
        BY <2>3
      <3>2. s < upto
        BY <1>6, <3>1 DEF Walked
      <3> QED
        BY <1>5, <2>3, <3>1, <3>2
    <2>7. Stops' /\ Handled' /\ Announced'
      BY <1>1, <1>6, <2>1 DEF IInv, Stops, Handled, Announced
    <2>8. Places'
      BY <1>1, <1>4, <1>6, <2>1 DEF IInv, Places
    <2> QED
      BY <2>4, <2>5, <2>6, <2>7, <2>8 DEF IInv
  <1>7. CASE /\ due = {} /\ recheck
             /\ j' = 0 /\ recheck' = FALSE /\ mintime' = Never
             /\ UNCHANGED <<nextevent, eventtab, eventtab2, recursive, pc, i, ret>>
    <2> HIDE DEF due, upto, soonest
    <2>1. InMisc' /\ Outer' = ret
      BY <1>1, <1>7 DEF InMisc, Outer
    <2>2. TypeOK'
      <3>1. recheck' \in BOOLEAN
        BY <1>7
      <3>2. mintime' \in 0..Never /\ j' \in 0..Ev2Max
        BY <1>7 DEF Never
      <3> QED
        BY <1>1, <1>7, <3>1, <3>2 DEF IInv, TypeOK
    <2>3. Walk'
      BY <1>1, <1>7 DEF Walk, Walked, Evs2
    <2>4. Ahead' /\ Stops' /\ Handled' /\ Announced'
      BY <1>1, <1>7, <2>1 DEF IInv, Ahead, Stops, Handled, Announced
    <2>5. Places'
      BY <1>1, <1>7, <2>1 DEF IInv, Places, Never
    <2> QED
      BY <2>2, <2>3, <2>4, <2>5 DEF IInv
  <1>8. CASE /\ due = {} /\ ~recheck
             /\ \/ /\ eventtab' = [eventtab EXCEPT ![ev_misc] = In(soonest)]
                   /\ nextevent' = Schedule(eventtab')
                \/ soonest = Never /\ UNCHANGED <<nextevent, eventtab>>
             /\ LeaveMisc
    <2>1. /\ recursive' = 0 /\ pc' = ret /\ ret' = "cpu" /\ j' = 0 /\ recheck' = FALSE
          /\ mintime' = Never /\ eventtab2' = eventtab2 /\ i' = IF ret = "scan" THEN i + 1 ELSE i
      BY <1>8 DEF LeaveMisc
    <2>2. ~InMisc' /\ Outer' = ret
      BY <1>1, <2>1 DEF InMisc, Outer
    <2>3. \A s \in Evs2 : eventtab2[s].evtime # Off => soonest <= Far(currcycle, eventtab2[s].evtime)
      <3>1. \A s \in Evs2 : s < upto
        BY <1>8 DEF Evs2
      <3> HIDE DEF due, upto, soonest
      <3> QED
        BY <1>5, <1>8, <3>1
    <2> HIDE DEF due, upto, soonest
    <2>4. soonest \in 0..Never /\ soonest > 0
      BY <1>1, <1>4 DEF Never
    <2>5. In(soonest) \in Times /\ Far(currcycle, In(soonest)) = soonest /\ In(soonest) # currcycle
      <3>1. In(soonest) = Later(currcycle, soonest)
        BY DEF In, Later
      <3>2. In(soonest) \in Times /\ Far(currcycle, In(soonest)) = soonest
        BY <1>1, <2>4, <3>1, LaterIs, FarLater
      <3> QED
        BY <1>1, <2>4, <3>2, FarIs DEF Never
    <2>6. /\ eventtab' \in [Evs -> Times \union {Off}] /\ nextevent' \in Times
          /\ eventtab'[ev_misc] \in {In(soonest), Off}
          /\ eventtab'[ev_misc] = Off => soonest = Never /\ UNCHANGED <<nextevent, eventtab>>
          /\ eventtab'[ev_misc] # Off => nextevent' = Schedule(eventtab')
          /\ \A e \in Evs : e # ev_misc => eventtab'[e] = eventtab[e]
      <3>1. In(soonest) # Off /\ ev_misc \in Evs /\ eventtab \in [Evs -> Times \union {Off}]
            /\ nextevent \in Times
        BY <2>5, Types DEF Off, Times, IInv, TypeOK
      <3>2. CASE eventtab' = [eventtab EXCEPT ![ev_misc] = In(soonest)]
                 /\ nextevent' = Schedule(eventtab')
        <4>1. eventtab' \in [Evs -> Times \union {Off}]
          BY <2>5, <3>1, <3>2
        <4> QED
          BY <1>1, <3>1, <3>2, <4>1, ScheduleIs
      <3>3. CASE soonest = Never /\ UNCHANGED <<nextevent, eventtab>>
        BY <1>1, <3>1, <3>3
      <3> QED
        BY <1>8, <3>2, <3>3
    <2>7. TypeOK'
      <3>1. recheck' \in BOOLEAN
        BY <2>1
      <3>2. i' \in 0..EvMax
        BY <1>1, <2>1 DEF IInv, TypeOK, Places, ev_misc
      <3>3. mintime' \in 0..Never /\ j' \in 0..Ev2Max
        BY <2>1 DEF Never
      <3> QED
        BY <1>1, <2>1, <2>6, <3>1, <3>2, <3>3 DEF IInv, TypeOK
    <2>8. Ahead'
      BY <1>1, <2>1, <2>6 DEF IInv, Ahead
    <2>9. Stops'
      <3> SUFFICES ASSUME ret \in {"cpu", "loop"}
                   PROVE  /\ Far(currcycle, nextevent') > 0
                          /\ \A e \in Evs : eventtab'[e] # Off =>
                               Far(currcycle, nextevent') <= Far(currcycle, eventtab'[e])
        BY <1>1, <2>2 DEF Stops
      <3>1. /\ Far(currcycle, nextevent) > 0
            /\ \A e \in Evs : eventtab[e] # Off =>
                 Far(currcycle, nextevent) <= Far(currcycle, eventtab[e])
        BY <1>1 DEF IInv, Stops
      <3>2. CASE eventtab'[ev_misc] = Off
        BY <2>6, <3>1, <3>2
      <3>3. CASE eventtab'[ev_misc] # Off
        <4>1. ASSUME NEW e \in Evs PROVE eventtab'[e] # currcycle
          <5>1. CASE e = ev_misc
            BY <2>5, <2>6, <3>3, <5>1
          <5>2. CASE e # ev_misc /\ eventtab[e] # Off
            <6>1. Far(currcycle, nextevent) \in 0..Never /\ eventtab[e] \in Times
              BY <1>1, <5>2, FarIs, Types DEF IInv
            <6>2. Far(currcycle, eventtab[e]) \in 0..Never
                  /\ (Far(currcycle, eventtab[e]) = 0 <=> eventtab[e] = currcycle)
              BY <1>1, <6>1, FarIs
            <6> QED
              BY <2>6, <3>1, <5>2, <6>1, <6>2 DEF Never
          <5>3. CASE e # ev_misc /\ eventtab[e] = Off
            BY <1>1, <2>6, <5>3 DEF Times, Off
          <5> QED
            BY <5>1, <5>2, <5>3
        <4> QED
          BY <1>1, <2>6, <3>3, <4>1, ScheduleIs
      <3> QED
        BY <3>2, <3>3
    <2>10. Handled'
      <3> SUFFICES ASSUME ret \in {"scan", "source"}, NEW e \in Evs, e < i'
                   PROVE  eventtab'[e] # currcycle
        BY <1>1, <2>2 DEF Handled
      <3>1. CASE e = ev_misc
        BY <1>1, <2>5, <2>6, <3>1 DEF Times, Off
      <3>2. CASE e # ev_misc
        <4>1. e < i
          <5>1. ret = "scan" => i = ev_misc
            BY <1>1 DEF IInv, Places
          <5> QED
            BY <2>1, <3>2, <5>1 DEF Evs, ev_misc
        <4> QED
          BY <1>1, <2>6, <3>2, <4>1 DEF IInv, Handled
      <3> QED
        BY <3>1, <3>2
    <2>11. Announced'
      <3> SUFFICES ASSUME NEW s \in Evs2, eventtab2[s].evtime # Off
                   PROVE  /\ eventtab'[ev_misc] # Off
                          /\ Far(currcycle, eventtab'[ev_misc]) <= Far(currcycle, eventtab2[s].evtime)
        BY <1>1, <2>1 DEF Announced
      <3>1. soonest <= Far(currcycle, eventtab2[s].evtime)
        BY <2>3
      <3>2. Far(currcycle, eventtab2[s].evtime) \in 0..Never
            /\ Far(currcycle, eventtab2[s].evtime) <= MaxDelay
        BY <1>1, Types, FarIs DEF IInv, Ahead
      <3>3. soonest # Never
        BY <2>4, <3>1, <3>2 DEF Never
      <3> QED
        BY <2>5, <2>6, <3>1, <3>3
    <2>12. Walk'
      BY <2>2 DEF Walk
    <2>13. Places'
      BY <1>1, <2>1, <2>2 DEF IInv, Places
    <2> QED
      BY <2>7, <2>8, <2>9, <2>10, <2>11, <2>12, <2>13 DEF IInv
  <1> QED
    BY <1>6, <1>7, <1>8 DEF MiscScan

LEMMA Event2ReturnKeeps == ASSUME IInv, Event2Return PROVE IInv'
  <1>1. /\ pc = "event2" /\ pc' = "misc" /\ j' = j + 1 /\ j \in Evs2
        /\ UNCHANGED <<currcycle, nextevent, eventtab, eventtab2, next, recursive, do_cycles, pissoff>>
        /\ UNCHANGED <<is_syncline, left, i, ret, mintime>>
        /\ InMisc /\ InMisc' /\ Outer = ret /\ Outer' = ret
    BY DEF Event2Return, clock, free, loop, InMisc, Outer, IInv, Places
  <1>2. recheck' \in BOOLEAN /\ dorecheck' = FALSE
    <2>1. CASE dorecheck \/ eventtab2[j].evtime # Off
      BY <2>1 DEF Event2Return
    <2>2. CASE ~(dorecheck \/ eventtab2[j].evtime # Off)
      BY <2>2 DEF Event2Return, IInv, TypeOK
    <2> QED
      BY <2>1, <2>2
  <1>3. recheck \/ dorecheck => recheck'
    BY DEF Event2Return
  <1>4. TypeOK'
    <2>1. dorecheck' \in BOOLEAN
      BY <1>2
    <2>2. j' \in 0..Ev2Max
      BY <1>1 DEF Evs2
    <2> QED
      BY <1>1, <1>2, <2>1, <2>2 DEF IInv, TypeOK
  <1>5. Walk'
    <2> SUFFICES ASSUME NEW s \in Evs2, Walked(s)', eventtab2[s].evtime # Off
                 PROVE  /\ eventtab2[s].evtime # currcycle
                        /\ recheck' \/ mintime <= Far(currcycle, eventtab2[s].evtime)
      BY <1>1, <1>2 DEF Walk
    <2>1. Walked(s)
      BY <1>1 DEF Walked, Evs2
    <2> QED
      BY <1>1, <1>3, <2>1 DEF IInv, Walk
  <1>6. Ahead' /\ Stops' /\ Handled' /\ Announced'
    BY <1>1 DEF IInv, Ahead, Stops, Handled, Announced
  <1>7. Places'
    BY <1>1, <1>2 DEF IInv, Places
  <1> QED
    BY <1>4, <1>5, <1>6, <1>7 DEF IInv

-----------------------------------------------------------------------------
(* What handlers and the CPU's accesses call.                              *)

\* A new event is announced by calling MISC_handler, or by having it walk again.
LEMMA NewEventKeeps ==
  ASSUME IInv, Calls, NEW s \in Evs2, NEW d \in 0..MaxDelay, NEW f \in Funcs,
         pc = "event2" => d > 0, NewEvent(s, d, f), next' \in Ev2Misc..(Ev2Max - 1)
  PROVE  IInv'
  <1>1. /\ UNCHANGED <<currcycle, nextevent, do_cycles, pissoff, is_syncline, left, i>>
        /\ currcycle \in Times /\ pc \in {"cpu", "source", "event2"}
        /\ eventtab2' = [eventtab2 EXCEPT ![s] = [evtime |-> In(d), func |-> f]]
    BY DEF NewEvent, Calls, clock, free, loop, IInv, TypeOK
  <1>2. /\ In(d) \in Times /\ Far(currcycle, In(d)) = d /\ In(d) # Off
        /\ (d > 0 => In(d) # currcycle)
    BY <1>1, InIs
  <1>3. /\ eventtab2' \in [Evs2 -> [evtime : Times \union {Off}, func : Funcs]]
        /\ \A x \in Evs2 : x # s => eventtab2'[x] = eventtab2[x]
        /\ eventtab2'[s].evtime = In(d)
    BY <1>1, <1>2 DEF IInv, TypeOK
  <1>4. \A x \in Evs2 :
          eventtab2'[x].evtime # Off => Far(currcycle, eventtab2'[x].evtime) <= MaxDelay
    <2> SUFFICES ASSUME NEW x \in Evs2, eventtab2'[x].evtime # Off
                 PROVE  Far(currcycle, eventtab2'[x].evtime) <= MaxDelay
      OBVIOUS
    <2>1. CASE x = s
      BY <1>2, <1>3, <2>1
    <2>2. CASE x # s
      BY <1>3, <2>2 DEF IInv, Ahead
    <2> QED
      BY <2>1, <2>2
  <1>5. CASE recursive = 1
    <2>1. /\ dorecheck' = TRUE /\ UNCHANGED <<eventtab, recursive, pc, ret, j, recheck, mintime>>
      BY <1>5 DEF NewEvent, misc
    <2>2. pc = "event2" /\ InMisc /\ InMisc' /\ Outer' = Outer
      BY <1>1, <1>5, <2>1 DEF IInv, Places, InMisc, Outer
    <2>3. TypeOK'
      <3>1. dorecheck' \in BOOLEAN
        BY <2>1
      <3> QED
        BY <1>1, <1>3, <2>1, <3>1 DEF IInv, TypeOK
    <2>4. Walk'
      <3> SUFFICES ASSUME NEW x \in Evs2, Walked(x), eventtab2'[x].evtime # Off
                   PROVE  eventtab2'[x].evtime # currcycle
        BY <1>1, <2>1 DEF Walk, Walked
      <3>1. CASE x = s
        BY <1>2, <1>3, <2>2, <3>1
      <3>2. CASE x # s
        BY <1>3, <2>2, <3>2 DEF IInv, Walk
      <3> QED
        BY <3>1, <3>2
    <2>5. Ahead'
      BY <1>1, <1>4, <2>1 DEF IInv, Ahead
    <2>6. Stops' /\ Handled' /\ Announced'
      BY <1>1, <2>1, <2>2 DEF IInv, Stops, Handled, Announced
    <2>7. Places'
      BY <1>1, <2>1, <2>2 DEF IInv, Places
    <2> QED
      BY <2>3, <2>4, <2>5, <2>6, <2>7 DEF IInv
  <1>6. CASE recursive # 1
    <2>1. EnterMisc(pc) /\ dorecheck' = dorecheck
      BY <1>6 DEF NewEvent
    <2>2. ~InMisc /\ pc \in {"cpu", "source"} /\ Outer = pc /\ dorecheck = FALSE
      BY <1>1, <1>6 DEF IInv, Places, InMisc, Outer, TypeOK
    <2>3. /\ recursive' = 1 /\ pc' = "misc" /\ ret' = pc /\ j' = 0 /\ mintime' = Never
          /\ recheck' = FALSE
          /\ eventtab' \in [Evs -> Times \union {Off}] /\ eventtab'[ev_misc] = Off
          /\ \A e \in Evs \ {ev_misc} : eventtab'[e] = eventtab[e]
      BY <2>1, <2>2, EnterTypes DEF IInv
    <2>4. InMisc' /\ Outer' = pc
      BY <2>3 DEF InMisc, Outer
    <2>5. TypeOK'
      <3>1. recheck' \in BOOLEAN
        BY <2>3
      <3>2. mintime' \in 0..Never /\ j' \in 0..Ev2Max /\ ret' \in {"cpu", "source"}
        BY <2>2, <2>3 DEF Never
      <3> QED
        BY <1>1, <1>3, <2>1, <2>3, <3>1, <3>2 DEF IInv, TypeOK
    <2>6. Ahead'
      BY <1>1, <1>4, <2>3 DEF IInv, Ahead
    <2>7. Stops'
      BY <1>1, <2>2, <2>3, <2>4 DEF IInv, Stops
    <2>8. Handled'
      <3>1. currcycle # Off
        BY <1>1 DEF Times, Off
      <3> QED
        BY <1>1, <2>2, <2>3, <2>4, <3>1 DEF IInv, Handled
    <2>9. Walk'
      BY <2>3 DEF Walk, Walked, Evs2
    <2>10. Announced' /\ Places'
      BY <1>1, <2>1, <2>2, <2>3, <2>4 DEF IInv, Announced, Places, Never
    <2> QED
      BY <2>5, <2>6, <2>7, <2>8, <2>9, <2>10 DEF IInv
  <1> QED
    BY <1>5, <1>6

\* An entry without an owner is found.
LEMMA TryIs == ASSUME NEW n \in Nat, TypeOK PROVE Try(n) \in Ev2Misc..(Ev2Max - 1)
  <1> DEFINE a == next - Ev2Misc + n
             m == Ev2Max - Ev2Misc
  <1>1. a \in Nat /\ m \in Nat \ {0}
    BY DEF TypeOK
  <1>2. a % m \in 0..(m - 1)
    <2> HIDE DEF a, m
    <2> QED
      BY <1>1, SMT
  <1>3. Try(n) = Ev2Misc + (a % m)
    BY DEF Try
  <1>4. Ev2Misc + (a % m) \in Ev2Misc..(Ev2Misc + m - 1)
    <2> HIDE DEF a, m
    <2> QED
      BY <1>1, <1>2
  <1> QED
    BY <1>1, <1>3, <1>4

LEMMA RequestKeeps ==
  ASSUME IInv,
         \/ \E s \in 0..(Ev2Misc - 1), d \in 0..MaxDelay, f \in Funcs : event2_newevent(s, d, f)
         \/ \E d \in 0..MaxDelay, f \in Funcs : event2_newevent2(d, f)
  PROVE  IInv'
  <1>1. ASSUME NEW s \in 0..(Ev2Misc - 1), NEW d \in 0..MaxDelay, NEW f \in Funcs,
               event2_newevent(s, d, f)
        PROVE  IInv'
    <2>1. s \in Evs2 /\ next' \in Ev2Misc..(Ev2Max - 1) /\ (pc = "event2" => d > 0)
      BY <1>1 DEF event2_newevent, Evs2, Delays, IInv, TypeOK
    <2> QED
      BY <1>1, <2>1, NewEventKeeps DEF event2_newevent
  <1>2. ASSUME NEW d \in 0..MaxDelay, NEW f \in Funcs, event2_newevent2(d, f)
        PROVE  IInv'
    <2> DEFINE fits(s) == \/ eventtab2[s].evtime = Off
                          \/ eventtab2[s] = [evtime |-> In(d), func |-> f]
               found == {n \in Tries : fits(Try(n))}
    <2>1. /\ Calls /\ d \in Delays /\ found # {} /\ next' = Try(Least(found))
          /\ NewEvent(Try(Least(found)), d, f)
      BY <1>2 DEF event2_newevent2
    <2>2. Least(found) \in Nat
      <3>1. found \in SUBSET Nat /\ found # {}
        BY <2>1 DEF Tries
      <3> HIDE DEF found
      <3> QED
        BY <3>1, LeastIs
    <2> HIDE DEF fits, found
    <2>3. Try(Least(found)) \in Ev2Misc..(Ev2Max - 1)
      BY <2>2, TryIs DEF IInv
    <2>4. Try(Least(found)) \in Evs2 /\ (pc = "event2" => d > 0)
      BY <2>1, <2>3 DEF Evs2, Delays
    <2> QED
      BY <2>1, <2>3, <2>4, NewEventKeeps
  <1> QED
    BY <1>1, <1>2

LEMMA RemoveKeeps ==
  ASSUME IInv,
         \/ \E s \in 0..(Ev2Misc - 1) : event2_remevent(s)
         \/ \E f \in Funcs : event2_newevent_x_remove(f)
  PROVE  IInv'
  <1>1. /\ UNCHANGED <<currcycle, nextevent, eventtab, next, recursive, dorecheck, do_cycles>>
        /\ UNCHANGED <<pissoff, is_syncline, pc, left, i, ret, j, recheck, mintime>>
    BY DEF event2_remevent, event2_newevent_x_remove, clock, statics, free, loop, misc
  <1>2. Inactive \in [evtime : Times \union {Off}, func : Funcs] /\ Inactive.evtime = Off
    BY DEF Inactive
  <1>3. /\ eventtab2' \in [Evs2 -> [evtime : Times \union {Off}, func : Funcs]]
        /\ \A s \in Evs2 : eventtab2'[s] = eventtab2[s] \/ eventtab2'[s].evtime = Off
    BY <1>2 DEF event2_remevent, event2_newevent_x_remove, IInv, TypeOK
  <1>4. \A s \in Evs2 : eventtab2'[s].evtime # Off => eventtab2'[s] = eventtab2[s]
    BY <1>3
  <1>5. (InMisc' <=> InMisc) /\ Outer' = Outer
    BY <1>1 DEF InMisc, Outer
  <1>6. TypeOK'
    BY <1>1, <1>3 DEF IInv, TypeOK
  <1>7. Ahead' /\ Stops' /\ Handled'
    BY <1>1, <1>4, <1>5 DEF IInv, Ahead, Stops, Handled
  <1>8. Announced' /\ Walk' /\ Places'
    BY <1>1, <1>4, <1>5 DEF IInv, Announced, Walk, Walked, Places
  <1> QED
    BY <1>6, <1>7, <1>8 DEF IInv

-----------------------------------------------------------------------------
LEMMA InvInit == Init => IInv
  <1> SUFFICES ASSUME Init PROVE IInv
    OBVIOUS
  <1>1. TypeOK /\ ~InMisc /\ Outer = "cpu" /\ currcycle \in Times
    BY TypeInit DEF Init, InMisc, Outer, TypeOK
  <1>2. In(Line) \in Times /\ Far(currcycle, In(Line)) = Line /\ In(Line) # currcycle
    BY <1>1, Delays1, InIs
  <1>3. \A e \in Evs : eventtab[e] = IF e = ev_hsync THEN In(Line) ELSE Off
    BY DEF Init
  <1>4. \A s \in Evs2 : eventtab2[s].evtime = Off
    BY DEF Init, Inactive
  <1>5. Ahead /\ Announced
    BY <1>2, <1>3, <1>4, Delays1 DEF Ahead, Announced
  <1>6. Stops
    <2>1. nextevent = Schedule(eventtab) /\ eventtab \in [Evs -> Times \union {Off}]
      BY <1>1 DEF Init, TypeOK
    <2>2. \A e \in Evs : eventtab[e] # currcycle
      BY <1>1, <1>2, <1>3 DEF Times, Off
    <2> QED
      BY <1>1, <2>1, <2>2, ScheduleIs DEF Stops
  <1>7. Handled /\ Walk /\ Places
    BY <1>1 DEF Handled, Walk, Places, Init
  <1> QED
    BY <1>1, <1>5, <1>6, <1>7 DEF IInv

LEMMA InvNext == IInv /\ [Next]_vars => IInv'
  <1> SUFFICES ASSUME IInv, [Next]_vars PROVE IInv'
    OBVIOUS
  <1>1. CASE UNCHANGED vars
    <2>1. /\ UNCHANGED <<currcycle, nextevent, eventtab, eventtab2, next, recursive, dorecheck>>
          /\ UNCHANGED <<do_cycles, pissoff, is_syncline, pc, left, i, ret, j, recheck, mintime>>
      BY <1>1 DEF vars, clock, statics, free, loop, misc
    <2>2. (InMisc' <=> InMisc) /\ Outer' = Outer
      BY <2>1 DEF InMisc, Outer
    <2>3. TypeOK'
      BY <2>1 DEF IInv, TypeOK
    <2> QED
      BY <2>1, <2>2, <2>3 DEF IInv, Ahead, Stops, Handled, Announced, Walk, Walked, Places
  <1>2. CASE SetDoCycles \/ RunClock \/ \E c \in 1..MaxCycles : KeepEmulating(c)
    BY <1>2, CpuKeeps
  <1>3. CASE Walks \/ Event2Return \/ SourceReturns
    BY <1>3, AdvanceKeeps, ScanKeeps, MiscScanKeeps, Event2ReturnKeeps, SourceReturnKeeps DEF Walks
  <1>4. CASE \E e \in Sources, t \in Soon : SetSource(e, t)
    BY <1>4, SetSourceKeeps
  <1>5. CASE \/ \E s \in 0..(Ev2Misc - 1), d \in 0..MaxDelay, f \in Funcs : event2_newevent(s, d, f)
             \/ \E d \in 0..MaxDelay, f \in Funcs : event2_newevent2(d, f)
    BY <1>5, RequestKeeps
  <1>6. CASE \/ \E s \in 0..(Ev2Misc - 1) : event2_remevent(s)
             \/ \E f \in Funcs : event2_newevent_x_remove(f)
    BY <1>6, RemoveKeeps
  <1> QED
    BY <1>1, <1>2, <1>3, <1>4, <1>5, <1>6 DEF Next

LEMMA InvArmed == IInv => Armed
  <1> SUFFICES ASSUME IInv PROVE Armed
    OBVIOUS
  <1>1. \A t : Dist(t) = Far(currcycle, t)
    BY DEF Dist, Far
  <1>2. \A t \in Pending : \/ \E e \in Evs \ {ev_misc} : t = eventtab[e] /\ eventtab[e] # Off
                           \/ \E s \in Evs2 : t = eventtab2[s].evtime /\ eventtab2[s].evtime # Off
    BY DEF Pending
  <1>3. NotOvertaken
    BY <1>1, <1>2 DEF NotOvertaken, IInv, Ahead
  <1>4. ASSUME pc = "cpu"
        PROVE  /\ \A t \in Pending : 0 < Dist(nextevent) /\ Dist(nextevent) <= Dist(t)
               /\ \A s \in Evs2 : eventtab2[s].evtime # Off =>
                    eventtab[ev_misc] # Off /\ Dist(eventtab[ev_misc]) <= Dist(eventtab2[s].evtime)
    <2>1. ~InMisc /\ Outer = "cpu" /\ currcycle \in Times /\ nextevent \in Times /\ ev_misc \in Evs
      BY <1>4, Types DEF InMisc, Outer, IInv
    <2>2. /\ Far(currcycle, nextevent) > 0
          /\ \A e \in Evs : eventtab[e] # Off =>
               Far(currcycle, nextevent) <= Far(currcycle, eventtab[e])
      BY <2>1 DEF IInv, Stops
    <2>3. \A s \in Evs2 : eventtab2[s].evtime # Off =>
            /\ eventtab[ev_misc] # Off
            /\ Far(currcycle, eventtab[ev_misc]) <= Far(currcycle, eventtab2[s].evtime)
      BY <2>1 DEF IInv, Announced
    <2>4. Far(currcycle, nextevent) \in 0..Never
      BY <2>1, FarIs
    <2>5. ASSUME NEW s \in Evs2, eventtab2[s].evtime # Off
          PROVE  Far(currcycle, nextevent) <= Far(currcycle, eventtab2[s].evtime)
      <3>1. eventtab2[s].evtime \in Times /\ eventtab[ev_misc] \in Times /\ eventtab[ev_misc] # Off
        BY <2>1, <2>3, <2>5, Types DEF IInv
      <3>2. /\ Far(currcycle, eventtab2[s].evtime) \in 0..Never
            /\ Far(currcycle, eventtab[ev_misc]) \in 0..Never
        BY <2>1, <3>1, FarIs
      <3>3. /\ Far(currcycle, nextevent) <= Far(currcycle, eventtab[ev_misc])
            /\ Far(currcycle, eventtab[ev_misc]) <= Far(currcycle, eventtab2[s].evtime)
        BY <2>1, <2>2, <2>3, <2>5, <3>1
      <3> QED
        BY <2>4, <3>2, <3>3 DEF Never
    <2>6. \A t \in Pending : Far(currcycle, nextevent) <= Far(currcycle, t)
      BY <1>2, <2>2, <2>5
    <2> QED
      BY <1>1, <2>2, <2>3, <2>4, <2>6 DEF Never
  <1> QED
    BY <1>3, <1>4 DEF Armed, IInv

\* What is put off is known to do_cycles: by nextevent, by ev_misc, or by the walk under way.
THEOREM Inductive == Spec => []IInv
  BY InvInit, InvNext, PTL DEF Spec

\* The clock overtakes no event, and the CPU never runs past the soonest one, whatever handlers
\* ask for and take back, inside MISC_handler too, and wherever the clock wraps.
THEOREM NoneOvertaken == Spec => []Armed
  BY Inductive, InvArmed, PTL

HIDE EventsAssumption DEF EventsAssumption

-----------------------------------------------------------------------------
(* The CIA timers: bytes of a counter and E clocks. *)

LEMMA TimerSizes ==
  /\ Byte \in Nat /\ Byte > 0 /\ ShiftClocks \in Nat /\ ShiftClocks > 0 /\ DIV10 \in Nat /\ DIV10 > 0
  /\ MaxElapsed \in Nat /\ MaxWrites \in Nat /\ CntMod \in Nat
  /\ Cias \subseteq {"a", "b"} /\ SpOut \subseteq Cias /\ Enabled \subseteq Flags
  BY CiaAssumption, TimersAssumption DEF CiaAssumption, TimersAssumption

LEMMA Divided ==
  ASSUME NEW m \in Nat, m > 0, NEW x \in Nat
  PROVE  /\ x \div m \in Nat /\ x % m \in 0..(m - 1) /\ x = m * (x \div m) + (x % m)
  BY SMT

\* The quotient is where it is.
LEMMA Quotient ==
  ASSUME NEW m \in Nat, m > 0, NEW x \in Nat, NEW k \in Nat
  PROVE  /\ x < m * k => x \div m < k
         /\ x >= m * k => x \div m >= k
  <1> DEFINE q == x \div m
             r == x % m
  <1>1. q \in Nat /\ r \in 0..(m - 1) /\ x = m * q + r
    BY Divided
  <1> HIDE DEF q, r
  <1>2. ASSUME q >= k PROVE x >= m * k
    <2>1. m * q = m * k + m * (q - k) /\ m * (q - k) >= 0
      BY <1>1, <1>2, SMT
    <2> QED
      BY <1>1, <2>1
  <1>3. ASSUME q < k PROVE x < m * k
    <2>1. m * k = m * q + m + m * (k - q - 1) /\ m * (k - q - 1) >= 0
      BY <1>1, <1>3, SMT
    <2> QED
      BY <1>1, <2>1
  <1>4. (x < m * k => q < k) /\ (x >= m * k => q >= k)
    BY <1>1, <1>2, <1>3
  <1> QED
    BY <1>4 DEF q

LEMMA ByteOf ==
  ASSUME NEW x \in Count
  PROVE  x \div Byte \in Bytes /\ x % Byte \in Bytes
  <1>1. x \in Nat /\ x < Byte * Byte
    BY TimerSizes DEF Count
  <1>2. x \div Byte \in Nat /\ x % Byte \in 0..(Byte - 1) /\ x \div Byte < Byte
    BY <1>1, TimerSizes, Divided, Quotient
  <1> QED
    BY <1>2, TimerSizes DEF Bytes

LEMMA ByteJoined ==
  ASSUME NEW v \in Bytes, NEW w \in Bytes
  PROVE  v * Byte + w \in Count
  <1>1. v \in Nat /\ w \in Nat /\ v <= Byte - 1 /\ w <= Byte - 1
    BY TimerSizes DEF Bytes
  <1>2. Byte * Byte = v * Byte + Byte + (Byte - 1 - v) * Byte /\ (Byte - 1 - v) * Byte >= 0 /\ v * Byte >= 0
    BY <1>1, TimerSizes, SMT
  <1> DEFINE p == v * Byte
             s == (Byte - 1 - v) * Byte
             b == Byte * Byte
  <1>3. b = p + Byte + s /\ s >= 0 /\ p >= 0 /\ p \in Int /\ s \in Int /\ b \in Int
    BY <1>1, <1>2, TimerSizes
  <1> HIDE DEF p, s, b
  <1>4. p + w \in 0..(b - 1)
    BY <1>1, <1>3, TimerSizes
  <1> QED
    BY <1>4 DEF p, b, Count

LEMMA TimerTypes ==
  /\ 0 \in Count /\ Byte * Byte - 1 \in Count /\ 3 \in 0..3 /\ 2 \in 0..3 /\ 0 \in 0..3
  /\ 0 \in Bytes /\ \A x \in Count : x \in Nat
  /\ 0 \in 0..ShiftClocks /\ ShiftClocks \in 0..ShiftClocks
  <1>1. 0 \in Bytes /\ Byte - 1 \in Bytes
    BY TimerSizes DEF Bytes
  <1>2. (Byte - 1) * Byte + (Byte - 1) = Byte * Byte - 1 /\ 0 * Byte + 0 = 0
    BY TimerSizes, SMT
  <1>3. (Byte - 1) * Byte + (Byte - 1) \in Count /\ 0 * Byte + 0 \in Count
    BY <1>1, ByteJoined
  <1>4. \A x \in Count : x \in Nat
    BY TimerSizes DEF Count
  <1>5. 0 \in 0..ShiftClocks /\ ShiftClocks \in 0..ShiftClocks
    BY TimerSizes
  <1> QED
    BY <1>1, <1>2, <1>3, <1>4, <1>5

-----------------------------------------------------------------------------
(* One timer, and one CIA. *)

\* n E clocks do not bring the timer, or a timer of the CIA, to its underflow.
Fits(tm, n) == Clocked(tm) => n <= tm.t + tm.start
Idle(ch, n) == Fits(ch.a, n) /\ Fits(ch.b, n)
At(ch, n) == [ch EXCEPT !.a = Advanced(@, n), !.b = Advanced(@, n)]

LEMMA PassedIs ==
  ASSUME NEW k \in {"a", "b"}, NEW tm \in Timer(k), NEW n \in Nat
  PROVE  /\ Passed(tm, n) \in Nat /\ Waited(tm, n) \in 0..3
         /\ Fits(tm, n) => tm.t - Passed(tm, n) \in Count /\ tm.t + 1 # Passed(tm, n)
         /\ Passed(tm, 0) = 0 /\ Waited(tm, 0) = tm.start
  BY TimerSizes, TimerTypes DEF Timer, Passed, Waited, Fits, Count

TimeSet(tm, t, s) == [tm EXCEPT !.t = t, !.start = s]
LEMMA TimerSet ==
  ASSUME NEW k, NEW tm \in Timer(k), NEW t, NEW s
  PROVE  /\ t \in Count /\ s \in 0..3 => TimeSet(tm, t, s) \in Timer(k)
         /\ TimeSet(tm, t, s).t = t /\ TimeSet(tm, t, s).start = s /\ TimeSet(tm, t, s).latch = tm.latch
         /\ TimeSet(tm, t, s).run = tm.run
         /\ TimeSet(tm, t, s).oneshot = tm.oneshot /\ TimeSet(tm, t, s).mode = tm.mode
         /\ t = tm.t /\ s = tm.start => TimeSet(tm, t, s) = tm
  <1>1. t \in Count /\ s \in 0..3 => TimeSet(tm, t, s) \in Timer(k)
    BY Zenon DEF TimeSet, Timer
  <1>2. /\ TimeSet(tm, t, s).t = t /\ TimeSet(tm, t, s).start = s /\ TimeSet(tm, t, s).latch = tm.latch
        /\ TimeSet(tm, t, s).run = tm.run
        /\ TimeSet(tm, t, s).oneshot = tm.oneshot /\ TimeSet(tm, t, s).mode = tm.mode
    BY SMT DEF TimeSet, Timer
  <1>3. t = tm.t /\ s = tm.start => TimeSet(tm, t, s) = tm
    BY Zenon DEF TimeSet, Timer
  <1> QED
    BY <1>1, <1>2, <1>3, Zenon

LEMMA AdvancedIs ==
  ASSUME NEW k \in {"a", "b"}, NEW tm \in Timer(k), NEW n \in Nat
  PROVE  /\ Fits(tm, n) => Advanced(tm, n) \in Timer(k)
         /\ Advanced(tm, n).t = tm.t - Passed(tm, n) /\ Advanced(tm, n).start = Waited(tm, n)
         /\ Advanced(tm, n).latch = tm.latch /\ Advanced(tm, n).run = tm.run
         /\ Advanced(tm, n).oneshot = tm.oneshot /\ Advanced(tm, n).mode = tm.mode
         /\ Advanced(tm, 0) = tm
  <1>1. tm.t \in Int /\ tm.start \in 0..3 /\ tm.t - 0 = tm.t
    BY TimerTypes DEF Timer
  <1>2. /\ tm.t - Passed(tm, n) \in Int /\ Waited(tm, n) \in 0..3
        /\ Fits(tm, n) => tm.t - Passed(tm, n) \in Count
        /\ tm.t - Passed(tm, 0) = tm.t /\ Waited(tm, 0) = tm.start
    BY <1>1, PassedIs
  <1>3. Fits(tm, n) => Advanced(tm, n) \in Timer(k)
    <2>1. Advanced(tm, n) = TimeSet(tm, tm.t - Passed(tm, n), Waited(tm, n))
      BY DEF Advanced, TimeSet
    <2> QED
      BY <1>2, <2>1, TimerSet
  <1>4. /\ Advanced(tm, n).t = tm.t - Passed(tm, n) /\ Advanced(tm, n).start = Waited(tm, n)
        /\ Advanced(tm, n).latch = tm.latch /\ Advanced(tm, n).run = tm.run
        /\ Advanced(tm, n).oneshot = tm.oneshot /\ Advanced(tm, n).mode = tm.mode
    BY SMT DEF Advanced, Timer
  <1>5. Advanced(tm, 0) = tm
    <2>1. Advanced(tm, 0) = [tm EXCEPT !.t = tm.t - Passed(tm, 0), !.start = Waited(tm, 0)]
      BY DEF Advanced
    <2>2. [tm EXCEPT !.t = tm.t, !.start = tm.start] = tm
      BY Zenon DEF Timer
    <2>3. tm.t - Passed(tm, 0) = tm.t /\ Waited(tm, 0) = tm.start
      BY <1>2
    <2> QED
      BY <2>1, <2>2, <2>3, Zenon
  <1> QED
    BY <1>3, <1>4, <1>5

\* A timer that may have passed its underflow.
Wide(k) == [t : Int, start : 0..3, latch : Count, run : BOOLEAN, oneshot : BOOLEAN, mode : Modes(k)]

LEMMA AdvancedWide ==
  ASSUME NEW k \in {"a", "b"}, NEW tm \in Timer(k), NEW n \in Nat
  PROVE  Advanced(tm, n) \in Wide(k)
  <1>1. tm.t \in Int
    BY TimerTypes DEF Timer
  <1>2. tm.t - Passed(tm, n) \in Int /\ Waited(tm, n) \in 0..3
    BY <1>1, PassedIs
  <1>3. \A t \in Int, s \in 0..3 : [tm EXCEPT !.t = t, !.start = s] \in Wide(k)
    BY Zenon DEF Timer, Wide
  <1> QED
    BY <1>2, <1>3 DEF Advanced

LEMMA TimerIsWide ==
  ASSUME NEW k, NEW tm \in Timer(k)
  PROVE  tm \in Wide(k)
  <1>1. tm.t \in Int
    BY TimerTypes DEF Timer
  <1> QED
    BY <1>1, SMT DEF Timer, Wide

LEMMA ReloadIs ==
  ASSUME NEW k, NEW tm \in Wide(k)
  PROVE  /\ Reload(tm) \in Timer(k)
         /\ Reload(tm).t = tm.latch /\ Reload(tm).start = tm.start /\ Reload(tm).latch = tm.latch
         /\ Reload(tm).run = (tm.run /\ ~tm.oneshot)
         /\ Reload(tm).oneshot = tm.oneshot /\ Reload(tm).mode = tm.mode
  <1>1. \A t \in Count, r \in BOOLEAN : [tm EXCEPT !.t = t, !.run = r] \in Timer(k)
    BY Zenon DEF Timer, Wide
  <1>2. tm.latch \in Count /\ (tm.run /\ ~tm.oneshot) \in BOOLEAN
    BY DEF Wide
  <1>3. Reload(tm) \in Timer(k)
    BY <1>1, <1>2, Zenon DEF Reload
  <1> QED
    BY <1>3, SMT DEF Reload, Wide

LEMMA SameTimer ==
  ASSUME NEW k, NEW x \in Wide(k), NEW y \in Wide(k), x.t = y.t, x.start = y.start, x.latch = y.latch,
         x.run = y.run, x.oneshot = y.oneshot, x.mode = y.mode
  PROVE  x = y
  BY SMT DEF Wide

LEMMA SameChip ==
  ASSUME NEW x \in Chip, NEW y \in Chip, x.a = y.a, x.b = y.b, x.out = y.out, x.cnt = y.cnt,
         x.load = y.load, x.icr = y.icr, x.mask = y.mask, x.ir = y.ir
  PROVE  x = y
  BY SMT DEF Chip

\* What the setting of its parts makes of a CIA.
LEMMA ChipFields ==
  ASSUME NEW ch \in Chip
  PROVE  /\ ch.a \in Timer("a") /\ ch.b \in Timer("b") /\ ch.out \in BOOLEAN /\ ch.cnt \in 0..ShiftClocks
         /\ ch.load \in BOOLEAN /\ ch.icr \in SUBSET Flags /\ ch.mask \in SUBSET Flags /\ ch.ir \in BOOLEAN
  BY DEF Chip

TimersSet(ch, a, b, f) == [ch EXCEPT !.a = a, !.b = b, !.icr = f]
LEMMA ChipTimers ==
  ASSUME NEW ch \in Chip, NEW a, NEW b, NEW f
  PROVE  /\ a \in Timer("a") /\ b \in Timer("b") /\ f \in SUBSET Flags => TimersSet(ch, a, b, f) \in Chip
         /\ TimersSet(ch, a, b, f).a = a /\ TimersSet(ch, a, b, f).b = b
         /\ TimersSet(ch, a, b, f).icr = f /\ TimersSet(ch, a, b, f).out = ch.out
         /\ TimersSet(ch, a, b, f).cnt = ch.cnt
         /\ TimersSet(ch, a, b, f).load = ch.load /\ TimersSet(ch, a, b, f).mask = ch.mask
         /\ TimersSet(ch, a, b, f).ir = ch.ir
  <1>1. a \in Timer("a") /\ b \in Timer("b") /\ f \in SUBSET Flags => TimersSet(ch, a, b, f) \in Chip
    BY Zenon DEF TimersSet, Chip
  <1>2. /\ TimersSet(ch, a, b, f).a = a /\ TimersSet(ch, a, b, f).b = b
        /\ TimersSet(ch, a, b, f).icr = f /\ TimersSet(ch, a, b, f).out = ch.out
        /\ TimersSet(ch, a, b, f).cnt = ch.cnt
        /\ TimersSet(ch, a, b, f).load = ch.load /\ TimersSet(ch, a, b, f).mask = ch.mask
        /\ TimersSet(ch, a, b, f).ir = ch.ir
    BY SMT DEF TimersSet, Chip
  <1> QED
    BY <1>1, <1>2, Zenon

SerialSet(ch, n, l, f) == [ch EXCEPT !.cnt = n, !.load = l, !.icr = f]
LEMMA ChipSerial ==
  ASSUME NEW ch \in Chip, NEW n, NEW l, NEW f
  PROVE  /\ n \in 0..ShiftClocks /\ l \in BOOLEAN /\ f \in SUBSET Flags => SerialSet(ch, n, l, f) \in Chip
         /\ SerialSet(ch, n, l, f).a = ch.a /\ SerialSet(ch, n, l, f).b = ch.b
         /\ SerialSet(ch, n, l, f).out = ch.out
         /\ SerialSet(ch, n, l, f).cnt = n /\ SerialSet(ch, n, l, f).load = l
         /\ SerialSet(ch, n, l, f).icr = f /\ SerialSet(ch, n, l, f).mask = ch.mask
         /\ SerialSet(ch, n, l, f).ir = ch.ir
  <1>1. n \in 0..ShiftClocks /\ l \in BOOLEAN /\ f \in SUBSET Flags => SerialSet(ch, n, l, f) \in Chip
    BY Zenon DEF SerialSet, Chip
  <1>2. /\ SerialSet(ch, n, l, f).a = ch.a /\ SerialSet(ch, n, l, f).b = ch.b
        /\ SerialSet(ch, n, l, f).out = ch.out
        /\ SerialSet(ch, n, l, f).cnt = n /\ SerialSet(ch, n, l, f).load = l
        /\ SerialSet(ch, n, l, f).icr = f /\ SerialSet(ch, n, l, f).mask = ch.mask
        /\ SerialSet(ch, n, l, f).ir = ch.ir
    BY SMT DEF SerialSet, Chip
  <1> QED
    BY <1>1, <1>2, Zenon

LEMMA ShiftIs ==
  ASSUME NEW ch \in Chip
  PROVE  /\ Shift(ch) \in Chip
         /\ Shift(ch).a = ch.a /\ Shift(ch).b = ch.b /\ Shift(ch).out = ch.out
         /\ Shift(ch).mask = ch.mask /\ Shift(ch).ir = ch.ir /\ ch.icr \subseteq Shift(ch).icr
         /\ ~ch.out => Shift(ch) = ch
  <1>1. CASE ~Shifting(ch)
    <2>1. Shift(ch) = ch
      BY <1>1 DEF Shift
    <2> QED
      BY <2>1
  <1>2. CASE Shifting(ch)
    <2>1. PICK n \in 0..ShiftClocks, l \in BOOLEAN, f \in SUBSET Flags :
            Shift(ch) = SerialSet(ch, n, l, f) /\ ch.icr \subseteq f
      <3>1. CASE ch.cnt > 1
        <4>1. Shift(ch) = [ch EXCEPT !.cnt = ch.cnt - 1]
          BY <1>2, <3>1 DEF Shift
        <4>2. [ch EXCEPT !.cnt = ch.cnt - 1]
                = [ch EXCEPT !.cnt = ch.cnt - 1, !.load = ch.load, !.icr = ch.icr]
          BY Zenon DEF Chip
        <4>3. ch.cnt - 1 \in 0..ShiftClocks
          BY <3>1, ChipFields, TimerSizes
        <4> QED
          BY <4>1, <4>2, <4>3, ChipFields, Zenon DEF SerialSet
      <3>2. CASE ~(ch.cnt > 1)
        <4> DEFINE n == IF ch.load THEN ShiftClocks ELSE 0
        <4>1. Shift(ch) = [ch EXCEPT !.cnt = n, !.load = FALSE, !.icr = ch.icr \cup {"sp"}]
          BY <1>2, <3>2 DEF Shift
        <4>2. n \in 0..ShiftClocks /\ FALSE \in BOOLEAN /\ ch.icr \cup {"sp"} \in SUBSET Flags
          BY TimerTypes, ChipFields DEF Flags
        <4> HIDE DEF n
        <4> QED
          BY <4>1, <4>2, Zenon DEF SerialSet
      <3> QED
        BY <3>1, <3>2
    <2>2. ch.out
      BY <1>2 DEF Shifting
    <2>3. Shift(ch) \in Chip
      BY <2>1, ChipSerial
    <2>4. /\ Shift(ch).a = ch.a /\ Shift(ch).b = ch.b /\ Shift(ch).out = ch.out
          /\ Shift(ch).mask = ch.mask /\ Shift(ch).ir = ch.ir /\ Shift(ch).icr = f
      BY <2>1, ChipSerial
    <2> QED
      BY <2>1, <2>2, <2>3, <2>4, Zenon
  <1> QED
    BY <1>1, <1>2

LEMMA RethinkIs ==
  ASSUME NEW ch \in Chip
  PROVE  /\ Rethink(ch) \in Chip
         /\ Rethink(ch).a = ch.a /\ Rethink(ch).b = ch.b /\ Rethink(ch).out = ch.out
         /\ Rethink(ch).cnt = ch.cnt /\ Rethink(ch).load = ch.load
         /\ Rethink(ch).icr = ch.icr /\ Rethink(ch).mask = ch.mask
         /\ Rethink(ch).ir = (ch.ir \/ ch.icr \cap ch.mask # {})
         /\ (ch.icr \cap ch.mask # {} => ch.ir) => Rethink(ch) = ch
  <1> DEFINE ir == ch.ir \/ ch.icr \cap ch.mask # {}
  <1>1. Rethink(ch) = [ch EXCEPT !.ir = ir] /\ ir \in BOOLEAN
    BY ChipFields DEF Rethink
  <1>2. (ch.icr \cap ch.mask # {} => ch.ir) => ir = ch.ir
    BY ChipFields
  <1> HIDE DEF ir
  <1>3. /\ [ch EXCEPT !.ir = ir] \in Chip
        /\ LET new == [ch EXCEPT !.ir = ir]
           IN new.a = ch.a /\ new.b = ch.b /\ new.out = ch.out /\ new.cnt = ch.cnt /\ new.load = ch.load
              /\ new.icr = ch.icr /\ new.mask = ch.mask /\ new.ir = ir
    BY <1>1, SMT DEF Chip
  <1>4. [ch EXCEPT !.ir = ch.ir] = ch
    BY SMT DEF Chip
  <1> QED
    BY <1>1, <1>2, <1>3, <1>4 DEF ir

\* A CIA none of whose timers gets to its underflow.
LEMMA IdleIs ==
  ASSUME NEW ch \in Chip, NEW n \in Nat, Idle(ch, n)
  PROVE  /\ ~UnderflowsA(ch, n) /\ ~UnderflowsB(ch, n)
         /\ At(ch, n) \in Chip
         /\ At(ch, n).a = Advanced(ch.a, n) /\ At(ch, n).b = Advanced(ch.b, n) /\ At(ch, n).out = ch.out
         /\ At(ch, n).cnt = ch.cnt /\ At(ch, n).load = ch.load /\ At(ch, n).icr = ch.icr
         /\ At(ch, n).mask = ch.mask /\ At(ch, n).ir = ch.ir
  <1>1. ch.a \in Timer("a") /\ ch.b \in Timer("b") /\ Fits(ch.a, n) /\ Fits(ch.b, n)
    BY ChipFields DEF Idle
  <1>2. ch.a.t + 1 # Passed(ch.a, n) /\ ch.b.t + 1 # Passed(ch.b, n)
    BY <1>1, PassedIs
  <1>3. Advanced(ch.a, n) \in Timer("a") /\ Advanced(ch.b, n) \in Timer("b")
    BY <1>1, AdvancedIs
  <1>4. At(ch, n) = TimersSet(ch, Advanced(ch.a, n), Advanced(ch.b, n), ch.icr)
    BY Zenon DEF At, TimersSet, Chip
  <1>5. ~UnderflowsA(ch, n) /\ ~UnderflowsB(ch, n)
    BY <1>2 DEF UnderflowsA, UnderflowsB
  <1>6. At(ch, n) \in Chip
    BY <1>3, <1>4, ChipTimers, ChipFields
  <1> QED
    BY <1>4, <1>5, <1>6, ChipTimers

LEMMA AtOnce ==
  ASSUME NEW ch \in Chip
  PROVE  At(ch, 0) = ch
  <1>1. Advanced(ch.a, 0) = ch.a /\ Advanced(ch.b, 0) = ch.b
    BY ChipFields, AdvancedIs
  <1>2. [ch EXCEPT !.a = ch.a, !.b = ch.b] = ch
    BY Zenon DEF Chip
  <1> QED
    BY <1>1, <1>2, Zenon DEF At

\* What n E clocks make of a CIA whose timers do not underflow before the last of them.
Flagged(ch, n) == (IF UnderflowsA(ch, n) THEN {"ta"} ELSE {}) \cup (IF UnderflowsB(ch, n) THEN {"tb"} ELSE {})
MovedA(ch, n) == IF UnderflowsA(ch, n) THEN Reload(Advanced(ch.a, n)) ELSE Advanced(ch.a, n)
MovedB(ch, n) == IF UnderflowsB(ch, n) THEN Reload(AdvancedB(ch, n)) ELSE AdvancedB(ch, n)
Shifted(ch, n) == IF UnderflowsA(ch, n) THEN Shift(ch) ELSE ch
Moved(ch, n) ==
  TimersSet(Shifted(ch, n), MovedA(ch, n), MovedB(ch, n), Shifted(ch, n).icr \cup Flagged(ch, n))

\* CIA-B's serial port being no output, each CIA is for itself.
LEMMA UpdatedIs ==
  ASSUME chip \in [Cias -> Chip], NEW c \in Cias, NEW n \in Nat, "b" \in Cias => ~chip["b"].out
  PROVE  Updated(n)[c] = Moved(chip[c], n)
  <1> DEFINE ch == chip[c]
             s == Serial(chip, n)[c]
             under == {x \in {"a", "b"} : IF x = "a" THEN UnderflowsA(ch, n) ELSE UnderflowsB(ch, n)}
  <1>1. ch \in Chip /\ c \in {"a", "b"}
    BY TimerSizes
  <1>2. s = Shifted(ch, n)
    <2>1. ~("b" \in Cias /\ UnderflowsA(chip["b"], n) /\ Shifting(chip["b"]))
      BY DEF Shifting
    <2>2. s = IF "a" \in Cias /\ UnderflowsA(chip["a"], n)
              THEN [chip EXCEPT !["a"] = Shift(chip["a"])][c]
              ELSE chip[c]
      BY <2>1 DEF Serial
    <2>3. CASE c = "a"
      BY <2>2, <2>3 DEF Shifted
    <2>4. CASE c = "b"
      <3>1. s = chip[c]
        BY <2>2, <2>4
      <3>2. Shift(ch) = ch
        BY <1>1, <2>4, ShiftIs
      <3> QED
        BY <3>1, <3>2 DEF Shifted
    <2> QED
      BY <1>1, <2>3, <2>4
  <1>3. /\ Updated(n)[c] = [s EXCEPT
             !.a = IF "a" \in under THEN Reload(Advanced(s.a, n)) ELSE Advanced(s.a, n),
             !.b = IF "b" \in under THEN Reload(AdvancedB(ch, n)) ELSE AdvancedB(ch, n),
             !.icr = s.icr \cup {IF x = "a" THEN "ta" ELSE "tb" : x \in under}]
    BY DEF Updated
  <1>4. ("a" \in under <=> UnderflowsA(ch, n)) /\ ("b" \in under <=> UnderflowsB(ch, n))
    OBVIOUS
  <1>5. {IF x = "a" THEN "ta" ELSE "tb" : x \in under} = Flagged(ch, n)
    BY <1>4 DEF Flagged
  <1>6. s.a = ch.a
    BY <1>1, <1>2, ShiftIs DEF Shifted
  <1> HIDE DEF s, under
  <1>7. Updated(n)[c] = [s EXCEPT !.a = MovedA(ch, n), !.b = MovedB(ch, n), !.icr = s.icr \cup Flagged(ch, n)]
    BY <1>3, <1>4, <1>5, <1>6, Zenon DEF MovedA, MovedB
  <1> QED
    BY <1>2, <1>7, Zenon DEF Moved, TimersSet

LEMMA IdleMoved ==
  ASSUME NEW ch \in Chip, NEW n \in Nat, Idle(ch, n), ch.icr \cap ch.mask # {} => ch.ir
  PROVE  Moved(ch, n) = At(ch, n)
  <1>1. ~UnderflowsA(ch, n) /\ ~UnderflowsB(ch, n)
    BY IdleIs
  <1>2. MovedA(ch, n) = Advanced(ch.a, n) /\ Shifted(ch, n) = ch /\ ch.icr \cup Flagged(ch, n) = ch.icr
    BY <1>1 DEF MovedA, Shifted, Flagged
  <1>3. MovedB(ch, n) = Advanced(ch.b, n)
    <2> DEFINE tm == Advanced(ch.b, n)
    <2>1. tm \in Wide("b") /\ tm.t \in Int
      BY AdvancedWide, ChipFields DEF Wide
    <2>2. AdvancedB(ch, n) = [tm EXCEPT !.t = tm.t - 0]
      BY <1>1 DEF AdvancedB
    <2> HIDE DEF tm
    <2>3. [tm EXCEPT !.t = tm.t] = tm
      BY <2>1, Zenon DEF Wide
    <2>4. tm.t - 0 = tm.t
      BY <2>1
    <2>5. AdvancedB(ch, n) = tm
      BY <2>2, <2>3, <2>4, Zenon
    <2> QED
      BY <1>1, <2>5 DEF MovedB, tm
  <1>4. At(ch, n) = TimersSet(ch, Advanced(ch.a, n), Advanced(ch.b, n), ch.icr)
    BY Zenon DEF At, TimersSet, Chip
  <1> QED
    BY <1>2, <1>3, <1>4, Zenon DEF Moved

\* One E clock more, for a timer that counts E clocks.
LEMMA TickIs ==
  ASSUME NEW k \in {"a", "b"}, NEW tm \in Timer(k), NEW n \in Nat, Fits(tm, n), Clocked(tm)
  PROVE  LET x == Advanced(tm, n)
             y == Advanced(tm, n + 1)
             under == tm.t + 1 = Passed(tm, n + 1)
         IN /\ x.start = 0 /\ x.t = 0 <=> under
            /\ x.start > 0 => ~under /\ y = [x EXCEPT !.start = x.start - 1]
            /\ x.start = 0 /\ x.t # 0 => y = [x EXCEPT !.t = x.t - 1]
            /\ under => Reload(x) = Reload(y)
            /\ ~under => Fits(tm, n + 1)
  <1> DEFINE x == Advanced(tm, n)
             y == Advanced(tm, n + 1)
             under == tm.t + 1 = Passed(tm, n + 1)
  <1>1. tm.t \in Nat /\ tm.start \in 0..3 /\ n <= tm.t + tm.start /\ n + 1 \in Nat
    BY TimerTypes DEF Timer, Fits
  <1>2. /\ x.t = IF n > tm.start THEN tm.t - (n - tm.start) ELSE tm.t - 0
        /\ x.start = IF n > tm.start THEN 0 ELSE tm.start - n
        /\ y.t = IF n + 1 > tm.start THEN tm.t - (n + 1 - tm.start) ELSE tm.t - 0
        /\ y.start = IF n + 1 > tm.start THEN 0 ELSE tm.start - (n + 1)
        /\ under <=> tm.t + 1 = IF n + 1 > tm.start THEN n + 1 - tm.start ELSE 0
    BY <1>1, AdvancedIs DEF Passed, Waited
  <1>3. /\ x \in Timer(k) /\ y \in Wide(k) /\ x \in Wide(k)
        /\ x.latch = tm.latch /\ x.run = tm.run /\ x.oneshot = tm.oneshot /\ x.mode = tm.mode
        /\ y.latch = tm.latch /\ y.run = tm.run /\ y.oneshot = tm.oneshot /\ y.mode = tm.mode
    BY <1>1, AdvancedIs, AdvancedWide
  <1> HIDE DEF x, y
  <1> HIDE DEF under
  <1>4. x.start = 0 /\ x.t = 0 <=> under
    <2>1. CASE n > tm.start
      BY <1>1, <1>2, <2>1
    <2>2. CASE n = tm.start
      <3>1. x.start = 0 /\ x.t = tm.t /\ (under <=> tm.t + 1 = 1)
        BY <1>1, <1>2, <2>2
      <3> QED
        BY <1>1, <3>1
    <2>3. CASE n < tm.start
      BY <1>1, <1>2, <2>3
    <2> QED
      BY <1>1, <2>1, <2>2, <2>3
  <1>5. ~under => Fits(tm, n + 1)
    BY <1>1, <1>2 DEF under, Fits
  <1>6. ASSUME x.start > 0 PROVE ~under /\ y = [x EXCEPT !.start = x.start - 1]
    <2>1. y.t = x.t /\ y.start = x.start - 1 /\ x.start - 1 \in 0..3 /\ ~under
      BY <1>1, <1>2, <1>6
    <2> DEFINE z == [x EXCEPT !.start = x.start - 1]
    <2>2. z \in Wide(k) /\ z.t = x.t /\ z.start = x.start - 1 /\ z.latch = x.latch /\ z.run = x.run
          /\ z.oneshot = x.oneshot /\ z.mode = x.mode
      BY <1>3, <2>1, SMT DEF Wide
    <2> HIDE DEF z
    <2>3. y = z
      BY <1>3, <2>1, <2>2, SameTimer
    <2> QED
      BY <2>1, <2>3 DEF z
  <1>7. ASSUME x.start = 0, x.t # 0 PROVE y = [x EXCEPT !.t = x.t - 1]
    <2>1. y.t = x.t - 1 /\ y.start = 0 /\ x.t - 1 \in Int
      BY <1>1, <1>2, <1>7
    <2> DEFINE z == [x EXCEPT !.t = x.t - 1]
    <2>2. z \in Wide(k) /\ z.t = x.t - 1 /\ z.start = x.start /\ z.latch = x.latch /\ z.run = x.run
          /\ z.oneshot = x.oneshot /\ z.mode = x.mode
      BY <1>3, <2>1, SMT DEF Wide
    <2> HIDE DEF z
    <2>3. y = z
      BY <1>3, <1>7, <2>1, <2>2, SameTimer
    <2> QED
      BY <2>3 DEF z
  <1>8. ASSUME under PROVE Reload(x) = Reload(y)
    <2>1. x.start = 0 /\ y.start = 0
      BY <1>1, <1>2, <1>8
    <2>2. Reload(x) \in Wide(k) /\ Reload(y) \in Wide(k)
      BY <1>3, ReloadIs, TimerIsWide
    <2> QED
      BY <1>3, <2>1, <2>2, ReloadIs, SameTimer
  <1> QED
    BY <1>4, <1>5, <1>6, <1>7, <1>8 DEF x, y, under

LEMMA StandsStill ==
  ASSUME NEW k \in {"a", "b"}, NEW tm \in Timer(k), NEW n \in Nat, ~Clocked(tm)
  PROVE  Advanced(tm, n) = tm
  <1>1. Passed(tm, n) = 0 /\ Waited(tm, n) = tm.start /\ tm.t - 0 = tm.t
    BY TimerTypes DEF Passed, Waited, Timer
  <1>2. [tm EXCEPT !.t = tm.t, !.start = tm.start] = tm
    BY Zenon DEF Timer
  <1> QED
    BY <1>1, <1>2, Zenon DEF Advanced

LEMMA MovedFields ==
  ASSUME NEW ch \in Chip, NEW n \in Nat, Idle(ch, n)
  PROVE  /\ MovedA(ch, n + 1) \in Timer("a") /\ MovedB(ch, n + 1) \in Timer("b")
         /\ Shifted(ch, n + 1) \in Chip
         /\ Shifted(ch, n + 1).icr \cup Flagged(ch, n + 1) \in SUBSET Flags
         /\ Moved(ch, n + 1) \in Chip
         /\ Moved(ch, n + 1).a = MovedA(ch, n + 1) /\ Moved(ch, n + 1).b = MovedB(ch, n + 1)
         /\ Moved(ch, n + 1).out = ch.out /\ Moved(ch, n + 1).mask = ch.mask /\ Moved(ch, n + 1).ir = ch.ir
         /\ Moved(ch, n + 1).icr = Shifted(ch, n + 1).icr \cup Flagged(ch, n + 1)
         /\ ~UnderflowsA(ch, n + 1) /\ ~UnderflowsB(ch, n + 1) => Idle(ch, n + 1)
  <1> DEFINE m == n + 1
  <1>1. m \in Nat /\ ch.a \in Timer("a") /\ ch.b \in Timer("b") /\ Fits(ch.a, n) /\ Fits(ch.b, n)
    BY ChipFields DEF Idle
  <1>2. /\ ~UnderflowsA(ch, m) => Fits(ch.a, m)
        /\ ~UnderflowsB(ch, m) => Fits(ch.b, m)
    <2>1. \A k \in {"a", "b"} : \A tm \in Timer(k) :
            Fits(tm, n) /\ ~(Clocked(tm) /\ tm.t + 1 = Passed(tm, m)) => Fits(tm, m)
      BY TickIs DEF Fits
    <2> QED
      BY <1>1, <2>1 DEF UnderflowsA, UnderflowsB
  <1>3. MovedA(ch, m) \in Timer("a")
    <2>1. CASE UnderflowsA(ch, m)
      BY <1>1, <2>1, AdvancedWide, ReloadIs DEF MovedA
    <2>2. CASE ~UnderflowsA(ch, m)
      BY <1>1, <1>2, <2>2, AdvancedIs DEF MovedA
    <2> QED
      BY <2>1, <2>2
  <1>4. MovedB(ch, m) \in Timer("b")
    <2> DEFINE tm == Advanced(ch.b, m)
               x == IF UnderflowsA(ch, m) /\ Cascaded(ch.b) THEN 1 ELSE 0
    <2>1. tm \in Wide("b") /\ tm.t \in Int /\ x \in 0..1
      BY <1>1, AdvancedWide DEF Wide
    <2>2. AdvancedB(ch, m) = [tm EXCEPT !.t = tm.t - x]
      BY DEF AdvancedB
    <2>3. CASE UnderflowsB(ch, m)
      <3>1. tm.t - x \in Int
        BY <2>1
      <3> HIDE DEF tm, x
      <3>2. AdvancedB(ch, m) \in Wide("b")
        BY <2>1, <2>2, <3>1, SMT DEF Wide
      <3> QED
        BY <2>3, <3>2, ReloadIs DEF MovedB
    <2>4. CASE ~UnderflowsB(ch, m)
      <3>1. tm \in Timer("b")
        BY <1>1, <1>2, <2>4, AdvancedIs
      <3>2. CASE UnderflowsA(ch, m) /\ Cascaded(ch.b)
        <4>1. ~Clocked(ch.b) /\ ch.b.t # 0
          BY <2>4, <3>2 DEF UnderflowsB, Clocked, Cascaded
        <4>2. tm = ch.b
          BY <1>1, <4>1, StandsStill
        <4>3. tm.t - 1 \in Count
          BY <1>1, <4>1, <4>2, TimerTypes DEF Timer, Count
        <4>4. AdvancedB(ch, m) = [tm EXCEPT !.t = tm.t - 1]
          BY <2>2, <3>2
        <4> HIDE DEF tm
        <4>5. AdvancedB(ch, m) \in Timer("b")
          BY <3>1, <4>3, <4>4, SMT DEF Timer
        <4> QED
          BY <2>4, <4>5 DEF MovedB
      <3>3. CASE ~(UnderflowsA(ch, m) /\ Cascaded(ch.b))
        <4>1. AdvancedB(ch, m) = [tm EXCEPT !.t = tm.t - 0] /\ tm.t - 0 = tm.t
          BY <2>1, <2>2, <3>3
        <4> HIDE DEF tm
        <4>2. AdvancedB(ch, m) = tm
          <5>1. [tm EXCEPT !.t = tm.t] = tm
            BY <3>1, Zenon DEF Timer
          <5> QED
            BY <4>1, <5>1, Zenon
        <4> QED
          BY <2>4, <3>1, <4>2 DEF MovedB
      <3> QED
        BY <3>2, <3>3
    <2> QED
      BY <2>3, <2>4
  <1>5. /\ Shifted(ch, m) \in Chip /\ Shifted(ch, m).out = ch.out /\ Shifted(ch, m).mask = ch.mask
        /\ Shifted(ch, m).ir = ch.ir
    BY ShiftIs DEF Shifted
  <1>6. Shifted(ch, m).icr \cup Flagged(ch, m) \in SUBSET Flags
    BY <1>5, ChipFields DEF Flagged, Flags
  <1> HIDE DEF m
  <1>7. /\ Moved(ch, m) \in Chip /\ Moved(ch, m).a = MovedA(ch, m) /\ Moved(ch, m).b = MovedB(ch, m)
        /\ Moved(ch, m).out = ch.out /\ Moved(ch, m).mask = ch.mask /\ Moved(ch, m).ir = ch.ir
        /\ Moved(ch, m).icr = Shifted(ch, m).icr \cup Flagged(ch, m)
    BY <1>3, <1>4, <1>5, <1>6, ChipTimers DEF Moved
  <1>8. ~UnderflowsA(ch, m) /\ ~UnderflowsB(ch, m) => Idle(ch, m)
    BY <1>2 DEF Idle
  <1> QED
    BY <1>3, <1>4, <1>5, <1>6, <1>7, <1>8 DEF m

LEMMA ShiftSame ==
  ASSUME NEW x \in Chip, NEW y \in Chip, x.out = y.out, x.a.oneshot = y.a.oneshot, x.cnt = y.cnt,
         x.load = y.load, x.icr = y.icr
  PROVE  Shift(x).cnt = Shift(y).cnt /\ Shift(x).load = Shift(y).load /\ Shift(x).icr = Shift(y).icr
  <1>1. Shifting(x) <=> Shifting(y)
    BY DEF Shifting
  <1>2. CASE ~Shifting(x)
    BY <1>1, <1>2 DEF Shift
  <1>3. CASE Shifting(x) /\ x.cnt > 1
    <2>1. \A ch \in Chip : [ch EXCEPT !.cnt = ch.cnt - 1] = SerialSet(ch, ch.cnt - 1, ch.load, ch.icr)
      BY Zenon DEF SerialSet, Chip
    <2>2. Shift(x) = [x EXCEPT !.cnt = x.cnt - 1] /\ Shift(y) = [y EXCEPT !.cnt = y.cnt - 1]
      BY <1>1, <1>3 DEF Shift
    <2>3. /\ Shift(x) = SerialSet(x, x.cnt - 1, x.load, x.icr)
          /\ Shift(y) = SerialSet(y, x.cnt - 1, x.load, x.icr)
      BY <2>1, <2>2, Zenon
    <2> QED
      BY <2>3, ChipSerial
  <1>4. CASE Shifting(x) /\ ~(x.cnt > 1)
    <2> DEFINE n == IF x.load THEN ShiftClocks ELSE 0
               l == FALSE
               f == x.icr \cup {"sp"}
    <2>1. Shift(x) = SerialSet(x, n, l, f) /\ Shift(y) = SerialSet(y, n, l, f)
      BY <1>1, <1>4, Zenon DEF Shift, SerialSet
    <2> HIDE DEF n, l, f
    <2> QED
      BY <2>1, ChipSerial
  <1> QED
    BY <1>2, <1>3, <1>4

\* One E clock more, for a CIA: what the promise makes of it, and what an update finds out.
LEMMA Same8520 ==
  ASSUME NEW x
  PROVE  /\ Abstract!Rethink(x) = Rethink(x) /\ Abstract!Shift(x) = Shift(x) /\ Abstract!Reload(x) = Reload(x)
         /\ (Abstract!Clocked(x) <=> Clocked(x)) /\ (Abstract!Cascaded(x) <=> Cascaded(x))
  BY Zenon DEF Abstract!Rethink, Abstract!Reload, Abstract!Shift, Abstract!Shifting, Rethink, Reload,
    Shift, Shifting, Abstract!Clocked, Abstract!Cascaded, Clocked, Cascaded

LEMMA ClockIs ==
  ASSUME NEW ch \in Chip, NEW n \in Nat, Idle(ch, n)
  PROVE  Abstract!Clock(At(ch, n)) = Rethink(Moved(ch, n + 1))
  <1> DEFINE A == At(ch, n)
             m == n + 1
             shifted == IF Abstract!Ends(A.a) THEN Shift(A) ELSE A
             newA == IF Clocked(A.a) THEN Abstract!Tick(A.a) ELSE A.a
             newB == IF Clocked(A.b) THEN Abstract!Tick(A.b)
                     ELSE IF Abstract!Carries(A) THEN Abstract!Down(A.b) ELSE A.b
             x == ch.a
             y == ch.b
  <1>1. /\ A \in Chip /\ A.a = Advanced(x, n) /\ A.b = Advanced(y, n) /\ A.out = ch.out
        /\ A.cnt = ch.cnt /\ A.load = ch.load /\ A.icr = ch.icr /\ A.mask = ch.mask /\ A.ir = ch.ir
    BY IdleIs
  <1>2. x \in Timer("a") /\ y \in Timer("b") /\ Fits(x, n) /\ Fits(y, n) /\ m \in Nat
    BY ChipFields DEF Idle
  <1>3. /\ A.a.run = x.run /\ A.a.mode = x.mode /\ A.a.oneshot = x.oneshot
        /\ A.b.run = y.run /\ A.b.mode = y.mode /\ A.b.oneshot = y.oneshot
        /\ A.a \in Timer("a") /\ A.b \in Timer("b")
    BY <1>1, <1>2, AdvancedIs
  <1>4. Abstract!Clock(A) = Rethink(TimersSet(shifted, newA, newB, shifted.icr \cup Abstract!Under(A)))
    <2> DEFINE s0 == IF Abstract!Ends(A.a) THEN Abstract!Shift(A) ELSE A
               a0 == IF Abstract!Clocked(A.a) THEN Abstract!Tick(A.a) ELSE A.a
               b0 == IF Abstract!Clocked(A.b) THEN Abstract!Tick(A.b)
                     ELSE IF Abstract!Carries(A) THEN Abstract!Down(A.b) ELSE A.b
    <2>1. Abstract!Clock(A)
            = Abstract!Rethink([s0 EXCEPT !.a = a0, !.b = b0, !.icr = s0.icr \cup Abstract!Under(A)])
      BY Zenon DEF Abstract!Clock
    <2>2. s0 = shifted
      BY Same8520, Zenon
    <2>3. a0 = newA /\ b0 = newB
      BY Same8520, Zenon
    <2> HIDE DEF s0, a0, b0, shifted, newA, newB, A
    <2> QED
      BY <2>1, <2>2, <2>3, Same8520, Zenon DEF TimersSet
  <1>5. \A k \in {"a", "b"} : \A tm \in Timer(k) : Fits(tm, n) =>
          /\ ~Clocked(tm) => Advanced(tm, n) = tm /\ Advanced(tm, m) = tm /\ ~Abstract!Ends(tm)
          /\ Clocked(tm) =>
               /\ Abstract!Ends(Advanced(tm, n)) <=> tm.t + 1 = Passed(tm, m)
               /\ Abstract!Tick(Advanced(tm, n)) =
                    IF tm.t + 1 = Passed(tm, m) THEN Reload(Advanced(tm, m)) ELSE Advanced(tm, m)
    <2> SUFFICES ASSUME NEW k \in {"a", "b"}, NEW tm \in Timer(k), Fits(tm, n)
                 PROVE  /\ ~Clocked(tm) => Advanced(tm, n) = tm /\ Advanced(tm, m) = tm /\ ~Abstract!Ends(tm)
                        /\ Clocked(tm) =>
                             /\ Abstract!Ends(Advanced(tm, n)) <=> tm.t + 1 = Passed(tm, m)
                             /\ Abstract!Tick(Advanced(tm, n)) =
                                  IF tm.t + 1 = Passed(tm, m)
                                  THEN Reload(Advanced(tm, m)) ELSE Advanced(tm, m)
      OBVIOUS
    <2>1. ~Clocked(tm) => Advanced(tm, n) = tm /\ Advanced(tm, m) = tm /\ ~Abstract!Ends(tm)
      BY <1>2, StandsStill, Same8520 DEF Abstract!Ends
    <2>2. ASSUME Clocked(tm)
          PROVE  /\ Abstract!Ends(Advanced(tm, n)) <=> tm.t + 1 = Passed(tm, m)
                 /\ Abstract!Tick(Advanced(tm, n)) =
                      IF tm.t + 1 = Passed(tm, m) THEN Reload(Advanced(tm, m)) ELSE Advanced(tm, m)
      <3> DEFINE u == Advanced(tm, n)
                 v == Advanced(tm, m)
                 under == tm.t + 1 = Passed(tm, m)
      <3>1. /\ (u.start = 0 /\ u.t = 0) <=> under
            /\ u.start > 0 => ~under /\ v = [u EXCEPT !.start = u.start - 1]
            /\ u.start = 0 /\ u.t # 0 => v = [u EXCEPT !.t = u.t - 1]
            /\ under => Reload(u) = Reload(v)
        BY <2>2, TickIs
      <3>2. Clocked(u) /\ u.start \in 0..3
        BY <2>2, AdvancedIs, PassedIs DEF Clocked
      <3>3. Abstract!Tick(u) = IF u.start > 0 THEN [u EXCEPT !.start = u.start - 1]
                               ELSE IF u.t = 0 THEN Reload(u) ELSE [u EXCEPT !.t = u.t - 1]
        BY Same8520, Zenon DEF Abstract!Tick, Abstract!Down
      <3>4. Abstract!Ends(u) <=> (u.start = 0 /\ u.t = 0)
        BY <3>2, Same8520, Zenon DEF Abstract!Ends
      <3>5. u.start > 0 \/ u.start = 0
        BY <3>2
      <3>6. ~(u.start > 0 /\ u.start = 0)
        BY <3>2
      <3> HIDE DEF u, v, under
      <3>7. Abstract!Tick(u) = IF under THEN Reload(v) ELSE v
        BY <3>1, <3>3, <3>5, <3>6, Zenon
      <3> QED
        BY <3>1, <3>4, <3>7, Zenon DEF u, v, under
    <2> QED
      BY <2>1, <2>2
  <1>6. (Abstract!Ends(A.a) <=> UnderflowsA(ch, m)) /\ newA = MovedA(ch, m)
    <2>1. CASE Clocked(x)
      BY <1>1, <1>2, <1>3, <1>5, <2>1 DEF MovedA, UnderflowsA, Clocked
    <2>2. CASE ~Clocked(x)
      BY <1>1, <1>2, <1>3, <1>5, <2>2 DEF MovedA, UnderflowsA
    <2> QED
      BY <2>1, <2>2
  <1>7. /\ (Abstract!Ends(A.b) \/ (Abstract!Carries(A) /\ A.b.t = 0)) <=> UnderflowsB(ch, m)
        /\ newB = MovedB(ch, m)
    <2>1. Abstract!Carries(A) <=> UnderflowsA(ch, m) /\ Cascaded(y)
      BY <1>3, <1>6, Same8520 DEF Abstract!Carries, Cascaded
    <2> DEFINE z == Advanced(y, m)
    <2>2. z \in Wide("b") /\ z.t \in Int
      BY <1>2, AdvancedWide DEF Wide
    <2>3. CASE Clocked(y)
      <3>1. ~Cascaded(y)
        BY <2>3 DEF Clocked, Cascaded
      <3>2. AdvancedB(ch, m) = [z EXCEPT !.t = z.t - 0] /\ z.t - 0 = z.t
        BY <2>2, <3>1 DEF AdvancedB
      <3>3. AdvancedB(ch, m) = z
        <4>1. [z EXCEPT !.t = z.t] = z
          BY <2>2, Zenon DEF Wide
        <4> HIDE DEF z
        <4> QED
          BY <3>2, <4>1, Zenon
      <3>4. UnderflowsB(ch, m) <=> y.t + 1 = Passed(y, m)
        BY <2>3, <3>1 DEF UnderflowsB
      <3>5. Clocked(A.b)
        BY <1>3, <2>3 DEF Clocked
      <3> QED
        BY <1>1, <1>2, <1>5, <2>1, <2>3, <3>1, <3>3, <3>4, <3>5 DEF MovedB
    <2>4. CASE ~Clocked(y)
      <3>1. A.b = y /\ z = y /\ ~Abstract!Ends(y)
        BY <1>1, <1>2, <1>5, <2>4
      <3>2. UnderflowsB(ch, m) <=> UnderflowsA(ch, m) /\ Cascaded(y) /\ y.t = 0
        BY <2>4 DEF UnderflowsB
      <3>3. CASE UnderflowsA(ch, m) /\ Cascaded(y)
        <4>1. AdvancedB(ch, m) = [y EXCEPT !.t = y.t - 1]
          BY <3>1, <3>3 DEF AdvancedB
        <4>2. newB = IF y.t = 0 THEN Reload(y) ELSE [y EXCEPT !.t = y.t - 1]
          BY <2>1, <2>4, <3>1, <3>3, Same8520, Zenon DEF Abstract!Down
        <4>3. Reload([y EXCEPT !.t = y.t - 1]) = Reload(y)
          <5> DEFINE w == [y EXCEPT !.t = y.t - 1]
          <5>1. y \in Wide("b") /\ y.t - 1 \in Int
            BY <1>2, TimerIsWide, TimerTypes DEF Timer
          <5>2. /\ w \in Wide("b") /\ w.start = y.start /\ w.latch = y.latch /\ w.run = y.run
                /\ w.oneshot = y.oneshot /\ w.mode = y.mode
            BY <5>1, SMT DEF Wide
          <5> HIDE DEF w
          <5>3. Reload(w) \in Wide("b") /\ Reload(y) \in Wide("b")
            BY <5>1, <5>2, ReloadIs, TimerIsWide
          <5>4. Reload(w) = Reload(y)
            BY <5>1, <5>2, <5>3, ReloadIs, SameTimer
          <5> QED
            BY <5>4 DEF w
        <4> QED
          BY <2>1, <3>1, <3>2, <3>3, <4>1, <4>2, <4>3, Zenon DEF MovedB
      <3>4. CASE ~(UnderflowsA(ch, m) /\ Cascaded(y))
        <4>1. AdvancedB(ch, m) = [y EXCEPT !.t = y.t - 0] /\ y.t - 0 = y.t
          BY <2>2, <3>1, <3>4 DEF AdvancedB
        <4>2. [y EXCEPT !.t = y.t] = y
          BY <1>2, Zenon DEF Timer
        <4>3. newB = y
          BY <2>1, <2>4, <3>1, <3>4, Zenon
        <4> QED
          BY <2>1, <3>1, <3>2, <3>4, <4>1, <4>2, <4>3, Zenon DEF MovedB
      <3> QED
        BY <3>3, <3>4
    <2> QED
      BY <2>3, <2>4
  <1>8. Abstract!Under(A) = Flagged(ch, m)
    BY <1>6, <1>7 DEF Abstract!Under, Flagged
  <1> DEFINE f == shifted.icr \cup Flagged(ch, m)
             new == TimersSet(shifted, newA, newB, f)
  <1>9. /\ shifted \in Chip /\ shifted.out = ch.out /\ shifted.mask = ch.mask /\ shifted.ir = ch.ir
        /\ shifted.cnt = Shifted(ch, m).cnt /\ shifted.load = Shifted(ch, m).load
        /\ shifted.icr = Shifted(ch, m).icr
    <2>1. CASE UnderflowsA(ch, m)
      <3>1. shifted = Shift(A) /\ Shifted(ch, m) = Shift(ch)
        BY <1>6, <2>1 DEF Shifted
      <3> HIDE DEF shifted, A
      <3> QED
        BY <1>1, <1>3, <3>1, ShiftIs, ShiftSame
    <2>2. CASE ~UnderflowsA(ch, m)
      <3>1. shifted = A /\ Shifted(ch, m) = ch
        BY <1>6, <2>2 DEF Shifted
      <3> HIDE DEF shifted, A
      <3> QED
        BY <1>1, <3>1
    <2> QED
      BY <2>1, <2>2
  <1> HIDE DEF A, shifted, newA, newB
  <1>10. f \in SUBSET Flags /\ f = Shifted(ch, m).icr \cup Flagged(ch, m)
    BY <1>9, MovedFields
  <1>11. newA \in Timer("a") /\ newB \in Timer("b") /\ Shifted(ch, m) \in Chip
    BY <1>6, <1>7, MovedFields
  <1>12. Shifted(ch, m).out = ch.out /\ Shifted(ch, m).mask = ch.mask /\ Shifted(ch, m).ir = ch.ir
    BY ShiftIs DEF Shifted
  <1> HIDE DEF f, m
  <1>13. new = Moved(ch, m)
    <2> DEFINE old == TimersSet(Shifted(ch, m), newA, newB, f)
    <2>1. /\ new \in Chip /\ new.a = newA /\ new.b = newB /\ new.icr = f /\ new.out = ch.out
          /\ new.cnt = shifted.cnt /\ new.load = shifted.load /\ new.mask = ch.mask /\ new.ir = ch.ir
      BY <1>9, <1>10, <1>11, ChipTimers
    <2>2. /\ old \in Chip /\ old.a = newA /\ old.b = newB /\ old.icr = f /\ old.out = ch.out
          /\ old.cnt = Shifted(ch, m).cnt /\ old.load = Shifted(ch, m).load /\ old.mask = ch.mask
          /\ old.ir = ch.ir
      BY <1>10, <1>11, <1>12, ChipTimers
    <2>3. Moved(ch, m) = old
      BY <1>6, <1>7, <1>10, Zenon DEF Moved
    <2> HIDE DEF new, old
    <2>4. new = old
      BY <1>9, <2>1, <2>2, SameChip
    <2> QED
      BY <2>3, <2>4
  <1> QED
    BY <1>4, <1>8, <1>13, Zenon DEF f, A, m

-----------------------------------------------------------------------------
(* The invariant: the event comes no later than the first underflow, and at the beginning of an *)
(* E clock.                                                                                     *)

\* A time is no later than the next underflow of a timer.
InTime(tm, x, d) == Clocked(tm) => x # 0 /\ x + d <= DIV10 * (tm.t + tm.start + 1)
NoLater(new, x, d) ==
  /\ x # 0 => \E k \in Nat : x + d = DIV10 * k
  /\ \A c \in Cias : InTime(new[c].a, x, d) /\ InTime(new[c].b, x, d)

\* A flag that is enabled has raised the line, and Paula was asked; what is shifted out is CIA-A's.
Lined(ch, c) == (ch.icr \cap ch.mask # {} => ch.ir) /\ (ch.out => c \in SpOut)
Lines == \A c \in Cias : Lined(chip[c], c) /\ (chip[c].ir => intreq[c])

TimersInv == TimersTypeOK /\ ciatime \in Nat /\ NoLater(chip, ciatime, div10) /\ Lines

\* The first underflow to come is ahead.
LEMMA FirstUnderflow ==
  ASSUME NEW new \in [Cias -> Chip], NEW d \in 0..(DIV10 - 1), NEW times, NEW x,
         times = NextUnderflows(new, DIV10 - d), x = IF times = {} THEN 0 ELSE Least(times)
  PROVE  x \in Nat /\ NoLater(new, x, d)
  <1> DEFINE timers == {y \in UNION {{new[c].a, new[c].b} : c \in Cias} : Clocked(y)}
             Time(tm) == DIV10 - d + DIV10 * (tm.t + tm.start)
  <1>1. \A c \in Cias : \A tm \in {new[c].a, new[c].b} : tm.t \in Nat /\ tm.start \in Nat
    <2> SUFFICES ASSUME NEW c \in Cias, NEW tm \in {new[c].a, new[c].b} PROVE tm.t \in Nat /\ tm.start \in Nat
      OBVIOUS
    <2>1. tm \in Timer("a") \/ tm \in Timer("b")
      BY ChipFields
    <2> QED
      BY <2>1, TimerTypes DEF Timer
  <1>2. \A tm \in timers : tm.t + tm.start \in Nat
    <2> SUFFICES ASSUME NEW tm \in timers PROVE tm.t + tm.start \in Nat
      OBVIOUS
    <2>1. PICK c \in Cias : tm \in {new[c].a, new[c].b}
      OBVIOUS
    <2>2. tm.t \in Nat /\ tm.start \in Nat
      BY <1>1, <2>1
    <2> QED
      BY <2>2
  <1>3. \A m \in Nat : /\ DIV10 * m \in Nat /\ DIV10 * (m + 1) = DIV10 * m + DIV10
                       /\ DIV10 - d + DIV10 * m \in Nat \ {0}
                       /\ DIV10 - d + DIV10 * m + d = DIV10 * (m + 1)
    <2> SUFFICES ASSUME NEW m \in Nat
                 PROVE  /\ DIV10 * m \in Nat /\ DIV10 * (m + 1) = DIV10 * m + DIV10
                        /\ DIV10 - d + DIV10 * m \in Nat \ {0}
                        /\ DIV10 - d + DIV10 * m + d = DIV10 * (m + 1)
      OBVIOUS
    <2>1. DIV10 * m \in Nat /\ DIV10 * (m + 1) = DIV10 * m + DIV10
      BY TimerSizes, SMT
    <2> DEFINE p == DIV10 * m
    <2> HIDE DEF p
    <2>2. p \in Nat /\ DIV10 - d + p \in Nat \ {0} /\ DIV10 - d + p + d = p + DIV10
      BY <2>1, TimerSizes DEF p
    <2> QED
      BY <2>1, <2>2 DEF p
  <1>4. times = {Time(tm) : tm \in timers}
    BY Zenon DEF NextUnderflows
  <1> HIDE DEF timers
  <1>5. \A tm \in timers : Time(tm) \in Nat \ {0} /\ Time(tm) + d = DIV10 * (tm.t + tm.start + 1)
    BY <1>2, <1>3
  <1> HIDE DEF Time
  <1>6. times \in SUBSET Nat /\ (times # {} => x \in times /\ \A y \in times : x <= y)
    <2>1. times \in SUBSET Nat
      BY <1>4, <1>5
    <2> QED
      BY <2>1, LeastIs
  <1>7. times # {} => x \in Nat \ {0} /\ \E k \in Nat : x + d = DIV10 * k
    <2> SUFFICES ASSUME times # {} PROVE x \in Nat \ {0} /\ \E k \in Nat : x + d = DIV10 * k
      OBVIOUS
    <2>1. PICK tm \in timers : x = Time(tm)
      BY <1>4, <1>6
    <2>2. tm.t + tm.start + 1 \in Nat
      BY <1>2
    <2> QED
      BY <1>5, <2>1, <2>2
  <1>8. \A c \in Cias : \A tm \in {new[c].a, new[c].b} : InTime(tm, x, d)
    <2> SUFFICES ASSUME NEW c \in Cias, NEW tm \in {new[c].a, new[c].b}, Clocked(tm)
                 PROVE  x # 0 /\ x + d <= DIV10 * (tm.t + tm.start + 1)
      BY DEF InTime
    <2>1. tm \in timers
      BY DEF timers
    <2>2. Time(tm) \in times /\ Time(tm) \in Nat /\ Time(tm) + d = DIV10 * (tm.t + tm.start + 1)
      BY <1>4, <1>5, <2>1
    <2>3. x \in Nat \ {0} /\ x <= Time(tm)
      BY <1>6, <1>7, <2>2
    <2>4. x + d <= Time(tm) + d
      BY <2>2, <2>3, TimerSizes
    <2> QED
      BY <2>2, <2>3, <2>4
  <1>9. x \in Nat /\ (x # 0 => times # {})
    BY <1>6, <1>7
  <1> QED
    BY <1>7, <1>8, <1>9 DEF NoLater

LEMMA Calculated ==
  ASSUME NEW e \in Nat, div10 \in Nat, chip' \in [Cias -> Chip], CIA_calctimers(e)
  PROVE  /\ elapsed' = 0 /\ div10' \in 0..(DIV10 - 1) /\ ciatime' \in Nat
         /\ NoLater(chip', ciatime', div10') /\ Clocks(0)' = 0
  <1> DEFINE d == (e + div10) % DIV10
             times == NextUnderflows(chip', DIV10 - d)
  <1>1. /\ elapsed' = 0 /\ div10' = d
        /\ ciatime' = IF times = {} THEN 0 ELSE CHOOSE x \in times : \A y \in times : x <= y
    BY DEF CIA_calctimers
  <1>2. e + div10 \in Nat /\ d \in 0..(DIV10 - 1)
    BY Divided, TimerSizes
  <1>3. (0 + d) \div DIV10 = 0
    <2> HIDE DEF d
    <2>1. 0 + d \in Nat /\ 0 + d < DIV10 * 1
      BY <1>2, TimerSizes
    <2>2. (0 + d) \div DIV10 < 1 /\ (0 + d) \div DIV10 \in Nat
      BY <2>1, TimerSizes, Divided, Quotient
    <2> QED
      BY <2>2
  <1>4. ciatime' = IF times = {} THEN 0 ELSE Least(times)
    BY <1>1 DEF Least
  <1> HIDE DEF d, times
  <1>5. ciatime' \in Nat /\ NoLater(chip', ciatime', d)
    BY <1>2, <1>4, FirstUnderflow DEF times
  <1> QED
    BY <1>1, <1>2, <1>3, <1>5 DEF Clocks

\* Until the event, no timer has got to its underflow.
LEMMA NoneYet ==
  ASSUME NEW e \in Nat, chip \in [Cias -> Chip], div10 \in Nat, ciatime \in Nat, NoLater(chip, ciatime, div10),
         ciatime = 0 \/ e < ciatime
  PROVE  Clocks(e) \in Nat /\ \A c \in Cias : Idle(chip[c], Clocks(e))
  <1>1. Clocks(e) \in Nat
    BY Divided, TimerSizes DEF Clocks
  <1>2. \A k \in {"a", "b"} : \A tm \in Timer(k) : InTime(tm, ciatime, div10) => Fits(tm, Clocks(e))
    <2> SUFFICES ASSUME NEW k \in {"a", "b"}, NEW tm \in Timer(k), InTime(tm, ciatime, div10), Clocked(tm)
                 PROVE  Clocks(e) <= tm.t + tm.start
      BY DEF Fits
    <2> DEFINE m == tm.t + tm.start + 1
    <2>1. tm.t + tm.start \in Nat /\ m \in Nat
      BY TimerTypes DEF Timer
    <2> DEFINE p == DIV10 * m
    <2>2. ciatime # 0 /\ ciatime + div10 <= p /\ p \in Nat
      <3>1. DIV10 * m \in Nat
        BY <2>1, TimerSizes, SMT
      <3> QED
        BY <3>1 DEF InTime
    <2> HIDE DEF p
    <2>3. e + div10 \in Nat /\ e + div10 < p
      BY <2>2
    <2> HIDE DEF m
    <2>4. Clocks(e) < m
      BY <2>1, <2>3, Quotient, TimerSizes DEF Clocks, p
    <2> QED
      BY <1>1, <2>1, <2>4 DEF m
  <1> QED
    BY <1>1, <1>2, ChipFields DEF NoLater, Idle

\* At the event an E clock begins.
LEMMA ClockNow ==
  ASSUME NEW e \in Nat, div10 \in Nat, NEW k \in Nat, e + 1 + div10 = DIV10 * k
  PROVE  Clocks(e) \in Nat /\ Clocks(e + 1) = Clocks(e) + 1
  <1> DEFINE p == DIV10 * k
             q == DIV10 * (k - 1)
             s == DIV10 * (k + 1)
  <1>1. /\ p \in Nat /\ p = q + DIV10 /\ q \in Int /\ s = p + DIV10
        /\ (k = 0 => p = 0) /\ (k > 0 => k - 1 \in Nat /\ q \in Nat)
    BY TimerSizes, SMT
  <1>2. k > 0 /\ q \in Nat /\ k - 1 \in Nat
    BY <1>1
  <1>3. e + div10 \in Nat /\ e + 1 + div10 \in Nat /\ e + div10 >= q /\ e + div10 < p
        /\ e + 1 + div10 >= p /\ e + 1 + div10 < s
    <2> HIDE DEF q, s
    <2>1. e + 1 + div10 = p
      OBVIOUS
    <2> HIDE DEF p
    <2> QED
      BY <1>1, <1>2, <2>1, TimerSizes
  <1>4. Clocks(e) \in Nat /\ Clocks(e) >= k - 1 /\ Clocks(e) < k
    BY <1>2, <1>3, Divided, Quotient, TimerSizes DEF Clocks
  <1>5. Clocks(e + 1) \in Nat /\ Clocks(e + 1) >= k /\ Clocks(e + 1) < k + 1
    BY <1>2, <1>3, Divided, Quotient, TimerSizes DEF Clocks
  <1> QED
    BY <1>4, <1>5

\* From one cycle to the next an E clock at most.
LEMMA ClockNext ==
  ASSUME NEW e \in Nat, div10 \in Nat
  PROVE  Clocks(e) \in Nat /\ Clocks(e + 1) \in {Clocks(e), Clocks(e) + 1}
  <1> DEFINE n == (e + div10) \div DIV10
             r == (e + div10) % DIV10
  <1>1. n \in Nat /\ r \in 0..(DIV10 - 1) /\ e + div10 = DIV10 * n + r
    BY Divided, TimerSizes
  <1> HIDE DEF n, r
  <1> DEFINE p == DIV10 * n
             q == DIV10 * (n + 1)
             s == DIV10 * (n + 2)
  <1>2. p \in Nat /\ q = p + DIV10 /\ s = q + DIV10
    BY <1>1, TimerSizes, SMT
  <1>3. e + div10 = p + r
    BY <1>1
  <1> HIDE DEF p, q, s
  <1>4. e + 1 + div10 \in Nat /\ e + 1 + div10 >= p /\ e + 1 + div10 < s
    BY <1>1, <1>2, <1>3, TimerSizes
  <1>5. n + 2 \in Nat
    BY <1>1
  <1>6. Clocks(e + 1) \in Nat /\ Clocks(e + 1) >= n /\ Clocks(e + 1) < n + 2
    BY <1>1, <1>4, <1>5, Divided, Quotient, TimerSizes DEF Clocks, p, s
  <1>7. Clocks(e) = n
    BY DEF Clocks, n
  <1> QED
    BY <1>1, <1>6, <1>7

-----------------------------------------------------------------------------
(* Updates. *)

LEMMA UpdateIdle ==
  ASSUME chip \in [Cias -> Chip], "b" \notin SpOut, \A c \in Cias : Lined(chip[c], c),
         NEW e, Clocks(e) \in Nat, \A c \in Cias : Idle(chip[c], Clocks(e))
  PROVE  CIA_update(e) = [c \in Cias |-> At(chip[c], Clocks(e))]
  <1> DEFINE n == Clocks(e)
  <1>1. "b" \in Cias => ~chip["b"].out
    BY DEF Lined
  <1>2. \A c \in Cias : Updated(n)[c] = At(chip[c], n) /\ ~UnderflowsA(chip[c], n) /\ ~UnderflowsB(chip[c], n)
    <2> SUFFICES ASSUME NEW c \in Cias
                 PROVE  Updated(n)[c] = At(chip[c], n) /\ ~UnderflowsA(chip[c], n) /\ ~UnderflowsB(chip[c], n)
      OBVIOUS
    <2>1. Updated(n)[c] = Moved(chip[c], n)
      BY <1>1, UpdatedIs
    <2>2. Moved(chip[c], n) = At(chip[c], n)
      BY IdleMoved DEF Lined
    <2> QED
      BY <2>1, <2>2, IdleIs
  <1> HIDE DEF n
  <1> QED
    BY <1>2, Zenon DEF CIA_update, n

LEMMA UpdateClock ==
  ASSUME chip \in [Cias -> Chip], "b" \notin SpOut, \A c \in Cias : Lined(chip[c], c),
         NEW e, NEW n \in Nat, Clocks(e) = n + 1, \A c \in Cias : Idle(chip[c], n)
  PROVE  CIA_update(e) = [c \in Cias |-> Abstract!Clock(At(chip[c], n))]
  <1> DEFINE m == n + 1
  <1>1. "b" \in Cias => ~chip["b"].out
    BY DEF Lined
  <1>2. \A c \in Cias : (IF UnderflowsA(chip[c], m) \/ UnderflowsB(chip[c], m)
                         THEN Rethink(Updated(m)[c]) ELSE Updated(m)[c]) = Abstract!Clock(At(chip[c], n))
    <2> SUFFICES ASSUME NEW c \in Cias
                 PROVE  (IF UnderflowsA(chip[c], m) \/ UnderflowsB(chip[c], m)
                         THEN Rethink(Updated(m)[c]) ELSE Updated(m)[c]) = Abstract!Clock(At(chip[c], n))
      OBVIOUS
    <2> DEFINE ch == chip[c]
    <2>1. Updated(m)[c] = Moved(ch, m)
      BY <1>1, UpdatedIs
    <2>2. Abstract!Clock(At(ch, n)) = Rethink(Moved(ch, m))
      BY ClockIs
    <2>3. ~UnderflowsA(ch, m) /\ ~UnderflowsB(ch, m) => Rethink(Moved(ch, m)) = Moved(ch, m)
      <3> SUFFICES ASSUME ~UnderflowsA(ch, m), ~UnderflowsB(ch, m) PROVE Rethink(Moved(ch, m)) = Moved(ch, m)
        OBVIOUS
      <3>1. Moved(ch, m) \in Chip /\ Moved(ch, m).mask = ch.mask /\ Moved(ch, m).ir = ch.ir
        BY MovedFields
      <3>2. Moved(ch, m).icr = ch.icr
        <4>1. Shifted(ch, m) = ch /\ Flagged(ch, m) = {}
          BY DEF Shifted, Flagged
        <4>2. Moved(ch, m).icr = Shifted(ch, m).icr \cup Flagged(ch, m)
          BY MovedFields
        <4>3. Moved(ch, m).icr = ch.icr \cup {}
          BY <4>1, <4>2, Zenon
        <4> QED
          BY <4>3
      <3> QED
        BY <3>1, <3>2, RethinkIs DEF Lined
    <2> QED
      BY <2>1, <2>2, <2>3, Zenon
  <1> HIDE DEF m
  <1>3. Clocks(e) = m
    BY DEF m
  <1> QED
    BY <1>2, <1>3, Zenon DEF CIA_update

LEMMA ClockChip ==
  ASSUME NEW c \in Cias, NEW ch \in Chip, NEW n \in Nat, Idle(ch, n), Lined(ch, c)
  PROVE  Abstract!Clock(At(ch, n)) \in Chip /\ Lined(Abstract!Clock(At(ch, n)), c)
  <1> DEFINE x == Moved(ch, n + 1)
  <1>1. Abstract!Clock(At(ch, n)) = Rethink(x)
    BY ClockIs
  <1>2. x \in Chip /\ x.out = ch.out
    BY MovedFields
  <1> HIDE DEF x
  <1>3. /\ Rethink(x) \in Chip /\ Rethink(x).out = x.out
        /\ (Rethink(x).icr \cap Rethink(x).mask # {} => Rethink(x).ir)
    BY <1>2, RethinkIs
  <1> QED
    BY <1>1, <1>2, <1>3 DEF Lined

LEMMA AtChip ==
  ASSUME NEW c \in Cias, NEW ch \in Chip, NEW n \in Nat, Idle(ch, n), Lined(ch, c)
  PROVE  At(ch, n) \in Chip /\ Lined(At(ch, n), c) /\ At(ch, n).ir = ch.ir
  BY IdleIs DEF Lined

-----------------------------------------------------------------------------
(* What the program sees of the timers. *)

Seen == [c \in Cias |-> [chip[c] EXCEPT !.a = Now(@), !.b = Now(@)]]

LEMMA SeenIs == Seen = [c \in Cias |-> At(chip[c], Clocks(elapsed))]
  BY Zenon DEF Seen, At, Now, Advanced

LEMMA InvIs ==
  ASSUME TimersInv
  PROVE  /\ chip \in [Cias -> Chip] /\ intreq \in [Cias -> BOOLEAN] /\ elapsed \in Nat /\ div10 \in Nat
         /\ ciatime \in Nat /\ \A c \in Cias : Lined(chip[c], c) /\ Idle(chip[c], Clocks(elapsed))
         /\ Clocks(elapsed) \in Nat
         /\ Seen \in [Cias -> Chip] /\ \A c \in Cias : Seen[c].ir = chip[c].ir /\ Lined(Seen[c], c)
  <1>1. /\ chip \in [Cias -> Chip] /\ intreq \in [Cias -> BOOLEAN] /\ elapsed \in Nat /\ div10 \in Nat
        /\ ciatime \in Nat /\ \A c \in Cias : Lined(chip[c], c)
        /\ ciatime = 0 \/ elapsed < ciatime
    BY TimerSizes DEF TimersInv, TimersTypeOK, Lines
  <1>2. Clocks(elapsed) \in Nat /\ \A c \in Cias : Idle(chip[c], Clocks(elapsed))
    BY <1>1, NoneYet DEF TimersInv
  <1>3. \A c \in Cias : /\ At(chip[c], Clocks(elapsed)) \in Chip /\ Lined(At(chip[c], Clocks(elapsed)), c)
                        /\ At(chip[c], Clocks(elapsed)).ir = chip[c].ir
    BY <1>1, <1>2, AtChip
  <1> QED
    BY <1>1, <1>2, <1>3, SeenIs

\* A new state of the CIAs, with Paula's bits.
LEMMA Asked ==
  ASSUME TimersInv, NEW new \in [Cias -> Chip], \A c \in Cias : Lined(new[c], c), Becomes(new)
  PROVE  chip' \in [Cias -> Chip] /\ intreq' \in [Cias -> BOOLEAN] /\ Lines'
  <1>1. /\ chip' = new /\ intreq' = [c \in Cias |-> intreq[c] \/ (chip'[c].ir /\ ~chip[c].ir)]
    BY DEF Becomes
  <1>2. \A c \in Cias : /\ intreq[c] \in BOOLEAN /\ (chip[c].ir => intreq[c])
                        /\ intreq'[c] = (intreq[c] \/ (chip'[c].ir /\ ~chip[c].ir))
    BY <1>1, InvIs DEF TimersInv, Lines
  <1>3. intreq' \in [Cias -> BOOLEAN]
    BY <1>1
  <1>4. \A c \in Cias : Lined(chip'[c], c) /\ (chip'[c].ir => intreq'[c])
    BY <1>1, <1>2
  <1> QED
    BY <1>1, <1>3, <1>4 DEF Lines

\* CIA_update and CIA_calctimers, with what is written between them.
LEMMA Brought ==
  ASSUME TimersInv, NEW new \in [Cias -> Chip], \A c \in Cias : Lined(new[c], c), Becomes(new),
         NEW e \in Nat, CIA_calctimers(e), bus' \in Bytes, writes' \in 0..MaxWrites
  PROVE  TimersInv' /\ Seen' = new /\ Abstract!Becomes(new)
  <1>1. chip' \in [Cias -> Chip] /\ intreq' \in [Cias -> BOOLEAN] /\ Lines' /\ chip' = new
    BY Asked DEF Becomes
  <1>2. /\ elapsed' = 0 /\ div10' \in 0..(DIV10 - 1) /\ ciatime' \in Nat
        /\ NoLater(chip', ciatime', div10') /\ Clocks(0)' = 0
    BY <1>1, InvIs, Calculated
  <1>3. TimersInv'
    <2>1. elapsed' \in 0..MaxElapsed /\ (ciatime' = 0 \/ ciatime' > elapsed')
      BY <1>2, TimerSizes
    <2> QED
      BY <1>1, <1>2, <2>1 DEF TimersInv, TimersTypeOK, NoLater
  <1>4. Seen' = new
    <2>1. Clocks(elapsed)' = 0
      BY <1>2 DEF Clocks
    <2>2. Seen' = [c \in Cias |-> At(chip'[c], Clocks(elapsed)')]
      BY Zenon DEF Seen, At, Now, Advanced
    <2>3. \A c \in Cias : At(new[c], 0) = new[c]
      BY AtOnce
    <2>4. Seen' = [c \in Cias |-> new[c]]
      BY <1>1, <2>1, <2>2, <2>3, Zenon
    <2> QED
      BY <2>4, Zenon
  <1>5. Abstract!Becomes(new)
    <2>1. intreq' = [c \in Cias |-> intreq[c] \/ (chip'[c].ir /\ ~chip[c].ir)]
      BY DEF Becomes
    <2>2. intreq' = [c \in Cias |-> intreq[c] \/ (Seen'[c].ir /\ ~Seen[c].ir)]
      BY <1>1, <1>4, <2>1, InvIs
    <2> QED
      BY <1>4, <2>2 DEF Abstract!Becomes, Seen
  <1> QED
    BY <1>3, <1>4, <1>5

-----------------------------------------------------------------------------
(* The steps. *)

LEMMA CycleStep ==
  ASSUME TimersInv, "b" \notin SpOut, Cycle
  PROVE  TimersInv' /\ (UNCHANGED Abstract!vars \/ Abstract!EClock)
  <1> DEFINE n == Clocks(elapsed)
  <1>1. /\ chip \in [Cias -> Chip] /\ elapsed \in Nat /\ div10 \in Nat /\ ciatime \in Nat /\ n \in Nat
        /\ \A c \in Cias : Lined(chip[c], c) /\ Idle(chip[c], n)
        /\ bus' = bus /\ writes' = writes /\ bus \in Bytes /\ writes \in 0..MaxWrites
    BY InvIs DEF Cycle, TimersInv, TimersTypeOK
  <1>2. CASE elapsed + 1 = ciatime
    <2>1. Becomes(CIA_update(ciatime)) /\ CIA_calctimers(ciatime)
      BY <1>2 DEF Cycle
    <2>2. Clocks(ciatime) = n + 1
      <3>1. PICK k \in Nat : ciatime + div10 = DIV10 * k
        BY <1>1, <1>2 DEF TimersInv, NoLater
      <3>2. elapsed + 1 + div10 = DIV10 * k
        BY <1>2, <3>1
      <3> QED
        BY <1>1, <1>2, <3>2, ClockNow
    <2> PICK new : new = [c \in Cias |-> Abstract!Clock(Seen[c])]
      OBVIOUS
    <2>3. CIA_update(ciatime) = new
      <3>1. CIA_update(ciatime) = [c \in Cias |-> Abstract!Clock(At(chip[c], n))]
        BY <1>1, <2>2, UpdateClock
      <3> QED
        BY <3>1, SeenIs, Zenon
    <2>4. \A c \in Cias : new[c] \in Chip /\ Lined(new[c], c)
      <3>1. \A c \in Cias : /\ Abstract!Clock(At(chip[c], n)) \in Chip
                            /\ Lined(Abstract!Clock(At(chip[c], n)), c)
        BY <1>1, ClockChip
      <3> QED
        BY <3>1, SeenIs
    <2>5. new \in [Cias -> Chip]
      BY <2>4
    <2>6. Becomes(new)
      BY <2>1, <2>3 DEF Becomes
    <2>7. TimersInv' /\ Abstract!Becomes(new)
      BY <1>1, <2>1, <2>4, <2>5, <2>6, Brought
    <2> QED
      BY <1>1, <2>7 DEF Abstract!EClock, Abstract!Becomes, Seen
  <1>3. CASE elapsed + 1 # ciatime
    <2>1. elapsed' = elapsed + 1 /\ chip' = chip /\ intreq' = intreq /\ div10' = div10 /\ ciatime' = ciatime
          /\ elapsed < MaxElapsed
      BY <1>3 DEF Cycle
    <2>2. ciatime = 0 \/ elapsed + 1 < ciatime
      BY <1>1, <1>3 DEF TimersInv, TimersTypeOK
    <2>3. TimersInv'
      <3>1. elapsed' \in 0..MaxElapsed /\ (ciatime' = 0 \/ ciatime' > elapsed')
        BY <1>1, <2>1, <2>2, TimerSizes
      <3>2. Lines' /\ NoLater(chip', ciatime', div10')
        BY <2>1 DEF TimersInv, Lines
      <3> QED
        BY <1>1, <2>1, <3>1, <3>2 DEF TimersInv, TimersTypeOK, NoLater
    <2> DEFINE m == Clocks(elapsed + 1)
    <2>4. m \in Nat /\ m \in {n, n + 1} /\ \A c \in Cias : Idle(chip[c], m)
      <3>1. elapsed + 1 \in Nat
        BY <1>1
      <3>2. m \in Nat /\ \A c \in Cias : Idle(chip[c], m)
        BY <1>1, <2>2, <3>1, NoneYet DEF TimersInv
      <3> QED
        BY <1>1, <3>2, ClockNext
    <2>5. Seen' = [c \in Cias |-> At(chip[c], m)]
      <3>1. Seen' = [c \in Cias |-> At(chip'[c], Clocks(elapsed)')]
        BY Zenon DEF Seen, At, Now, Advanced
      <3>2. Clocks(elapsed)' = m
        BY <2>1 DEF Clocks
      <3> QED
        BY <2>1, <3>1, <3>2, Zenon
    <2> HIDE DEF m
    <2>6. CASE m = n
      <3>1. Seen' = Seen
        BY <2>5, <2>6, SeenIs
      <3> QED
        BY <1>1, <2>1, <2>3, <3>1 DEF Abstract!vars, Seen
    <2>7. CASE m = n + 1
      <3>1. \A c \in Cias : At(chip[c], m) = Abstract!Clock(Seen[c]) /\ At(chip[c], m).ir = chip[c].ir
        <4> SUFFICES ASSUME NEW c \in Cias
                     PROVE  At(chip[c], m) = Abstract!Clock(Seen[c]) /\ At(chip[c], m).ir = chip[c].ir
          OBVIOUS
        <4>1. Lined(chip[c], c) /\ Idle(chip[c], n) /\ Idle(chip[c], m) /\ chip[c] \in Chip
          BY <1>1, <2>4
        <4>2. Abstract!Clock(At(chip[c], n)) = Rethink(Moved(chip[c], n + 1))
          BY <1>1, <4>1, ClockIs
        <4>3. Moved(chip[c], m) = At(chip[c], m)
          BY <2>4, <4>1, IdleMoved DEF Lined
        <4>4. At(chip[c], m) \in Chip /\ Lined(At(chip[c], m), c) /\ At(chip[c], m).ir = chip[c].ir
          BY <2>4, <4>1, AtChip
        <4>5. Rethink(At(chip[c], m)) = At(chip[c], m)
          BY <4>4, RethinkIs DEF Lined
        <4>6. Seen[c] = At(chip[c], n)
          BY SeenIs
        <4> QED
          BY <2>7, <4>2, <4>3, <4>4, <4>5, <4>6, Zenon
      <3>2. Seen' = [c \in Cias |-> Abstract!Clock(Seen[c])]
        BY <2>5, <3>1, Zenon
      <3>3. \A c \in Cias : Seen'[c].ir = Seen[c].ir
        BY <2>5, <3>1, InvIs
      <3>4. intreq' = [c \in Cias |-> intreq[c] \/ (Seen'[c].ir /\ ~Seen[c].ir)]
        <4>1. intreq \in [Cias -> BOOLEAN]
          BY InvIs
        <4> QED
          BY <2>1, <3>3, <4>1
      <3>5. Abstract!EClock
        BY <1>1, <3>2, <3>4, Zenon DEF Abstract!EClock, Abstract!Becomes, Seen
      <3> QED
        BY <2>3, <3>5
    <2> QED
      BY <2>4, <2>6, <2>7
  <1> QED
    BY <1>2, <1>3

\* The timers brought up to date, with a register that is then written.
LEMMA UpdateSeen ==
  ASSUME TimersInv, "b" \notin SpOut
  PROVE  CIA_update(elapsed) = Seen
  BY InvIs, UpdateIdle, SeenIs

LEMMA VsyncStep ==
  ASSUME TimersInv, "b" \notin SpOut, Vsync
  PROVE  TimersInv' /\ UNCHANGED Abstract!vars
  <1>1. Becomes(Seen) /\ CIA_calctimers(elapsed) /\ bus' = bus /\ writes' = writes
    BY UpdateSeen DEF Vsync
  <1>2. bus' \in Bytes /\ writes' \in 0..MaxWrites /\ elapsed \in Nat /\ intreq \in [Cias -> BOOLEAN]
    BY <1>1, InvIs DEF TimersInv, TimersTypeOK
  <1>3. TimersInv' /\ Seen' = Seen
    BY <1>1, <1>2, InvIs, Brought
  <1>4. intreq' = intreq
    <2>1. chip' = Seen /\ intreq' = [c \in Cias |-> intreq[c] \/ (chip'[c].ir /\ ~chip[c].ir)]
      BY <1>1 DEF Becomes
    <2> QED
      BY <1>2, <2>1, InvIs
  <1> QED
    BY <1>1, <1>3, <1>4 DEF Abstract!vars, Seen

LEMMA WriteStep ==
  ASSUME TimersInv, "b" \notin SpOut, NEW c \in Cias, NEW new \in Chip, Lined(new, c), Write(c, new)
  PROVE  TimersInv' /\ Abstract!Write(c, new)
  <1> PICK all : all = [Seen EXCEPT ![c] = new]
    OBVIOUS
  <1>1. /\ Becomes(all) /\ CIA_calctimers(elapsed) /\ bus' = bus /\ writes' = writes + 1 /\ writes < MaxWrites
    BY UpdateSeen DEF Write, Becomes
  <1>2. all \in [Cias -> Chip] /\ \A d \in Cias : Lined(all[d], d)
    BY InvIs
  <1>3. bus' \in Bytes /\ writes' \in 0..MaxWrites /\ elapsed \in Nat
    BY <1>1, InvIs, TimerSizes DEF TimersInv, TimersTypeOK
  <1>4. TimersInv' /\ Abstract!Becomes(all)
    BY <1>1, <1>2, <1>3, Brought
  <1> QED
    BY <1>1, <1>4 DEF Abstract!Write, Abstract!Becomes, Seen

\* The registers.
LEMMA SetTypes ==
  ASSUME NEW k \in {"a", "b"}, NEW tm \in Timer(k)
  PROVE  /\ \A v \in Bytes : SetLo(tm, v) \in Timer(k) /\ SetHi(tm, v) \in Timer(k)
         /\ \A cr \in Controls(k) : SetControl(tm, cr) \in Timer(k)
  <1>1. /\ tm.t \in Count /\ tm.start \in 0..3 /\ tm.latch \in Count /\ tm.run \in BOOLEAN
        /\ tm.oneshot \in BOOLEAN /\ tm.mode \in Modes(k)
    BY DEF Timer
  <1>2. \A v \in Bytes : /\ (tm.latch \div Byte) * Byte + v \in Count
                         /\ v * Byte + (tm.latch % Byte) \in Count
    BY <1>1, ByteOf, ByteJoined
  <1>3. ASSUME NEW v \in Bytes PROVE SetLo(tm, v) \in Timer(k)
    <2>1. \A l \in Count : [tm EXCEPT !.latch = l] \in Timer(k)
      BY Zenon DEF Timer
    <2> QED
      BY <1>2, <2>1, Zenon DEF SetLo
  <1>4. ASSUME NEW v \in Bytes PROVE SetHi(tm, v) \in Timer(k)
    <2> DEFINE l == v * Byte + (tm.latch % Byte)
               t == IF tm.run /\ ~tm.oneshot THEN tm.t ELSE l
               r == tm.run \/ tm.oneshot
               s == IF tm.oneshot THEN CIASTARTCYCLESHI ELSE tm.start
    <2>1. SetHi(tm, v) = [tm EXCEPT !.latch = l, !.t = t, !.run = r, !.start = s]
      BY Zenon DEF SetHi
    <2>2. l \in Count /\ t \in Count /\ r \in BOOLEAN /\ s \in 0..3
      BY <1>1, <1>2 DEF CIASTARTCYCLESHI
    <2> HIDE DEF l, t, r, s
    <2> QED
      BY <2>1, <2>2, Zenon DEF Timer
  <1>5. ASSUME NEW cr \in Controls(k) PROVE SetControl(tm, cr) \in Timer(k)
    <2> DEFINE s == IF cr.run /\ ~tm.run THEN CIASTARTCYCLESCRA ELSE tm.start
               t == IF cr.strobe THEN tm.latch ELSE tm.t
    <2>1. SetControl(tm, cr) =
            [tm EXCEPT !.start = s, !.run = cr.run, !.oneshot = cr.oneshot, !.mode = cr.mode, !.t = t]
      BY Zenon DEF SetControl
    <2>2. s \in 0..3 /\ t \in Count /\ cr.run \in BOOLEAN /\ cr.oneshot \in BOOLEAN /\ cr.mode \in Modes(k)
      BY <1>1 DEF CIASTARTCYCLESCRA, Controls
    <2> HIDE DEF s, t
    <2> QED
      BY <2>1, <2>2, Zenon DEF Timer
  <1> QED
    BY <1>3, <1>4, <1>5

LEMMA TimerWritten ==
  ASSUME NEW c \in Cias, NEW ch \in Chip, Lined(ch, c), NEW n \in {"a", "b"}, NEW tm \in Timer(n)
  PROVE  /\ WithTimer(ch, n, tm) \in Chip /\ Lined(WithTimer(ch, n, tm), c) /\ ch[n] \in Timer(n)
         /\ WithTimer(ch, n, tm).out = ch.out
         /\ [WithTimer(ch, n, tm) EXCEPT !.out = ch.out] = WithTimer(ch, n, tm)
  <1> DEFINE x == WithTimer(ch, n, tm)
  <1>1. ch[n] \in Timer(n)
    BY SMT DEF Chip
  <1>2. x \in Chip /\ x.out = ch.out /\ x.icr = ch.icr /\ x.mask = ch.mask /\ x.ir = ch.ir
    <2>1. CASE n = "a"
      <3>1. x = [ch EXCEPT !.a = tm] /\ tm \in Timer("a")
        BY <2>1 DEF WithTimer
      <3> HIDE DEF x
      <3> QED
        BY <3>1, SMT DEF Chip
    <2>2. CASE n = "b"
      <3>1. x = [ch EXCEPT !.b = tm] /\ tm \in Timer("b")
        BY <2>2 DEF WithTimer
      <3> HIDE DEF x
      <3> QED
        BY <3>1, SMT DEF Chip
    <2> QED
      BY <2>1, <2>2
  <1> HIDE DEF x
  <1>3. [x EXCEPT !.out = x.out] = x
    BY <1>2, SMT DEF Chip
  <1> QED
    BY <1>1, <1>2, <1>3, Zenon DEF Lined, x

\* What the program's writes leave alone.
LEMMA OutWritten ==
  ASSUME NEW c \in Cias, NEW ch \in Chip, Lined(ch, c), NEW out \in BOOLEAN, out => c \in SpOut
  PROVE  [ch EXCEPT !.out = out] \in Chip /\ Lined([ch EXCEPT !.out = out], c)
  <1> DEFINE x == [ch EXCEPT !.out = out]
  <1>1. x \in Chip /\ x.out = out /\ x.icr = ch.icr /\ x.mask = ch.mask /\ x.ir = ch.ir
    BY SMT DEF Chip
  <1> HIDE DEF x
  <1>2. x \in Chip /\ Lined(x, c)
    BY <1>1 DEF Lined
  <1> QED
    BY <1>2 DEF x

LEMMA SdrWritten ==
  ASSUME NEW c \in Cias, NEW ch \in Chip, Lined(ch, c)
  PROVE  SetSdr(ch) \in Chip /\ Lined(SetSdr(ch), c)
  <1>1. CASE ~(ch.out /\ ch.a.run)
    BY <1>1 DEF SetSdr
  <1>2. CASE ch.out /\ ch.a.run
    <2> DEFINE n == IF ch.cnt = 0 THEN ShiftClocks ELSE ch.cnt
               l == ch.cnt # 0
    <2>1. SetSdr(ch) = [ch EXCEPT !.cnt = n, !.load = l]
      BY <1>2, Zenon DEF SetSdr
    <2>2. n \in 0..ShiftClocks /\ l \in BOOLEAN
      BY ChipFields, TimerTypes
    <2> HIDE DEF n, l
    <2>3. [ch EXCEPT !.cnt = n, !.load = l] = SerialSet(ch, n, l, ch.icr)
      BY Zenon DEF SerialSet, Chip
    <2>4. /\ SetSdr(ch) \in Chip /\ SetSdr(ch).out = ch.out /\ SetSdr(ch).icr = ch.icr
          /\ SetSdr(ch).mask = ch.mask /\ SetSdr(ch).ir = ch.ir
      BY <2>1, <2>2, <2>3, ChipSerial, ChipFields
    <2> QED
      BY <2>4 DEF Lined
  <1> QED
    BY <1>1, <1>2

\* Interrupt control, whatever the timers.
ControlSet(ch, f, m, r) == [ch EXCEPT !.icr = f, !.mask = m, !.ir = r]

LEMMA ChipControl ==
  ASSUME NEW ch \in Chip, NEW f, NEW m, NEW r
  PROVE  /\ f \in SUBSET Flags /\ m \in SUBSET Flags /\ r \in BOOLEAN => ControlSet(ch, f, m, r) \in Chip
         /\ ControlSet(ch, f, m, r).a = ch.a /\ ControlSet(ch, f, m, r).b = ch.b
         /\ ControlSet(ch, f, m, r).out = ch.out /\ ControlSet(ch, f, m, r).cnt = ch.cnt
         /\ ControlSet(ch, f, m, r).load = ch.load /\ ControlSet(ch, f, m, r).icr = f
         /\ ControlSet(ch, f, m, r).mask = m /\ ControlSet(ch, f, m, r).ir = r
  <1>1. f \in SUBSET Flags /\ m \in SUBSET Flags /\ r \in BOOLEAN => ControlSet(ch, f, m, r) \in Chip
    BY Zenon DEF ControlSet, Chip
  <1>2. /\ ControlSet(ch, f, m, r).a = ch.a /\ ControlSet(ch, f, m, r).b = ch.b
        /\ ControlSet(ch, f, m, r).out = ch.out /\ ControlSet(ch, f, m, r).cnt = ch.cnt
        /\ ControlSet(ch, f, m, r).load = ch.load /\ ControlSet(ch, f, m, r).icr = f
        /\ ControlSet(ch, f, m, r).mask = m /\ ControlSet(ch, f, m, r).ir = r
    BY SMT DEF ControlSet, Chip
  <1> QED
    BY <1>1, <1>2, Zenon

LEMMA ControlSeen ==
  ASSUME NEW ch \in Chip, NEW n \in Nat, Idle(ch, n), NEW f \in SUBSET Flags, NEW m \in SUBSET Flags,
         NEW r \in BOOLEAN
  PROVE  At(ControlSet(ch, f, m, r), n) = ControlSet(At(ch, n), f, m, r)
  <1> DEFINE x == ControlSet(ch, f, m, r)
             y == ControlSet(At(ch, n), f, m, r)
  <1>1. /\ x \in Chip /\ x.a = ch.a /\ x.b = ch.b /\ x.out = ch.out /\ x.cnt = ch.cnt /\ x.load = ch.load
        /\ x.icr = f /\ x.mask = m /\ x.ir = r
    BY ChipControl
  <1> HIDE DEF x
  <1>2. Idle(x, n)
    BY <1>1 DEF Idle
  <1>3. /\ At(x, n) \in Chip /\ At(x, n).a = Advanced(ch.a, n) /\ At(x, n).b = Advanced(ch.b, n)
        /\ At(x, n).out = ch.out /\ At(x, n).cnt = ch.cnt /\ At(x, n).load = ch.load
        /\ At(x, n).icr = f /\ At(x, n).mask = m /\ At(x, n).ir = r
    BY <1>1, <1>2, IdleIs
  <1>4. At(ch, n) \in Chip
    BY IdleIs
  <1>5. /\ y \in Chip /\ y.a = Advanced(ch.a, n) /\ y.b = Advanced(ch.b, n)
        /\ y.out = ch.out /\ y.cnt = ch.cnt /\ y.load = ch.load
        /\ y.icr = f /\ y.mask = m /\ y.ir = r
    BY <1>4, IdleIs, ChipControl
  <1> HIDE DEF y
  <1>6. At(x, n) = y
    BY <1>3, <1>5, SameChip
  <1> QED
    BY <1>6 DEF x, y

\* The interrupt line as Rethink leaves it, and the mask as a write leaves it.
Raised(ch, f, m) == ch.ir \/ f \cap m # {}
Masked(ch, on, f) == IF on THEN ch.mask \cup {f} ELSE ch.mask \ {f}

LEMMA RaisedIs ==
  ASSUME NEW ch \in Chip, NEW f, NEW m
  PROVE  Raised(ch, f, m) \in BOOLEAN /\ (f \cap m # {} => Raised(ch, f, m))
  BY Zenon DEF Raised, Chip

LEMMA RethinkForm ==
  ASSUME NEW ch \in Chip, NEW f \in SUBSET Flags, NEW m \in SUBSET Flags,
         NEW r, r = Raised(ch, f, m), NEW x, x = ControlSet(ch, f, m, ch.ir)
  PROVE  Rethink(x) = ControlSet(ch, f, m, r)
  <1> PICK y : y = ControlSet(ch, f, m, r)
    OBVIOUS
  <1>1. ch.ir \in BOOLEAN /\ r \in BOOLEAN
    BY ChipFields, RaisedIs
  <1>2. /\ x \in Chip /\ x.a = ch.a /\ x.b = ch.b /\ x.out = ch.out /\ x.cnt = ch.cnt /\ x.load = ch.load
        /\ x.icr = f /\ x.mask = m /\ x.ir = ch.ir
    BY <1>1, ChipControl
  <1>3. /\ y \in Chip /\ y.a = ch.a /\ y.b = ch.b /\ y.out = ch.out /\ y.cnt = ch.cnt /\ y.load = ch.load
        /\ y.icr = f /\ y.mask = m /\ y.ir = r
    BY <1>1, ChipControl
  <1>4. /\ Rethink(x) \in Chip /\ Rethink(x).a = ch.a /\ Rethink(x).b = ch.b /\ Rethink(x).out = ch.out
        /\ Rethink(x).cnt = ch.cnt /\ Rethink(x).load = ch.load
        /\ Rethink(x).icr = f /\ Rethink(x).mask = m /\ Rethink(x).ir = r
    <2>1. /\ Rethink(x) \in Chip /\ Rethink(x).a = ch.a /\ Rethink(x).b = ch.b /\ Rethink(x).out = ch.out
          /\ Rethink(x).cnt = ch.cnt /\ Rethink(x).load = ch.load
          /\ Rethink(x).icr = f /\ Rethink(x).mask = m
      BY <1>2, RethinkIs
    <2>2. Rethink(x).ir = (x.ir \/ x.icr \cap x.mask # {})
      BY <1>2, RethinkIs
    <2>3. Rethink(x).ir = r
      BY <1>2, <2>2, Zenon DEF Raised
    <2> QED
      BY <2>1, <2>3
  <1>5. Rethink(x) = y
    BY <1>3, <1>4, SameChip
  <1> QED
    BY <1>5

LEMMA MaskForm ==
  ASSUME NEW ch \in Chip, NEW on \in BOOLEAN, NEW f \in Flags,
         NEW m, m = Masked(ch, on, f), NEW r, r = Raised(ch, ch.icr, m)
  PROVE  SetMask(ch, on, f) = ControlSet(ch, ch.icr, m, r) /\ m \in SUBSET Flags
  <1> PICK x : x = ControlSet(ch, ch.icr, m, ch.ir)
    OBVIOUS
  <1>1. m \in SUBSET Flags /\ ch.icr \in SUBSET Flags
    BY ChipFields DEF Masked
  <1>2. [ch EXCEPT !.mask = m] = x
    BY Zenon DEF ControlSet, Chip
  <1>3. SetMask(ch, on, f) = Rethink(x)
    BY <1>2, Zenon DEF SetMask, Masked
  <1> QED
    BY <1>1, <1>3, RethinkForm

FlagSet(ch, f) == Rethink([ch EXCEPT !.icr = @ \cup {f}])

LEMMA FlagForm ==
  ASSUME NEW ch \in Chip, NEW f \in Flags, NEW g, g = ch.icr \cup {f},
         NEW r, r = Raised(ch, g, ch.mask)
  PROVE  FlagSet(ch, f) = ControlSet(ch, g, ch.mask, r) /\ g \in SUBSET Flags
  <1> PICK x : x = ControlSet(ch, g, ch.mask, ch.ir)
    OBVIOUS
  <1>1. g \in SUBSET Flags /\ ch.mask \in SUBSET Flags
    BY ChipFields
  <1>2. [ch EXCEPT !.icr = @ \cup {f}] = x
    BY Zenon DEF ControlSet, Chip
  <1>3. FlagSet(ch, f) = Rethink(x)
    BY <1>2, Zenon DEF FlagSet
  <1> QED
    BY <1>1, <1>3, RethinkForm

Cleared(ch) == [ch EXCEPT !.icr = {}, !.ir = FALSE]

LEMMA ClearedForm ==
  ASSUME NEW ch \in Chip
  PROVE  Cleared(ch) = ControlSet(ch, {}, ch.mask, FALSE)
  BY Zenon DEF ControlSet, Cleared, Chip

LEMMA PlainStep ==
  ASSUME TimersInv, NEW c \in Cias, NEW f \in SUBSET Flags, NEW m \in SUBSET Flags, NEW r \in BOOLEAN,
         f \cap m # {} => r, NEW one, one = ControlSet(chip[c], f, m, r), Plain(c, one),
         writes' \in 0..MaxWrites, NEW new, new = ControlSet(Seen[c], f, m, r)
  PROVE  TimersInv' /\ Abstract!Write(c, new)
  <1> DEFINE n == Clocks(elapsed)
  <1> PICK all : all = [chip EXCEPT ![c] = one]
    OBVIOUS
  <1>1. /\ Becomes(all) /\ chip' = all /\ bus' = bus /\ elapsed' = elapsed /\ div10' = div10
        /\ ciatime' = ciatime
        /\ intreq' = [d \in Cias |-> intreq[d] \/ (chip'[d].ir /\ ~chip[d].ir)]
    BY DEF Plain, Becomes
  <1>2. /\ chip \in [Cias -> Chip] /\ n \in Nat /\ \A d \in Cias : Lined(chip[d], d) /\ Idle(chip[d], n)
    BY InvIs
  <1>3. /\ one \in Chip /\ one.a = chip[c].a /\ one.b = chip[c].b /\ one.out = chip[c].out
        /\ one.icr = f /\ one.mask = m /\ one.ir = r
    BY <1>2, ChipControl
  <1>4. all \in [Cias -> Chip] /\ \A d \in Cias : Lined(all[d], d)
    BY <1>2, <1>3 DEF Lined
  <1>5. chip' \in [Cias -> Chip] /\ intreq' \in [Cias -> BOOLEAN] /\ Lines'
    BY <1>1, <1>4, Asked
  <1>6. \A d \in Cias : all[d].a = chip[d].a /\ all[d].b = chip[d].b
    BY <1>2, <1>3
  <1>7. TimersInv'
    <2>1. NoLater(chip', ciatime', div10')
      BY <1>1, <1>6 DEF TimersInv, NoLater
    <2> QED
      BY <1>1, <1>5, <2>1 DEF TimersInv, TimersTypeOK, NoLater
  <1>8. At(one, n) = ControlSet(Seen[c], f, m, r) /\ At(one, n).ir = r
    <2>1. At(one, n) = ControlSet(At(chip[c], n), f, m, r)
      BY <1>2, ControlSeen
    <2>2. Seen[c] = At(chip[c], n) /\ Seen[c] \in Chip
      BY InvIs, SeenIs
    <2> QED
      BY <2>1, <2>2, ChipControl
  <1>9. Seen' = [Seen EXCEPT ![c] = At(one, n)]
    <2>1. Seen' = [d \in Cias |-> At(chip'[d], Clocks(elapsed)')]
      BY Zenon DEF Seen, At, Now, Advanced
    <2>2. Clocks(elapsed)' = n
      BY <1>1 DEF Clocks
    <2> HIDE DEF n
    <2>3. Seen' = [d \in Cias |-> At(all[d], n)]
      <3>1. chip' = all
        BY <1>1
      <3> QED
        BY <2>1, <2>2, <3>1
    <2>4. \A d \in Cias : all[d] = IF d = c THEN one ELSE chip[d]
      BY <1>2
    <2>5. Seen = [d \in Cias |-> At(chip[d], n)]
      BY SeenIs DEF n
    <2> QED
      BY <2>3, <2>4, <2>5
  <1>10. \A d \in Cias : Seen'[d].ir = all[d].ir /\ Seen[d].ir = chip[d].ir
    <2>1. \A d \in Cias : Seen[d].ir = chip[d].ir /\ Seen \in [Cias -> Chip]
      BY InvIs
    <2> QED
      BY <1>2, <1>3, <1>8, <1>9, <2>1
  <1>11. intreq' = [d \in Cias |-> intreq[d] \/ (Seen'[d].ir /\ ~Seen[d].ir)]
    BY <1>1, <1>10
  <1> QED
    BY <1>1, <1>7, <1>8, <1>9, <1>11, Zenon DEF Abstract!Write, Abstract!Becomes, Seen

LEMMA SameRegisters ==
  /\ Abstract!Bytes = Bytes /\ Abstract!Flags = Flags
  /\ \A n : Abstract!Controls(n) = Controls(n)
  /\ \A ch, n, tm : Abstract!WithTimer(ch, n, tm) = WithTimer(ch, n, tm)
  /\ \A tm, v : Abstract!SetLo(tm, v) = SetLo(tm, v) /\ Abstract!SetHi(tm, v) = SetHi(tm, v)
  /\ \A tm, cr : Abstract!SetControl(tm, cr) = SetControl(tm, cr)
  /\ \A ch : Abstract!SetSdr(ch) = SetSdr(ch)
  /\ \A ch, on, f : Abstract!SetMask(ch, on, f) = SetMask(ch, on, f)
  /\ \A tm, hi : Abstract!ReadByte(tm, hi) = ReadByte(tm, hi)
  BY Zenon DEF Abstract!Bytes, Bytes, Abstract!Flags, Flags, Abstract!Controls, Controls,
    Abstract!Modes, Modes, Abstract!WithTimer, WithTimer, Abstract!SetLo, SetLo, Abstract!SetHi,
    SetHi, Abstract!SetControl, SetControl, Abstract!SetSdr, SetSdr, Abstract!SetMask, SetMask,
    Abstract!Rethink, Rethink, Abstract!ReadByte, ReadByte, Abstract!CIASTARTCYCLESHI,
    CIASTARTCYCLESHI, Abstract!CIASTARTCYCLESCRA, CIASTARTCYCLESCRA

LEMMA TimerStep ==
  ASSUME TimersInv, "b" \notin SpOut, NEW c \in Cias, NEW n \in {"a", "b"}, WriteLo(c, n) \/ WriteHi(c, n)
  PROVE  TimersInv' /\ Abstract!WriteLatch(c, n)
  <1> PICK ch : ch = Seen[c]
    OBVIOUS
  <1>1. ch \in Chip /\ Lined(ch, c) /\ CIA_update(elapsed)[c] = ch
    BY InvIs, UpdateSeen
  <1>2. ch[n] \in Timer(n)
    BY <1>1, SMT DEF Chip
  <1>3. PICK v, tm : /\ v \in Bytes /\ tm \in {SetLo(ch[n], v), SetHi(ch[n], v)}
                     /\ Write(c, WithTimer(ch, n, tm))
    BY <1>1, Zenon DEF WriteLo, WriteHi, Write, Becomes
  <1>4. tm \in Timer(n)
    BY <1>2, <1>3, SetTypes
  <1>5. WithTimer(ch, n, tm) \in Chip /\ Lined(WithTimer(ch, n, tm), c)
    BY <1>1, <1>4, TimerWritten
  <1>6. TimersInv' /\ Abstract!Write(c, WithTimer(ch, n, tm))
    BY <1>3, <1>5, WriteStep
  <1>7. \/ Abstract!Write(c, Abstract!WithTimer(ch, n, Abstract!SetLo(ch[n], v)))
        \/ Abstract!Write(c, Abstract!WithTimer(ch, n, Abstract!SetHi(ch[n], v)))
    BY <1>3, <1>6, SameRegisters, Zenon
  <1> QED
    BY <1>3, <1>6, <1>7, SameRegisters, Zenon DEF Abstract!WriteLatch, Abstract!Write, Abstract!Becomes, Seen

LEMMA ControlStep ==
  ASSUME TimersInv, "b" \notin SpOut, NEW c \in Cias, WriteCra(c) \/ WriteCrb(c)
  PROVE  TimersInv' /\ \E n \in {"a", "b"} : Abstract!WriteControl(c, n)
  <1> PICK ch : ch = Seen[c]
    OBVIOUS
  <1>1. /\ ch \in Chip /\ Lined(ch, c) /\ CIA_update(elapsed)[c] = ch /\ ch.out \in BOOLEAN
        /\ ch["a"] = ch.a /\ ch["b"] = ch.b /\ ch.a \in Timer("a") /\ ch.b \in Timer("b")
    <2>1. ch \in Chip /\ Lined(ch, c) /\ CIA_update(elapsed)[c] = ch
      BY InvIs, UpdateSeen
    <2> QED
      BY <2>1, SMT DEF Chip
  <1>2. PICK n, cr, out :
          /\ n \in {"a", "b"} /\ cr \in Controls(n) /\ out \in BOOLEAN /\ (out => c \in SpOut)
          /\ out \in {ch.out} \cup (IF n = "a" THEN {~ch.out} ELSE {})
          /\ Write(c, [WithTimer(ch, n, SetControl(ch[n], cr)) EXCEPT !.out = out])
    <2>1. CASE WriteCra(c)
      <3>1. PICK cr \in Controls("a"), out \in BOOLEAN :
              (out => c \in SpOut) /\ Write(c, [ch EXCEPT !.a = SetControl(ch.a, cr), !.out = out])
        BY <1>1, <2>1, Zenon DEF WriteCra, Write, Becomes
      <3>2. [ch EXCEPT !.a = SetControl(ch.a, cr), !.out = out]
              = [WithTimer(ch, "a", SetControl(ch["a"], cr)) EXCEPT !.out = out]
        BY <1>1, Zenon DEF WithTimer, Chip
      <3>3. Write(c, [WithTimer(ch, "a", SetControl(ch["a"], cr)) EXCEPT !.out = out])
        BY <3>1, <3>2, Zenon
      <3>4. out \in {ch.out} \cup (IF "a" = "a" THEN {~ch.out} ELSE {})
        BY <1>1
      <3> QED
        BY <3>1, <3>3, <3>4
    <2>2. CASE WriteCrb(c)
      <3>1. PICK cr \in Controls("b") : Write(c, [ch EXCEPT !.b = SetControl(ch.b, cr)])
        BY <1>1, <2>2, Zenon DEF WriteCrb, Write, Becomes
      <3>2. SetControl(ch.b, cr) \in Timer("b") /\ "b" # "a"
        BY <1>1, SetTypes
      <3>3. WithTimer(ch, "b", SetControl(ch["b"], cr)) = [ch EXCEPT !.b = SetControl(ch.b, cr)]
        BY <1>1, <3>2, Zenon DEF WithTimer
      <3>4. [ch EXCEPT !.b = SetControl(ch.b, cr)]
              = [WithTimer(ch, "b", SetControl(ch["b"], cr)) EXCEPT !.out = ch.out]
        BY <1>1, <3>2, <3>3, TimerWritten
      <3>5. Write(c, [WithTimer(ch, "b", SetControl(ch["b"], cr)) EXCEPT !.out = ch.out])
        BY <3>1, <3>4, Zenon
      <3>6. ch.out => c \in SpOut
        BY <1>1 DEF Lined
      <3> QED
        BY <1>1, <3>1, <3>5, <3>6
    <2> QED
      BY <2>1, <2>2
  <1> PICK one : one = WithTimer(ch, n, SetControl(ch[n], cr))
    OBVIOUS
  <1>3. one \in Chip /\ Lined(one, c)
    <2>1. SetControl(ch[n], cr) \in Timer(n)
      BY <1>1, <1>2, SetTypes
    <2> QED
      BY <1>1, <1>2, <2>1, TimerWritten
  <1>4. [one EXCEPT !.out = out] \in Chip /\ Lined([one EXCEPT !.out = out], c)
    BY <1>2, <1>3, OutWritten
  <1>5. TimersInv' /\ Abstract!Write(c, [one EXCEPT !.out = out])
    <2>1. Write(c, [one EXCEPT !.out = out])
      BY <1>2
    <2> QED
      BY <1>4, <2>1, WriteStep
  <1>6. one = Abstract!WithTimer(ch, n, Abstract!SetControl(ch[n], cr)) /\ cr \in Abstract!Controls(n)
    BY <1>2, SameRegisters, Zenon
  <1>7. Abstract!Write(c, [Abstract!WithTimer(ch, n, Abstract!SetControl(ch[n], cr)) EXCEPT !.out = out])
    BY <1>5, <1>6, Zenon
  <1>8. Abstract!WriteControl(c, n)
    BY <1>2, <1>6, <1>7, Zenon DEF Abstract!WriteControl, Abstract!Write, Abstract!Becomes, Seen
  <1> QED
    BY <1>2, <1>5, <1>8

LEMMA SdrStep ==
  ASSUME TimersInv, "b" \notin SpOut, NEW c \in Cias, WriteSdr(c)
  PROVE  TimersInv' /\ Abstract!WriteSdr(c)
  <1> PICK ch : ch = Seen[c]
    OBVIOUS
  <1>1. ch \in Chip /\ Lined(ch, c) /\ CIA_update(elapsed)[c] = ch
    BY InvIs, UpdateSeen
  <1>2. Write(c, SetSdr(ch))
    BY <1>1, Zenon DEF WriteSdr, Write, Becomes
  <1>3. TimersInv' /\ Abstract!Write(c, SetSdr(ch))
    BY <1>1, <1>2, SdrWritten, WriteStep
  <1> QED
    BY <1>3, SameRegisters, Zenon DEF Abstract!WriteSdr, Abstract!Write, Abstract!Becomes, Seen

LEMMA SeenControl ==
  ASSUME TimersInv, NEW c \in Cias
  PROVE  /\ chip[c] \in Chip /\ Seen[c] \in Chip /\ Lined(chip[c], c) /\ Seen[c].icr = chip[c].icr
         /\ Seen[c].mask = chip[c].mask /\ Seen[c].ir = chip[c].ir
  <1>1. /\ chip[c] \in Chip /\ Seen[c] \in Chip /\ Lined(chip[c], c)
        /\ Idle(chip[c], Clocks(elapsed)) /\ Clocks(elapsed) \in Nat
    BY InvIs
  <1>2. Seen[c] = At(chip[c], Clocks(elapsed))
    BY SeenIs
  <1> QED
    BY <1>1, <1>2, IdleIs

LEMMA MaskStep ==
  ASSUME TimersInv, NEW c \in Cias, WriteMask(c)
  PROVE  TimersInv' /\ Abstract!WriteMask(c)
  <1> PICK old, new : old = chip[c] /\ new = Seen[c]
    OBVIOUS
  <1>1. /\ old \in Chip /\ new \in Chip /\ new.icr = old.icr /\ new.mask = old.mask /\ new.ir = old.ir
    BY SeenControl
  <1>2. PICK on, f, one : /\ on \in BOOLEAN /\ f \in Enabled
                          /\ one = SetMask(old, on, f) /\ Plain(c, one)
    BY Zenon DEF WriteMask, Plain, Becomes
  <1>3. writes' \in 0..MaxWrites /\ f \in Flags
    BY <1>2, TimerSizes DEF WriteMask, TimersInv, TimersTypeOK
  <1> PICK m, r : m = Masked(old, on, f) /\ r = Raised(old, old.icr, m)
    OBVIOUS
  <1> PICK two : two = SetMask(new, on, f)
    OBVIOUS
  <1>4. old.icr \in SUBSET Flags /\ r \in BOOLEAN /\ (old.icr \cap m # {} => r)
    BY <1>1, ChipFields, RaisedIs
  <1>5. one = ControlSet(old, old.icr, m, r) /\ m \in SUBSET Flags
    BY <1>1, <1>2, <1>3, MaskForm
  <1>6. two = ControlSet(new, old.icr, m, r)
    <2>1. m = Masked(new, on, f) /\ r = Raised(new, new.icr, m)
      BY <1>1, Zenon DEF Masked, Raised
    <2> QED
      BY <1>1, <1>2, <1>3, <2>1, MaskForm
  <1>7. TimersInv' /\ Abstract!Write(c, two)
    BY <1>2, <1>3, <1>4, <1>5, <1>6, PlainStep
  <1>8. two = Abstract!SetMask(new, on, f) /\ f \in Abstract!Flags
    BY <1>3, SameRegisters, Zenon
  <1> QED
    BY <1>2, <1>7, <1>8, Zenon DEF Abstract!WriteMask, Abstract!Write, Abstract!Becomes, Seen

LEMMA FlagStep ==
  ASSUME TimersInv, NEW c \in Cias, RaiseFlag(c)
  PROVE  TimersInv' /\ Abstract!RaiseFlag(c)
  <1> PICK old, new, f : old = chip[c] /\ new = Seen[c] /\ f = (IF c = "a" THEN "sp" ELSE "flag")
    OBVIOUS
  <1>1. /\ old \in Chip /\ new \in Chip /\ new.icr = old.icr /\ new.mask = old.mask /\ new.ir = old.ir
    BY SeenControl
  <1> PICK one, two, g, r : /\ one = FlagSet(old, f) /\ two = FlagSet(new, f)
                           /\ g = old.icr \cup {f} /\ r = Raised(old, g, old.mask)
    OBVIOUS
  <1>2. Plain(c, one) /\ f \in {"sp", "flag"} /\ f \in Flags
    BY Zenon DEF RaiseFlag, Plain, Becomes, Flags, FlagSet
  <1>3. writes' \in 0..MaxWrites
    BY DEF RaiseFlag, TimersInv, TimersTypeOK
  <1>4. old.mask \in SUBSET Flags /\ r \in BOOLEAN /\ (g \cap old.mask # {} => r)
    BY <1>1, ChipFields, RaisedIs
  <1>5. one = ControlSet(old, g, old.mask, r) /\ g \in SUBSET Flags
    <2>1. old \in Chip /\ f \in Flags /\ g = old.icr \cup {f} /\ r = Raised(old, g, old.mask)
      BY <1>1, <1>2
    <2>2. FlagSet(old, f) = ControlSet(old, g, old.mask, r)
      BY ONLY <2>1, FlagForm, Zenon
    <2>3. old.icr \in SUBSET Flags
      BY <2>1, ChipFields
    <2> QED
      BY <2>1, <2>2, <2>3
  <1>6. two = ControlSet(new, g, old.mask, r)
    <2>1. g = new.icr \cup {f} /\ r = Raised(new, g, new.mask)
      BY <1>1, Zenon DEF Raised
    <2>2. new \in Chip /\ f \in Flags
      BY <1>1, <1>2
    <2>3. FlagSet(new, f) = ControlSet(new, g, new.mask, r)
      BY ONLY <2>1, <2>2, FlagForm, Zenon
    <2> QED
      BY <1>1, <2>3
  <1>7. TimersInv' /\ Abstract!Write(c, two)
    BY <1>2, <1>3, <1>4, <1>5, <1>6, PlainStep
  <1>8. two = Abstract!Rethink([new EXCEPT !.icr = @ \cup {f}])
    BY Zenon DEF FlagSet, Rethink, Abstract!Rethink
  <1> QED
    BY <1>2, <1>7, <1>8, Zenon DEF Abstract!RaiseFlag, Abstract!Write, Abstract!Becomes, Seen

LEMMA IcrStep ==
  ASSUME TimersInv, NEW c \in Cias, ReadIcr(c)
  PROVE  TimersInv' /\ Abstract!ReadIcr(c)
  <1> PICK old, new, one, two, f, r : /\ old = chip[c] /\ new = Seen[c]
                                     /\ one = Cleared(old) /\ two = Cleared(new) /\ f = {} /\ r = FALSE
    OBVIOUS
  <1>1. /\ old \in Chip /\ new \in Chip /\ new.icr = old.icr /\ new.mask = old.mask /\ new.ir = old.ir
    BY SeenControl
  <1>2. f \in SUBSET Flags /\ old.mask \in SUBSET Flags /\ r \in BOOLEAN /\ (f \cap old.mask # {} => r)
    BY <1>1, ChipFields
  <1>3. writes' \in 0..MaxWrites
    BY DEF ReadIcr, TimersInv, TimersTypeOK
  <1>4. one = ControlSet(old, f, old.mask, r) /\ two = ControlSet(new, f, old.mask, r)
    BY <1>1, ClearedForm
  <1>5. Plain(c, one)
    BY Zenon DEF ReadIcr, Plain, Becomes, Cleared
  <1>6. TimersInv' /\ Abstract!Write(c, two)
    BY <1>2, <1>3, <1>4, <1>5, PlainStep
  <1> QED
    BY <1>6, Zenon DEF Abstract!ReadIcr, Abstract!Write, Abstract!Becomes, Seen, Cleared

LEMMA StillSeen ==
  ASSUME TimersInv, UNCHANGED <<chip, elapsed, div10>>
  PROVE  Seen' = Seen
  BY Zenon DEF Seen, Now, Passed, Waited, Clocks

LEMMA ReadStep ==
  ASSUME TimersInv, NEW c \in Cias, NEW n \in {"a", "b"}, ReadTimer(c, n)
  PROVE  TimersInv' /\ Abstract!ReadTimer(c, n)
  <1> PICK old, new, k : old = chip[c][n] /\ new = Seen[c][n] /\ k = Clocks(elapsed)
    OBVIOUS
  <1>1. old \in Timer(n) /\ k \in Nat /\ Fits(old, k) /\ new = Advanced(old, k)
    <2>1. /\ chip[c] \in Chip /\ Idle(chip[c], k) /\ k \in Nat /\ Seen[c] = At(chip[c], k) /\ Seen[c] \in Chip
      BY InvIs, SeenIs
    <2>2. \A ch \in Chip : ch["a"] = ch.a /\ ch["b"] = ch.b
      BY SMT DEF Chip
    <2>3. /\ chip[c].a \in Timer("a") /\ chip[c].b \in Timer("b") /\ Fits(chip[c].a, k) /\ Fits(chip[c].b, k)
          /\ Seen[c].a = Advanced(chip[c].a, k) /\ Seen[c].b = Advanced(chip[c].b, k)
      BY <2>1, ChipFields, IdleIs DEF Idle
    <2> QED
      BY <2>1, <2>2, <2>3
  <1> PICK read : read = [old EXCEPT !.t = @ - Passed(old, k)]
    OBVIOUS
  <1>2. read.t = new.t /\ new.t \in Count
    <2>1. new.t = old.t - Passed(old, k) /\ new.t \in Count
      BY <1>1, AdvancedIs, PassedIs
    <2>2. read.t = old.t - Passed(old, k)
      BY <1>1, SMT DEF Timer
    <2> QED
      BY <2>1, <2>2
  <1>3. PICK hi \in BOOLEAN : bus' = ReadByte(read, hi)
    BY Zenon DEF ReadTimer
  <1>4. bus' = ReadByte(new, hi) /\ bus' \in Bytes
    BY <1>2, <1>3, ByteOf DEF ReadByte
  <1>5. /\ chip' = chip /\ intreq' = intreq /\ elapsed' = elapsed /\ div10' = div10 /\ ciatime' = ciatime
        /\ writes' = writes
    BY DEF ReadTimer
  <1>6. TimersInv'
    BY <1>4, <1>5 DEF TimersInv, TimersTypeOK, Lines, NoLater
  <1>7. Seen' = Seen
    BY <1>5, StillSeen
  <1> QED
    BY <1>4, <1>5, <1>6, <1>7, SameRegisters, Zenon DEF Abstract!ReadTimer, Seen

LEMMA IntreqStep ==
  ASSUME TimersInv, NEW c \in Cias, WriteIntreq(c)
  PROVE  TimersInv' /\ Abstract!WriteIntreq(c)
  <1>1. /\ chip' = chip /\ bus' = bus /\ elapsed' = elapsed /\ div10' = div10 /\ ciatime' = ciatime
        /\ writes' = writes /\ intreq' = [intreq EXCEPT ![c] = chip[c].ir]
    BY DEF WriteIntreq
  <1>2. intreq \in [Cias -> BOOLEAN] /\ chip[c].ir \in BOOLEAN /\ Seen[c].ir = chip[c].ir
    BY InvIs, ChipFields
  <1>3. intreq' \in [Cias -> BOOLEAN] /\ \A d \in Cias : chip[d].ir => intreq'[d]
    <2>1. \A d \in Cias : intreq'[d] = IF d = c THEN chip[c].ir ELSE intreq[d]
      BY <1>1, <1>2
    <2> QED
      BY <1>1, <1>2, <2>1 DEF TimersInv, Lines
  <1>4. TimersInv'
    BY <1>1, <1>3 DEF TimersInv, TimersTypeOK, Lines, NoLater
  <1>5. Seen' = Seen
    BY <1>1, StillSeen
  <1> QED
    BY <1>1, <1>2, <1>4, <1>5, Zenon DEF Abstract!WriteIntreq, Seen

LEMMA ResetSeen ==
  ASSUME TimersInit
  PROVE  TimersInv /\ Abstract!Init
  <1>1. ResetTimer \in Timer("a") /\ ResetTimer \in Timer("b") /\ ~Clocked(ResetTimer)
    BY TimerTypes DEF ResetTimer, Timer, Modes, Clocked
  <1>2. ResetChip \in Chip /\ ResetChip.a = ResetTimer /\ ResetChip.b = ResetTimer
    BY <1>1, TimerTypes DEF ResetChip, Chip
  <1>3. ~ResetChip.ir /\ ~ResetChip.out /\ ResetChip.icr = {}
    BY DEF ResetChip
  <1>4. /\ chip \in [Cias -> Chip] /\ intreq \in [Cias -> BOOLEAN] /\ elapsed = 0 /\ div10 = 0 /\ ciatime = 0
        /\ writes = 0 /\ bus = 0 /\ \A c \in Cias : chip[c] = ResetChip
    BY <1>2 DEF TimersInit
  <1>5. TimersInv
    BY <1>1, <1>2, <1>3, <1>4, TimerSizes, TimerTypes
       DEF TimersInv, TimersTypeOK, NoLater, InTime, Lines, Lined
  <1>6. Seen = [c \in Cias |-> ResetChip]
    <2>1. Clocks(elapsed) = 0
      BY <1>4, TimerSizes, Quotient DEF Clocks
    <2>2. \A c \in Cias : At(chip[c], Clocks(elapsed)) = ResetChip
      BY <1>2, <1>4, <2>1, AtOnce
    <2> QED
      BY <2>2, SeenIs
  <1>7. Abstract!ResetChip = ResetChip
    BY Zenon DEF Abstract!ResetChip, Abstract!ResetTimer, ResetChip, ResetTimer
  <1> QED
    BY <1>5, <1>6, <1>7, Zenon DEF Abstract!Init, TimersInit, Seen

LEMMA TimersStep ==
  ASSUME TimersInv, "b" \notin SpOut, [TimersNext]_timers_vars
  PROVE  TimersInv' /\ (UNCHANGED Abstract!vars \/ Abstract!Next)
  <1>1. CASE Cycle
    BY <1>1, CycleStep DEF Abstract!Next
  <1>2. CASE Vsync
    BY <1>2, VsyncStep
  <1>3. ASSUME NEW c \in Cias, WriteCra(c) \/ WriteCrb(c) \/ WriteSdr(c) \/ WriteMask(c) \/ RaiseFlag(c)
                               \/ ReadIcr(c) \/ WriteIntreq(c)
        PROVE  TimersInv' /\ Abstract!Next
    <2>1. CASE WriteCra(c) \/ WriteCrb(c)
      BY <2>1, ControlStep DEF Abstract!Next
    <2>2. CASE WriteSdr(c)
      BY <2>2, SdrStep DEF Abstract!Next
    <2>3. CASE WriteMask(c)
      BY <2>3, MaskStep DEF Abstract!Next
    <2>4. CASE RaiseFlag(c)
      BY <2>4, FlagStep DEF Abstract!Next
    <2>5. CASE ReadIcr(c)
      BY <2>5, IcrStep DEF Abstract!Next
    <2>6. CASE WriteIntreq(c)
      BY <2>6, IntreqStep DEF Abstract!Next
    <2> QED
      BY <1>3, <2>1, <2>2, <2>3, <2>4, <2>5, <2>6
  <1>4. ASSUME NEW c \in Cias, NEW n \in {"a", "b"}, WriteLo(c, n) \/ WriteHi(c, n) \/ ReadTimer(c, n)
        PROVE  TimersInv' /\ Abstract!Next
    <2>1. CASE WriteLo(c, n) \/ WriteHi(c, n)
      BY <2>1, TimerStep DEF Abstract!Next
    <2>2. CASE ReadTimer(c, n)
      BY <2>2, ReadStep DEF Abstract!Next
    <2> QED
      BY <1>4, <2>1, <2>2
  <1>5. CASE UNCHANGED timers_vars
    <2>1. /\ chip' = chip /\ intreq' = intreq /\ elapsed' = elapsed /\ div10' = div10 /\ ciatime' = ciatime
          /\ writes' = writes /\ bus' = bus
      BY <1>5 DEF timers_vars
    <2>2. Seen' = Seen
      BY <2>1, StillSeen
    <2> QED
      BY <2>1, <2>2 DEF TimersInv, TimersTypeOK, Lines, NoLater, Abstract!vars, Seen
  <1> QED
    BY <1>1, <1>2, <1>3, <1>4, <1>5 DEF TimersNext

-----------------------------------------------------------------------------
(* The CIA timers.  CIA-B's serial port is no output: its branch of CIA_update_check counts  *)
(* down CIA-A's shift counter (cia.cpp:287), and the two CIAs are not apart.                  *)

\* The timers as they are kept are in order at every step: the event is no later than the first
\* underflow and at the beginning of an E clock, so that CIA_update, wherever it is called from,
\* has no underflow behind it.
THEOREM TimersInOrder ==
  ASSUME "b" \notin SpOut
  PROVE  TimersSpec => []TimersInv
  <1>1. TimersInit => TimersInv
    BY ResetSeen
  <1>2. TimersInv /\ [TimersNext]_timers_vars => TimersInv'
    BY TimersStep
  <1> QED
    BY <1>1, <1>2, PTL DEF TimersSpec

\* While a flag that is enabled has not been read from ICR, Paula's request bit is set, whatever
\* the program writes to INTREQ (RethinkICR, ICR, rethink_cias).
THEOREM InterruptHeld ==
  ASSUME "b" \notin SpOut
  PROVE  TimersSpec => []Held
  <1>1. TimersInv => Held
    BY DEF TimersInv, Lines, Lined, Held
  <1> QED
    BY <1>1, TimersInOrder, PTL

\* The timers that are worked out on demand implement the ones that count every E clock: no
\* underflow is missed or late and no count read is off (CIA_update, CIA_calctimers,
\* compute_passed_time).
THEOREM ClocksCounted ==
  ASSUME "b" \notin SpOut
  PROVE  TimersSpec => EveryClockCounted
  <1>1. TimersInit => Abstract!Init
    BY ResetSeen
  <1>2. TimersInv /\ [TimersNext]_timers_vars => [UNCHANGED Abstract!vars \/ Abstract!Next]_timers_vars
    BY TimersStep
  <1> QED
    BY <1>1, <1>2, TimersInOrder, PTL DEF TimersSpec, EveryClockCounted
=============================================================================
