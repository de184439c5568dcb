--------------------------- MODULE Keyboard_proofs ---------------------------
(***************************************************************************)
(* The keyboard, for a ring of any size, any number of frames before a     *)
(* code is sent again, and any number of keys and resets.                  *)
(***************************************************************************)
EXTENDS Keyboard, TLAPS

USE KeyboardAssumption DEF KeyboardAssumption

-----------------------------------------------------------------------------
(* The ring holds the last keys that were accepted, in their order.        *)

Held == IF kpb_first >= kpb_last THEN kpb_first - kpb_last ELSE kpb_first - kpb_last + KEYBUF_SIZE
PlaceOf(s) == IF s >= kpb_last THEN s - kpb_last ELSE s - kpb_last + KEYBUF_SIZE
NextKey == pressed - Held + 1

Content ==
  /\ Held <= pressed - 3
  /\ \A s \in 0..(KEYBUF_SIZE - 1) : PlaceOf(s) < Held => keybuf[s] = NextKey + PlaceOf(s)

\* The codes taken since the reset.
Sent == IF kbstate < 3 THEN kbstate ELSE 3 + NextKey - base

\* While a code is under way it is in the register, and valid to be read.
Valid ==
  /\ kblostsynccnt > 0 => kbcode \in Codes
  /\ (sp \/ pc # "idle" \/ kblostsynccnt > 0) => ciaasdr \in Codes

\* The codes go one at a time: the next is taken when the handler has ended the handshake of
\* the last, which it has read.
Handshake ==
  /\ kblostsynccnt > 0 => Sent > 0 /\ kbcode = Due(Sent) /\ ciaasdr = kbcode
  /\ kblostsynccnt = 0 => pc = "idle" /\ ~sp
  /\ pc # "idle" => ~sp
  /\ pc = "end" => spmode
  /\ Len(got) = IF kblostsynccnt > 0 /\ pc \in {"idle", "read"} THEN Sent - 1 ELSE Sent

IInv ==
  /\ TypeOK /\ Content /\ Valid
  /\ base <= NextKey /\ (kbstate < 3 => NextKey = base)
  /\ ~late => Handshake /\ ~twice /\ \A i \in 1..Len(got) : got[i] = Due(i)

-----------------------------------------------------------------------------
LEMMA AfterIs ==
  ASSUME NEW i \in 0..(KEYBUF_SIZE - 1)
  PROVE  After(i) = (IF i = KEYBUF_SIZE - 1 THEN 0 ELSE i + 1)
  <1>1. CASE i = KEYBUF_SIZE - 1
    BY <1>1, SMT DEF After
  <1>2. CASE i # KEYBUF_SIZE - 1
    BY <1>2, SMT DEF After
  <1> QED
    BY <1>1, <1>2

LEMMA RingType ==
  ASSUME TypeOK
  PROVE  /\ kpb_first \in 0..(KEYBUF_SIZE - 1) /\ kpb_last \in 0..(KEYBUF_SIZE - 1)
         /\ keybuf \in [0..(KEYBUF_SIZE - 1) -> Keys \union {0}]
         /\ Held \in 0..(KEYBUF_SIZE - 1) /\ (Held = 0 <=> kpb_first = kpb_last)
  BY DEF TypeOK, Held

\* The key at the ring's end is the next one.
LEMMA AtEnd ==
  ASSUME TypeOK, Content, kpb_first # kpb_last
  PROVE  keybuf[kpb_last] = NextKey /\ NextKey \in Keys
  <1>1. Held \in 1..(KEYBUF_SIZE - 1) /\ PlaceOf(kpb_last) = 0
    BY RingType DEF PlaceOf
  <1>2. keybuf[kpb_last] = NextKey
    <2>1. kpb_last \in 0..(KEYBUF_SIZE - 1) /\ NextKey \in Int
      BY <1>1, RingType DEF NextKey, TypeOK
    <2>2. PlaceOf(kpb_last) < Held
      BY <1>1
    <2>3. keybuf[kpb_last] = NextKey + PlaceOf(kpb_last)
      BY <2>1, <2>2 DEF Content
    <2> QED
      BY <1>1, <2>1, <2>3
  <1>3. NextKey \in 4..(3 + MaxKeys)
    BY <1>1, RingType DEF Content, NextKey, TypeOK
  <1> QED
    BY <1>2, <1>3 DEF Keys

\* Due numbers the codes without a repetition.
LEMMA DueDistinct ==
  ASSUME TypeOK, NEW i \in Nat \ {0}
  PROVE  Due(i) # Due(i + 1)
  BY DEF TypeOK, Due, PowerUp

\* What the rest of the module leaves to the ring.
LEMMA RingLeft ==
  ASSUME UNCHANGED ring
  PROVE  UNCHANGED <<Held, NextKey, keys_available>> /\ (Content => Content')
  BY DEF ring, Held, NextKey, keys_available, Content, PlaceOf

-----------------------------------------------------------------------------
LEMMA InvInit == Init => IInv
  <1> SUFFICES ASSUME Init PROVE IInv
    OBVIOUS
  <1>1. TypeOK
    BY DEF Init, TypeOK, Keys, Codes
  <1>2. Held = 0 /\ NextKey = 4
    BY DEF Init, Held, NextKey
  <1>3. Content
    BY <1>2 DEF Init, Content, PlaceOf
  <1>4. Valid /\ Handshake
    BY <1>2 DEF Init, Valid, Handshake, Sent
  <1> QED
    BY <1>1, <1>2, <1>3, <1>4 DEF Init, IInv

LEMMA InvRecord == IInv /\ record_key => IInv'
  <1> SUFFICES ASSUME IInv, record_key PROVE IInv'
    OBVIOUS
  <1>1. /\ pressed \in 3..(3 + MaxKeys) /\ pressed' = pressed + 1 /\ pressed' \in Keys
        /\ kpb_first' = After(kpb_first) /\ After(kpb_first) # kpb_last /\ kpb_last' = kpb_last
        /\ keybuf' = [keybuf EXCEPT ![kpb_first] = pressed + 1]
    BY DEF IInv, TypeOK, record_key, Keys
  <1>2. After(kpb_first) = (IF kpb_first = KEYBUF_SIZE - 1 THEN 0 ELSE kpb_first + 1)
    BY AfterIs, RingType DEF IInv
  <1>3. UNCHANGED <<kbstate, kbcode, kblostsynccnt, ciaasdr, sp, spmode, enabled, pc, got, twice>>
    BY DEF record_key, keyboard, program
  <1>4. UNCHANGED <<base, late, resets>>
    BY DEF record_key
  <1>5. TypeOK'
    <2>1. keybuf' \in [0..(KEYBUF_SIZE - 1) -> Keys \union {0}] /\ kpb_first' \in 0..(KEYBUF_SIZE - 1)
      BY <1>1, <1>2, RingType DEF IInv
    <2> QED
      BY <1>1, <1>3, <1>4, <2>1 DEF IInv, TypeOK, Keys
  <1>6. Held' = Held + 1 /\ NextKey' = NextKey
    <2>1. kpb_first \in 0..(KEYBUF_SIZE - 1) /\ kpb_last \in 0..(KEYBUF_SIZE - 1)
      BY RingType DEF IInv
    <2>2. Held' = Held + 1 /\ Held \in Int
      BY <1>1, <1>2, <2>1 DEF Held
    <2> QED
      BY <1>1, <2>2 DEF NextKey
  <1>7. Content'
    <2>1. ASSUME NEW s \in 0..(KEYBUF_SIZE - 1), PlaceOf(s)' < Held'
          PROVE  keybuf'[s] = NextKey' + PlaceOf(s)'
      <3>1. PlaceOf(s)' = PlaceOf(s)
        BY <1>1 DEF PlaceOf
      <3>2. CASE s = kpb_first
        BY <1>1, <1>6, <3>1, <3>2, RingType DEF IInv, PlaceOf, Held, NextKey
      <3>3. CASE s # kpb_first
        <4>1. PlaceOf(s) < Held
          BY <1>6, <2>1, <3>1, <3>3, RingType DEF IInv, PlaceOf, Held
        <4> QED
          BY <1>1, <1>6, <3>1, <3>3, <4>1, RingType DEF IInv, Content
      <3> QED
        BY <3>2, <3>3
    <2>2. Held' <= pressed' - 3
      BY <1>1, <1>6, RingType DEF IInv, Content
    <2> QED
      BY <2>1, <2>2 DEF Content
  <1>8. Valid' /\ Sent' = Sent
    BY <1>3, <1>4, <1>6 DEF IInv, Valid, Sent
  <1>9. Due(Sent)' = Due(Sent) /\ \A i : Due(i)' = Due(i)
    BY <1>4, <1>8 DEF Due
  <1>10. Handshake => Handshake'
    BY <1>3, <1>8, <1>9 DEF Handshake
  <1> QED
    BY <1>3, <1>4, <1>5, <1>6, <1>7, <1>8, <1>9, <1>10 DEF IInv

LEMMA InvCheck == IInv /\ check_keyboard => IInv'
  <1> SUFFICES ASSUME IInv, check_keyboard PROVE IInv'
    OBVIOUS
  <1>1. /\ UNCHANGED <<keybuf, kpb_first, pressed, spmode, base, late, resets, enabled, pc, got, twice>>
        /\ kblostsynccnt = 0 /\ kblostsynccnt' = Frames /\ ciaasdr' = kbcode' /\ sp' = TRUE
    BY DEF check_keyboard, keyreq, program
  <1>2. \A i : Due(i)' = Due(i)
    BY <1>1 DEF Due
  <1>3. /\ kbcode' \in Codes /\ kbstate' \in 0..3 /\ kpb_last' \in 0..(KEYBUF_SIZE - 1)
        /\ Content' /\ base <= NextKey' /\ (kbstate' < 3 => NextKey' = base)
        /\ Sent' = Sent + 1 /\ Sent \in Nat /\ kbcode' = Due(Sent')
    <2>1. CASE kbstate < 3
      <3>1. kbcode' = kbstate + 1 /\ kbstate' = kbstate + 1 /\ kpb_last' = kpb_last /\ kbstate \in 0..2
        BY <2>1 DEF check_keyboard, IInv, TypeOK
      <3>2. UNCHANGED <<Held, NextKey>> /\ Content'
        BY <1>1, <3>1, RingLeft DEF ring, IInv
      <3>3. NextKey = base
        BY <2>1 DEF IInv
      <3>4. Sent = kbstate /\ Sent' = kbstate + 1
        BY <1>1, <3>1, <3>2, <3>3 DEF Sent, IInv, TypeOK
      <3>5. kbcode' \in PowerUp
        BY <3>1 DEF PowerUp
      <3>6. kpb_last' \in 0..(KEYBUF_SIZE - 1)
        BY <3>1, RingType DEF IInv
      <3>7. base \in 4..(4 + MaxKeys)
        BY DEF IInv, TypeOK
      <3> QED
        BY <3>1, <3>2, <3>3, <3>4, <3>5, <3>6, <3>7 DEF Codes, Due
    <2>2. CASE ~(kbstate < 3)
      <3>1. /\ kbcode' = keybuf[kpb_last] /\ kpb_last' = After(kpb_last) /\ kbstate' = kbstate
            /\ kbstate = 3 /\ keys_available
        BY <2>2 DEF check_keyboard, IInv, TypeOK
      <3>2. kbcode' = NextKey /\ NextKey \in Keys
        BY <3>1, AtEnd DEF IInv, keys_available
      <3>3. kpb_last' = (IF kpb_last = KEYBUF_SIZE - 1 THEN 0 ELSE kpb_last + 1)
        BY <3>1, AfterIs, RingType DEF IInv
      <3>4. Held' = Held - 1 /\ NextKey' = NextKey + 1 /\ Held > 0
        <4>1. /\ pressed \in 3..(3 + MaxKeys)
              /\ kpb_first \in 0..(KEYBUF_SIZE - 1) /\ kpb_last \in 0..(KEYBUF_SIZE - 1)
          BY RingType DEF IInv, TypeOK
        <4>2. Held' = Held - 1 /\ Held \in Int /\ Held > 0
          BY <1>1, <3>1, <3>3, <4>1 DEF Held, keys_available
        <4> QED
          BY <1>1, <4>1, <4>2 DEF NextKey
      <3>5. Content'
        <4>1. Held' <= pressed' - 3
          BY <1>1, <3>4, RingType DEF IInv, Content, TypeOK
        <4>2. ASSUME NEW s \in 0..(KEYBUF_SIZE - 1), PlaceOf(s)' < Held'
              PROVE  keybuf'[s] = NextKey' + PlaceOf(s)'
          <5>1. PlaceOf(s)' = PlaceOf(s) - 1
            BY <3>3, <3>4, <4>2, RingType DEF IInv, PlaceOf
          <5>2. PlaceOf(s) < Held /\ PlaceOf(s) \in Nat
            BY <3>4, <4>2, <5>1, RingType DEF IInv, PlaceOf
          <5>3. keybuf[s] = NextKey + PlaceOf(s) /\ NextKey \in Nat
            BY <3>2, <5>2 DEF IInv, Content, Keys
          <5> QED
            BY <1>1, <3>4, <5>1, <5>2, <5>3
        <4> QED
          BY <4>1, <4>2 DEF Content
      <3>6. base \in 4..(4 + MaxKeys) /\ base <= NextKey
        BY DEF IInv, TypeOK
      <3>7. Sent = 3 + NextKey - base /\ Sent' = 4 + NextKey - base
        BY <1>1, <3>1, <3>2, <3>4, <3>6 DEF Sent, Keys
      <3>8. Due(Sent') = NextKey
        BY <3>2, <3>6, <3>7 DEF Due, PowerUp, Keys
      <3>9. kpb_last' \in 0..(KEYBUF_SIZE - 1)
        BY <3>3, RingType DEF IInv
      <3> QED
        BY <3>1, <3>2, <3>4, <3>5, <3>6, <3>7, <3>8, <3>9 DEF Codes, Keys
    <2> QED
      BY <2>1, <2>2
  <1>4. TypeOK'
    BY <1>1, <1>3 DEF IInv, TypeOK
  <1>5. Valid'
    BY <1>1, <1>3 DEF Valid
  <1>6. ASSUME ~late' PROVE Handshake' /\ ~twice' /\ \A i \in 1..Len(got') : got'[i] = Due(i)'
    <2>1. ~late /\ Handshake /\ ~twice /\ \A i \in 1..Len(got) : got[i] = Due(i)
      BY <1>1, <1>6 DEF IInv
    <2>2. pc = "idle" /\ Len(got) = Sent
      BY <1>1, <2>1 DEF Handshake
    <2>3. Handshake'
      BY <1>1, <1>2, <1>3, <2>2 DEF Handshake
    <2> QED
      BY <1>1, <1>2, <2>1, <2>3
  <1> QED
    BY <1>1, <1>3, <1>4, <1>5, <1>6 DEF IInv

\* A code that is sent again is the same one.
LEMMA InvVsync == IInv /\ Vsync => IInv'
  <1> SUFFICES ASSUME IInv, Vsync PROVE IInv'
    OBVIOUS
  <1>1. UNCHANGED <<ring, kbstate, kbcode, spmode, enabled, pc, got, twice, base, resets>>
    BY DEF Vsync, program
  <1>2. UNCHANGED <<Held, NextKey>> /\ Content'
    BY <1>1, RingLeft DEF IInv
  <1>3. Sent' = Sent /\ \A i : Due(i)' = Due(i)
    BY <1>1, <1>2 DEF Sent, Due
  <1>4. kblostsynccnt \in 0..Frames
    BY DEF IInv, TypeOK
  <1>5. CASE kblostsynccnt # 1
    <2>1. /\ UNCHANGED <<ciaasdr, sp, late>> /\ kblostsynccnt' \in 0..Frames
          /\ (kblostsynccnt' > 0 <=> kblostsynccnt > 0) /\ (kblostsynccnt' = 0 <=> kblostsynccnt = 0)
      BY <1>4, <1>5 DEF Vsync
    <2>2. TypeOK'
      BY <1>1, <2>1 DEF IInv, TypeOK, ring
    <2>3. Valid' /\ (Handshake => Handshake')
      BY <1>1, <1>3, <2>1 DEF IInv, Valid, Handshake
    <2> QED
      BY <1>1, <1>2, <1>3, <2>1, <2>2, <2>3 DEF IInv
  <1>6. CASE kblostsynccnt = 1
    <2>1. /\ ciaasdr' = kbcode /\ kblostsynccnt' = Frames /\ sp' = TRUE /\ kbcode \in Codes
          /\ late' = (late \/ pc # "idle")
      BY <1>6 DEF Vsync, keyreq, IInv, Valid
    <2>2. TypeOK'
      BY <1>1, <2>1 DEF IInv, TypeOK, ring
    <2>3. Valid'
      BY <1>1, <2>1 DEF Valid
    <2>4. ASSUME ~late' PROVE Handshake' /\ ~twice' /\ \A i \in 1..Len(got') : got'[i] = Due(i)'
      <3>1. ~late /\ pc = "idle"
        BY <2>1, <2>4
      <3>2. Handshake'
        BY <1>1, <1>3, <1>6, <2>1, <3>1 DEF IInv, Handshake
      <3> QED
        BY <1>1, <1>3, <3>1, <3>2 DEF IInv
    <2> QED
      BY <1>1, <1>2, <2>2, <2>3, <2>4 DEF IInv
  <1> QED
    BY <1>5, <1>6

LEMMA InvReset == IInv /\ Reset => IInv'
  <1> SUFFICES ASSUME IInv, Reset PROVE IInv'
    OBVIOUS
  <1>1. /\ UNCHANGED <<ring, kbcode>> /\ kbstate' = 0 /\ kblostsynccnt' = 0 /\ ciaasdr' = 0
        /\ sp' = FALSE /\ spmode' = FALSE /\ enabled' = FALSE /\ pc' = "idle" /\ got' = <<>>
        /\ twice' = FALSE /\ late' = FALSE /\ resets' \in 0..MaxResets
    BY DEF Reset, IInv, TypeOK
  <1>2. UNCHANGED <<Held, NextKey>> /\ Content'
    BY <1>1, RingLeft DEF IInv
  <1>3. base' = NextKey /\ base' \in 4..(4 + MaxKeys)
    <2>1. CASE keys_available
      <3>1. keybuf[kpb_last] = NextKey /\ NextKey \in Keys
        BY <2>1, AtEnd DEF IInv, keys_available
      <3> QED
        BY <2>1, <3>1 DEF Reset, Keys
    <2>2. CASE ~keys_available
      <3>1. Held = 0 /\ pressed \in 3..(3 + MaxKeys)
        BY <2>2, RingType DEF IInv, TypeOK, keys_available
      <3> QED
        BY <2>2, <3>1 DEF Reset, NextKey
    <2> QED
      BY <2>1, <2>2
  <1>4. TypeOK'
    <2>1. /\ sp' \in BOOLEAN /\ enabled' \in BOOLEAN /\ spmode' \in BOOLEAN /\ twice' \in BOOLEAN
          /\ late' \in BOOLEAN
      BY <1>1
    <2>2. /\ UNCHANGED <<keybuf, kpb_first, kpb_last, pressed, kbcode>>
          /\ got' \in Seq(Codes) /\ kblostsynccnt' \in 0..Frames
      BY <1>1 DEF ring
    <2> QED
      BY <1>1, <1>3, <2>1, <2>2 DEF IInv, TypeOK
  <1>5. Valid' /\ Sent' = 0
    BY <1>1 DEF Valid, Sent
  <1>6. Handshake'
    BY <1>1, <1>5 DEF Handshake
  <1> QED
    BY <1>1, <1>2, <1>3, <1>4, <1>5, <1>6 DEF IInv

-----------------------------------------------------------------------------
\* The program's steps leave the ring and the keyboard's codes alone.
LEMMA InvProgram ==
  IInv /\ (Enable \/ MissFlag \/ Handler) => IInv'
  <1> SUFFICES ASSUME IInv, Enable \/ MissFlag \/ Handler PROVE IInv'
    OBVIOUS
  <1>1. /\ UNCHANGED <<ring, kbstate, kbcode, ciaasdr, base, late, resets>>
    BY DEF Enable, MissFlag, Handler, ReadIcr, ReadSdr, Begin, End, Plain, keyboard
  <1>2. UNCHANGED <<Held, NextKey>> /\ Content'
    BY <1>1, RingLeft DEF IInv
  <1>3. Sent' = Sent /\ \A i : Due(i)' = Due(i)
    BY <1>1, <1>2 DEF Sent, Due
  <1>4. CASE Enable \/ MissFlag \/ ReadIcr
    <2>1. /\ UNCHANGED <<kblostsynccnt, spmode, got, twice>> /\ enabled' \in BOOLEAN
          /\ sp' \in BOOLEAN /\ (sp' => sp) /\ (sp' \/ pc' = pc \/ sp)
          /\ (pc' = pc \/ (pc = "idle" /\ pc' = "read" /\ sp /\ ~sp'))
      BY <1>4 DEF Enable, MissFlag, ReadIcr, Plain, keyboard, program, IInv, TypeOK
    <2>2. TypeOK'
      BY <1>1, <2>1 DEF IInv, TypeOK, ring
    <2>3. Valid'
      BY <1>1, <2>1 DEF IInv, Valid
    <2>4. ASSUME Handshake PROVE Handshake'
      BY <1>1, <1>3, <2>1, <2>4 DEF Handshake
    <2> QED
      BY <1>1, <1>2, <1>3, <2>1, <2>2, <2>3, <2>4 DEF IInv
  <1>5. CASE ReadSdr
    <2>1. /\ pc = "read" /\ pc' = "begin" /\ UNCHANGED <<kblostsynccnt, spmode, enabled, sp>>
          /\ ciaasdr \in Codes /\ got \in Seq(Codes)
      BY <1>5 DEF ReadSdr, Plain, keyboard, IInv, Valid, TypeOK
    <2>2. got' \in Seq(Codes) /\ twice' \in BOOLEAN
      <3>1. twice' = TRUE \/ twice' = twice
        BY <1>5 DEF ReadSdr
      <3>2. got' = got \/ got' = Append(got, ciaasdr)
        BY <1>5 DEF ReadSdr
      <3>3. twice \in BOOLEAN
        BY DEF IInv, TypeOK
      <3>4. twice' \in BOOLEAN
        BY <3>1, <3>3
      <3>5. got' \in Seq(Codes)
        BY <2>1, <3>2
      <3> QED
        BY <3>4, <3>5
    <2>3. TypeOK'
      BY <1>1, <2>1, <2>2 DEF IInv, TypeOK, ring
    <2>4. Valid'
      BY <1>1, <2>1 DEF IInv, Valid
    <2>5. ASSUME ~late' PROVE Handshake' /\ ~twice' /\ \A i \in 1..Len(got') : got'[i] = Due(i)'
      <3>1. Handshake /\ ~twice /\ \A i \in 1..Len(got) : got[i] = Due(i)
        BY <1>1, <2>5 DEF IInv
      <3>2. kblostsynccnt > 0
        <4>1. kblostsynccnt \in 0..Frames
          BY DEF IInv, TypeOK
        <4> QED
          BY <2>1, <3>1, <4>1 DEF Handshake
      <3>3. Len(got) = Sent - 1 /\ ciaasdr = Due(Sent) /\ Sent > 0 /\ Len(got) \in Nat
        BY <2>1, <3>1, <3>2 DEF Handshake
      <3>4. Sent \in Int
        <4>1. NextKey \in Int /\ kbstate \in 0..3 /\ base \in Nat
          BY RingType DEF IInv, TypeOK, NextKey
        <4> QED
          BY <4>1 DEF Sent
      <3>5. ~(got # <<>> /\ Last(got) = ciaasdr)
        <4>1. CASE got # <<>>
          <5>1. Len(got) \in Nat \ {0} /\ got[Len(got)] = Due(Len(got))
            BY <2>1, <3>1, <4>1
          <5>2. Due(Len(got)) # Due(Len(got) + 1)
            BY <5>1, DueDistinct DEF IInv
          <5>3. Len(got) + 1 = Sent
            BY <3>3, <3>4
          <5> QED
            BY <3>3, <5>1, <5>2, <5>3 DEF Last
        <4> QED
          BY <4>1
      <3>6. got' = Append(got, ciaasdr) /\ twice' = twice
        BY <1>5, <3>5 DEF ReadSdr
      <3>7. Len(got') = Sent /\ \A i \in 1..Len(got') : got'[i] = Due(i)
        BY <2>1, <3>1, <3>3, <3>4, <3>6
      <3>8. Handshake'
        BY <1>1, <1>3, <2>1, <3>1, <3>2, <3>7 DEF Handshake
      <3> QED
        BY <1>3, <3>1, <3>6, <3>7, <3>8
    <2> QED
      BY <1>1, <1>2, <2>3, <2>4, <2>5 DEF IInv
  <1>6. CASE Begin
    <2>1. /\ pc = "begin" /\ pc' = "end" /\ spmode' = TRUE
          /\ UNCHANGED <<kblostsynccnt, enabled, sp, got, twice>>
      BY <1>6 DEF Begin, keyboard
    <2>2. TypeOK'
      BY <1>1, <2>1 DEF IInv, TypeOK, ring
    <2>3. Valid' /\ (Handshake => Handshake')
      BY <1>1, <1>3, <2>1 DEF IInv, Valid, Handshake
    <2> QED
      BY <1>1, <1>2, <1>3, <2>1, <2>2, <2>3 DEF IInv
  <1>7. CASE End
    <2>1. /\ pc = "end" /\ pc' = "idle" /\ spmode' = FALSE /\ UNCHANGED <<enabled, sp, got, twice>>
          /\ kblostsynccnt' = IF spmode THEN 0 ELSE kblostsynccnt
      BY <1>7 DEF End, HandshakeEnd
    <2>2. TypeOK'
      <3>1. spmode' \in BOOLEAN
        BY <2>1
      <3>2. kblostsynccnt' \in 0..Frames
        BY <2>1 DEF IInv, TypeOK
      <3> QED
        BY <1>1, <2>1, <3>1, <3>2 DEF IInv, TypeOK, ring
    <2>3. Valid'
      BY <1>1, <2>1 DEF IInv, Valid
    <2>4. ASSUME Handshake PROVE Handshake'
      BY <1>1, <1>3, <2>1, <2>4 DEF Handshake
    <2> QED
      BY <1>1, <1>2, <1>3, <2>1, <2>2, <2>3, <2>4 DEF IInv
  <1> QED
    BY <1>4, <1>5, <1>6, <1>7 DEF Handler

LEMMA InvNext == IInv /\ [Next]_vars => IInv'
  <1> SUFFICES ASSUME IInv, [Next]_vars PROVE IInv'
    OBVIOUS
  <1>1. CASE UNCHANGED vars
    <2>1. UNCHANGED <<ring, keyboard, ciaasdr, sp, spmode, program, base, late, resets>>
      BY <1>1 DEF vars
    <2> QED
      BY <2>1 DEF ring, keyboard, program, IInv, TypeOK, Content, Valid, Handshake, Held, NextKey,
         PlaceOf, Sent, Due
  <1>2. CASE Next
    BY <1>2, InvRecord, InvCheck, InvVsync, InvReset, InvProgram DEF Next
  <1> QED
    BY <1>1, <1>2

\* The ring and the handshake keep to their order, resets and repetitions included.
THEOREM Inductive == Spec => []IInv
  BY InvInit, InvNext, PTL DEF Spec

\* The program gets every code once and in order, unless one was sent again while its handler
\* was at work.
THEOREM NoKeyLost == Spec => []Exact
  <1>1. IInv => Exact
    <2> SUFFICES ASSUME IInv PROVE Exact
      OBVIOUS
    <2>1. got \in Seq(Codes) /\ DOMAIN got = 1..Len(got)
      BY DEF IInv, TypeOK
    <2> QED
      BY <2>1 DEF IInv, Exact
  <1> QED
    BY Inductive, <1>1, PTL
=============================================================================
