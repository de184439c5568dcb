--------------------------- MODULE CdAudio_proofs ---------------------------
(***************************************************************************)
(* The two rings of the sound output and the CD player's commands, for     *)
(* rings, delays, chunks and margins of any size that SoundAssumption and  *)
(* CdAssumption allow.                                                     *)
(***************************************************************************)
EXTENDS CdAudio, TLAPS

LEMMA Sizes ==
  /\ SOUND_BUFFERS_COUNT \in Nat /\ CDAUDIO_BUFFERS \in Nat /\ Old \in Nat
  /\ Parts \in Nat /\ Parts > 0 /\ Stall \in Nat /\ MaxTorn \in Nat
  /\ cnt_max_diff \in Nat /\ cnt_max_diff > 1
  /\ PerPlay \in Nat /\ PerPlay > 0 /\ Margin \in Nat
  /\ Margin > 2 * PerPlay /\ Margin <= CDAUDIO_BUFFERS
  BY SoundAssumption, CdAssumption DEF SoundAssumption, CdAssumption

-----------------------------------------------------------------------------
(* The sound ring.                                                         *)

\* By how much the skips that fell into a count may have been undone.
Undone == torn * Stall

\* The emulator is at most one buffer over the limit at which it skips, but for what a device
\* that did not see the skip has given back; while the device copies, the emulator may have
\* finished Stall more since it looked, and while it counts, what it has read is the ring's
\* state, or was so before a skip.
RingBounded ==
  /\ filled >= 0 /\ filled <= cnt_max_diff + Undone + (IF emu = "late" THEN 1 ELSE 0)
  /\ dev = "copy" => /\ filled >= 1 /\ filled <= behind
                     /\ behind <= cnt_max_diff + 1 + Undone + stalled
  /\ dev = "count" => /\ filled >= 1
                      /\ \/ behind = filled
                         \/ /\ behind > filled /\ torn >= 1
                            /\ behind <= cnt_max_diff + 1 + (Undone - Stall) + stalled
SoundInv == SoundTypeOK /\ (raced \/ RingBounded)

LEMMA SlackFacts ==
  ASSUME NEW t \in 0..MaxTorn
  PROVE  /\ t * Stall \in Nat
         /\ (t + 1) * Stall = t * Stall + Stall
         /\ t >= 1 => t * Stall >= Stall
  BY Sizes

LEMMA Room ==
  ASSUME NEW t \in 0..MaxTorn
  PROVE  cnt_max_diff + 1 + t * Stall + Stall < SOUND_BUFFERS_COUNT
  <1>1. t * Stall <= MaxTorn * Stall /\ (MaxTorn + 1) * Stall = MaxTorn * Stall + Stall
    BY Sizes
  <1>2. t * Stall \in Nat /\ MaxTorn * Stall \in Nat
    BY Sizes
  <1> QED
    BY <1>1, <1>2, Sizes, SoundAssumption DEF SoundAssumption

LEMMA SoundInitInv == ASSUME SoundInit PROVE SoundInv
  <1>1. cdaudio_active \in BOOLEAN /\ sound_thread_active \in BOOLEAN /\ raced \in BOOLEAN
    BY Zenon DEF SoundInit
  <1>2. SoundTypeOK
    BY <1>1, Sizes DEF SoundInit, SoundTypeOK
  <1>3. RingBounded
    BY Sizes, SlackFacts DEF SoundInit, RingBounded, Undone
  <1> QED
    BY <1>2, <1>3 DEF SoundInv

\* Steps that leave torn alone leave what Undone stands for.
LEMMA UndoneKept ==
  ASSUME SoundInv, torn' = torn
  PROVE  Undone \in Int /\ Undone' = Undone
  BY Sizes DEF SoundInv, SoundTypeOK, Undone

LEMMA Finishes ==
  ASSUME SoundInv, Finish PROVE SoundInv'
  <1>1. SoundTypeOK'
    BY Sizes DEF SoundInv, SoundTypeOK, Finish, device
  <1>2. ASSUME RingBounded PROVE RingBounded'
    <2>1. torn' = torn
      BY DEF Finish
    <2> QED
      BY <1>2, <2>1, UndoneKept, Sizes DEF SoundInv, SoundTypeOK, Finish, device, RingBounded
  <1> QED
    BY <1>1, <1>2 DEF SoundInv, Finish

\* A skip during a count: what the device has read is from before it.
LEMMA Skips ==
  ASSUME SoundInv, Skip PROVE SoundInv'
  <1>1. SoundTypeOK'
    BY Sizes DEF SoundInv, SoundTypeOK, Skip, device
  <1>2. ASSUME RingBounded, torn' = torn PROVE RingBounded'
    <2>1. Undone \in Int /\ Undone' = Undone
      BY <1>2, UndoneKept
    <2>2. Undone >= 0
      BY SlackFacts DEF SoundInv, SoundTypeOK, Undone
    <2>3. CASE filled > cnt_max_diff /\ dev # "count"
      BY <1>2, <2>1, <2>2, <2>3, Sizes DEF SoundInv, SoundTypeOK, Skip, device, RingBounded
    <2>4. CASE filled <= cnt_max_diff
      BY <1>2, <2>1, <2>2, <2>4, Sizes DEF SoundInv, SoundTypeOK, Skip, device, RingBounded
    <2>5. filled <= cnt_max_diff \/ (filled > cnt_max_diff /\ dev # "count")
      BY <1>2, Sizes DEF SoundInv, SoundTypeOK, Skip
    <2> QED
      BY <2>3, <2>4, <2>5
  <1>3. ASSUME RingBounded, torn' = torn + 1, dev = "count" PROVE RingBounded'
    <2>1. Undone \in Nat /\ Undone' = Undone + Stall
      BY <1>3, SlackFacts DEF SoundInv, SoundTypeOK, Undone
    <2> QED
      BY <1>3, <2>1, Sizes DEF SoundInv, SoundTypeOK, Skip, device, RingBounded
  <1>4. torn' = torn \/ (torn' = torn + 1 /\ dev = "count")
    BY DEF Skip
  <1> QED
    BY <1>1, <1>2, <1>3, <1>4 DEF SoundInv, Skip

LEMMA Resets ==
  ASSUME SoundInv, NEW busy \in BOOLEAN, ResetSound(busy) PROVE SoundInv'
  <1>1. raced' \in BOOLEAN
    BY DEF ResetSound
  <1>2. SoundTypeOK'
    BY <1>1, Sizes DEF SoundInv, SoundTypeOK, ResetSound, device
  <1>3. ASSUME ~raced' PROVE RingBounded'
    <2>1. torn \in 0..MaxTorn /\ torn' = torn /\ dev' = "idle" /\ filled' = 0 /\ emu' = "run"
      BY <1>3 DEF SoundInv, SoundTypeOK, ResetSound, device
    <2>2. Undone \in Nat /\ Undone' = Undone
      BY <2>1, SlackFacts DEF Undone
    <2>3. dev' # "copy" /\ dev' # "count"
      BY <2>1
    <2>4. filled' >= 0 /\ filled' <= cnt_max_diff + Undone' + (IF emu' = "late" THEN 1 ELSE 0)
      BY <2>1, <2>2, Sizes
    <2> QED
      BY <2>3, <2>4, Zenon DEF RingBounded
  <1> QED
    BY <1>2, <1>3 DEF SoundInv

LEMMA Device ==
  ASSUME SoundInv, DeviceStep PROVE SoundInv'
  <1>1. torn' = torn /\ raced' = raced
    BY DEF DeviceStep, Callback, Check, Copy, Count
  <1>2. Undone \in Int /\ Undone' = Undone
    BY <1>1, UndoneKept
  <1>3. CASE Callback
    <2>1. SoundTypeOK'
      BY <1>3, Sizes DEF SoundInv, SoundTypeOK, Callback
    <2>2. RingBounded => RingBounded'
      BY <1>2, <1>3, Sizes DEF SoundInv, SoundTypeOK, Callback, RingBounded
    <2> QED
      BY <1>1, <2>1, <2>2 DEF SoundInv
  <1>4. CASE Check
    <2>1. SoundTypeOK'
      BY <1>4, Sizes DEF SoundInv, SoundTypeOK, Check
    <2>2. RingBounded => RingBounded'
      BY <1>2, <1>4, Sizes DEF SoundInv, SoundTypeOK, Check, RingBounded
    <2> QED
      BY <1>1, <2>1, <2>2 DEF SoundInv
  <1>5. CASE Copy
    <2>1. SoundTypeOK'
      BY <1>5, Sizes DEF SoundInv, SoundTypeOK, Copy, Chunk, Goon
    <2>2. RingBounded => RingBounded'
      BY <1>2, <1>5, Sizes DEF SoundInv, SoundTypeOK, Copy, Chunk, Goon, RingBounded
    <2> QED
      BY <1>1, <2>1, <2>2 DEF SoundInv
  <1>6. CASE Count
    <2>1. SoundTypeOK'
      BY <1>6, Sizes DEF SoundInv, SoundTypeOK, Count, Goon
    <2>2. RingBounded => RingBounded'
      BY <1>2, <1>6, Sizes DEF SoundInv, SoundTypeOK, Count, Goon, RingBounded
    <2> QED
      BY <1>1, <2>1, <2>2 DEF SoundInv
  <1> QED
    BY <1>3, <1>4, <1>5, <1>6 DEF DeviceStep

\* The player's thread touches the CD's ring only.
LEMMA SoundKept ==
  ASSUME SoundInv, cdfilled' \in Int, cdaudio_active' \in BOOLEAN,
         UNCHANGED <<filled, snd_rdpos, device, behind, emu, stalled, torn, raced>>
  PROVE  SoundInv'
  <1>1. SoundTypeOK'
    BY DEF SoundInv, SoundTypeOK, device
  <1>2. RingBounded => RingBounded'
    BY DEF RingBounded, Undone, device
  <1> QED
    BY <1>1, <1>2 DEF SoundInv

LEMMA CopiesKept == ASSUME SoundInv PROVE CopiesFinished
  <1>1. ASSUME RingBounded, dev = "copy" PROVE behind \in 1..(SOUND_BUFFERS_COUNT - 1)
    <2>1. cnt_max_diff + 1 + Undone + Stall < SOUND_BUFFERS_COUNT /\ Undone \in Nat
      BY Room, SlackFacts DEF SoundInv, SoundTypeOK, Undone
    <2> QED
      BY <1>1, <2>1, Sizes DEF SoundInv, SoundTypeOK, RingBounded
  <1> QED
    BY <1>1 DEF SoundInv, CopiesFinished

-----------------------------------------------------------------------------
(* The CD's ring.                                                          *)

CdTypeOK ==
  /\ cdda_play \in {-1, 0, 1} /\ thread_active \in BOOLEAN /\ cdda_paused \in BOOLEAN
  /\ cd_audio_mode_changed \in BOOLEAN /\ restart \in BOOLEAN /\ lost \in BOOLEAN
  /\ revived \in BOOLEAN
  /\ cmd \in {"idle", "stopwait", "playwait", "start", "go", "gowait"}
  /\ th \in {"dead", "born", "await", "loop", "ready", "fill", "put", "count", "catchup", "paused",
              "turn", "end", "exit"}
  /\ oldplay \in {-1, 1} /\ left \in 0..PerPlay

Playing == {"put", "count"}
Free == CDAUDIO_BUFFERS - Margin

\* A play begins with a play's buffers in the ring at most: more would have been waited for, if
\* the device had run, and had it not the play would not have begun.
CdBounded ==
  /\ cdfilled >= 0
  /\ th \in Playing =>
       cdfilled <= Free + (IF sound_thread_active THEN PerPlay ELSE 0) + PerPlay - left
  /\ th = "catchup" => cdfilled <= Free + PerPlay + (IF sound_thread_active THEN PerPlay ELSE 0)
  /\ th \notin Playing \union {"catchup"} => cdfilled <= Free + PerPlay

(* The commands.                                                           *)
Inside == {"loop", "ready", "fill", "put", "count", "catchup", "paused", "turn", "end"}

\* While a command may go on to let a thread go, the thread is at one of its two waits or has
\* ended; otherwise cdda_play is not 0 as long as the thread is in its loop.
Agreed ==
  /\ thread_active <=> th \notin {"dead", "born"}
  /\ th = "born" => cmd = "gowait"
  /\ cmd \in {"start", "go"} => cdda_play = 0 /\ th \in {"dead", "exit"}
  /\ cmd = "go" => lost
  /\ cmd = "gowait" => cdda_play = 0 /\ th \in {"born", "await"}
  /\ th \in Inside \/ (th = "await" /\ cmd # "gowait") => cdda_play # 0
  /\ cdda_play = 1 => lost \/ th \in Inside \union {"await"}

CdInv == CdTypeOK /\ (th \in Playing => left >= 1) /\ (raced \/ CdBounded) /\ Agreed
IInv == SoundInv /\ CdInv

\* A step that does not play leaves the ring as it is.
LEMMA RingSame ==
  ASSUME CdInv, UNCHANGED <<cdfilled, sound_thread_active, raced>>,
         \/ th' = th /\ left' = left
         \/ th \notin Playing \union {"catchup"} /\ th' \notin Playing \union {"catchup"}
  PROVE  (th' \in Playing => left' >= 1) /\ (raced' \/ CdBounded')
  <1>1. CASE th' = th /\ left' = left
    <2>1. CdBounded => CdBounded'
      BY <1>1 DEF CdBounded
    <2> QED
      BY <1>1, <2>1 DEF CdInv
  <1>2. CASE th \notin Playing \union {"catchup"} /\ th' \notin Playing \union {"catchup"}
    <2>1. CdBounded => CdBounded'
      BY <1>2 DEF CdBounded
    <2> QED
      BY <1>2, <2>1 DEF CdInv
  <1> QED
    BY <1>1, <1>2

LEMMA SoundSame == ASSUME SoundInv, UNCHANGED soundvars PROVE SoundInv'
  <1>1. SoundTypeOK'
    BY DEF SoundInv, SoundTypeOK, soundvars, device
  <1>2. RingBounded => RingBounded'
    BY DEF RingBounded, Undone, soundvars, device
  <1> QED
    BY <1>1, <1>2 DEF SoundInv, soundvars

\* The commands that do not start a thread.
LEMMA Commands ==
  ASSUME IInv, Pause \/ Stop \/ Stopped \/ Play \/ PlayWait \/ Refuse \/ Go \/ ModeChanged
  PROVE  IInv'
  <1>1. UNCHANGED soundvars /\ th' = th /\ left' = left
    BY DEF Pause, Stop, Stopped, Play, PlayWait, Refuse, Go, ModeChanged, Cmd, locals, shared
  <1>2. CdTypeOK'
    <2> USE DEF IInv, CdInv, CdTypeOK, Cmd, End, locals, shared, history, Agreed
    <2>1. cdda_paused' \in BOOLEAN /\ cd_audio_mode_changed' \in BOOLEAN
      BY DEF Pause, Stop, Stopped, Play, PlayWait, Refuse, Go, ModeChanged
    <2>2. lost' \in BOOLEAN /\ revived' \in BOOLEAN
      BY DEF Pause, Stop, Stopped, Play, PlayWait, Refuse, Go, ModeChanged
    <2>3. cdda_play' \in {-1, 0, 1}
      BY DEF Pause, Stop, Stopped, Play, PlayWait, Refuse, Go, ModeChanged
    <2>4. cmd' \in {cmd, "idle", "stopwait", "playwait", "start"}
      BY DEF Pause, Stop, Stopped, Play, PlayWait, Refuse, Go, ModeChanged
    <2>5. UNCHANGED <<thread_active, th, locals>>
      BY DEF Pause, Stop, Stopped, Play, PlayWait, Refuse, Go, ModeChanged
    <2> QED
      BY <2>1, <2>2, <2>3, <2>4, <2>5
  <1>3. (th' \in Playing => left' >= 1) /\ (raced' \/ CdBounded')
    BY <1>1, RingSame DEF soundvars, device, IInv
  <1>4. Agreed'
    BY DEF IInv, CdInv, CdTypeOK, Pause, Stop, Stopped, Play, PlayWait, Refuse, Go, ModeChanged,
      Cmd, End, locals, shared, history, Agreed, Inside
  <1> QED
    BY <1>1, <1>2, <1>3, <1>4, SoundSame DEF IInv, CdInv

LEMMA Starts ==
  ASSUME IInv, StartPlayer PROVE IInv'
  <1>1. UNCHANGED soundvars /\ left' = left
    BY DEF StartPlayer, locals
  <1>2. CdTypeOK'
    <2>1. lost' \in BOOLEAN
      BY DEF IInv, CdInv, CdTypeOK, StartPlayer
    <2> QED
      BY <2>1 DEF IInv, CdInv, CdTypeOK, StartPlayer, locals, shared
  <1>3. (th' \in Playing => left' >= 1) /\ (raced' \/ CdBounded')
    <2>1. th \in {"dead", "exit"} /\ th' \in {th, "born"}
      BY DEF IInv, CdInv, Agreed, StartPlayer
    <2> QED
      BY <1>1, <2>1, RingSame DEF soundvars, device, IInv, Playing
  <1>4. Agreed'
    BY DEF IInv, CdInv, CdTypeOK, StartPlayer, locals, shared, Agreed, Inside
  <1> QED
    BY <1>1, <1>2, <1>3, <1>4, SoundSame DEF IInv, CdInv

\* The player's steps that do not play.
LEMMA Waits ==
  ASSUME IInv, Born \/ Loop \/ Ready \/ Paused \/ Turn \/ Exit PROVE IInv'
  <1>1. UNCHANGED soundvars
    BY DEF Born, Loop, Ready, Paused, Turn, Exit, Quiet
  <1>2. CdTypeOK'
    <2> USE DEF IInv, CdInv, CdTypeOK, Quiet, At, locals, shared, history
    <2>1. restart' \in BOOLEAN
      BY DEF Born, Loop, Ready, Paused, Turn, Exit
    <2>2. thread_active' \in BOOLEAN /\ cd_audio_mode_changed' \in BOOLEAN
      BY DEF Born, Loop, Ready, Paused, Turn, Exit
    <2>3. CASE Born \/ Ready \/ Paused \/ Exit
      BY <2>1, <2>2, <2>3 DEF Born, Ready, Paused, Exit
    <2>4. CASE Loop
      BY <2>1, <2>2, <2>4 DEF Loop
    <2>5. CASE Turn
      BY <2>1, <2>2, <2>5 DEF Turn
    <2> QED
      BY <2>3, <2>4, <2>5
  <1>3. (th' \in Playing => left' >= 1) /\ (raced' \/ CdBounded')
    <2>1. th \notin Playing \union {"catchup"} /\ th' \notin Playing \union {"catchup"}
      BY DEF Playing, Born, Loop, Ready, Paused, Turn, Exit, At
    <2> QED
      BY <1>1, <2>1, RingSame DEF soundvars, device, IInv
  <1>4. Agreed'
    BY DEF IInv, CdInv, CdTypeOK, Born, Loop, Ready, Paused, Turn, Exit, Quiet, At, locals, shared,
      history, Agreed, Inside
  <1> QED
    BY <1>1, <1>2, <1>3, <1>4, SoundSame DEF IInv, CdInv

LEMMA Awaits ==
  ASSUME IInv, Await PROVE IInv'
  <1>1. th = "await" /\ th' = "loop" /\ UNCHANGED <<cdfilled, sound_thread_active, raced>>
    BY DEF Await, At, Otherwise, device
  <1>2. SoundInv'
    <2>1. cdfilled' \in Int /\ cdaudio_active' \in BOOLEAN
      BY <1>1 DEF Await, IInv, SoundInv, SoundTypeOK
    <2> QED
      BY <2>1, SoundKept DEF Await, Otherwise, IInv
  <1>3. CdTypeOK'
    BY DEF IInv, CdInv, CdTypeOK, Await, At, shared, history
  <1>4. (th' \in Playing => left' >= 1) /\ (raced' \/ CdBounded')
    BY <1>1, RingSame DEF IInv, Playing
  <1>5. Agreed'
    BY DEF IInv, CdInv, CdTypeOK, Await, At, shared, history, Agreed, Inside
  <1> QED
    BY <1>2, <1>3, <1>4, <1>5 DEF IInv, CdInv

\* A play begins: this is where the device must not have fallen behind.
LEMMA Fills ==
  ASSUME IInv, Fill PROVE IInv'
  <1>1. UNCHANGED soundvars /\ th = "fill"
    BY DEF Fill, Quiet
  <1>2. CdTypeOK' /\ (th' \in Playing => left' >= 1)
    BY Sizes DEF IInv, CdInv, CdTypeOK, Fill, Quiet, shared, history, Playing
  <1>3. ASSUME CdBounded PROVE CdBounded'
    BY <1>1, <1>3, Sizes
    DEF IInv, SoundInv, SoundTypeOK, CdInv, CdTypeOK, CdBounded, Fill, soundvars, device,
        Playing, Free
  <1>4. Agreed'
    BY DEF IInv, CdInv, CdTypeOK, Fill, Quiet, shared, history, Agreed, Inside
  <1> QED
    BY <1>1, <1>2, <1>3, <1>4, SoundSame DEF IInv, CdInv, soundvars

LEMMA Puts ==
  ASSUME IInv, Put PROVE IInv'
  <1>1. UNCHANGED soundvars /\ th = "put" /\ th' = "count" /\ left' = left
    BY DEF Put, At, Quiet, locals
  <1>2. CdTypeOK'
    BY DEF IInv, CdInv, CdTypeOK, Put, At, Quiet, shared, locals, history
  <1>3. ASSUME CdBounded PROVE CdBounded'
    BY <1>1, <1>3 DEF CdBounded, soundvars, device, Playing
  <1>4. Agreed'
    BY DEF IInv, CdInv, CdTypeOK, Put, At, Quiet, shared, locals, history, Agreed, Inside
  <1> QED
    BY <1>1, <1>2, <1>3, <1>4, SoundSame DEF IInv, CdInv, soundvars, Playing

LEMMA Counts ==
  ASSUME IInv, CountCd PROVE IInv'
  <1>1. th = "count" /\ UNCHANGED <<sound_thread_active, raced>>
    BY DEF CountCd, device
  <1>2. SoundInv'
    <2>1. cdfilled' \in Int /\ cdaudio_active' \in BOOLEAN
      BY DEF CountCd, IInv, SoundInv, SoundTypeOK
    <2> QED
      BY <2>1, SoundKept DEF CountCd, IInv
  <1>3. CdTypeOK' /\ (th' \in Playing => left' >= 1)
    BY Sizes DEF IInv, CdInv, CdTypeOK, CountCd, shared, history, Playing
  <1>4. ASSUME CdBounded PROVE CdBounded'
    BY <1>1, <1>4, Sizes
    DEF IInv, SoundInv, SoundTypeOK, CdInv, CdTypeOK, CdBounded, CountCd, Playing, Free
  <1>5. Agreed'
    BY DEF IInv, CdInv, CdTypeOK, CountCd, shared, history, Agreed, Inside
  <1> QED
    BY <1>1, <1>2, <1>3, <1>4, <1>5 DEF IInv, CdInv

LEMMA Catches ==
  ASSUME IInv, Catchup PROVE IInv'
  <1>1. UNCHANGED soundvars /\ th = "catchup" /\ th' \in {"turn", "end"}
    BY DEF Catchup, Quiet
  <1>2. CdTypeOK'
    BY DEF IInv, CdInv, CdTypeOK, Catchup, Quiet, locals, history
  <1>3. ASSUME CdBounded PROVE CdBounded'
    BY <1>1, <1>3, Sizes
    DEF IInv, SoundInv, SoundTypeOK, CdBounded, Catchup, soundvars, device, Playing, Free
  <1>4. Agreed'
    BY DEF IInv, CdInv, CdTypeOK, Catchup, Quiet, locals, history, Agreed, Inside
  <1> QED
    BY <1>1, <1>2, <1>3, <1>4, SoundSame DEF IInv, CdInv, soundvars, Playing

LEMMA Ends ==
  ASSUME IInv, Ended PROVE IInv'
  <1>1. /\ th = "end" /\ th' \in {"exit", "await"}
        /\ UNCHANGED <<cdfilled, sound_thread_active, raced>>
    BY DEF Ended, Otherwise, device
  <1>2. SoundInv'
    <2>1. cdfilled' \in Int /\ cdaudio_active' \in BOOLEAN
      BY <1>1 DEF Ended, IInv, SoundInv, SoundTypeOK
    <2> QED
      BY <2>1, SoundKept DEF Ended, Otherwise, IInv
  <1>3. CdTypeOK'
    <2>1. revived' \in BOOLEAN
      BY DEF IInv, CdInv, CdTypeOK, Ended
    <2>2. restart' \in BOOLEAN /\ cd_audio_mode_changed' \in BOOLEAN
      BY DEF IInv, CdInv, CdTypeOK, Ended
    <2> QED
      BY <2>1, <2>2 DEF IInv, CdInv, CdTypeOK, Ended
  <1>4. (th' \in Playing => left' >= 1) /\ (raced' \/ CdBounded')
    BY <1>1, RingSame DEF IInv, Playing
  <1>5. Agreed'
    BY DEF IInv, CdInv, CdTypeOK, Ended, Agreed, Inside
  <1> QED
    BY <1>2, <1>3, <1>4, <1>5 DEF IInv, CdInv

\* The emulator and the device: the device takes from the CD's ring, a reset empties it.
LEMMA Sounds ==
  ASSUME IInv, Sound PROVE IInv'
  <1>1. SoundInv'
    BY Finishes, Skips, Resets, Device DEF Sound, SoundNext, IInv
  <1>2. CdTypeOK' /\ (th' \in Playing => left' >= 1)
    BY DEF Sound, cdvars, shared, locals, history, IInv, CdInv, CdTypeOK
  <1>3. Agreed'
    BY DEF Sound, cdvars, shared, locals, history, IInv, CdInv, Agreed
  <1>4. raced' \/ CdBounded'
    <2>1. th' = th /\ left' = left
      BY DEF Sound, cdvars, locals
    <2>2. CASE ResetSound(th = "count")
      <3>1. raced' \/ cdfilled' = 0
        BY <2>2 DEF ResetSound
      <3>2. ASSUME cdfilled' = 0 PROVE CdBounded'
        BY <2>1, <3>2, Sizes DEF IInv, CdInv, CdTypeOK, CdBounded, Playing, Free
      <3> QED
        BY <3>1, <3>2
    <2>3. CASE Finish \/ Skip \/ Copy \/ Count
      <3>1. UNCHANGED <<cdfilled, sound_thread_active, raced>>
        BY <2>3 DEF Finish, Skip, Copy, Count, device
      <3> QED
        BY <2>1, <3>1, RingSame DEF IInv
    <2>4. CASE Callback
      <3>1. cdfilled' = cdfilled /\ sound_thread_active' = TRUE /\ raced' = raced
        BY <2>4 DEF Callback
      <3>2. ASSUME CdBounded PROVE CdBounded'
        BY <2>1, <3>1, <3>2, Sizes
        DEF IInv, SoundInv, SoundTypeOK, CdInv, CdTypeOK, CdBounded, Playing, Free
      <3> QED
        BY <3>1, <3>2 DEF IInv, CdInv
    <2>5. CASE Check
      <3>1. UNCHANGED <<sound_thread_active, raced>>
        BY <2>5 DEF Check
      <3>2. cdfilled' = cdfilled \/ (cdfilled > 0 /\ cdfilled' = cdfilled - 1)
        BY <2>5 DEF Check
      <3>3. ASSUME CdBounded PROVE CdBounded'
        BY <2>1, <3>1, <3>2, <3>3, Sizes
        DEF IInv, SoundInv, SoundTypeOK, CdInv, CdTypeOK, CdBounded, Playing, Free
      <3> QED
        BY <3>1, <3>3 DEF IInv, CdInv
    <2> QED
      BY <2>2, <2>3, <2>4, <2>5 DEF Sound, SoundNext, DeviceStep
  <1> QED
    BY <1>1, <1>2, <1>3, <1>4 DEF IInv, CdInv

LEMMA InvInit == ASSUME Init PROVE IInv
  <1>1. CdTypeOK
    <2>1. thread_active \in BOOLEAN /\ cdda_paused \in BOOLEAN /\ cd_audio_mode_changed \in BOOLEAN
      BY DEF Init
    <2>2. restart \in BOOLEAN /\ lost \in BOOLEAN /\ revived \in BOOLEAN
      BY DEF Init
    <2> QED
      BY <2>1, <2>2, Sizes DEF Init, CdTypeOK
  <1>2. CdBounded /\ th \notin Playing
    BY Sizes DEF Init, SoundInit, CdBounded, Playing, Free
  <1>3. Agreed
    BY DEF Init, Agreed, Inside
  <1> QED
    BY <1>1, <1>2, <1>3, SoundInitInv DEF Init, IInv, CdInv

LEMMA InvNext == ASSUME IInv, [Next]_vars PROVE IInv'
  <1>1. CASE UNCHANGED vars
    <2>1. UNCHANGED <<soundvars, cdvars>>
      BY <1>1 DEF vars
    <2>2. CdInv'
      <3>1. CdTypeOK' /\ Agreed'
        BY <2>1 DEF cdvars, shared, locals, history, IInv, CdInv, CdTypeOK, Agreed
      <3>2. (th' \in Playing => left' >= 1) /\ (raced' \/ CdBounded')
        BY <2>1, RingSame DEF soundvars, device, cdvars, locals, IInv
      <3> QED
        BY <3>1, <3>2 DEF CdInv
    <2> QED
      BY <2>1, <2>2, SoundSame DEF IInv
  <1>2. CASE Pause \/ Stop \/ Play \/ Refuse \/ CmdWaits \/ ModeChanged
    BY <1>2, Commands, Starts DEF CmdWaits
  <1>3. CASE PlayerStep
    BY <1>3, Waits, Awaits, Fills, Puts, Counts, Catches, Ends DEF PlayerStep
  <1>4. CASE Sound
    BY <1>4, Sounds
  <1> QED
    BY <1>1, <1>2, <1>3, <1>4 DEF Next

-----------------------------------------------------------------------------
\* The inductive invariant of both rings and of the player and its commands.
THEOREM Inductive == Spec => []IInv
  <1>1. Init => IInv
    BY InvInit
  <1>2. IInv /\ [Next]_vars => IInv'
    BY InvNext
  <1> QED
    BY <1>1, <1>2, PTL DEF Spec

\* The device only copies sound buffers that are finished, for any size of the ring.
THEOREM OnlyFinished == Spec => []CopiesFinished
  <1>1. IInv => CopiesFinished
    BY CopiesKept DEF IInv
  <1> QED
    BY <1>1, Inductive, PTL

\* The player never fills a place of the CD's ring that is still to be played.
THEOREM RingKept == Spec => []CdKept
  <1>1. IInv => CdKept
    <2>1. ASSUME IInv, CdBounded, sound_thread_active PROVE cdfilled \in 0..(CDAUDIO_BUFFERS - 1)
      BY <2>1, Sizes
      DEF IInv, SoundInv, SoundTypeOK, CdInv, CdTypeOK, CdBounded, Playing, Free
    <2> QED
      BY <2>1 DEF IInv, CdInv, CdKept
  <1> QED
    BY <1>1, Inductive, PTL

\* A play command that met no thread on its way out leaves one that plays.
THEOREM Heard == Spec => []PlayHeard
  <1>1. IInv => PlayHeard
    <2>1. ASSUME IInv PROVE TypeOK
      BY <2>1, Zenon DEF IInv, SoundInv, CdInv, CdTypeOK, TypeOK
    <2>2. ASSUME IInv, cdda_play > 0 PROVE lost \/ th \notin {"dead", "exit"}
      BY <2>2 DEF IInv, CdInv, CdTypeOK, Agreed, Inside
    <2> QED
      BY <2>1, <2>2 DEF PlayHeard
  <1> QED
    BY <1>1, Inductive, PTL
=============================================================================
