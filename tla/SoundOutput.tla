---------------------------- MODULE SoundOutput ----------------------------
(***************************************************************************)
(* The sound output of sound_sdl.cpp.  The emulator thread fills a ring of *)
(* buffers and counts them in wrcnt; the sound device's thread calls for   *)
(* data and counts the buffers it has used up in rdcnt.  If the device is  *)
(* too far behind the emulator moves rdcnt on.  There is no lock: both     *)
(* threads write rdcnt.  CD audio has a ring of its own, filled by the     *)
(* player's thread (CdAudio) and added to a sound buffer before that one   *)
(* is copied, if sound is stereo at 44100 Hz, as it is here.               *)
(*                                                                         *)
(* Only differences of the counters matter, and they are what is kept.  A  *)
(* device takes data in chunks that need not be a buffer's size.           *)
(***************************************************************************)
EXTENDS Integers

CONSTANTS
  SOUND_BUFFERS_COUNT, cnt_max_diff, CDAUDIO_BUFFERS,
  Parts,      \* bound: a buffer is so many parts, a chunk a number of them
  Stall,      \* bound: buffers finished during a call of the device's, which is real time
  MaxTorn,    \* bound: skips that fall between a read and a write of rdcnt by the device
  Old         \* bound: what a counter can be that is stored after a reset

SoundAssumption ==
  /\ SOUND_BUFFERS_COUNT \in Nat /\ CDAUDIO_BUFFERS \in Nat /\ Old \in Nat
  /\ Parts \in Nat \ {0} /\ Stall \in Nat /\ MaxTorn \in Nat
  /\ cnt_max_diff \in Nat /\ cnt_max_diff > 1
  /\ cnt_max_diff + 1 + (MaxTorn + 1) * Stall < SOUND_BUFFERS_COUNT
ASSUME SoundAssumption

VARIABLES
  filled,       \* wrcnt - rdcnt
  snd_rdpos,
  cdfilled,     \* cdwrcnt - cdrdcnt
  cdaudio_active,
  sound_thread_active,
  dev, len,     \* the device: where it is, what it still has to give
  behind,       \* wrcnt less rdcnt as the device has read it
  emu,          \* the emulator, in finish_sound_buffer
  stalled,      \* buffers finished since the device's call
  torn,         \* skips that fell between a read and a write of rdcnt
  raced         \* history: at the last reset of the counters somebody was at work with them
device == <<sound_thread_active, dev, len>>
soundvars ==
  <<filled, snd_rdpos, cdfilled, cdaudio_active, device, behind, emu, stalled, torn, raced>>

SoundInit ==
  /\ filled = 0 /\ snd_rdpos = 0 /\ cdfilled = 0
  /\ cdaudio_active = FALSE
  /\ sound_thread_active = FALSE /\ dev = "idle" /\ len = 0 /\ behind = 0
  /\ emu = "run" /\ stalled = 0 /\ torn = 0 /\ raced = FALSE

-----------------------------------------------------------------------------
(* The emulator thread.                                                    *)

\* finish_sound_buffer: a buffer is counted.
Finish ==
  /\ emu = "run" /\ filled' = filled + 1 /\ emu' = "late"
  /\ dev # "idle" => stalled < Stall
  /\ stalled' = IF dev = "idle" THEN 0 ELSE stalled + 1
  /\ behind' = IF dev \in {"copy", "count"} THEN behind + 1 ELSE behind
  /\ UNCHANGED <<snd_rdpos, cdfilled, cdaudio_active, device, torn, raced>>

\* "Audiodriver has big delay, skip two buffers".
\* Mutant: it never skips.
SkipNever ==
  /\ emu = "late" /\ emu' = "run"
  /\ UNCHANGED <<filled, snd_rdpos, cdfilled, cdaudio_active, device, behind, stalled, torn, raced>>
Skip ==
  /\ emu = "late" /\ emu' = "run"
  /\ IF filled > cnt_max_diff
     THEN /\ filled' = cnt_max_diff - 1
          /\ torn' = (IF dev = "count" THEN torn + 1 ELSE torn) /\ torn' <= MaxTorn
     ELSE UNCHANGED <<filled, torn>>
  /\ UNCHANGED <<snd_rdpos, cdfilled, cdaudio_active, device, behind, stalled, raced>>

\* reset_sound, also when nothing is heard for a while: nobody asks where the device is, or
\* the CD's player (busy, if it is counting a buffer).  Either may then store what it had read.
ResetSound(busy) ==
  /\ emu = "run" /\ filled' = 0 /\ snd_rdpos' = 0
  /\ behind' \in (IF dev = "count" THEN {0, -Old} ELSE {0})
  /\ cdfilled' \in (IF busy THEN {0, Old} ELSE {0})
  /\ raced' = (dev # "idle" \/ busy)
  /\ UNCHANGED <<cdaudio_active, device, emu, stalled, torn>>

-----------------------------------------------------------------------------
(* The device's thread: sound_thread_mixer.                                *)

Callback ==
  /\ dev = "idle" /\ dev' = "check" /\ len' \in 1..Parts /\ sound_thread_active' = TRUE
  /\ stalled' = 0
  /\ UNCHANGED <<filled, snd_rdpos, cdfilled, cdaudio_active, behind, emu, torn, raced>>

\* sound_copy_produced_block: with no buffer finished it gives silence.  At the start of a
\* buffer it adds one of the CD's.
Check ==
  /\ dev = "check"
  /\ IF filled < 1 THEN dev' = "idle" /\ behind' = 0 /\ UNCHANGED cdfilled
     ELSE /\ dev' = "copy" /\ behind' = filled
          /\ cdfilled' = IF snd_rdpos = 0 /\ cdaudio_active /\ cdfilled > 0
                         THEN cdfilled - 1 ELSE cdfilled
  /\ UNCHANGED <<filled, snd_rdpos, cdaudio_active, sound_thread_active, len>>
  /\ UNCHANGED <<emu, stalled, torn, raced>>

Chunk == IF len < Parts - snd_rdpos THEN len ELSE Parts - snd_rdpos
Goon(l) == dev' = (IF l = 0 THEN "idle" ELSE "check") /\ behind' = 0
Copy ==
  /\ dev = "copy" /\ len' = len - Chunk
  /\ IF snd_rdpos + Chunk < Parts
     THEN snd_rdpos' = snd_rdpos + Chunk /\ Goon(len')
     ELSE snd_rdpos' = 0 /\ behind' = filled /\ dev' = "count"
  /\ UNCHANGED <<filled, cdfilled, cdaudio_active, sound_thread_active, emu, stalled, torn, raced>>

\* rdcnt++, which the emulator may have moved since it was read.
Count ==
  /\ dev = "count" /\ filled' = behind - 1 /\ Goon(len)
  /\ UNCHANGED <<snd_rdpos, cdfilled, cdaudio_active, sound_thread_active, len>>
  /\ UNCHANGED <<emu, stalled, torn, raced>>

DeviceStep == Callback \/ Check \/ Copy \/ Count
SoundNext(busy) == Finish \/ Skip \/ ResetSound(busy) \/ DeviceStep

-----------------------------------------------------------------------------
SoundTypeOK ==
  /\ filled \in Int /\ behind \in Int /\ cdfilled \in Int /\ snd_rdpos \in 0..(Parts - 1)
  /\ cdaudio_active \in BOOLEAN /\ sound_thread_active \in BOOLEAN
  /\ dev \in {"idle", "check", "copy", "count"} /\ len \in 0..Parts /\ emu \in {"run", "late"}
  /\ stalled \in 0..Stall /\ torn \in 0..MaxTorn /\ raced \in BOOLEAN

\* A buffer that the device copies has been finished and is not being filled again, though
\* the emulator may move rdcnt, and the device then set it back, at any time.
CopiesFinished ==
  SoundTypeOK /\ (raced \/ (dev = "copy" => behind \in 1..(SOUND_BUFFERS_COUNT - 1)))
=============================================================================
