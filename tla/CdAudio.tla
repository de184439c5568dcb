------------------------------ MODULE CdAudio ------------------------------
(***************************************************************************)
(* CD audio from an image (blkdev_cdimage.cpp): the commands play, stop    *)
(* and pause, and the player's thread, which fills the CD ring of the      *)
(* sound output and waits there while it is too far ahead.  cdda_play is   *)
(* what they talk by: 0 no play, above 0 play, -1 end it.  Commands of     *)
(* different threads exclude each other by the unit's semaphore.  Nothing  *)
(* else is locked.                                                         *)
(***************************************************************************)
EXTENDS SoundOutput

CONSTANTS
  Margin,       \* the player waits with more than CDAUDIO_BUFFERS - Margin buffers ahead
  PerPlay       \* bound: most buffers of a call of cda_audio::play

CdAssumption == PerPlay \in Nat \ {0} /\ Margin \in (2 * PerPlay + 1)..CDAUDIO_BUFFERS
ASSUME CdAssumption

VARIABLES
  cdda_play, thread_active, cdda_paused, cd_audio_mode_changed,
  th, oldplay, left, restart,   \* the player: where it is, its locals
  cmd,                          \* the command under way
  lost,      \* history: the last play command met a thread that had ended its loop
  revived    \* history: a thread that starts anew has overwritten the command's -1
shared == <<cdda_play, thread_active, cdda_paused, cd_audio_mode_changed>>
locals == <<oldplay, left, restart>>
history == <<lost, revived>>
cdvars == <<shared, th, locals, cmd, history>>
vars == <<soundvars, cdvars>>

Init ==
  /\ SoundInit
  /\ cdda_play = 0 /\ thread_active = FALSE /\ cdda_paused = FALSE /\ cd_audio_mode_changed = FALSE
  /\ th = "dead" /\ oldplay = -1 /\ left = 0 /\ restart = FALSE /\ cmd = "idle"
  /\ lost = FALSE /\ revived = FALSE

-----------------------------------------------------------------------------
(* Commands.                                                               *)

Cmd(l, m) == cmd = l /\ cmd' = m /\ UNCHANGED <<soundvars, cd_audio_mode_changed, locals>>
End == IF cdda_play # 0 THEN -1 ELSE 0

\* command_pause
Pause ==
  /\ Cmd("idle", "idle") /\ \E p \in BOOLEAN : (p => cdda_play # 0) /\ cdda_paused' = p
  /\ UNCHANGED <<cdda_play, thread_active, th, history>>

\* cdda_stop: it waits for the player to end, if there is one.
Stop ==
  /\ Cmd("idle", "stopwait") /\ cdda_play' = End /\ lost' = FALSE /\ revived' = FALSE
  /\ UNCHANGED <<thread_active, cdda_paused, th>>
Stopped ==
  /\ Cmd("stopwait", "idle") /\ ~(cdda_play # 0 /\ thread_active)
  /\ cdda_play' = 0 /\ cdda_paused' = FALSE
  /\ UNCHANGED <<thread_active, th, history>>

\* command_play: it ends what is played, starts a thread if there is none, and then lets it go.
Play ==
  /\ cmd = "idle" /\ UNCHANGED <<soundvars, cd_audio_mode_changed, locals>>
  /\ cdda_play' = End /\ cmd' = IF cdda_play # 0 THEN "playwait" ELSE "start"
  /\ lost' = FALSE /\ revived' = FALSE /\ UNCHANGED <<thread_active, cdda_paused, th>>
\* Mutant: it does not wait for the thread's end.
PlayWaitNot ==
  /\ Cmd("playwait", "start") /\ cdda_play' = 0
  /\ UNCHANGED <<thread_active, cdda_paused, th, history>>
PlayWait ==
  /\ Cmd("playwait", "start") /\ ~thread_active /\ cdda_play' = 0
  /\ UNCHANGED <<thread_active, cdda_paused, th, history>>
StartPlayer ==
  /\ cmd = "start" /\ UNCHANGED <<soundvars, cd_audio_mode_changed, locals>>
  /\ IF thread_active THEN cmd' = "go" /\ UNCHANGED th ELSE cmd' = "gowait" /\ th' = "born"
  /\ lost' = thread_active
  /\ UNCHANGED <<shared, revived>>
Refuse ==   \* not an audio track
  Cmd("start", "idle") /\ UNCHANGED <<shared, th, history>>
Go ==
  /\ Cmd("go", "idle") \/ (Cmd("gowait", "idle") /\ thread_active)
  /\ cdda_play' = cdda_play + 1
  /\ UNCHANGED <<thread_active, cdda_paused, th, history>>

CmdWaits == Stopped \/ PlayWait \/ StartPlayer \/ Go

\* set_audio, on the emulator thread
ModeChanged ==
  /\ ~cd_audio_mode_changed /\ cd_audio_mode_changed' = TRUE
  /\ UNCHANGED <<soundvars, cdda_play, thread_active, cdda_paused, th, locals, cmd, history>>

-----------------------------------------------------------------------------
(* The player's thread: cdda_play_func, cdda_play_func2.                   *)

At(l, m) == th = l /\ th' = m /\ UNCHANGED <<cdda_paused, cmd>>
Quiet == UNCHANGED <<soundvars, history>>
Otherwise == UNCHANGED <<filled, snd_rdpos, cdfilled, device, behind, emu, stalled, torn, raced>>

Born ==
  /\ At("born", "await") /\ thread_active' = TRUE /\ cd_audio_mode_changed' = FALSE
  /\ Quiet /\ UNCHANGED <<cdda_play, locals>>
Await ==
  /\ At("await", "loop") /\ cdda_play # 0 /\ oldplay' = -1 /\ restart' = FALSE
  /\ cdaudio_active' = TRUE
  /\ UNCHANGED <<shared, left, history>> /\ Otherwise

\* The loop; a new play waits while it is paused.
Loop ==
  /\ th = "loop" /\ UNCHANGED <<cmd, shared>> /\ Quiet
  /\ IF cdda_play > 0
     THEN /\ oldplay' = cdda_play /\ UNCHANGED <<left, restart>>
          /\ th' = IF oldplay # cdda_play THEN "ready" ELSE "fill"
     ELSE th' = "end" /\ UNCHANGED locals
Ready ==
  /\ At("ready", "fill") /\ ~(cdda_paused /\ cdda_play > 0)
  /\ Quiet /\ UNCHANGED <<shared, locals>>

\* It ends, by command or where there is no more audio, or reads sectors and plays them;
\* paused, it plays its other buffer out before it sleeps; past cdda_end it goes round idly.
\* (Before the device has run each play fails after one go; a bound on how often, too.)
Fill ==
  /\ th = "fill" /\ UNCHANGED <<cmd, shared, oldplay, restart>> /\ Quiet
  /\ \/ th' = "end" /\ UNCHANGED left
     \/ cdda_play > 0 /\ th' \in {"paused", "turn"} /\ UNCHANGED left
     \/ /\ cdda_play > 0 /\ ~cdda_paused /\ th' = "put" /\ left' \in 1..PerPlay
        /\ sound_thread_active \/ cdfilled <= CDAUDIO_BUFFERS - Margin

\* finish_cdaudio_buffer: cdwrcnt++
Put ==
  /\ At("put", "count") /\ Quiet /\ UNCHANGED <<shared, locals>>
CountCd ==
  /\ th = "count" /\ cdfilled' = cdfilled + 1 /\ left' = left - 1
  /\ th' = IF left' = 0 THEN "catchup" ELSE "put"
  /\ UNCHANGED <<filled, snd_rdpos, cdaudio_active, device, behind, emu, stalled, torn, raced>>
  /\ UNCHANGED <<shared, oldplay, restart, cmd, history>>

\* cdaudio_catchup; the end of the track ends the play.
\* Mutant: it lets the player go on as long as the ring has a place.
CatchupLate ==
  /\ th = "catchup" /\ ~(cdfilled > CDAUDIO_BUFFERS /\ sound_thread_active)
  /\ \/ sound_thread_active /\ th' = "turn" /\ cdda_play' \in {cdda_play, -1}
     \/ ~sound_thread_active /\ th' = "end" /\ UNCHANGED cdda_play
  /\ UNCHANGED <<thread_active, cdda_paused, cd_audio_mode_changed, cmd, locals>> /\ Quiet
Catchup ==
  /\ th = "catchup" /\ ~(cdfilled > CDAUDIO_BUFFERS - Margin /\ sound_thread_active)
  /\ \/ sound_thread_active /\ th' = "turn" /\ cdda_play' \in {cdda_play, -1}
     \/ ~sound_thread_active /\ th' = "end" /\ UNCHANGED cdda_play
  /\ UNCHANGED <<thread_active, cdda_paused, cd_audio_mode_changed, cmd, locals>> /\ Quiet

\* With both its buffers played it sleeps while it is paused.
\* Mutant: only the end of the pause wakes it.
PausedDeaf ==
  /\ At("paused", "turn") /\ ~cdda_paused /\ Quiet /\ UNCHANGED <<shared, locals>>
Paused ==
  /\ At("paused", "turn") /\ ~(cdda_paused /\ cdda_play = oldplay)
  /\ Quiet /\ UNCHANGED <<shared, locals>>

Turn ==
  /\ th = "turn" /\ UNCHANGED <<cmd, shared, oldplay, left>> /\ Quiet
  /\ restart' = cd_audio_mode_changed /\ th' = IF cd_audio_mode_changed THEN "end" ELSE "loop"

Ended ==
  /\ th = "end" /\ cd_audio_mode_changed' = FALSE /\ cdaudio_active' = FALSE
  /\ UNCHANGED <<thread_active, cdda_paused, cmd, oldplay, left, lost>> /\ Otherwise
  /\ \/ ~restart /\ th' = "exit" /\ cdda_play' = 0 /\ UNCHANGED <<restart, revived>>
     \/ restart /\ th' = "exit" /\ cdda_play' = -1 /\ UNCHANGED <<restart, revived>>
     \/ /\ restart /\ th' = "await" /\ cdda_play' = 1 /\ restart' = FALSE
        /\ revived' = (revived \/ (cmd # "idle" /\ cdda_play < 1))
Exit ==
  /\ At("exit", "dead") /\ thread_active' = FALSE
  /\ Quiet /\ UNCHANGED <<cdda_play, cd_audio_mode_changed, locals>>

PlayerStep ==
  \/ Born \/ Await \/ Loop \/ Ready \/ Fill \/ Put \/ CountCd \/ Catchup \/ Paused \/ Turn
  \/ Ended \/ Exit

Sound == SoundNext(th = "count") /\ UNCHANGED cdvars
Next == Pause \/ Stop \/ Play \/ Refuse \/ CmdWaits \/ ModeChanged \/ PlayerStep \/ Sound

\* Threads run: the emulator makes sound and the device plays it, the player goes on, and so
\* does a command.
Spec ==
  /\ Init /\ [][Next]_vars
  /\ WF_vars((Finish \/ Skip) /\ UNCHANGED cdvars) /\ WF_vars(DeviceStep /\ UNCHANGED cdvars)
  /\ WF_vars(PlayerStep) /\ WF_vars(CmdWaits)

-----------------------------------------------------------------------------
TypeOK ==
  /\ SoundTypeOK /\ cdda_play \in {-1, 0, 1} /\ thread_active \in BOOLEAN /\ cdda_paused \in BOOLEAN
  /\ cd_audio_mode_changed \in BOOLEAN /\ restart \in BOOLEAN /\ lost \in BOOLEAN
  /\ revived \in BOOLEAN
  /\ cmd \in {"idle", "stopwait", "playwait", "start", "go", "gowait"}
  /\ th \in {"dead", "born", "await", "loop", "ready", "fill", "put", "count", "catchup", "paused",
              "turn", "end", "exit"}
  /\ oldplay \in {-1, 1} /\ left \in 0..PerPlay

\* What the player puts in the CD's ring is played before its place is filled again, although
\* it waits for the device only between two plays.
CdKept == raced \/ (sound_thread_active => cdfilled \in 0..(CDAUDIO_BUFFERS - 1))

\* A play command leaves a thread that plays, unless it met one between its last two stores
\* (cdda_play is cleared first and thread_active then): then nobody plays.
PlayHeard == TypeOK /\ (cdda_play > 0 /\ cmd = "idle" => lost \/ th \notin {"dead", "exit"})

\* Stop and play come back, unless the thread, starting anew for another sound mode, has
\* overwritten what they told it.
CommandsReturn == cmd # "idle" ~> (cmd = "idle" \/ revived)
=============================================================================
