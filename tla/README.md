# A TLA+ verification of uae4arm

uae4arm is an Amiga emulator: one *emulator thread* runs the 68k CPU and the custom chips
against an emulated clock, and around a dozen kinds of *host threads* do what would make that
thread wait: file systems, hard files, SCSI, CD-ROM, sound, rendering, native functions. The
parts of it that are hard to test are of two kinds, and this project models both:

* **hand-overs between host threads** (who may touch what, who wakes whom, and what a reset or
  an abort in the middle leaves behind), and
* **work put off** (chips that are not stepped but brought up to date when someone looks, timers
  set to the next thing that can happen, interrupts asked for once for several causes).

Sources are named relative to `src/src/`. All modules are plain TLA+; every definition that
models code is listed with its lines in `PROJECT.json` under `map`. Nothing here was written
from documentation: where a comment and the code disagree, the module follows the code. One
such disagreement is exhibited by a run (`lost_reply`); the others are listed in section 6 with
the property that leaves their case out.

## 1. Inventory

### 1.1 Parts, their state, operations and what makes them correct

| part | source | state | operations | correct when |
|---|---|---|---|---|
| inter-thread pipe | `include/commpipe.h` | ring, two cursors, two waiting flags, three semaphores | write (locked and unlocked path), blocking read | a bounded FIFO; no overwrite of unread slots; no lost wake-up; whole messages always arrive |
| extended traps | `traps.cpp` | `current_context`, `trap_mutex`, a context with two semaphores per trap | trap, 68k call from a handler, its return, end of trap | one thread owns the registers; nested calls get their own frame and result; the emulator always resumes |
| host-to-Amiga requests | `native2amiga.cpp`, `filesys.cpp` 5749-5884, `filesys.asm` 586-662 | pending pipe, `uae_int_requested`, `singlethread_int_sem`, static `unit_no`, the place of `exter_task` | write command, request interrupt, find next work, perform it, reset | a command is performed though requests coalesce |
| host filesystem, packets | `filesys.cpp`, `filesys.asm` 1690-1845 | per unit `cmds_sent`, `cmds_acked`, `cmds_complete`, pipe, thread, handler task with its list; per packet a mark | hand over, put off, process, keep, time out, mark, walk the list, reply, reset | one reply per packet, after the host is done with it; the dummy message is never put twice; the pipe is never full |
| host filesystem, record locks | `filesys.cpp` 3516-3696 | `waitingrecords`, records of a key | lock, release, time out | no two overlapping exclusive records; no waiter forgotten |
| host filesystem, objects | `filesys.cpp`, `fsdb*.cpp` | a_inodes, keys, exall buffers | locate, lock, rename, delete, recycle | no a_inode recycled while referred to |
| event scheduler | `events.cpp`, `include/events.h` | `currcycle`, `nextevent`, `eventtab`, `eventtab2`, statics of `MISC_handler` | do_cycles (two forms), request, move and remove an event | no event overtaken by the clock, even when requested inside a handler; lines keep coming |
| CIA timers, serial, ICR | `cia.cpp` | counters as of the last update, start delays, shift counters, ICR/mask | update, compute next event, register access | indistinguishable from a CIA that counts every E clock |
| CIA-B TOD | `cia.cpp` 427-577, 796-817, 1100-1126 | TOD, alarm, latch, pulse state | start of line, count late, look, event | each line counts once; no stale or torn read; no alarm missed |
| keyboard | `keybuf.cpp`, `cia.cpp` 473-484, 544-597, 937-946 | ring of keys, `kbstate`, `kbcode`, `kblostsynccnt` | key, send, acknowledge, send again, reset | every accepted key gets to the program once and in order |
| interrupts | `custom.cpp` 4279-4385, `newcpu.cpp` 1744-1761, 2255-2267, 2330-2442 | INTREQ, INTENA, lines of CIA and host, special flags, latched and sampled levels, delayed calls of `doint` | set/clear, SR write, STOP, accept | no level forgotten on its way to the CPU, none entered that is stale, host requests served |
| blitter | `blitter.cpp`, `custom.cpp` | `blit_main`, `blit_pending`, `blit_finald`, `blit_interrupt`, the event, the Copper's wait | BLTSIZE, other registers, DMACON, event, cycle, forced finish, reset | idle means done; one interrupt a blit; the Copper is woken |
| Copper, disk, audio, sprites, bitplanes | `custom.cpp`, `disk.cpp`, `audio.cpp` | DMA state machines | slot, register write, event | DMA finishes once and raises its interrupt |
| uaehf.device | `hardfile.cpp` | request table, one thread and pipe per unit, `change_sem` | open, close, beginio, abortio, reset, run | each request answered with its own result; one thread of a unit at work |
| uaescsi.device | `scsiemul.cpp` | the same scheme, other reset | the same | the same |
| IDE, Gayle, PCMCIA | `ide.cpp`, `gayle.cpp` | task file, request thread | command, data, interrupt | one interrupt per command phase |
| CD image, CD audio | `blkdev_cdimage.cpp` | `cdda_play`, `thread_active`, `cdda_paused`, player thread, unpack thread | play, stop, pause, fill, catch up | a play command is heard, a stop comes back; buffers not written while played |
| Akiko, CDTV | `akiko.cpp`, `cdtv.cpp` | command and response DMA, sector buffers, a thread | command, sector, response | responses in order; a sector buffer has one owner |
| native code, bsdsocket | `uaenative.cpp`, `bsdsocket*.cpp` | one thread per library or opener | call, wait, signal, abort | a wait ends with its own call's result |
| sound output | `sounddep/sound_sdl.cpp` | `wrcnt`, `rdcnt` and their CD twins, no lock | finish a buffer, skip, copy, count, reset | the device copies finished buffers only |
| display | `drawing.cpp`, `osdep/raspi_gfx.cpp` | render and display threads | draw, swap | a frame has one owner |
| life cycle, saved states | `main.cpp`, `savestate.cpp` | quit flags, sections | start, reset, pause, quit, save, restore | what is restored is what was saved |
| CPU, JIT, memory, Autoconfig, RTG, archives, GUI, configuration | `newcpu.cpp`, `compemu*`, `memory.cpp`, ... | | | not modelled, section 7 |

### 1.2 How they interact

The emulator thread calls `do_cycles` after each instruction; `do_cycles` runs the handlers of
due events, which call the chips; the chips ask for further events and for interrupts. 68k code
reaches host code by traps: simple ones run on the emulator thread, *extended* ones on a thread
of their own that may call back into 68k code. Host threads get their work through pipes and
give results back by (a) writing into emulated memory and (b) asking for an interrupt with
`do_uae_int_requested`, whose server wakes `exter_task` (`filesys.asm`), which calls
`exter_int_helper` until it finds no more work.
Resets stop the threads with a message in their pipe and a semaphore.

```
 68k code --trap--> ExtendedTraps <--semaphores--> trap threads
    |  ^                                               | write
    |  +------ EXTER interrupt <--- native2amiga_pending (CommPipe)
    |                 ExterInt                          ^
    +-- packet --> unit_pipe (CommPipe) --> filesys_thread
    +-- beginio -> requests  (CommPipe) --> hardfile_thread      HardfileIO
 do_cycles -> Events -> CIA_handler, CIAB_tod_inc_event          CiaTimers, CiaTod
                     -> blitter_handler, delayed doint           Blitter, Interrupts
 host keys -> keybuf -> check_keyboard -> CIA-A's serial port    Keyboard
 chips, CIA, host requests -> INTREQ -> doint -> do_specialties  Interrupts
 play, stop -> player thread -> CD ring --+                      CdAudio
 emulated sound -> finish_sound_buffer ---+-> device thread      SoundOutput
```

### 1.3 What is hard

`PROJECT.json` lists the hazards with their lines. In short: unlocked fast paths (`commpipe.h`
79), one global for all contexts (`traps.cpp` 271), counters written by two threads in an order
that matters (`filesys.cpp` 6048-6053), tables written by the emulator thread without the lock
the other thread holds (`hardfile.cpp` 1843), threads stopped by a message while being restarted
(`hardfile.cpp` 1967), re-entrant event walks on a wrapping clock (`events.cpp` 137), counters
that are right only if every path brings them up to date (`cia.cpp` 212, 515), a CPU that is told
of an interrupt in four ways (`newcpu.cpp` 2255), counters two threads write without a lock
(`sound_sdl.cpp` 280), two stores with a command between them (`blkdev_cdimage.cpp` 653), a blit
that is done before its last word is written (`blitter.cpp` 224).

## 2. Modules

| module | models | state and actions against the code |
|---|---|---|
| `CommPipe` | `write_comm_pipe_pt`, `read_comm_pipe_pt_blocking` | the ring, cursors, flags and semaphores under their names; `wpc`, `rpc` are the places in the two functions; one action per shared access, the unlocked path included |
| `BoundedFifo` | abstract: what a pipe's users assume | `CommPipe` implements it (`IsQueue`) |
| `ExtendedTraps` | `traps.cpp` 137-450 | the emulator thread between two instructions (`epc = "run"`) and inside each trap function; each trap thread's place; the 68k registers, a stack per task and exec's task switch (external) |
| `ExterInt` | `filesys.cpp` 3559-3650 and 5749-6260, `native2amiga.cpp`, `rtarea_bget`, `filesys.asm` 586-662 and 1690-1845 | `uae_int_requested` and the pipe; `exter_task` (`expc`) with the statics of `exter_int_helper`; per unit `filesys_thread` (`thpc`), its pipe and the records that wait, and the handler task (`tpc`) with its port, its list (`queue`), the rest of the list it walks (`scan`) and its count of started commands (`d5`); `status` is offset 4 of a packet's message; a reset in two steps. Clients are external |
| `Events` | `events.cpp` | the clock modulo `Mod`, both tables, the statics of `MISC_handler`; `pc` is the innermost function that calls out, and while it calls out any handler call may happen |
| `CiaChip` | register writes common to the next two | |
| `Cia8520` | abstract: CIAs that count at each E clock | |
| `CiaTimers` | `CIA_update_check`, `CIA_calctimers`, register access | timers as of `oldcycles`, the cycles since, the event; implements `Cia8520` (`EveryClockCounted`) with the timers brought up to now as the refinement mapping |
| `CiaTod` | CIA-B's TOD | the registers, the pulse state 0-3, the event; `expected` is a history variable |
| `Keyboard` | `keybuf.cpp`, the keyboard's side of CIA-A | the ring under its names, `kbstate`, `kbcode`, `kblostsynccnt` counted in frames; a code is the number of the key it stands for; the program's handler is external, an action per register access |
| `Interrupts`, `MCInterrupts` | INTREQ and INTENA, `doint`, `do_specialties`, `do_interrupt`, STOP, in four configurations | `pc` is the place of the CPU loop between two looks at `spcflags`; chips and Copper act wherever emulated time passes, the host anywhere; `asked` is a history variable. `MCInterrupts` gives the levels of two lines |
| `Blitter` | `blitter.cpp` without data, BLTSIZE, DMACON and the Copper's wait of `custom.cpp` | `blt` holds `blt_info` and the statics; a blit is a number of words; `owed`, `told` and `clean` are history fields |
| `SoundOutput` | the sound ring and the CD ring of `sound_sdl.cpp` | the counters by their differences; `emu` and `dev` are the places of the two threads, whose reads and writes of `rdcnt` are steps of their own |
| `CdAudio` | commands and player thread of `blkdev_cdimage.cpp`, over `SoundOutput` | `cdda_play`, `thread_active`, `cdda_paused` under their names; `th` and `cmd` are the places of the player and of a command |
| `CommPipe_proofs`, `ExtendedTraps_proofs`, `CiaTod_proofs`, `Keyboard_proofs`, `CdAudio_proofs` | theorems about these modules | section 5 |
| `Timing_proofs`, `CustomChips_proofs`, `HostThreads_proofs` | theorems about `Events` and `CiaTimers`, about `Interrupts` and `Blitter`, about `ExterInt` and `HardfileIO` | section 5; of each pair one names its definitions with a prefix (`TimersInit`, ...), so that one module can extend both |
| `HardfileIO`, `MCHardfile` | a unit of uaehf.device | the request table field by field, the copies on the heap, the pipe, `thread_running`, `change_sem`, `sync_sem`, the place of the emulator thread and of each host thread; requests are I/O or `CMD_ADDCHANGEINT`, which the thread keeps in the table until `CMD_REMCHANGEINT`. `MCHardfile` gives the symmetry of requests, copies and threads |

`HardfileIO` and `ExterInt` use pipes as sequences. That is what `CommPipe`'s refinement of
`BoundedFifo` justifies, for fewer messages under way than the pipe has slots.

`CiaTimers` and `CiaTod` take events to run in the very cycle they are due and before the CPU's
next access; `Interrupts` and `Blitter` take them to run some time. That is what `Events` shows
(`Armed`, `Fires`). `Keyboard` takes its flag in `ciaaicr` to get to the program by the line that
`Interrupts` models, and `CdAudio` is composed with `SoundOutput`, whose ring it fills.

## 3. Runs

Each property has a mutant in `PROJECT.json`: a plausible bug of a mapped definition under which
TLC finds the property violated.

| run | instance | shows |
|---|---|---|
| `pipe` | 4 slots, chunks of 2, messages of 4, 12 items | bounded FIFO by refinement, no overwrite, no lost wake-up, delivery |
| `traps` | 2 tasks, 3 contexts, 2 calls each, stack depth 2 | one owner, no deadlock, own frame and own result, no use after free, the emulator resumes |
| `exter` | 1 unit, 3 packets, 2 started commands at most, 1 native command besides time-outs, 1 reset (5,609,124 states) | dummy message put once, one holder of a packet, the limit on started commands; no command, packet or time-out forgotten |
| `events` | clock modulo 4, hsync + misc + one source, 3 one-shot entries, delays up to 2, instructions up to 2 cycles | nothing overtaken, nothing late; one-shots fire; lines come |
| `cia_timers` | both CIAs, bytes of 2 values, 2 cycles per E clock, 2 register writes, serial output of A | refinement of `Cia8520`; held interrupts |
| `cia_tod` | bytes of 2 values, line of 3 color clocks of 3 cycles, pulse at 2 | each line counts once, current and untorn reads, no alarm missed |
| `hardfile` | 2 requests, 2 copies, 2 threads, 2 table entries, 2 opens between resets, I/O and change interrupts (1,951,274 states) | one thread at work, results kept |
| `interrupts` | 2 lines, levels 2 and 3, masks 0, 2 and 3, all 4 configurations, 1 delayed `doint` at a time (653,610 states) | no level forgotten, none entered that is stale; open interrupts are taken, host requests served |
| `keyboard` | ring of 3 places, which holds two keys, 2 frames until a code is sent again, 4 keys, 1 reset | keys once and in order; every accepted key arrives |
| `cd_audio` | sound ring of 6 buffers, skips above 2, buffers of 2 parts, one buffer finished during a call of the device's, one torn count, CD ring of 3 (1,037,522 states) | finished buffers only; the CD ring kept; a play heard; stop and play return |
| `blitter` | blits of 3 words, 4 kinds, event, immediate and exact blitter, both chip sets | idle means done, one interrupt, the Copper goes on |
| `lost_reply` | 1 unit, 2 packets | section 6 |

### Bounds, and why they are enough

* `pipe`: the writer wraps the ring three times and messages are longer than the ring has room,
  so that full, empty, wrapped, chunk-woken and message-woken all occur. The safety part is
  proved for all sizes.
* `traps`: three contexts allow a trap inside a handler's 68k call and a third from another task;
  two calls per handler show results of the first confused with the second.
* `exter`: with two started commands and three packets one is put off, two complete out of order, one
  may wait for a record while another releases it or its time is up, and the native command comes
  before, between and after the messages. One unit: what a second adds is the walk over the units, which
  the proof covers for any number (its invariant was also checked by TLC with two). The reset may come in each place.
* `events`: `MaxDelay` < `Mod - 1` is the program's own condition (no event is asked for 2^32
  cycles ahead); 4 is the least modulus with a delay of more than one cycle.
* `cia_timers`: with bytes of two values a timer counts from 0 to 3, reaches its underflow with
  and without its start delay and reloads from another latch. `MaxElapsed` = 14 cycles is more
  than any event is ahead, so that the event always comes first; vertical blanks come at any time.
* `cia_tod`: TOD has 8 values; all alarms, all writes in any order.
* `hardfile`: two requests meet in the table, one kept beside one under way; a second open after the
  last close, or after a reset, starts a second thread beside one that has not left. Once that has happened the
  unit is not reset any more (`crowded`), as a reset ends one thread only. Two copies bound the requests posted at
  once, leaked ones included.
* `interrupts`: PORTS and a line above it, so that one interrupts the other; a mask below, between
  and at them. A second delayed `doint` finds what the first finds. The proof has no such bounds.
* `keyboard`: four keys over two places wrap the ring; two frames let a code be sent again in each
  place of the handler; the reset may come in each. The proof has no such bounds.
* `cd_audio`: the smallest ring that `SoundAssumption` allows with one torn count; `Old` is what a
  thread may store after a reset. The proof is for all sizes that leave the room `SoundAssumption`
  asks for. The program's own (16 buffers, skips above 8; a CD ring of 32 with a margin of 10) leave
  it for a device that stalls for 6 buffers' time, or for 3 and one torn count.
* `blitter`: the first, a middle and the last word; BLTSIZE may be written in each state.

`CHECK_DEADLOCK FALSE` stands in `pipe`, `exter` and `lost_reply`, whose bounded traffic ends
with everyone asleep, and in `hardfile`, where an abort may hang (section 6); everywhere else TLC also finds that the system never stops.

### Model simplifications that a reader should know

* All modules assume sequential consistency. `commpipe.h` has no barriers besides its semaphores
  on its unlocked path, so the result holds on hardware as far as `volatile` and the semaphores
  give that order.
* `Events`: handlers do not call `do_cycles`; a request with t <= 0, which calls the handler at
  once, is the handler's call itself; the JIT's `pissoff = -1` is left out; a request that finds
  no free entry is dropped, as the code does (a hazard without a property).
* `CiaTimers`: timers whose input is the CNT pin stand still; the ICR delay of the cycle-exact
  mode is left out.
* `CiaTod`: the pulse's place is within the line, as for all standard screen modes (18 + 70 of 227
  color clocks; a programmed `hsstop` may put it outside). The alarm at 0 is kept from code outside
  the ROM, as `cia.cpp` 453 does; the comment above it says the opposite.
* `HardfileIO`: the other quick commands run at once on the emulator thread and are left out; so are
  `CMD_REMOVE` and the raising of the interrupts that were added. `CMD_REMCHANGEINT` comes only for a request
  that has been kept, and the last close only when all requests are back: the program's part.
* `Interrupts`: level 7 is no chip's; the delays of single sources in the cycle-exact mode
  (`INTREQ_f`) and the routine that serves an interrupt are left out: the program may write any
  register at any instruction.
* `Keyboard`: key codes are numbered, what the program does with one is left out; the 16 lines
  between two looks at the ring are not counted. `Exact` and `Delivered` except a code that was sent
  again while the handler was at work on it (`late`): its acknowledgement then frees the register
  for the next key too early.
* `SoundOutput`: stereo at 44100 Hz, a device that takes CD audio. A reset that meets a thread
  between a read and a write of a counter (`raced`) is excepted from `CopiesFinished` and `CdKept`:
  the counter is then off by what the thread stores, until the next reset.
* `Blitter`: what is claimed is of blits begun with nothing under way (`clean`); section 6 says what
  happens to others. No data, no bus slots: a DMA cycle comes some time.
* `ExterInt`: a native command is one item, read whole. In the code it is several items, and a
  helper that meets half of one waits for the rest on the emulator thread; nor is the pipe of commands
  ever full, where a command written by the emulator thread itself would wait for itself. A reset ends each
  thread in one step, whatever it has in hand (hazard). The locks that travel with packets, notification
  messages and disk changes are left out. `written`, `asked` and `done` count commands for `NativeHeard`.
* `ExterInt` says "nobody is forgotten" by invariants (`NativeHeard`, `OwedIsHeard`, `TimeoutIsHeard`):
  whoever waits has a request, a message, a signal or a walk under way for it, at every step. They are
  stronger than liveness in what they forbid, can be proved, and hold across resets, where liveness does
  not: a reset that finds `exter_task` between two calls leaves `singlethread_int_sem` taken, each later
  call asks for the next interrupt (`HelperBusy`), and nothing is ever performed again (hazard).

## 4. Fairness

* `pipe`: weak fairness of both threads' steps. A step that waits for a semaphore is fair once it
  stays possible; only one peer takes each semaphore, and `lock` has two.
* `traps`: weak fairness of the emulator inside a trap function and of each trap thread. None for
  68k code: the scheduler of the emulated system may starve a task for ever.
* `lost_reply`: weak fairness of the threads that have begun a packet or a request, of frames, of the
  interrupt (the emulated machine takes interrupts), of `exter_task` and of each handler task. No client
  has to send. `exter` and `hardfile` check safety only.
* `events`: weak fairness of the walks over the tables, strong fairness of the clock (in the
  fastest mode it is stopped while the host's time is not yet up, again and again) and of the
  handlers' returns (they may ask for any number of events first, but do return).
* `interrupts`: weak fairness of the CPU loop, which always goes on; strong fairness of an event
  that is due and of the line's look at host requests, which can act only where emulated time
  passes, and that place the loop leaves and comes back to.
* `keyboard`: weak fairness of `check_keyboard` and of the vertical blank, which lines and frames
  bring; the program enables the interrupt some time and its handler goes on; strong fairness of its
  reading the flag, since somebody else may read it, but not always first.
* `cd_audio`: weak fairness of the emulator's, the device's and the player's threads and of a
  command that waits. Nobody has to give one.
* `blitter`: weak fairness of the blit's event, of DMA cycles (some of each line are free for the
  blitter) and of the Copper's wake-up, an event too. The CPU and DMACON owe nothing, which is why
  `CopperGoesOn` excepts a DMA that is off.

## 5. What is proved

`CommPipe_proofs` proves, with TLAPS, for every ring size, chunk size below it, message length
and number of items (`PipeAssumption`, the relation that every `init_comm_pipe` call has):

| theorem | statement |
|---|---|
| `Inductive` | `Spec => []IInv` |
| `TypeCorrect` | `Spec => []TypeOK`: no semaphore counts beyond one |
| `StreamPreserved` | `Spec => []Fifo`: what is read is what was written, in order |
| `NeverOverwrites` | `Spec => []NoOverwrite` |
| `WakeupsKept` | `Spec => []NoLostWakeup` |
| `Refinement` | `Spec => IsQueue`: the pipe implements `BoundedFifo` |

None of the properties is inductive. `IInv` adds: the cursors are the two counts modulo `Size`
(`Cursors`) and the unread items are in the ring (`Content`), from which the stream follows; who
holds the lock (`Mutex`), and that the unlocked path runs only while the reader is parked and has
fewer than `Chunks` < `Size` items before it (`Unlocked`, `Parked`), from which follows that this
path needs no test for a full ring; and that a writer that was woken is woken to room and a
reader to an item (`Room`, `Avail`), from which follows that neither needs to test again. The
arithmetic of the cursors is in lemmas on `%` (`SuccMod`, `ModAdd`, `ModDistinct`) from which the
prover sees that two unread items never share a slot. `Writer` and `Reader` preserve `IInv` by a
step per action; the refinement maps publishing to `Put`, taking to `Take`, the rest to stutters.

`ExtendedTraps_proofs` proves, for any numbers of tasks, contexts, calls per handler and any
depth of the stacks (`TrapAssumption`), every safety property of `ExtendedTraps`:

| theorem | statement |
|---|---|
| `HandOver` | `Spec => []IInv` |
| `TypeCorrect` | `Spec => []TypeOK`: the contexts' semaphores and `trap_mutex` never count beyond one, no 68k stack underflows |
| `RegistersOwned` | `Spec => []OneOwner` |
| `MutexFree` | `Spec => []NeverContended` |
| `FrameKept` | `Spec => []OwnFrame` |
| `ResultKept` | `Spec => []OwnResult` |
| `ContextsLive` | `Spec => []NoUseAfterFree` |

The invariant rests on one notion: at any time at most one context is *active* (the emulator
thread waits for its thread, was just called by it, or ends it), and `Phase` says by the emulator
thread's place where the active thread is, which semaphore is posted and who holds `trap_mutex`.
`Others`: every other live context waits in a 68k call with both semaphores at zero. `Stacks` and
`Saved` tie the contexts that wait to the 68k stacks in both directions: what is at depth *k* of
a task's stack is a live, waiting context whose trap was taken by that task at depth *k* - 1, and
each waiting context is on the stack its saved registers name; so a return finds its own context
however many tasks trapped meanwhile. `Frames` says which function a task runs, also one that is
switched out, and `Results` that it is the one the innermost waiting context called. Each action
has a lemma; steps that leave registers and stacks alone share `Undisturbed`, steps of a handler
that hands the registers back share `HandedBack`.

`HostThreads_proofs` proves every property of the run `exter`, for any numbers of units, packets,
commands and resets and any limit on started commands (`ExterAssumption`), and both properties of `hardfile`, for any
requests, threads, opens and table (`HardfileAssumption`):

| theorem | statement |
|---|---|
| `MessageOnce` | `Spec => []DummyOnce` |
| `HeldOnce` | `Spec => []OneHolder` |
| `PipeNotFull` | `Spec => []PipeLimit` |
| `CommandsHeard`, `PacketsHeard`, `TimeoutsHeard` | `Spec => []NativeHeard`, `[]OwedIsHeard`, `[]TimeoutIsHeard` |
| `OneThreadWorks` | `HardfileSpec => []OneWorks` |
| `ResultsKept` | `HardfileSpec => ResultKept` |

The invariant `IInv` of `ExterInt` accounts for each packet by its status (`PacketInv`): it is in one of the
port, the task's list and the replies, the host has it exactly while it is `"handed"`, and one that is in transit
between `filesys_handler`'s return and the list is at the head of the port. Packets end in any order and in three ways, so the
limit is a matter of counting: `d5` is the size of the set of packets in the list that were started
(`StartedSet`), what the thread has (`Load`) is the size of the set of those still handed over
(`HandedSet`), and the second is within the first but for the one in transit. `TimesConcat`, `TimesRemove` and
their like are the lemmas on how often a message is in a sequence. `DummyInv` and `NativeInv` are the balances of the
dummy message and of the native commands, `ResetInv` says that a reset owes nothing until it ends, and the
three "heard" properties are inductive with these: a walk is a promise only for packets it has not passed
(`SameWaits`), and the helper's place only for units it has not passed (`WillReach`).

For `HardfileIO`, `OneWorks` needs beside the types only that a thread that was just started finds a
semaphore to post (`WaitInv`): `change_sem` and the set of threads between its wait and its post (`Working`)
change together. `ResultKept` needs to know who has a request. While the unit has not been crowded its
thread is the only one that has not ended, and a thread that has not yet told of itself is waited for
(`PhaseInv`); then at most one of `beginio`, the pipe and that thread has a request, the owner is the device
as long as one of them has it (`HoldInv`), the thread has done the I/O of what it is about to reply
(`ServeInv`), and what `CMD_REMCHANGEINT` writes into is a kept request that none of them has (`KeptInv`).
Most steps take no request that they did not have (`NothingTaken`), and the four parts are kept by lemmas
of their own (`EmuKeeps`, `ThreadKeeps`); `beginio`, the post to the thread, its read, `CMD_REMCHANGEINT`,
a new thread and the end of a reset have each a lemma that says who has the request next.

The rest prove the central property of their modules, and `Inductive`, the invariant it follows from:

| module | theorem | statement |
|---|---|---|
| `Timing_proofs` | `NoneOvertaken` | `Spec => []Armed` |
| | `TimersInOrder`, `InterruptHeld`, `ClocksCounted` | `TimersSpec => []TimersInv`, `[]Held`, `EveryClockCounted` |
| `CiaTod_proofs` | `PutOffSafely`, `CountsOnce`, `ReadsCurrentTod`, `Announced` | `Spec => []TypeOK`, `EachLineCounts`, `ReadsCurrent`, `AlarmRaised` |
| `Keyboard_proofs` | `NoKeyLost` | `Spec => []Exact` |
| `CustomChips_proofs` | `NeverForgotten`, `NoneStale` | `Spec => []Heeded`, `Spec => []NotStale` |
| | `BlitSound`, `ResultsThere`, `ToldOnce` | `BlitterSpec => []BlitInv`, `[]IdleMeansDone`, `[]OneInterrupt` |
| `CdAudio_proofs` | `OnlyFinished`, `RingKept`, `Heard` | `Spec => []CopiesFinished`, `[]CdKept`, `[]PlayHeard` |

* `NoneOvertaken` holds for any modulus, any tables, delays and instructions that
  `EventsAssumption` allows. The invariant says what each place of `do_cycles` and `MISC_handler`
  owes: `Ahead`, no event is further away than it can be asked for; `Stops`, while the clock moves
  it is stopped at the soonest entry of `eventtab`; `Handled`, in the walk of `eventtab` the entries
  before the index are not due, even if a later handler sets them; `Announced`, outside
  `MISC_handler` `ev_misc` is at the soonest one-shot event or before it; `Walk`, inside it the
  entries behind the index are not due and `mintime` is not beyond them, unless they will be walked
  again; `Places`, one walk at a time runs under `recursive`. The clock wraps: the lemmas `FarIs`,
  `LaterIs` and `Nearer` reduce `%` to one addition or subtraction of the modulus, and `LeastIs`
  gets the least of the distances from the library's fact that the naturals are well-founded.
* `CiaTod_proofs` holds for bytes, lines, color clocks and a pulse's place of any size. `Sound` says
  of the four states of a pulse what TOD is against what is expected, that a pulse with an event has
  it ahead and within the line, and that one that is put off will not reach the alarm; `CheckIs` and
  `LateIs` say what a look at TOD and the end of a line make of it. `ByteSet` is the arithmetic of
  the byte that a write sets, `PulseAhead` that of the clock, whose event comes early (section 6)
  but never late.
* `Keyboard_proofs` holds for any ring, number of keys, of frames and of resets. `Content`: the ring
  holds the last keys accepted, in order; `Handshake`: one code is under way, and the next is taken
  when the handler has ended the handshake of the last, which it has read; `Valid`: what the handler
  may read is a code.
* `NeverForgotten` and `NoneStale` hold for any lines with any levels 1 to 6, any masks and any number of
  delayed calls. `Known`: who makes a level higher than the mask has left a flag or an event, and
  in the configuration that latches levels the latched one is too low only while a `doint` is to
  come; `Fresh`, for `NotStale`: what is latched and sampled was asked for in this instruction or
  the one before. `LevelFacts` and `LevelFalls` say of `intlev` that it is the highest level
  requested and enabled.
* `ResultsThere` and `ToldOnce` hold for blits of any length and any order of register writes, DMA
  cycles, events, forced finishes and resets. `Sound` tells, by the way the blitter works, what a
  blit begun with nothing under way still owes. Exact (`ExactSound`): its words are counted, the
  final D's delay follows them, and the interrupt comes with the last word,
  for a slow CPU, or after the final D. By event or at once (`EventSound`): until its event it has told nobody (`Due`),
  after it all is there and told once, and no event is left (`Over`). `Counted` bounds, for any
  blit at all, how often it can have told.
* The theorems of `CiaTimers` hold for counters and bytes of any size, any E clock, any number of
  accesses in any cycle. `TimersInv`: the event is at the beginning of an E clock and no later than
  the first underflow of a timer that counts clocks (`NoLater`), so that wherever `CIA_update` is
  called from no timer is past its underflow (`NoneYet`), and at the event itself the underflow is in the
  very last E clock, the only one `CIA_update_check` looks at (`ClockNow`). `ClockIs` shows for one
  CIA that bringing it up by *n* + 1 E clocks is bringing it up by *n* and then one `Clock` of
  `Cia8520`, the order of shift, count, carry into timer B and reload included; `UpdateClock` lifts it to
  both CIAs. The refinement maps the cycle that begins an E clock to `EClock`, an access to the same access
  there, a vertical blank and all other cycles to stutters. `TimersInOrder`, `InterruptHeld` and `ClocksCounted`
  assume `"b" \notin SpOut`: CIA-B's serial port as an output counts down CIA-A's shift counter
  (`cia.cpp` 287, section 6), and the refinement is then false. `Lines`, for `Held`: a flag that is enabled
  has raised the line, and Paula's bit is set while it is up.
* `CdAudio_proofs` holds for any rings, margins, delays and chunks with the room the assumptions ask
  for. A count that was torn may undo a skip, and give the emulator back what it had finished since:
  each costs at most `Stall` buffers, so the ring is bounded by the limit of skips plus
  `torn * Stall`, and `SoundAssumption` asks for that much room. For the CD ring, what a play still
  has to put is within the margin; for `PlayHeard`, where each command finds the player.

Only model-checked: liveness (`Delivery`, `EmuResumes`, `Fires`, `LinesCome`, `Delivered`, `Served`,
`HostServed`, `CommandsReturn`, `CopperGoesOn`), which is out of the prover's reach, as is `ENABLED`.
Every invariant and action property of the passing runs is a theorem. No recursive definition is reached by a proved
module.

## 6. Findings

| run | property | what the code does |
|---|---|---|
| `lost_reply` | `MarkedIsReplied` | `filesys_iteration` raises `cmds_sent` before it marks the packet; the interrupt may acknowledge the count and the task scan its list in between, and the reply then waits for the next packet. `OwedIsHeard`, which the passing run checks, says what still holds: while the unit is owed a message its packets are not forgotten |

Disagreements whose properties the passing runs leave out, because the code does not keep them. They
were seen as counterexamples while modelling; each is a hazard in `PROJECT.json` or follows from one.

* CIA-B's serial output decrements CIA-A's shift counter (`cia.cpp` 287).
* Color clocks are given to `event2_newevent_xx`, which takes cycles: TOD's exact increment comes
  early in its line (`cia.cpp` 528, 540).
* A reset leaves `singlethread_int_sem` as it is (`filesys.cpp` 6154 sets back only `filesys_in_interrupt`): taken, if
  it finds `exter_task` between two calls, and then for good.
* Packets beyond a handler's limit of 20 started commands get status 1 and are never started: the walk looks
  for finished ones only (`filesys.asm` 1793-1811). The comments say "we didn't even hand it over yet" (1700) and "We can
  handle an unlimited number of unstarted commands" (1816). `OneHolder` says where they stay; nothing says that they are replied to.
* CIA-B's alarm with TOD and alarm both 0: the comment at `cia.cpp` 448 says that it is not triggered *if* the
  code is Kickstart's, the code (453) leaves it out if it is *not*. `AlarmRaised` is about alarms other than 0.
* uaehf.device. The last close posts a message to stop; a unit reopened before the thread has read it posts
  its next request behind it, which is never processed: an abort of it, or a reset, hangs the emulator
  (`hardfile.cpp` 1967). The thread clears a table entry in several steps (1843): another request may claim it in
  between, and then its copy is freed and its entry cleared under it. `beginio` puts `CMD_ADDCHANGEINT` into the table as
  `ASYNC_REQUEST_TEMP` and the thread makes it `ASYNC_REQUEST_CHANGEINT`, after which an abort need not wait, frees the copy
  and leaves the thread to write the request back from it (2393); `CMD_REMCHANGEINT` before the thread has come that
  far releases an entry that is then added again; a kept request that is aborted is never
  answered (2212, 2392). A thread on its way out posts the next thread's `sync_sem` (2384), so that `hardfile_open` may
  refuse, or start a second thread, of which a reset then ends one. So `HardfileIO` claims neither that a copy outlives its use, nor that
  aborts return, nor that requests are answered.
* A blit started while the final D of the last is pending is ended by it, although the comment at
  `blitter.cpp` 105 says they may overlap; a line of a wrong width that was started with the DMA off stays
  pending; in between `blit_busy` says that a pending blit is not busy.
* `reset_sound` while the device or the player is between a read and a write of a counter leaves the
  counters apart: silence, or old buffers, until the next reset.
* A player that waits in `cdaudio_catchup` for a device that takes no CD audio keeps stop and play
  waiting; a thread that starts anew for another sound mode overwrites their -1
  (`blkdev_cdimage.cpp` 663).

Seen while reading, without a model: `record_check_waiting` lets a waiting packet go without adding
its record; `action_free_record` never advances `prev`; `dev_reset` of `scsiemul.cpp` tests
`d_request[i]` in its loop over `j`; `native2amiga_reset` clears cursors and flags but not the
semaphores; CIA-A's TOD counts a pulse although it was stopped since the pulse was scheduled; saving
and restoring a CIA disagree about its flag byte; a command to a CD unit whose semaphore is taken is
dropped (`blkdev.cpp` 565).

## 7. Not modelled, and why

Data paths (the CPU's instructions, the JIT's code, pixels, samples, MFM, file formats, RTG
drawing) are out of a model checker's reach and hold little control. `cpuemu*`, `compemu*` tables
and blitter functions are generated. guisan, the archivers, tinyxml2, capsimage, ROM images are third-party. GUI and
configuration are sequential parsing. Of the 68k boot ROM the interrupt and the handler loop are in `ExterInt`. These files are
most of the repository's lines.

Who gets a record lock was set aside after a look: the packet that `filesys_iteration` hands to the lock code is
its own variable on the stack, and a record that waits keeps a pointer to it. By the time it is used
the variable holds another packet, so that what a waiter is told depends on packets of every other
kind. `ExterInt` has that packets wait and are released or time out, in any order.

## 8. Plan

The project grows in this order. Modules that use the same hand-over are composed with, or are
instances of, the one that models it, and runs that turn out to ask the same question are merged.

1. Done: `CommPipe`, `ExtendedTraps`, `ExterInt`, `Events`, CIA timers, TOD, `HardfileIO`, `Keyboard`,
   `Interrupts`, `Blitter`, `SoundOutput` with `CdAudio`; proofs about each of them.
2. Host threads left: the handshake that ends the filesystem's threads (as part of `ExterInt` over `CommPipe`),
   `scsiemul` as an instance of the scheme of `HardfileIO` with its own reset, IDE's thread,
   `uaenative`, `bsdsocket`, the CD's unpack thread, render and display.
3. Chips left: the Copper, disk DMA (the double write to DSKLEN, the sync word), Paula's channels,
   Akiko's command protocol.
4. Life cycle: quit, reset and pause; what a saved state keeps of events and CIAs.
