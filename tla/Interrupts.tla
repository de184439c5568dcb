----------------------------- MODULE Interrupts -----------------------------
(***************************************************************************)
(* From a request in INTREQ to the CPU (custom.cpp, newcpu.cpp).  The CPU  *)
(* does not look at INTREQ: doint() tells it to, with a flag in spcflags   *)
(* that do_specialties looks at between two instructions.  Whoever makes a *)
(* level higher than the CPU's mask must therefore have doint called, and  *)
(* do_specialties must not lose the flag.  There are four ways it works,   *)
(* by the configuration:                                                   *)
(*   fast        doint sets DOINT, which becomes INT an instruction later; *)
(*   jit         as fast, and an SR write does not hurry it;               *)
(*   compatible  a request calls doint a colour clock and a half later;    *)
(*   delay       so too, and doint latches the level in ipl_pin, which the *)
(*               CPU samples into ipl in each instruction.                 *)
(* The line PORTS is shared by CIA-A and the native2amiga interrupt, whose *)
(* requests outlast the bit in INTREQ.  Level 7 (NMI) is not requested by  *)
(* a chip and left out; a level of 0 is intlev's -1.                       *)
(***************************************************************************)
EXTENDS Naturals, FiniteSets, FiniteSetsExt

CONSTANTS
  Modes,       \* bound: the configurations looked at
  Bits,        \* the bits of INTREQ, "ports" among them
  Level,       \* the level each asks for
  Masks,       \* bound: the masks the program sets
  MaxDoints    \* bound: delayed calls of doint under way

InterruptsAssumption ==
  /\ Modes \subseteq {"fast", "jit", "compatible", "delay"}
  /\ "ports" \in Bits /\ Level \in [Bits -> 1..6] /\ Masks \subseteq 0..7
  /\ MaxDoints \in Nat \ {0}
ASSUME InterruptsAssumption

Master == "inten"

VARIABLES
  mode,
  intreq, intena,
  cia,                 \* ciaaicr's bit 0x40: CIA-A's interrupt is on
  uae_int_requested,   \* native2amiga's
  doints,              \* events that will call doint
  spcflags,            \* {"INT", "DOINT"}
  stopped, intmask,
  ipl_pin, ipl,        \* used in mode "delay" only
  pc, ret,             \* where the CPU loop is; where do_interrupt goes back to
  asked                \* history: the levels asked for since an instruction ago
devices == <<cia, uae_int_requested>>
cpu == <<stopped, intmask, ipl, pc, ret>>
vars == <<mode, intreq, intena, devices, doints, spcflags, ipl_pin, cpu, asked>>

Delay == mode = "delay"
Compatible == mode \in {"compatible", "delay"}

LevelOf(req, ena) == IF Master \in ena THEN Max({0} \union {Level[b] : b \in req \intersect ena}) ELSE 0
intlev == LevelOf(intreq, intena)

Init ==
  /\ mode \in Modes /\ intreq = {} /\ intena = {} /\ cia = FALSE /\ uae_int_requested = FALSE
  /\ doints = 0 /\ spcflags = {} /\ stopped = FALSE /\ intmask \in Masks
  /\ ipl_pin = 0 /\ ipl = 0 /\ pc = "execute" /\ ret = "finish"
  /\ asked = [before |-> {0}, now |-> {0}]

-----------------------------------------------------------------------------
\* doint(), with INTREQ, INTENA and the mask as they are to be.
doint ==
  /\ ipl_pin' = IF Delay THEN intlev' ELSE ipl_pin
  /\ spcflags' = spcflags \union (IF Delay THEN IF ipl_pin' > intmask' THEN {"INT"} ELSE {}
                                  ELSE IF Compatible THEN {"INT"} ELSE {"DOINT"})

NoDoint == UNCHANGED <<doints, spcflags, ipl_pin>>
doint_delay ==
  IF Compatible
  THEN /\ doints < MaxDoints /\ doints' = doints + 1 /\ UNCHANGED <<spcflags, ipl_pin>>
  ELSE doint /\ UNCHANGED doints

\* INTENA, INTREQ_0: doint is told of bits that are set, not of bits that are cleared.
INTENA(set, b) ==
  /\ intena' = IF set THEN intena \union b ELSE intena \ b
  /\ UNCHANGED intreq
  /\ IF set /\ intena' # intena THEN doint_delay ELSE NoDoint
INTREQ_0(b) == intreq' = intreq \union b /\ UNCHANGED intena /\ doint_delay

\* INTREQ: after any write, devices_rethink has the devices set their bit again.
INTREQ(set, b) ==
  LET written == IF set THEN intreq \union b ELSE intreq \ b
      again == (cia \/ uae_int_requested) /\ "ports" \notin written
  IN /\ intreq' = IF again THEN written \union {"ports"} ELSE written
     /\ UNCHANGED intena
     /\ IF set \/ again THEN doint_delay ELSE NoDoint

\* safe_interrupt_set
SafeInterruptSet == IF "ports" \in intreq THEN UNCHANGED <<intreq, intena>> /\ NoDoint
                    ELSE INTREQ_0({"ports"})

-----------------------------------------------------------------------------
(* While emulated time passes: chips, the Copper, events, scan lines.  The *)
(* host's thread asks at any time.                                         *)

TimePasses == pc \in {"execute", "fetch", "check", "stoptest"} \/ (pc = "entered" /\ Compatible)
Chips(A) == TimePasses /\ UNCHANGED <<mode, cpu>> /\ A

Request == \E b \in Bits : Chips(INTREQ_0({b})) /\ UNCHANGED devices
CiaOn == ~cia /\ cia' = TRUE /\ Chips(SafeInterruptSet) /\ UNCHANGED uae_int_requested
Copper == \E set \in BOOLEAN, b \in Bits : Chips(INTREQ(set, {b})) /\ UNCHANGED devices
DelayedDoint ==
  /\ doints > 0 /\ doints' = doints - 1 /\ UNCHANGED <<intreq, intena, devices>>
  /\ Chips(doint)
\* hsync_handler_post: rethink_uae_int.
\* Mutant: it looks at the requests of level 6 only, of which there are none.
Hsync6 == FALSE /\ Chips(SafeInterruptSet) /\ UNCHANGED devices
Hsync == uae_int_requested /\ Chips(SafeInterruptSet) /\ UNCHANGED devices

HostRequests ==
  /\ ~uae_int_requested /\ uae_int_requested' = TRUE
  /\ UNCHANGED <<mode, intreq, intena, cia, cpu>> /\ NoDoint

-----------------------------------------------------------------------------
(* The CPU.                                                                *)

\* MakeFromSR, which ends in doint_imm if something has changed.
\* Mutant: it tells nobody.
MakeFromSRQuiet(m) == intmask' = m /\ UNCHANGED <<intreq, intena>> /\ NoDoint
MakeFromSR(m) ==
  /\ intmask' = m /\ UNCHANGED <<intreq, intena, doints>>
  /\ IF m = intmask THEN UNCHANGED <<spcflags, ipl_pin>>
     ELSE IF mode = "fast"
          THEN spcflags' = spcflags \union {"DOINT", "INT"} /\ UNCHANGED ipl_pin
          ELSE doint

\* What an instruction does: an SR write (with STOP, or without), a register's, or nothing
\* here.  In mode "delay" it samples ipl_pin: after an SR write, else where its last memory
\* access is, before or after a register's write.
Sampled == IF Delay THEN ipl' = ipl_pin ELSE UNCHANGED ipl
\* Mutant: an SR write does not sample the level again.
WriteSRUnsampled ==
  /\ pc = "execute" /\ \E m \in Masks : MakeFromSR(m)
  /\ stopped' \in BOOLEAN /\ pc' = "check" /\ UNCHANGED <<mode, devices, ipl, ret>>
WriteSR ==
  /\ pc = "execute" /\ \E m \in Masks : MakeFromSR(m)
  /\ stopped' \in BOOLEAN /\ pc' = "fetch" /\ UNCHANGED <<mode, devices, ipl, ret>>

Register ==
  \/ \E set \in BOOLEAN, b \in Bits : INTREQ(set, {b}) /\ UNCHANGED devices
  \/ \E set \in BOOLEAN, b \in Bits \union {Master} : INTENA(set, {b}) /\ UNCHANGED devices
  \/ /\ cia' = FALSE /\ UNCHANGED <<intreq, intena, uae_int_requested>> /\ NoDoint       \* ICR is read
  \/ /\ uae_int_requested' = FALSE /\ UNCHANGED <<intreq, intena, cia>> /\ NoDoint       \* rtarea is read
  \/ UNCHANGED <<intreq, intena, devices>> /\ NoDoint
WriteRegister ==
  /\ pc = "execute" /\ UNCHANGED <<mode, stopped, intmask, ret>> /\ Register
  /\ \/ pc' = "check" /\ Sampled
     \/ pc' = "fetch" /\ UNCHANGED ipl

Fetch ==
  /\ pc = "fetch" /\ pc' = "check" /\ Sampled
  /\ UNCHANGED <<mode, intreq, intena, devices, stopped, intmask, ret>> /\ NoDoint

\* check_uae_int_request
CheckUae ==
  IF uae_int_requested
  THEN intreq' = intreq \union {"ports"} /\ UNCHANGED intena /\ doint
  ELSE UNCHANGED <<intreq, intena, spcflags, ipl_pin>>

\* do_interrupt: Exception sets the mask; there the machine goes on while the frame is
\* pushed.  A level that has come up meanwhile is entered on top, and in the end doint is
\* called for what is left.
Enter(n, l) ==
  /\ stopped' = FALSE /\ intmask' = n /\ pc' = "entered" /\ ret' = l
  /\ UNCHANGED <<intreq, intena, devices, doints, ipl_pin, ipl>>
Entered ==
  /\ pc = "entered"
  /\ IF Compatible /\ intlev > intmask
     THEN Enter(intlev, ret) /\ UNCHANGED <<mode, spcflags>>
     ELSE /\ pc' = ret
          /\ UNCHANGED <<mode, intreq, intena, devices, doints, stopped, intmask, ret>> /\ doint
          /\ (IF Delay THEN ipl' = intlev ELSE UNCHANGED ipl)

\* The end of do_specialties, with flags f: the interrupt, or DOINT becomes INT, and m68k_run
\* goes on to the next instruction.
\* Mutant: DOINT is dropped instead.
FinishDrops(f) ==
  /\ spcflags' = f \ {"DOINT"} /\ pc' = "execute"
  /\ (IF Delay THEN ipl' = ipl_pin ELSE UNCHANGED ipl)
  /\ UNCHANGED <<intreq, intena, devices, doints, ipl_pin, stopped, intmask, ret>>
Finish(f) ==
  /\ spcflags' = (IF "DOINT" \in f THEN (f \ {"DOINT"}) \union {"INT"} ELSE f) /\ pc' = "execute"
  /\ (IF Delay THEN ipl' = ipl_pin ELSE UNCHANGED ipl)
  /\ UNCHANGED <<intreq, intena, devices, doints, ipl_pin, stopped, intmask, ret>>

Interrupt ==
  IF Delay
  THEN IF ipl > intmask THEN Enter(ipl, "finish") /\ spcflags' = spcflags \ {"INT"}
       ELSE Finish(spcflags)
  ELSE IF "INT" \in spcflags
       THEN IF intlev > intmask THEN Enter(intlev, "finish") /\ spcflags' = {} ELSE Finish({})
       ELSE Finish(spcflags)

\* After an instruction; only the translated code looks for the host's request here.
Poll ==
  /\ pc = "check" /\ mode = "jit" /\ pc' = "special"
  /\ UNCHANGED <<mode, devices, doints, stopped, intmask, ipl, ret>> /\ CheckUae
Special ==
  /\ pc = IF mode = "jit" THEN "special" ELSE "check"
  /\ UNCHANGED mode
  /\ \/ stopped /\ pc' = "stop"
        /\ UNCHANGED <<intreq, intena, devices, stopped, intmask, ipl, ret>> /\ NoDoint
     \/ ~stopped /\ (IF spcflags = {} THEN Finish({}) ELSE Interrupt)

\* The loop of a stopped CPU; once it is let go, do_specialties goes on to its end.
StopPoll ==
  /\ pc = "stop" /\ pc' = "stoptest"
  /\ UNCHANGED <<mode, devices, doints, stopped, intmask, ipl, ret>> /\ CheckUae
StopTest ==
  /\ pc = "stoptest" /\ UNCHANGED mode
  /\ LET n == IF Delay THEN ipl_pin ELSE IF spcflags # {} THEN intlev ELSE 0
         left == IF Delay THEN spcflags \ {"INT"} ELSE {}
     IN /\ spcflags' = left
        /\ IF n > intmask
           THEN /\ stopped' = FALSE /\ intmask' = n /\ pc' = "entered" /\ ret' = "resume"
                /\ (IF Delay THEN ipl' = ipl_pin ELSE UNCHANGED ipl)
           ELSE pc' = "stop" /\ UNCHANGED <<stopped, intmask, ret>>
                /\ (IF Delay THEN ipl' = ipl_pin ELSE UNCHANGED ipl)
  /\ UNCHANGED <<intreq, intena, devices, doints, ipl_pin>>
Resume == pc = "resume" /\ Interrupt /\ UNCHANGED mode

End == pc = "finish" /\ Finish(spcflags) /\ UNCHANGED mode

CpuStep == WriteSR \/ WriteRegister \/ Fetch \/ Entered \/ Poll \/ Special \/ StopPoll \/ StopTest
           \/ Resume \/ End

\* The levels asked for since the last instruction but one, for mode "delay".
Remember ==
  asked' = IF ~Delay THEN asked
           ELSE IF pc' # pc /\ (pc' = "execute" \/ (pc = "stoptest" /\ pc' = "stop"))
                THEN [before |-> asked.now, now |-> {intlev'}]
           ELSE [asked EXCEPT !.now = @ \union {intlev'}]

Next == (Request \/ CiaOn \/ Copper \/ DelayedDoint \/ Hsync \/ HostRequests \/ CpuStep) /\ Remember

\* The CPU loop goes on, an event comes in its time, and scan lines go by while it does.
Fairness ==
  WF_vars(CpuStep /\ Remember) /\ SF_vars(DelayedDoint /\ Remember) /\ SF_vars(Hsync /\ Remember)
Spec == Init /\ [][Next]_vars /\ Fairness

-----------------------------------------------------------------------------
TypeOK ==
  /\ mode \in Modes /\ intreq \subseteq Bits /\ intena \subseteq Bits \union {Master}
  /\ cia \in BOOLEAN /\ uae_int_requested \in BOOLEAN /\ doints \in 0..MaxDoints
  /\ spcflags \subseteq {"INT", "DOINT"} /\ stopped \in BOOLEAN /\ intmask \in 0..7
  /\ ipl_pin \in 0..6 /\ ipl \in 0..6 /\ ret \in {"finish", "resume"}
  /\ pc \in {"execute", "fetch", "check", "special", "entered", "stop", "stoptest", "resume", "finish"}

Wanted == intlev > intmask
\* A level that the CPU should take is never forgotten: do_specialties has been told of it, or
\* will be, by an event or at the end of do_interrupt.
Heeded == TypeOK /\ (Wanted => spcflags # {} \/ doints > 0 \/ pc = "entered")

\* The level latched on the way to the CPU is not an old one: an interrupt that is entered
\* was asked for in this instruction or in the one before.
NotStale == Delay /\ pc = "entered" => intmask \in asked.before \union asked.now

\* An interrupt the program leaves open is taken: it does not wait for ever at a mask
\* lower than its level.
Served == []<>~Wanted

\* So is one that host code asks for, though it comes to INTREQ only by way of a scan line, a
\* stopped CPU, the end of a translated block, or another device.
HostServed ==
  []<>~(uae_int_requested /\ {Master, "ports"} \subseteq intena /\ intmask < Level["ports"])
=============================================================================
