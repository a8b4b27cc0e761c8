----------------------------- MODULE EventLoop ------------------------------
(***************************************************************************)
(* The event loop of a core and how the core idles.                        *)
(***************************************************************************)
EXTENDS Integers, TLAPS

(***************************************************************************)
(* kernel/bare cpu.rs and lib.rs: how a core sleeps and what wakes it.     *)
(*                                                                         *)
(* A core has one latched interrupt (the wake IPI / SGI, or a device's)    *)
(* and a flag that says whether it takes interrupts.  A running core with  *)
(* the flag up takes a latched interrupt at once and its handler does      *)
(* nothing but return: the latch is then empty.                            *)
(***************************************************************************)
CONSTANTS NumCores,   \* percpu::num_cores()
          Platforms   \* what the image may be built for and boot on

\* An architecture (without the hvf,yield register), and whether the NIC has an
\* interrupt to idle on.
ASSUME CoresAssumption == NumCores \in Nat \ {0}
ASSUME PlatformsAssumption ==
  Platforms \subseteq [arch : {"x86_64", "aarch64"}, irqIdle : BOOLEAN]

\* Platforms to check: one whose NIC has an interrupt and one whose has none.
IrqOnly == {[arch |-> "aarch64", irqIdle |-> TRUE]}
Both == IrqOnly \cup {[arch |-> "x86_64", irqIdle |-> FALSE]}

VARIABLES platform,  \* the platform of this behaviour, which never changes
          irqOn,     \* irqOn[c]: the core takes interrupts (IF set, DAIF.I clear)
          latched    \* latched[c]: an interrupt for the core is pending

cpu == <<platform, irqOn, latched>>

Cores == 0 .. NumCores - 1
BSP == 0
APs == Cores \ {BSP}
Arch == platform.arch

\* Every AP runs `sti` or `msr daifclr` before its event loop.  Core 0 unmasks
\* on aarch64 only: on x86_64 it first does so inside a bounded sleep.
CpuInit ==
  /\ platform \in Platforms
  /\ irqOn = [c \in Cores |-> c # BSP \/ Arch = "aarch64"]
  /\ latched = [c \in Cores |-> FALSE]

\* send_ipi / send_sgi_to
Ipi(C) ==
  /\ latched' = [c \in Cores |-> latched[c] \/ c \in C]
  /\ UNCHANGED <<platform, irqOn>>

\* The running core takes the interrupt and returns from the handler.
Take(c) ==
  /\ irqOn[c] /\ latched[c]
  /\ latched' = [latched EXCEPT ![c] = FALSE]
  /\ UNCHANGED <<platform, irqOn>>

\* The sleep of idle_unbounded ends.  WFI ends on a pending interrupt whether
\* or not it is masked; HLT ends only when the core takes one.
WakesUnbounded(c) == latched[c] /\ (Arch = "x86_64" => irqOn[c])

EndUnbounded(c) ==
  /\ WakesUnbounded(c)
  /\ latched' = [latched EXCEPT ![c] = FALSE]
  /\ UNCHANGED <<platform, irqOn>>

\* idle_bounded and idle_until_cycles: `sti; hlt; cli` with the one-shot timer
\* armed, or WFI with the virtual timer armed.  `sti` takes effect after HLT
\* has begun, so no interrupt slips in between.  Either an interrupt or the
\* timer ends the sleep, and on x86_64 the core goes on with interrupts masked.
EndBounded(c) ==
  /\ latched' = [latched EXCEPT ![c] = FALSE]
  /\ irqOn' = [irqOn EXCEPT ![c] = Arch = "aarch64"]
  /\ UNCHANGED platform

CpuTypeOK ==
  /\ platform \in Platforms
  /\ irqOn \in [Cores -> BOOLEAN]
  /\ latched \in [Cores -> BOOLEAN]

-----------------------------------------------------------------------------
(***************************************************************************)
(* kernel/bare eventloop.rs with the executor's wake path: every core      *)
(* loops over its hooks, goes to sleep when nothing is to be done, is      *)
(* woken by an IPI, and leaves the loop some time after a shutdown was     *)
(* requested.                                                              *)
(*                                                                         *)
(* One step of a core is a stretch of the loop body that no other core can *)
(* see into.  Of the executor only the ready bitmap (one word) and the     *)
(* existence of timers are kept; the task life cycle is TaskArena's.  The  *)
(* counters, the spin window before a sleep and the check of the shutdown  *)
(* flag in every 64th pass only delay a step and are left out.             *)
(***************************************************************************)
CONSTANTS Slots,   \* task slots of one bitmap word
          Aborts   \* whether tasks abort tasks of other cores

ASSUME LoopAssumption == Aborts \in BOOLEAN

VARIABLES pc,        \* where each core is in `run`
          ready,     \* ready[c]: ready bits of the core's arena
          timers,    \* timers[c]: has_timers or the stack's has_armed_timers
          ipiDue,    \* ipiDue[c]: cores that c has marked and is about to IPI
          isReady,   \* READY
          shutdown,  \* SHUTDOWN
          grace      \* grace[c]: the core's drain_deadline

loopVars == <<ready, timers, ipiDue, isReady, shutdown, grace>>
vars == <<cpu, pc, loopVars>>

Init ==
  /\ CpuInit
  /\ pc = [c \in Cores |-> IF c = BSP THEN "top" ELSE "boot"]
  /\ ready = [c \in Cores |-> {}]
  /\ timers = [c \in Cores |-> FALSE]
  /\ ipiDue = [c \in Cores |-> {}]
  /\ isReady = FALSE /\ shutdown = FALSE
  /\ grace = [c \in Cores |-> "unset"]

\* nic::irq_idle_supported()
IrqIdle == platform.irqIdle

Goto(c, p) == pc' = [pc EXCEPT ![c] = p]

\* In its loop body and not in the middle of a wake call.
Running(c, p) == pc[c] = p /\ ipiDue[c] = {}

-----------------------------------------------------------------------------
(* The wait of the APs for set_ready *)

BootCheck(c) ==
  /\ pc[c] = "boot"
  /\ Goto(c, IF isReady \/ shutdown THEN "top" ELSE "boot_halting")
  /\ UNCHANGED <<cpu, loopVars>>

BootHalt(c) ==
  /\ pc[c] = "boot_halting"
  /\ Goto(c, "boot_halted")
  /\ UNCHANGED <<cpu, loopVars>>

BootWake(c) ==
  /\ pc[c] = "boot_halted" /\ EndUnbounded(c)
  /\ Goto(c, "boot")
  /\ UNCHANGED loopVars

\* set_ready, called by the app's init task, which core 0 polls.
SetReady ==
  /\ Running(BSP, "tick") /\ ~isReady
  /\ isReady' = TRUE
  /\ ipiDue' = [ipiDue EXCEPT ![BSP] = APs]
  /\ UNCHANGED <<cpu, pc, ready, timers, shutdown, grace>>

-----------------------------------------------------------------------------
(* The loop body *)

\* The shutdown check at the top: set the drain deadline, keep serving until
\* it has passed, then leave.
Top(c) ==
  /\ pc[c] = "top"
  /\ grace' = IF shutdown /\ grace[c] = "unset"
                THEN [grace EXCEPT ![c] = "running"] ELSE grace
  /\ Goto(c, IF shutdown /\ grace[c] = "over" THEN "left" ELSE "tick")
  /\ UNCHANGED <<cpu, ready, timers, ipiDue, isReady, shutdown>>

\* executor::tick polls what is ready.  The polled tasks may arm or cancel
\* timers, and while they run the core may wake or abort tasks of others.
TickWork(c) ==
  /\ Running(c, "tick") /\ ready[c] # {}
  /\ ready' = [ready EXCEPT ![c] = {}]
  /\ \E b \in BOOLEAN : timers' = [timers EXCEPT ![c] = b]
  /\ Goto(c, "top")
  /\ UNCHANGED <<cpu, ipiDue, isReady, shutdown, grace>>

\* A timer of the wheel expires and wakes its task, inside the same tick.
TickTimer(c) ==
  /\ Running(c, "tick") /\ timers[c]
  /\ \E b \in BOOLEAN : timers' = [timers EXCEPT ![c] = b]
  /\ Goto(c, "top")
  /\ ready' = [ready EXCEPT ![c] = {}]
  /\ UNCHANGED <<cpu, ipiDue, isReady, shutdown, grace>>

TickNothing(c) ==
  /\ Running(c, "tick") /\ ready[c] = {}
  /\ Goto(c, "idle")
  /\ UNCHANGED <<cpu, loopVars>>

\* CHECK_SHUTDOWN sees a request and latches SHUTDOWN.
RequestShutdown(c) ==
  /\ Running(c, "tick") /\ ~shutdown
  /\ shutdown' = TRUE
  /\ UNCHANGED <<cpu, pc, ready, timers, ipiDue, isReady, grace>>

\* Pick the kind of sleep: bounded when has_pending, else what idle_cb picks.
\* A frame that landed in the meantime (NET_REARM_RX, has_pending_rx) makes the
\* core go round again.
HasPendingTasks(c) == ready[c] # {}
HasPending(c) == timers[c] \/ ready[c] # {}

IdleKindHaltAll(c) ==
  IF HasPending(c) \/ ~IrqIdle THEN {"top", "napping"} ELSE {"top", "halting"}
IdleKindNoPolling(c) ==
  IF HasPending(c) \/ c = BSP THEN {"top", "napping"} ELSE {"top", "halting"}
IdleKind(c) ==
  IF HasPending(c) \/ ~IrqIdle \/ c = BSP \/ NumCores <= 1
    THEN {"top", "napping"} ELSE {"top", "halting"}

Idle(c) ==
  /\ pc[c] = "idle"
  /\ \E p \in IdleKind(c) : Goto(c, p)
  /\ UNCHANGED <<cpu, loopVars>>

NapEnd(c) ==
  /\ pc[c] = "napping" /\ EndBounded(c)
  /\ Goto(c, "top")
  /\ UNCHANGED loopVars

Halt(c) ==
  /\ pc[c] = "halting"
  /\ Goto(c, "halted")
  /\ UNCHANGED <<cpu, loopVars>>

HaltEnd(c) ==
  /\ pc[c] = "halted" /\ EndUnbounded(c)
  /\ Goto(c, "top")
  /\ UNCHANGED loopVars

\* An interrupt that arrives while the core runs is taken there and then.
TakeIrq(c) ==
  /\ pc[c] \notin {"napping", "halted", "boot_halted", "off"}
  /\ Take(c)
  /\ UNCHANGED <<pc, loopVars>>

\* A device interrupt: nothing says when, or whether, one comes.
StrayIrq(c) ==
  /\ pc[c] # "off" /\ Ipi({c})
  /\ UNCHANGED <<pc, loopVars>>

-----------------------------------------------------------------------------
(* Calls that polled tasks of core w make on tasks of core c *)

\* waker_wake_by_ref: set the bit, then IPI the worker unless a bit of the word
\* was up already.  The waker of a task is used while the stack is up.
WakeTargets(w, c) == IF ready[c] = {} /\ c # w THEN {c} ELSE {}

Wake(w, c, s) ==
  /\ Running(w, "tick")
  /\ ready' = [ready EXCEPT ![c] = @ \cup {s}]
  /\ ipiDue' = [ipiDue EXCEPT ![w] = WakeTargets(w, c)]
  /\ UNCHANGED <<cpu, pc, timers, isReady, shutdown, grace>>

SendIpi(w) ==
  /\ ipiDue[w] # {} /\ Ipi(ipiDue[w])
  /\ ipiDue' = [ipiDue EXCEPT ![w] = {}]
  /\ UNCHANGED <<pc, ready, timers, isReady, shutdown, grace>>

\* TaskHandle::abort: set the bit, and that is all.
Abort(w, c, s) ==
  /\ Running(w, "tick") /\ Aborts
  /\ ready' = [ready EXCEPT ![c] = @ \cup {s}]
  /\ UNCHANGED <<cpu, pc, timers, ipiDue, isReady, shutdown, grace>>

-----------------------------------------------------------------------------
(* After the loop *)

GraceOver(c) ==
  /\ grace[c] = "running"
  /\ grace' = [grace EXCEPT ![c] = "over"]
  /\ UNCHANGED <<cpu, pc, ready, timers, ipiDue, isReady, shutdown>>

\* ON_SHUTDOWN, on core 0 only: drain_all_arenas and the rest of
\* shutdown_and_drop.
Teardown ==
  /\ pc[BSP] = "left"
  /\ ready' = [c \in Cores |-> {}]
  /\ Goto(BSP, "torn_down")
  /\ UNCHANGED <<cpu, timers, ipiDue, isReady, shutdown, grace>>

\* SYSTEM_OFF or ACPI S5 from core 0 stops the machine.
PowerOff ==
  /\ pc[BSP] = "torn_down"
  /\ pc' = [c \in Cores |-> "off"]
  /\ ready' = [c \in Cores |-> {}]
  /\ UNCHANGED <<cpu, timers, ipiDue, isReady, shutdown, grace>>

\* CPU_OFF, or `cli; hlt` for good.
ApOff(c) ==
  /\ c # BSP /\ pc[c] = "left"
  /\ Goto(c, "off")
  /\ UNCHANGED <<cpu, loopVars>>

-----------------------------------------------------------------------------
CoreStep(c) ==
  \/ BootCheck(c) \/ BootHalt(c) \/ BootWake(c)
  \/ Top(c) \/ TickWork(c) \/ TickTimer(c) \/ TickNothing(c)
  \/ Idle(c) \/ NapEnd(c) \/ Halt(c) \/ HaltEnd(c)
  \/ ApOff(c)
BspStep == Teardown \/ PowerOff
CallStep(w) ==
  \E c \in Cores, s \in Slots : Wake(w, c, s) \/ Abort(w, c, s)

Next ==
  \/ \E c \in Cores :
       \/ CoreStep(c) \/ TakeIrq(c) \/ StrayIrq(c) \/ CallStep(c)
       \/ SendIpi(c) \/ RequestShutdown(c) \/ GraceOver(c)
  \/ SetReady \/ BspStep

Spec == Init /\ [][Next]_vars

\* A core that is not asleep keeps executing, a bounded sleep ends, an IPI that
\* is due is sent, time passes, and the app finishes its init.  No fairness for
\* device interrupts or for what tasks do to each other.
FairSpec ==
  /\ Spec
  /\ \A c \in Cores :
       SF_vars(CoreStep(c)) /\ WF_vars(SendIpi(c)) /\ WF_vars(GraceOver(c))
  /\ WF_vars(BspStep) /\ SF_vars(SetReady)

-----------------------------------------------------------------------------
(* Properties *)

TypeOK ==
  /\ CpuTypeOK
  /\ pc \in [Cores -> {"boot", "boot_halting", "boot_halted", "top", "tick",
                       "idle", "napping", "halting", "halted", "left",
                       "torn_down", "off"}]
  /\ ready \in [Cores -> SUBSET Slots]
  /\ timers \in [Cores -> BOOLEAN]
  /\ ipiDue \in [Cores -> SUBSET Cores]
  /\ isReady \in BOOLEAN /\ shutdown \in BOOLEAN
  /\ grace \in [Cores -> {"unset", "running", "over"}]

InLoop == {"top", "tick", "idle", "napping", "halting", "halted"}

\* Cores that only ever sleep with a timer armed: core 0 by idle_cb's core-0
\* branch, and every core when the NIC has no interrupt to idle on.
BoundedCores == IF IrqIdle /\ NumCores > 1 THEN {BSP} ELSE Cores

\* A task marked ready on such a core, by a wake or by an abort, is served.
BoundedCoreServes ==
  \A c \in Cores :
    (c \in BoundedCores /\ ready[c] # {} /\ pc[c] \in InLoop) ~> (ready[c] = {})

\* A shutdown request powers the machine off, even if every AP sleeps for good.
ShutdownCompletes == shutdown ~> (pc[BSP] = "off")

\* An AP that sleeps without a timer has no timer of its own to wait for:
\* has_pending is evaluated on the core's own state, which nobody else arms.
NoTimerSleptThrough ==
  \A c \in Cores : pc[c] \in {"halting", "halted"} => ~timers[c]

\* "cross-core wakes ... use `wake_worker` after the bit flip -- that IPI
\* guarantees we'll re-enter `tick` after they land" (task.rs).
CrossCoreWakeServed ==
  \A c \in Cores : (pc[c] \in InLoop /\ ready[c] # {}) ~> (ready[c] = {})

-----------------------------------------------------------------------------
(* Proofs *)

\* The cores that always sleep with a timer armed never sleep without one.
NapsOnly == \A c \in BoundedCores : pc[c] \notin {"halting", "halted"}

SleepInv == TypeOK /\ NoTimerSleptThrough /\ NapsOnly

LEMMA SleepInitial == Init => SleepInv
<1> SUFFICES ASSUME Init PROVE SleepInv
  BY Zenon
<1>1. TypeOK
  BY Zenon DEF Init, CpuInit, TypeOK, CpuTypeOK
<1>2. NoTimerSleptThrough /\ NapsOnly
  <2>1. \A c \in Cores : pc[c] \notin {"halting", "halted"}
    BY Zenon DEF Init
  <2>2. BoundedCores \subseteq Cores
    BY CoresAssumption, SMTT(60) DEF BoundedCores, Cores, BSP
  <2> QED BY <2>1, <2>2, Zenon DEF NoTimerSleptThrough, NapsOnly
<1> QED BY <1>1, <1>2, Zenon DEF SleepInv

\* A step that sends no core to an unbounded sleep and arms no timer of one
\* that may be in it.
LEMMA StaysAwake ==
  ASSUME SleepInv, TypeOK', platform' = platform,
         \A c \in Cores : pc'[c] \in {"halting", "halted"} =>
                            pc[c] \in {"halting", "halted"} /\ timers'[c] = timers[c]
  PROVE  SleepInv'
<1>1. NoTimerSleptThrough'
  BY Zenon DEF SleepInv, NoTimerSleptThrough
<1>2. BoundedCores \subseteq Cores /\ BoundedCores' = BoundedCores
  BY CoresAssumption, SMTT(60) DEF BoundedCores, IrqIdle, Cores, BSP
<1>3. NapsOnly'
  BY <1>2, Zenon DEF SleepInv, NapsOnly
<1> QED BY <1>1, <1>3, Zenon DEF SleepInv

LEMMA SleepInductive == SleepInv /\ [Next]_vars => SleepInv'
<1> SUFFICES ASSUME SleepInv, [Next]_vars PROVE SleepInv'
  BY Zenon
<1> USE DEF TypeOK, CpuTypeOK, Goto, cpu, loopVars
<1>0. TypeOK
  BY Zenon DEF SleepInv
<1>1. CASE UNCHANGED vars
  <2>1. TypeOK' /\ platform' = platform /\ pc' = pc /\ timers' = timers
    BY <1>0, <1>1, Zenon DEF vars
  <2> QED BY <2>1, StaysAwake, Zenon
<1>2. ASSUME NEW c \in Cores, BootCheck(c) \/ BootHalt(c) \/ BootWake(c) PROVE SleepInv'
  <2>1. TypeOK' /\ platform' = platform /\ timers' = timers
    <3>1. CASE BootCheck(c) \/ BootHalt(c)
      BY <1>0, <3>1, ZenonT(60) DEF BootCheck, BootHalt
    <3>2. CASE BootWake(c)
      BY <1>0, <3>2, Zenon DEF BootWake, EndUnbounded
    <3> QED BY <1>2, <3>1, <3>2, Zenon
  <2>2. \A d \in Cores : pc'[d] \in {"halting", "halted"} => pc[d] \in {"halting", "halted"}
    BY <1>0, <1>2, Zenon DEF BootCheck, BootHalt, BootWake
  <2> QED BY <2>1, <2>2, StaysAwake, Zenon
<1>3. ASSUME NEW c \in Cores, Top(c) \/ TickNothing(c) \/ NapEnd(c) \/ HaltEnd(c) \/ ApOff(c) PROVE SleepInv'
  <2>1. TypeOK' /\ platform' = platform /\ timers' = timers
    BY <1>0, <1>3, ZenonT(60) DEF Top, TickNothing, NapEnd, HaltEnd, ApOff, EndBounded, EndUnbounded
  <2>2. \A d \in Cores : pc'[d] \in {"halting", "halted"} => pc[d] \in {"halting", "halted"}
    BY <1>0, <1>3, Zenon DEF Top, TickNothing, NapEnd, HaltEnd, ApOff
  <2> QED BY <2>1, <2>2, StaysAwake, Zenon
\* Only a core that is in its tick arms or cancels its own timers.
<1>4. ASSUME NEW c \in Cores, TickWork(c) \/ TickTimer(c) PROVE SleepInv'
  <2>1. TypeOK' /\ platform' = platform
    BY <1>0, <1>4, SMTT(60) DEF TickWork, TickTimer
  <2>2. \A d \in Cores \ {c} : pc'[d] = pc[d] /\ timers'[d] = timers[d]
    BY <1>0, <1>4, ZenonT(60) DEF TickWork, TickTimer
  <2>3. pc'[c] = "top"
    BY <1>0, <1>4, Zenon DEF TickWork, TickTimer
  <2> QED BY <2>1, <2>2, <2>3, StaysAwake, Zenon
\* A core goes to an unbounded sleep only with no timer armed.
<1>5. ASSUME NEW c \in Cores, Idle(c) PROVE SleepInv'
  <2>1. PICK p \in IdleKind(c) : pc' = [pc EXCEPT ![c] = p]
    BY <1>5, Zenon DEF Idle
  <2>2. platform' = platform /\ timers' = timers /\ p \in {"top", "napping", "halting"}
    BY <1>5, <2>1, Zenon DEF Idle, IdleKind
  <2>3. TypeOK'
    BY <1>0, <1>5, <2>1, <2>2, Zenon DEF Idle
  <2>4. \A d \in Cores : pc'[d] = IF d = c THEN p ELSE pc[d]
    BY <1>0, <2>1, Zenon
  <2>5. CASE p # "halting"
    BY <2>2, <2>3, <2>4, <2>5, StaysAwake, Zenon
  <2>6. CASE p = "halting"
    <3>1. ~ timers[c] /\ IrqIdle /\ c # BSP /\ ~ (NumCores <= 1)
      BY <2>1, <2>6, Zenon DEF IdleKind, HasPending
    <3>2. NoTimerSleptThrough'
      BY <2>2, <2>4, <3>1, Zenon DEF SleepInv, NoTimerSleptThrough
    <3>3. NumCores > 1
      BY <3>1, CoresAssumption, SMTT(60)
    <3>4. BoundedCores = {BSP} /\ BoundedCores' = {BSP}
      BY <2>2, <3>1, <3>3, Zenon DEF BoundedCores, IrqIdle
    <3>5. BSP \in Cores
      BY CoresAssumption, SMTT(60) DEF BSP, Cores
    <3>6. NapsOnly'
      BY <2>4, <3>1, <3>4, <3>5, Zenon DEF SleepInv, NapsOnly
    <3> QED BY <2>3, <3>2, <3>6, Zenon DEF SleepInv
  <2> QED BY <2>5, <2>6, Zenon
<1>6. ASSUME NEW c \in Cores, Halt(c) PROVE SleepInv'
  <2>1. TypeOK' /\ platform' = platform /\ timers' = timers /\ pc[c] = "halting"
    BY <1>0, <1>6, Zenon DEF Halt
  <2>2. \A d \in Cores : pc'[d] \in {"halting", "halted"} => pc[d] \in {"halting", "halted"}
    BY <1>0, <1>6, Zenon DEF Halt
  <2> QED BY <2>1, <2>2, StaysAwake, Zenon
<1>7. ASSUME NEW c \in Cores, TakeIrq(c) \/ StrayIrq(c) \/ SendIpi(c) \/ RequestShutdown(c) \/ GraceOver(c)
      PROVE  SleepInv'
  <2>1. platform' = platform /\ timers' = timers /\ pc' = pc
    BY <1>7, Zenon DEF TakeIrq, StrayIrq, SendIpi, RequestShutdown, GraceOver, Take, Ipi
  <2>2. TypeOK'
    <3>1. CASE TakeIrq(c)
      BY <1>0, <3>1, Zenon DEF TakeIrq, Take
    <3>2. ASSUME NEW C, Ipi(C) PROVE CpuTypeOK'
      BY <1>0, <3>2, Zenon DEF Ipi
    <3>3. CASE StrayIrq(c) \/ SendIpi(c)
      <4>1. CpuTypeOK'
        BY <3>2, <3>3, Zenon DEF StrayIrq, SendIpi
      <4> HIDE DEF CpuTypeOK
      <4> QED BY <1>0, <3>3, <4>1, Zenon DEF StrayIrq, SendIpi
    <3>4. CASE RequestShutdown(c) \/ GraceOver(c)
      BY <1>0, <3>4, ZenonT(60) DEF RequestShutdown, GraceOver
    <3> QED BY <1>7, <3>1, <3>3, <3>4, Zenon
  <2> QED BY <2>1, <2>2, StaysAwake, Zenon
<1>8. ASSUME NEW w \in Cores, CallStep(w) PROVE SleepInv'
  <2>1. PICK c \in Cores, s \in Slots : Wake(w, c, s) \/ Abort(w, c, s)
    BY <1>8, Zenon DEF CallStep
  <2>2. platform' = platform /\ timers' = timers /\ pc' = pc
    BY <2>1, Zenon DEF Wake, Abort
  <2>3. TypeOK'
    BY <1>0, <2>1, SMTT(60) DEF Wake, Abort, WakeTargets
  <2> QED BY <2>2, <2>3, StaysAwake, Zenon
<1>9. CASE SetReady
  <2>1. platform' = platform /\ timers' = timers /\ pc' = pc
    BY <1>9, Zenon DEF SetReady
  <2>2. TypeOK'
    BY <1>0, <1>9, Zenon DEF SetReady, APs
  <2> QED BY <2>1, <2>2, StaysAwake, Zenon
<1>10. CASE BspStep
  <2>1. BSP \in Cores
    BY CoresAssumption, SMTT(60) DEF BSP, Cores
  <2>2. platform' = platform /\ timers' = timers
    BY <1>10, Zenon DEF BspStep, Teardown, PowerOff
  <2>3. TypeOK'
    BY <1>0, <1>10, <2>1, ZenonT(60) DEF BspStep, Teardown, PowerOff
  <2>4. \A d \in Cores : pc'[d] \in {"halting", "halted"} => pc[d] \in {"halting", "halted"}
    BY <1>0, <1>10, <2>1, Zenon DEF BspStep, Teardown, PowerOff
  <2> QED BY <2>2, <2>3, <2>4, StaysAwake, Zenon
<1> QED BY <1>1, <1>2, <1>3, <1>4, <1>5, <1>6, <1>7, <1>8, <1>9, <1>10, Zenon DEF Next, CoreStep

\* On any number of cores and any platform, no core that sleeps without a
\* timer has one armed (idle_cb with has_pending, eventloop.rs).
THEOREM NoTimerIsSleptThrough == Spec => []NoTimerSleptThrough
<1>1. SleepInv => NoTimerSleptThrough
  BY Zenon DEF SleepInv
<1> QED BY SleepInitial, SleepInductive, <1>1, PTL DEF Spec

\* Core 0, and every core when the NIC has no interrupt, never sleeps without
\* a timer: what serves a ready task there however it was marked.
THEOREM BoundedCoresOnlyNap == Spec => []NapsOnly
<1>1. SleepInv => NapsOnly
  BY Zenon DEF SleepInv
<1> QED BY SleepInitial, SleepInductive, <1>1, PTL DEF Spec
=============================================================================
