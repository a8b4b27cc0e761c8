----------------------------- MODULE TimerWheel -----------------------------
(***************************************************************************)
(* runtime/worker timer.rs and runtime/executor sleep.rs: the timer wheel  *)
(* of one worker and the Sleep futures that schedule into it.              *)
(*                                                                         *)
(* Everything here runs on the owning worker; what moves on its own is the *)
(* clock.  A slot's inline array and spill vector are one bag.  A timer    *)
(* carries the identity of the Sleep that inserted it, which the program   *)
(* does not have: it knows the deadline and `arg`, the task to wake.       *)
(***************************************************************************)
EXTENDS Integers

CONSTANTS
  WheelSize,  \* WHEEL_SIZE, 256 in the code
  Sleeps,     \* Sleep futures
  TaskOf,     \* TaskOf[s]: the task that polls Sleep s
  Delays,     \* what sleep_us is called with
  MaxTime     \* bound on the clock and on deadlines

ASSUME WheelAssumption == WheelSize \in Nat \ {0}
ASSUME TimeAssumption == MaxTime \in Nat /\ Delays \subseteq Nat

VARIABLES
  now,       \* now_ticks()
  tick,      \* current_tick
  wheel,     \* the timers scheduled
  bound,     \* bound[i]: min_deadline of slot i
  state,     \* state[s]: "none", "new", "parked" or "done"
  deadline,  \* deadline[s]
  armed,     \* armed[s]: timer_scheduled
  ready      \* tasks whose ready bit is set

wheelVars == <<tick, wheel, bound>>
sleepVars == <<state, deadline, armed>>
vars == <<now, wheelVars, sleepVars, ready>>

Tasks == {TaskOf[s] : s \in Sleeps}
SlotIdx == 0 .. WheelSize - 1
SlotOf(d) == d % WheelSize
Infinity == MaxTime + 1  \* u64::MAX, the bound of an empty slot
Times == 0 .. MaxTime
Timers == [sleep : Sleeps, deadline : Times, arg : Tasks]
InSlot(W, i) == {t \in W : SlotOf(t.deadline) = i}

\* m is the least deadline of T, or Infinity when T is empty.
IsBound(m, T) ==
  /\ \A t \in T : m <= t.deadline
  /\ m = Infinity \/ \E t \in T : m = t.deadline

LeastDeadline(T) == CHOOSE m \in 0 .. Infinity : IsBound(m, T)
Lesser(a, b) == IF a <= b THEN a ELSE b

Init ==
  /\ now = 0 /\ tick = 0 /\ wheel = {}
  /\ bound = [i \in SlotIdx |-> Infinity]
  /\ state = [s \in Sleeps |-> "none"]
  /\ deadline = [s \in Sleeps |-> 0]
  /\ armed = [s \in Sleeps |-> FALSE]
  /\ ready = {}

ClockTick ==
  /\ now < MaxTime
  /\ now' = now + 1
  /\ UNCHANGED <<wheelVars, sleepVars, ready>>

-----------------------------------------------------------------------------
(* TimerWheel *)

\* insert of a timer for s.  (InsertLoose leaves min_deadline alone.)
InsertLoose(s) ==
  /\ wheel' = wheel \cup {[sleep |-> s, deadline |-> deadline[s],
                           arg |-> TaskOf[s]]}
  /\ UNCHANGED <<tick, bound>>
Insert(s) ==
  /\ wheel' = wheel \cup {[sleep |-> s, deadline |-> deadline[s],
                           arg |-> TaskOf[s]]}
  /\ bound' = [bound EXCEPT ![SlotOf(deadline[s])] = Lesser(@, deadline[s])]
  /\ UNCHANGED tick

\* cancel_in_slot takes the first timer it meets in the deadline's slot with that
\* arg; which one that is depends on the order that swap-removes left.
Cancellable(d, arg) == {t \in InSlot(wheel, SlotOf(d)) : t.arg = arg}

\* cancel_at.  min_deadline is reset only when the slot becomes empty.
CancelAt(d, arg) ==
  \/ /\ Cancellable(d, arg) = {}
     /\ UNCHANGED wheelVars
  \/ \E t \in Cancellable(d, arg) :
       /\ wheel' = wheel \ {t}
       /\ bound' = IF InSlot(wheel', SlotOf(d)) = {}
                     THEN [bound EXCEPT ![SlotOf(d)] = Infinity] ELSE bound
       /\ UNCHANGED tick

\* advance(now) visits the slots of the ticks it has not seen, scans those whose
\* bound has been reached, fires what is due and tightens the bound.
\* (VisitedNow looks at the current slot only, whatever ticks were missed.)
VisitedNow == {SlotOf(now)}
Visited == {SlotOf(k) : k \in tick .. now}
Scanned == {i \in Visited : InSlot(wheel, i) # {} /\ bound[i] <= now}
Due(i) == {t \in InSlot(wheel, i) : t.deadline <= now}

Advance ==
  /\ LET fired == UNION {Due(i) : i \in Scanned} IN
       /\ wheel' = wheel \ fired
       /\ ready' = ready \cup {t.arg : t \in fired}
  /\ bound' = [i \in SlotIdx |-> IF i \in Scanned
                                 THEN LeastDeadline(InSlot(wheel', i))
                                 ELSE bound[i]]
  /\ tick' = IF tick <= now \/ wheel = {} THEN now + 1 ELSE tick
  /\ UNCHANGED <<now, sleepVars>>

-----------------------------------------------------------------------------
(* Sleep *)

\* sleep_us.  The task creates the future and polls it in the same poll.
Create(s, d) ==
  /\ state[s] = "none" /\ now + d <= MaxTime
  /\ state' = [state EXCEPT ![s] = "new"]
  /\ deadline' = [deadline EXCEPT ![s] = now + d]
  /\ ready' = ready \cup {TaskOf[s]}
  /\ UNCHANGED <<now, wheelVars, armed>>

\* Sleep::poll after the deadline: Ready.
PollElapsed(s) ==
  /\ state[s] \in {"new", "parked"} /\ now >= deadline[s]
  /\ state' = [state EXCEPT ![s] = "done"]
  /\ UNCHANGED <<now, wheelVars, deadline, armed, ready>>

\* Before the deadline the first poll schedules a timer and parks.
PollArm(s) ==
  /\ state[s] = "new" /\ now < deadline[s]
  /\ Insert(s)
  /\ armed' = [armed EXCEPT ![s] = TRUE]
  /\ state' = [state EXCEPT ![s] = "parked"]
  /\ UNCHANGED <<now, deadline, ready>>

\* The slot's spill cannot grow: the sleep ends at once.  (PollRefusedParks
\* ignores the result of insert.)
PollRefusedParks(s) ==
  /\ state[s] = "new" /\ now < deadline[s]
  /\ state' = [state EXCEPT ![s] = "parked"]
  /\ UNCHANGED <<now, wheelVars, deadline, armed, ready>>
PollRefused(s) ==
  /\ state[s] = "new" /\ now < deadline[s]
  /\ state' = [state EXCEPT ![s] = "done"]
  /\ UNCHANGED <<now, wheelVars, deadline, armed, ready>>

\* A poll of the task that finds every sleep of its parked: the ready bit is
\* down and the task waits.
PollPending(k) ==
  /\ k \in ready
  /\ \A s \in Sleeps : TaskOf[s] = k /\ state[s] \in {"new", "parked"}
                         => state[s] = "parked" /\ now < deadline[s]
  /\ ready' = ready \ {k}
  /\ UNCHANGED <<now, wheelVars, sleepVars>>

\* Drop: completed, or cancelled by a select or an abort.
Drop(s) ==
  /\ state[s] # "none"
  /\ IF armed[s] THEN CancelAt(deadline[s], TaskOf[s]) ELSE UNCHANGED wheelVars
  /\ state' = [state EXCEPT ![s] = "none"]
  /\ armed' = [armed EXCEPT ![s] = FALSE]
  /\ deadline' = [deadline EXCEPT ![s] = 0]
  /\ UNCHANGED <<now, ready>>

-----------------------------------------------------------------------------
PollStep(k) ==
  \/ PollPending(k)
  \/ \E s \in Sleeps : TaskOf[s] = k /\ k \in ready
                         /\ (PollElapsed(s) \/ PollArm(s) \/ PollRefused(s))

Next ==
  \/ ClockTick \/ Advance
  \/ \E s \in Sleeps : Drop(s) \/ \E d \in Delays : Create(s, d)
  \/ \E k \in Tasks : PollStep(k)

Spec == Init /\ [][Next]_vars

\* Time passes, tick advances the wheel in every pass of the event loop and
\* polls the tasks that are ready.
FairSpec ==
  /\ Spec /\ WF_vars(ClockTick) /\ WF_vars(Advance)
  /\ \A k \in Tasks : WF_vars(PollStep(k))

-----------------------------------------------------------------------------
(* Properties *)

TypeOK ==
  /\ now \in Times /\ tick \in 0 .. MaxTime + 1
  /\ wheel \subseteq Timers
  /\ bound \in [SlotIdx -> 0 .. Infinity]
  /\ state \in [Sleeps -> {"none", "new", "parked", "done"}]
  /\ deadline \in [Sleeps -> Times]
  /\ armed \in [Sleeps -> BOOLEAN]
  /\ ready \subseteq Tasks

\* "min_deadline is a lower bound, so a skip is never wrong" (advance): whatever
\* was inserted, cancelled and fired, no timer is due before its slot's bound.
BoundIsLower == \A t \in wheel : bound[SlotOf(t.deadline)] <= t.deadline

\* No timer is left behind the hand of the wheel, where it would wait for a
\* whole turn: after advance(now) nothing due by now is in the wheel, however
\* far the clock jumped and whether or not the wheel was empty meanwhile.
NoneOverdue == \A t \in wheel : t.deadline >= tick

\* "Cancel a timer whose (deadline, arg) pair matches" (cancel_at): a task that
\* waits in a Sleep has that Sleep's timer in the wheel or is about to be
\* polled, whatever its other Sleeps do.
SleeperHasTimer ==
  \A s \in Sleeps : state[s] = "parked" =>
    \/ TaskOf[s] \in ready
    \/ \E t \in wheel : t.deadline = deadline[s] /\ t.arg = TaskOf[s]

\* A sleep ends.
SleepEnds ==
  \A s \in Sleeps : (state[s] = "parked") ~> (state[s] # "parked")
=============================================================================
