----------------------------- MODULE MCRuntime -----------------------------
(***************************************************************************)
(* The parts of the runtime that live on one worker: timers, the task      *)
(* arena, and the cells.  A behaviour runs the part `part` names and       *)
(* leaves the others as they start.                                        *)
(***************************************************************************)
EXTENDS TimerWheel, TaskArena, Cells, TLC

VARIABLE part  \* the part that runs

MCVars == <<part, vars, arenaVars, eventVars, onceVars>>

\* One sleep per task; a wheel of two slots, so that deadlines of different
\* turns share a slot.
OneEach == [s \in Sleeps |-> s]

MCInit ==
  /\ part \in {"timers", "arena", "event", "once"}
  /\ Init /\ ArenaInit /\ EventInit /\ OnceInit

MCNext ==
  /\ part' = part
  /\ \/ /\ part = "timers" /\ Next
        /\ UNCHANGED <<arenaVars, eventVars, onceVars>>
     \/ /\ part = "arena" /\ ArenaNext
        /\ UNCHANGED <<vars, eventVars, onceVars>>
     \/ /\ part = "event" /\ EventNext
        /\ UNCHANGED <<vars, arenaVars, onceVars>>
     \/ /\ part = "once" /\ OnceNext
        /\ UNCHANGED <<vars, arenaVars, eventVars>>

\* The fairness of the parts, as their modules state it.
MCSpec ==
  /\ MCInit /\ [][MCNext]_MCVars
  /\ WF_vars(part = "timers" /\ ClockTick) /\ WF_vars(part = "timers" /\ Advance)
  /\ \A k \in Tasks : WF_vars(part = "timers" /\ PollStep(k))
  /\ SF_arenaVars(part = "arena" /\ TickStep)
  /\ WF_arenaVars(part = "arena" /\ (SpawnClearAbort \/ SpawnPublish))
  /\ \A w \in Workers : WF_arenaVars(part = "arena" /\ AbortStep(w))
  /\ WF_eventVars(part = "event" /\ Consumer)
  /\ \A p \in Producers : WF_eventVars(part = "event" /\ (Set(p) \/ WakeParked(p) \/ CallWaker(p)))

-----------------------------------------------------------------------------
\* Who waits in the runtime is let go on: a sleep ends, a woken task is
\* polled, and what is published to an AsyncEvent is taken.
WaitsEnd == SleepEnds /\ (part = "arena" => WokenIsPolled) /\ (part = "event" => ItemsAreTaken)
=============================================================================
