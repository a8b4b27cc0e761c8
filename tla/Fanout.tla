------------------------------- MODULE Fanout -------------------------------
(***************************************************************************)
(* runtime/executor launcher.rs and reactor/: how `UdpSocket::run` and     *)
(* `TcpListener::run` start a task on every worker, and how dropping the   *)
(* handle stops them again.                                                *)
(*                                                                         *)
(* `run` registers a launcher in the next slot of a LaunchTable.  Every    *)
(* worker keeps a cursor into the table and calls, from its tick, the      *)
(* launchers it has not called yet.  A launcher spawns a task on the       *)
(* calling worker and stores the handle of that task where the drop of the *)
(* fan-out's own handle will look for it.                                  *)
(*                                                                         *)
(* The application task that calls `run` and drops the handle is an actor  *)
(* of its own: it may live on any worker.  `calls` is auxiliary.           *)
(***************************************************************************)
EXTENDS Integers

CONSTANTS
  Fanouts,       \* calls of `run`
  NumWorkers,    \* num_workers()
  ChunkSize,     \* CHUNK_SIZE
  MaxLaunchers   \* MAX_LAUNCHERS

ASSUME FanoutAssumption ==
  /\ NumWorkers \in Nat /\ ChunkSize \in Nat \ {0} /\ MaxLaunchers \in Nat
  /\ {"null", "tombstone"} \cap Fanouts = {}

VARIABLES
  count,     \* LaunchTable::count
  chunks,    \* indices of the published chunks
  slots,     \* slots[i]: "null", "tombstone" or the launcher's fan-out
  fired,     \* fired[w]: the worker's cursor
  stopping,  \* stopping[f]
  handles,   \* handles[f][w]: a TaskHandle is stored
  lock,      \* lock[f][w]: the SpinLock around it is held by a launcher
  bound,     \* bound[f]: the socket holds its port (not `released`)
  task,      \* task[f][w]: the task the launcher spawned
  phase,     \* phase[f]: where the owner is in register or drop
  idx,       \* idx[f]: launcher_slot
  swept,     \* swept[f]: workers whose handle the drop has taken
  wk,        \* wk[w]: where the worker is in fire_pending
  calls      \* auxiliary: calls[f][w], how often the launcher was called

table == <<count, chunks, slots>>
ctx == <<stopping, handles, lock, bound>>
owner == <<phase, idx, swept>>
vars == <<table, fired, ctx, task, owner, wk, calls>>

Workers == 0 .. NumWorkers - 1
Slots == 0 .. MaxLaunchers - 1
Full == MaxLaunchers            \* usize::MAX, the slot of a refused launcher
PerFanout(x) == [f \in Fanouts |-> [w \in Workers |-> x]]

\* Some launchers may have been registered and released already.
Init ==
  /\ count \in 0 .. MaxLaunchers
  /\ slots = [i \in Slots |-> IF i < count THEN "tombstone" ELSE "null"]
  /\ chunks = {i \div ChunkSize : i \in 0 .. count - 1}
  /\ fired = [w \in Workers |-> 0]
  /\ stopping = [f \in Fanouts |-> FALSE]
  /\ handles = PerFanout(FALSE) /\ lock = PerFanout(FALSE)
  /\ bound = [f \in Fanouts |-> TRUE]
  /\ task = PerFanout("none")
  /\ phase = [f \in Fanouts |-> "new"]
  /\ idx = [f \in Fanouts |-> Full] /\ swept = [f \in Fanouts |-> 0]
  /\ wk = [w \in Workers |-> "tick"]
  /\ calls = PerFanout(0)

-----------------------------------------------------------------------------
(* LaunchTable::register, in run *)

RegisterFull(f) ==
  /\ phase[f] = "new" /\ count >= MaxLaunchers
  /\ count' = count + 1
  /\ phase' = [phase EXCEPT ![f] = "up"]
  /\ UNCHANGED <<chunks, slots, fired, ctx, task, wk, calls, idx, swept>>

\* The fetch_add.
RegisterClaim(f) ==
  /\ phase[f] = "new" /\ count < MaxLaunchers
  /\ count' = count + 1
  /\ phase' = [phase EXCEPT ![f] = "chunk"]
  /\ idx' = [idx EXCEPT ![f] = count]
  /\ UNCHANGED <<chunks, slots, fired, ctx, task, wk, calls, swept>>

\* get_or_alloc_chunk: whoever loses the race adopts the winner's chunk.
RegisterChunk(f) ==
  /\ phase[f] = "chunk"
  /\ chunks' = chunks \cup {idx[f] \div ChunkSize}
  /\ phase' = [phase EXCEPT ![f] = "store"]
  /\ UNCHANGED <<count, slots, fired, ctx, task, wk, calls, idx, swept>>

RegisterStore(f) ==
  /\ phase[f] = "store"
  /\ slots' = [slots EXCEPT ![idx[f]] = f]
  /\ phase' = [phase EXCEPT ![f] = "up"]
  /\ UNCHANGED <<count, chunks, fired, ctx, task, wk, calls, idx, swept>>

-----------------------------------------------------------------------------
(* Drop of the UdpHandle or TcpHandle *)

DropStop(f) ==
  /\ phase[f] = "up"
  /\ stopping' = [stopping EXCEPT ![f] = TRUE]
  /\ phase' = [phase EXCEPT ![f] = "abort"]
  /\ UNCHANGED <<table, fired, handles, lock, bound, task, wk, calls, idx, swept>>

\* TaskHandle::abort has no effect on a task that has ended.
Abort(f, w) == task' = [task EXCEPT ![f][w] = IF @ = "running" THEN "aborted" ELSE @]

\* Take the handle of the next worker, under its lock, and abort its task.
DropTake(f) ==
  LET w == swept[f] IN
  /\ phase[f] = "abort" /\ w < NumWorkers /\ ~lock[f][w]
  /\ handles' = [handles EXCEPT ![f][w] = FALSE]
  /\ IF handles[f][w] THEN Abort(f, w) ELSE UNCHANGED task
  /\ swept' = [swept EXCEPT ![f] = @ + 1]
  /\ UNCHANGED <<table, fired, stopping, lock, bound, wk, calls, phase, idx>>

\* The port is released at once, for the next bind, and not when the last task
\* lets go of the socket.
DropPort(f) ==
  /\ phase[f] = "abort" /\ swept[f] = NumWorkers
  /\ bound' = [bound EXCEPT ![f] = FALSE]
  /\ phase' = [phase EXCEPT ![f] = "release"]
  /\ UNCHANGED <<table, fired, stopping, handles, lock, task, wk, calls, idx, swept>>

\* LaunchTable::release: the box stays allocated, a worker may be about to
\* call it.
DropRelease(f) ==
  /\ phase[f] = "release"
  /\ slots' = [i \in Slots |-> IF i = idx[f] THEN "tombstone" ELSE slots[i]]
  /\ phase' = [phase EXCEPT ![f] = "gone"]
  /\ UNCHANGED <<count, chunks, fired, ctx, task, wk, calls, idx, swept>>

-----------------------------------------------------------------------------
(* fire_pending, in the tick of worker w *)

\* The rest of tick: tasks run to their end, aborted ones are dropped.
TaskEnds(f, w) ==
  /\ wk[w] = "tick" /\ task[f][w] = "running"
  /\ task' = [task EXCEPT ![f][w] = "ended"]
  /\ UNCHANGED <<table, fired, ctx, owner, wk, calls>>

TaskDropped(f, w) ==
  /\ wk[w] = "tick" /\ task[f][w] = "aborted"
  /\ task' = [task EXCEPT ![f][w] = "ended"]
  /\ UNCHANGED <<table, fired, ctx, owner, wk, calls>>

\* One round of the loop over the slots from the cursor on.  The cursor is the
\* worker's own, so when it is stored does not matter; a count that was read
\* earlier only ends the loop earlier.
Visiting(w) == wk[w] = "tick" /\ fired[w] < count /\ fired[w] < MaxLaunchers
Current(w) ==
  IF fired[w] \div ChunkSize \in chunks THEN slots[fired[w]] ELSE "null"
Advance(w) ==
  /\ fired' = [fired EXCEPT ![w] = @ + 1]
  /\ wk' = [wk EXCEPT ![w] = "tick"]

\* null: a registration is under way, stop and come back in the next tick.
\* (VisitTombstoneOrNull goes on with the next slot.)
VisitTombstoneOrNull(w) ==
  /\ Visiting(w) /\ Current(w) \in {"tombstone", "null"}
  /\ Advance(w)
  /\ UNCHANGED <<table, ctx, task, owner, calls>>
VisitTombstone(w) ==
  /\ Visiting(w) /\ Current(w) = "tombstone"
  /\ Advance(w)
  /\ UNCHANGED <<table, ctx, task, owner, calls>>

VisitLive(f, w) ==
  /\ Visiting(w) /\ Current(w) = f
  /\ calls' = [calls EXCEPT ![f][w] = @ + 1]
  /\ wk' = [wk EXCEPT ![w] = "call"]
  /\ UNCHANGED <<table, fired, ctx, task, owner>>

-----------------------------------------------------------------------------
(* The launcher of f, on worker w.  It runs although its slot may become a    *)
(* tombstone meanwhile: the worker has loaded the pointer.                    *)

At(f, w, p) == wk[w] = p /\ idx[f] = fired[w]

LaunchStopped(f, w) ==
  /\ At(f, w, "call") /\ stopping[f]
  /\ Advance(w)
  /\ UNCHANGED <<table, ctx, task, owner, calls>>

LaunchGo(f, w) ==
  /\ At(f, w, "call") /\ ~stopping[f]
  /\ wk' = [wk EXCEPT ![w] = "spawn"]
  /\ UNCHANGED <<table, fired, ctx, task, owner, calls>>

Spawn(f, w) ==
  /\ At(f, w, "spawn")
  /\ task' = [task EXCEPT ![f][w] = "running"]
  /\ wk' = [wk EXCEPT ![w] = "install"]
  /\ UNCHANGED <<table, fired, ctx, owner, calls>>

\* The arena has no free slot.  (SpawnErrRetries leaves the launcher for the
\* next tick.)
SpawnErrRetries(f, w) ==
  /\ At(f, w, "spawn")
  /\ wk' = [wk EXCEPT ![w] = "tick"]
  /\ UNCHANGED <<table, fired, ctx, task, owner, calls>>
SpawnErr(f, w) ==
  /\ At(f, w, "spawn")
  /\ Advance(w)
  /\ UNCHANGED <<table, ctx, task, owner, calls>>

\* install_worker_task: lock the handle's slot and look at `stopping` again.
\* (InstallUnchecked relies on the first look.)
InstallUnchecked(f, w) ==
  /\ At(f, w, "install") /\ ~lock[f][w]
  /\ lock' = [lock EXCEPT ![f][w] = TRUE]
  /\ wk' = [wk EXCEPT ![w] = "keep"]
  /\ UNCHANGED <<table, fired, stopping, handles, bound, task, owner, calls>>
Install(f, w) ==
  /\ At(f, w, "install") /\ ~lock[f][w]
  /\ lock' = [lock EXCEPT ![f][w] = TRUE]
  /\ wk' = [wk EXCEPT ![w] = IF stopping[f] THEN "discard" ELSE "keep"]
  /\ UNCHANGED <<table, fired, stopping, handles, bound, task, owner, calls>>

InstallKeep(f, w) ==
  /\ At(f, w, "keep")
  /\ handles' = [handles EXCEPT ![f][w] = TRUE]
  /\ lock' = [lock EXCEPT ![f][w] = FALSE]
  /\ Advance(w)
  /\ UNCHANGED <<table, stopping, bound, task, owner, calls>>

\* Unlock, then abort.  The drop finds no handle in between.
InstallAbort(f, w) ==
  /\ At(f, w, "discard")
  /\ lock' = [lock EXCEPT ![f][w] = FALSE]
  /\ Abort(f, w)
  /\ Advance(w)
  /\ UNCHANGED <<table, stopping, handles, bound, owner, calls>>

-----------------------------------------------------------------------------
Register(f) ==
  RegisterFull(f) \/ RegisterClaim(f) \/ RegisterChunk(f) \/ RegisterStore(f)
Drop(f) == DropTake(f) \/ DropPort(f) \/ DropRelease(f)
Launch(f, w) ==
  \/ VisitLive(f, w) \/ LaunchStopped(f, w) \/ LaunchGo(f, w)
  \/ Spawn(f, w) \/ SpawnErr(f, w)
  \/ Install(f, w) \/ InstallKeep(f, w) \/ InstallAbort(f, w)
FirePending(w) ==
  VisitTombstone(w) \/ \E f \in Fanouts : Launch(f, w)

Next ==
  \/ \E f \in Fanouts : Register(f) \/ DropStop(f) \/ Drop(f)
  \/ \E w \in Workers :
       FirePending(w) \/ \E f \in Fanouts : TaskEnds(f, w) \/ TaskDropped(f, w)

Spec == Init /\ [][Next]_vars

\* A call that has begun ends, and every worker keeps ticking.  An application
\* need not call `run` or drop what it got, and a task need not end by itself.
FairSpec ==
  /\ Spec
  /\ \A f \in Fanouts :
       WF_vars(RegisterChunk(f) \/ RegisterStore(f)) /\ WF_vars(Drop(f))
  /\ \A w \in Workers :
       /\ WF_vars(FirePending(w))
       /\ \A f \in Fanouts : WF_vars(TaskDropped(f, w))

-----------------------------------------------------------------------------
(* Properties *)

TypeOK ==
  /\ count \in Nat
  /\ chunks \subseteq Nat
  /\ slots \in [Slots -> Fanouts \cup {"null", "tombstone"}]
  /\ fired \in [Workers -> 0 .. MaxLaunchers]
  /\ stopping \in [Fanouts -> BOOLEAN]
  /\ bound \in [Fanouts -> BOOLEAN]
  /\ handles \in [Fanouts -> [Workers -> BOOLEAN]]
  /\ lock \in [Fanouts -> [Workers -> BOOLEAN]]
  /\ task \in [Fanouts -> [Workers -> {"none", "running", "aborted", "ended"}]]
  /\ phase \in [Fanouts -> {"new", "chunk", "store", "up", "abort",
                         "release", "gone"}]
  /\ idx \in [Fanouts -> Slots \cup {Full}]
  /\ swept \in [Fanouts -> 0 .. NumWorkers]
  /\ wk \in [Workers -> {"tick", "call", "spawn", "install", "keep", "discard"}]

\* "gets the same closure run on every worker exactly once": never twice ...
CalledOnce == \A f \in Fanouts, w \in Workers : calls[f][w] <= 1

\* ... and, unless the handle is dropped first, on every worker, although a
\* registration is visible in two parts and others may be ahead of it.
CalledEverywhere ==
  \A f \in Fanouts :
    (phase[f] = "up" /\ idx[f] # Full)
      ~> (stopping[f] \/ \A w \in Workers : calls[f][w] = 1)

\* A task that runs on after the drop of the handle has passed its worker is
\* one that its launcher is just about to abort: neither the drop nor the
\* launcher leaves it to the other.
NoneLeftBehind ==
  \A f \in Fanouts, w \in Workers :
    (swept[f] > w /\ task[f][w] = "running")
      => At(f, w, "install") \/ At(f, w, "discard")

\* When the port is free for the next bind no TaskHandle is stored any more:
\* nobody would ever look for it.
NoHandleForgotten ==
  \A f \in Fanouts : ~bound[f] => \A w \in Workers : ~handles[f][w]

\* Once the handle is gone the fan-out's tasks end, on every worker, and none
\* is started again.
StopsEverywhere ==
  \A f \in Fanouts :
    (phase[f] = "gone")
      ~> [](\A w \in Workers : task[f][w] \notin {"running", "aborted"})

\* A fanout that is kept reaches every worker, and one whose handle is dropped
\* ends on every worker.
ReachesEveryWorker == CalledEverywhere /\ StopsEverywhere
=============================================================================
