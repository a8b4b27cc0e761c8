------------------------------ MODULE TaskArena ------------------------------
(***************************************************************************)
(* runtime/executor task.rs: the task arena of one worker.                 *)
(*                                                                         *)
(* The owning worker spawns, polls and frees tasks; any worker may wake a  *)
(* slot or abort a task through its handle.  Slots are reused, so a handle *)
(* carries the slot's epoch.  A step is one atomic access that another     *)
(* worker can observe.  The IPI that follows a cross-worker wake belongs   *)
(* to EventLoop; here the owner keeps ticking.                             *)
(*                                                                         *)
(* A task is named by its spawn number.  `woken`, `requested`, `honoured`, *)
(* `strayed` and `aborted` are auxiliary: the program reads none of them.  *)
(***************************************************************************)
EXTENDS Integers

CONSTANTS
  Owner,      \* the worker that owns the arena
  Remotes,    \* the other workers
  NumWords,   \* TASKS_BITMAP_WORDS
  WordBits,   \* bits of a bitmap word, 64 in the code
  EpochMod,   \* number of epoch values, 2^32 in the code
  MaxSpawns   \* bound on the spawns of one behaviour

\* The epoch of a slot counts the tasks that ended in it, modulo EpochMod: a
\* handle that is kept over 2^32 reuses of its slot would match again.
ASSUME ArenaAssumption ==
  /\ NumWords \in Nat /\ WordBits \in Nat
  /\ MaxSpawns \in Nat /\ EpochMod \in Nat /\ MaxSpawns < EpochMod
  /\ Owner \notin Remotes

VARIABLES
  used,       \* the slots whose used bit is set
  readyBits,  \* the slots whose ready bit is set
  abort,      \* abort[s]: the slot's cancel flag
  epoch,      \* epoch[s]
  future,     \* future[s]: the task whose future is in slot s, or None
  handle,     \* handle[t]: the TaskHandle that spawn returned for task t
  pc,         \* where the owner is in its loop
  word,       \* the bitmap word that tick sweeps
  taken,      \* the bits of that word tick took and has not visited
  cur,        \* the slot tick is polling or freeing
  spawning,   \* the slot spawn_boxed has claimed, or NoSlot
  cleared,    \* spawn_boxed has cleared that slot's abort flag
  call,       \* call[w]: the abort call worker w is in
  spawns,     \* tasks spawned so far
  woken,      \* auxiliary: tasks woken since their last poll began
  requested,  \* auxiliary: live tasks that someone called abort on
  honoured,   \* auxiliary: live tasks for which an abort call ran to its end
  strayed,    \* auxiliary: tasks that were in the slot when the store of a
              \* remote abort of an earlier task landed
  aborted     \* auxiliary: tasks that tick dropped because of the flag although
              \* nobody had called abort on them

arena == <<used, readyBits, abort, epoch, future>>
loop == <<pc, word, taken, cur>>
spawner == <<handle, spawning, cleared, spawns>>
ghost == <<woken, requested, honoured, strayed, aborted>>
arenaVars == <<arena, loop, spawner, call, ghost>>

Workers == Remotes \cup {Owner}
Slots == 0 .. NumWords * WordBits - 1
Word(w) == {s \in Slots : w * WordBits <= s /\ s < (w + 1) * WordBits}
TaskIds == 1 .. MaxSpawns
None == 0
NoSlot == -1
NoCall == [task |-> None, at |-> "out"]
Live == {future[s] : s \in Slots} \ {None}

\* trailing_zeros: s is the lowest set bit of S.
Lowest(s, S) == s \in S /\ \A u \in S : s <= u

ArenaInit ==
  /\ used = {} /\ readyBits = {}
  /\ abort = [s \in Slots |-> FALSE]
  /\ epoch = [s \in Slots |-> 0]
  /\ future = [s \in Slots |-> None]
  /\ handle = [t \in TaskIds |-> [slot |-> NoSlot, epoch |-> 0]]
  /\ pc = "loop" /\ word = 0 /\ taken = {} /\ cur = NoSlot
  /\ spawning = NoSlot /\ cleared = FALSE /\ spawns = 0
  /\ call = [w \in Workers |-> NoCall]
  /\ woken = {} /\ requested = {} /\ honoured = {}
  /\ strayed = {} /\ aborted = {}

\* The owner executes one thing at a time: a spawn or an abort that it calls
\* from a poll or from its loop returns before anything else happens there.
OwnerFree == spawning = NoSlot /\ call[Owner] = NoCall
OwnerMayCall == OwnerFree /\ pc \in {"loop", "poll"}

-----------------------------------------------------------------------------
(* spawn_boxed, on the owner *)

\* Claim the lowest free slot and move the future in.
SpawnClaim ==
  /\ OwnerMayCall /\ spawns < MaxSpawns
  /\ spawns' = spawns + 1
  /\ \E s \in Slots :
       /\ Lowest(s, Slots \ used)
       /\ used' = used \cup {s}
       /\ future' = [future EXCEPT ![s] = spawns']
       /\ spawning' = s
  /\ UNCHANGED <<readyBits, abort, epoch, loop, handle, cleared, call, ghost>>

\* The arena is full: the future is dropped and spawn returns SpawnError.
SpawnFull ==
  /\ OwnerMayCall /\ spawns < MaxSpawns
  /\ used = Slots
  /\ spawns' = spawns + 1
  /\ UNCHANGED <<arena, loop, handle, spawning, cleared, call, ghost>>

\* Clear an abort flag left behind by an earlier task of the slot.
SpawnClearAbort ==
  /\ spawning # NoSlot /\ ~cleared
  /\ abort' = [abort EXCEPT ![spawning] = FALSE]
  /\ cleared' = TRUE
  /\ UNCHANGED <<used, readyBits, epoch, future, loop, handle, spawning, spawns,
                 call, ghost>>

\* Read the epoch, mark the slot ready and return the handle.
SpawnPublish ==
  /\ spawning # NoSlot /\ cleared
  /\ handle' = [handle EXCEPT ![future[spawning]] =
                  [slot |-> spawning, epoch |-> epoch[spawning]]]
  /\ readyBits' = readyBits \cup {spawning}
  /\ woken' = woken \cup {future[spawning]}
  /\ spawning' = NoSlot /\ cleared' = FALSE
  /\ UNCHANGED <<used, abort, epoch, future, loop, spawns, call,
                 requested, honoured,
                 strayed, aborted>>

-----------------------------------------------------------------------------
(* Waker and TaskHandle, on any worker *)

\* waker_wake_by_ref.  A waker names only the slot and may outlive its task.
Wake(w, s) ==
  /\ w = Owner => OwnerMayCall
  /\ readyBits' = readyBits \cup {s}
  /\ woken' = woken \cup ({future[s]} \ {None})
  /\ UNCHANGED <<used, abort, epoch, future, loop, spawner, call,
                 requested, honoured,
                 strayed, aborted>>

\* TaskHandle::abort begins: it returns at once unless the epoch still matches.
AbortCheck(w, t) ==
  /\ w = Owner => OwnerMayCall
  /\ call[w] = NoCall /\ handle[t].slot # NoSlot
  /\ requested' = requested \cup ({t} \cap Live)
  /\ call' = IF epoch[handle[t].slot] = handle[t].epoch
               THEN [call EXCEPT ![w] = [task |-> t, at |-> "store"]]
               ELSE call
  /\ UNCHANGED <<arena, loop, spawner, woken, honoured, strayed,
                 aborted>>

AbortStore(w) ==
  /\ call[w].at = "store"
  /\ LET s == handle[call[w].task].slot IN
       /\ abort' = [abort EXCEPT ![s] = TRUE]
       /\ strayed' = strayed \cup
            (IF w = Owner THEN {} ELSE {future[s]} \ {None, call[w].task})
  /\ call' = [call EXCEPT ![w] = [task |-> @.task, at |-> "mark"]]
  /\ UNCHANGED <<used, readyBits, epoch, future, loop, spawner, woken, requested,
                 honoured, aborted>>

\* mark_ready.
AbortMark(w) ==
  /\ call[w].at = "mark"
  /\ readyBits' = readyBits \cup {handle[call[w].task].slot}
  /\ honoured' = honoured \cup ({call[w].task} \cap Live)
  /\ call' = [call EXCEPT ![w] = NoCall]
  /\ UNCHANGED <<used, abort, epoch, future, loop, spawner, woken, requested,
                 strayed, aborted>>

\* TaskHandle::is_finished
IsFinished(t) ==
  epoch[handle[t].slot] # handle[t].epoch \/ handle[t].slot \notin used

-----------------------------------------------------------------------------
(* tick and poll_slot, on the owner *)

\* Some ready bit is set: sweep from the first word.  (With none set, tick
\* returns without touching the arena.)
TickStart ==
  /\ pc = "loop" /\ OwnerFree /\ readyBits # {}
  /\ pc' = "sweep" /\ word' = 0
  /\ UNCHANGED <<arena, taken, cur, spawner, call, ghost>>

\* swap(0) on one word, and what clearing the whole bitmap at once would be.
SweepWordAll ==
  /\ pc = "sweep" /\ word < NumWords
  /\ taken' = readyBits \cap Word(word)
  /\ readyBits' = {}
  /\ pc' = "visit"
  /\ UNCHANGED <<used, abort, epoch, future, word, cur, spawner, call, ghost>>
SweepWord ==
  /\ pc = "sweep" /\ word < NumWords
  /\ taken' = readyBits \cap Word(word)
  /\ readyBits' = readyBits \ Word(word)
  /\ pc' = "visit"
  /\ UNCHANGED <<used, abort, epoch, future, word, cur, spawner, call, ghost>>

WordDone ==
  /\ pc = "visit" /\ taken = {}
  /\ word' = word + 1
  /\ pc' = IF word' = NumWords THEN "loop" ELSE "sweep"
  /\ UNCHANGED <<arena, taken, cur, spawner, call, ghost>>

\* A stale wake of a free slot is skipped.
VisitFree ==
  /\ pc = "visit"
  /\ \E s \in taken \ used : Lowest(s, taken) /\ taken' = taken \ {s}
  /\ UNCHANGED <<arena, pc, word, cur, spawner, call, ghost>>

\* What the auxiliary variables say of a task ends with it.
Forget(t) ==
  /\ woken' = woken \ {t}
  /\ requested' = requested \ {t} /\ honoured' = honoured \ {t}

\* abort.swap(false) was true: drop the future in place.
VisitAbort ==
  /\ pc = "visit"
  /\ \E s \in taken \cap used :
       /\ Lowest(s, taken) /\ abort[s]
       /\ taken' = taken \ {s}
       /\ cur' = s
       /\ abort' = [abort EXCEPT ![s] = FALSE]
       /\ future' = [future EXCEPT ![s] = None]
       /\ aborted' = aborted \cup ({future[s]} \ requested)
       /\ Forget(future[s])
  /\ pc' = "bump"
  /\ UNCHANGED <<used, readyBits, epoch, word, spawner, call, strayed>>

\* Otherwise the task is polled.
VisitPoll ==
  /\ pc = "visit"
  /\ \E s \in taken \cap used :
       /\ Lowest(s, taken) /\ ~abort[s]
       /\ taken' = taken \ {s}
       /\ cur' = s
       /\ woken' = woken \ {future[s]}
  /\ pc' = "poll"
  /\ UNCHANGED <<arena, word, spawner, call, requested, honoured,
                 strayed, aborted>>

TaskPending ==
  /\ pc = "poll" /\ OwnerFree
  /\ pc' = "visit" /\ cur' = NoSlot
  /\ UNCHANGED <<arena, word, taken, spawner, call, ghost>>

\* The future is ready: poll_slot drops it.
TaskReady ==
  /\ pc = "poll" /\ OwnerFree
  /\ future' = [future EXCEPT ![cur] = None]
  /\ Forget(future[cur])
  /\ pc' = "bump"
  /\ UNCHANGED <<used, readyBits, abort, epoch, word, taken, cur, spawner, call,
                 strayed, aborted>>

\* fetch_add on the epoch.
NextEpoch(e) == IF e + 1 = EpochMod THEN 0 ELSE e + 1

BumpEpoch ==
  /\ pc = "bump"
  /\ epoch' = [epoch EXCEPT ![cur] = NextEpoch(@)]
  /\ pc' = "clear"
  /\ UNCHANGED <<used, readyBits, abort, future, word, taken, cur, spawner, call,
                 ghost>>

ClearUsed ==
  /\ pc = "clear"
  /\ used' = used \ {cur}
  /\ pc' = "visit" /\ cur' = NoSlot
  /\ UNCHANGED <<readyBits, abort, epoch, future, word, taken, spawner, call,
                 ghost>>

\* The owner has left its event loop and the boot core calls drain_all_arenas.
DrainArena ==
  /\ pc = "loop" /\ OwnerFree
  /\ epoch' = [s \in Slots |-> IF s \in used THEN NextEpoch(epoch[s])
                                              ELSE epoch[s]]
  /\ future' = [s \in Slots |-> IF s \in used THEN None ELSE future[s]]
  /\ abort' = [s \in Slots |-> abort[s] /\ s \notin used]
  /\ used' = {} /\ readyBits' = {}
  /\ woken' = {} /\ requested' = {} /\ honoured' = {}
  /\ pc' = "stopped"
  /\ UNCHANGED <<word, taken, cur, spawner, call, strayed, aborted>>

-----------------------------------------------------------------------------
TickStep ==
  \/ TickStart \/ SweepWord \/ WordDone
  \/ VisitFree \/ VisitAbort \/ VisitPoll
  \/ TaskPending \/ TaskReady \/ BumpEpoch \/ ClearUsed
SpawnStep == SpawnClaim \/ SpawnFull \/ SpawnClearAbort \/ SpawnPublish
AbortStep(w) == AbortStore(w) \/ AbortMark(w)
CallStep(w) ==
  \/ \E s \in Slots : Wake(w, s)
  \/ \E t \in TaskIds : AbortCheck(w, t)
  \/ AbortStep(w)

ArenaNext ==
  \/ TickStep \/ SpawnStep \/ DrainArena
  \/ \E w \in Workers : CallStep(w)

ArenaSpec == ArenaInit /\ [][ArenaNext]_arenaVars

\* The event loop calls tick in every iteration; a poll returns (strong
\* fairness: it does not abort and spawn for ever); a call that has begun runs
\* to its end.
ArenaFairSpec ==
  /\ ArenaSpec
  /\ SF_arenaVars(TickStep)
  /\ WF_arenaVars(SpawnClearAbort \/ SpawnPublish)
  /\ \A w \in Workers : WF_arenaVars(AbortStep(w))

-----------------------------------------------------------------------------
(* Properties *)

ArenaTypeOK ==
  /\ used \subseteq Slots /\ readyBits \subseteq Slots /\ taken \subseteq Slots
  /\ abort \in [Slots -> BOOLEAN]
  /\ epoch \in [Slots -> 0 .. EpochMod - 1]
  /\ future \in [Slots -> TaskIds \cup {None}]
  /\ handle \in [TaskIds -> [slot : Slots \cup {NoSlot}, epoch : 0 .. EpochMod - 1]]
  /\ pc \in {"loop", "sweep", "visit", "poll", "bump", "clear", "stopped"}
  /\ word \in 0 .. NumWords
  /\ cur \in Slots \cup {NoSlot} /\ spawning \in Slots \cup {NoSlot}
  /\ cleared \in BOOLEAN /\ spawns \in 0 .. MaxSpawns
  /\ call \in [Workers -> [task : TaskIds \cup {None}, at : {"out", "store", "mark"}]]
  /\ woken \subseteq TaskIds /\ requested \subseteq TaskIds
  /\ honoured \subseteq TaskIds
  /\ strayed \subseteq TaskIds /\ aborted \subseteq TaskIds

\* A wake is not lost: a task woken (or spawned) since its last poll began has
\* its slot in the ready bitmap or among the bits the running tick has yet to
\* visit, whatever word the sweep is at.
WakePending ==
  \A s \in Slots : future[s] \in woken => s \in readyBits \cup taken

\* An abort is not lost: when a call of abort has run to its end and the task
\* still lives, its flag is up and tick is bound to visit the slot.
AbortPending ==
  \A t \in honoured : \A s \in Slots :
    future[s] = t => abort[s] /\ s \in readyBits \cup taken

\* is_finished is exact: it is false from spawn until the future is gone, and
\* once the epoch has moved it stays true although the slot is reused.
FinishedExact ==
  \A t \in TaskIds : handle[t].slot # NoSlot =>
    LET s == handle[t].slot IN
    /\ future[s] = t => ~IsFinished(t)
    /\ ~IsFinished(t) => future[s] = t \/ (pc = "bump" /\ cur = s)

\* "a stale handle to a reused slot becomes a no-op rather than aborting the
\* unrelated task" (TaskSlot::epoch): a task is only dropped by tick's abort
\* branch if somebody called abort on that task's own handle.
NoStrangerAborted == aborted = {}

\* The epoch check is as good as the owner's calls make it: a task that nobody
\* called abort on is only ever dropped if another worker's abort of the slot's
\* earlier task passed the check before that task ended and stored after this
\* one was spawned.
OnlyLateStoresStray == aborted \subseteq strayed

\* The arena loses no wake and no abort, is_finished is exact, and a task
\* nobody aborted is dropped only by an abort whose store came late.
ArenaExact == WakePending /\ AbortPending /\ FinishedExact /\ OnlyLateStoresStray

\* A woken task is polled, or ends, unless the system shuts down first.
WokenIsPolled ==
  \A t \in TaskIds : (t \in woken) ~> (t \notin woken)
=============================================================================
