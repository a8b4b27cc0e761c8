--------------------------- MODULE RuntimeProofs ----------------------------
(***************************************************************************)
(* Proofs about the pieces of a worker's executor.  The task arena, for any*)
(* number of workers, slots and spawns: no wake and no abort is lost,      *)
(* is_finished is exact, and a task nobody called abort on is only dropped *)
(* by an abort whose store came after its slot was reused.  The event and  *)
(* the cells, for any number of threads and calls: the event loses no      *)
(* wakeup, and what is written once is.  The timer wheel, for every size,  *)
(* clock bound and number of sleeps: no due timer is left behind.          *)
(***************************************************************************)
EXTENDS TimerWheel, TaskArena, Cells, TLAPS

-----------------------------------------------------------------------------
(* The task arena: the inductive invariant *)

ArenaType ==
  /\ used \subseteq Slots /\ readyBits \subseteq Slots /\ taken \subseteq Slots
  /\ abort \in [Slots -> BOOLEAN]
  /\ epoch \in [Slots -> Nat]
  /\ future \in [Slots -> TaskIds \cup {None}]
  /\ handle \in [TaskIds -> [slot : Slots \cup {NoSlot}, epoch : Nat]]
  /\ pc \in {"loop", "sweep", "visit", "poll", "bump", "clear", "stopped"}
  /\ cur \in Slots \cup {NoSlot} /\ spawning \in Slots \cup {NoSlot}
  /\ cleared \in BOOLEAN /\ spawns \in 0 .. MaxSpawns
  /\ call \in [Workers -> [task : TaskIds \cup {None}, at : {"out", "store", "mark"}]]

GhostType ==
  /\ woken \subseteq TaskIds /\ requested \subseteq TaskIds
  /\ honoured \subseteq TaskIds
  /\ strayed \subseteq TaskIds /\ aborted \subseteq TaskIds

\* Where the owner is: what tick took is visited before the next sweep, the
\* slot it polls holds a future, the slot it frees holds none, and it spawns
\* and aborts only from its loop or from a poll.
LoopInv ==
  /\ pc \in {"loop", "sweep", "stopped"} => taken = {}
  /\ pc = "poll" => cur \in used /\ future[cur] # None /\ cur # spawning
  /\ pc \in {"bump", "clear"} => cur \in used /\ future[cur] = None
  /\ spawning # NoSlot => pc \in {"loop", "poll"} /\ call[Owner] = NoCall
  /\ call[Owner].at # "out" => pc \in {"loop", "poll"}
  /\ spawning = NoSlot => ~cleared

\* A used slot holds a future, or is being freed; no two slots hold one task,
\* and tasks are numbered in the order of their spawns.
FutureInv ==
  /\ \A s \in Slots : future[s] # None => s \in used
  /\ \A s \in used : future[s] # None \/ (pc \in {"bump", "clear"} /\ cur = s)
  /\ \A s, u \in Slots : future[s] # None /\ future[s] = future[u] => s = u
  /\ \A s \in Slots : future[s] <= spawns

\* A task gets its handle when its slot is published, and the handle names
\* the slot for as long as the task lives.
HandleInv ==
  /\ \A t \in TaskIds : handle[t].slot # NoSlot => t <= spawns
  /\ \A s \in Slots : future[s] # None /\ s # spawning => handle[future[s]].slot = s
  /\ spawning # NoSlot =>
       /\ future[spawning] # None
       /\ handle[future[spawning]].slot = NoSlot

\* Epochs only grow, and a handle's epoch is the slot's for as long as its
\* task is in it (or its future was just dropped).
EpochInv ==
  /\ \A s \in Slots : epoch[s] <= spawns
  /\ \A s \in used : ~(pc = "clear" /\ cur = s) => epoch[s] < spawns
  /\ \A t \in TaskIds : handle[t].slot # NoSlot =>
       LET s == handle[t].slot IN
       /\ handle[t].epoch <= epoch[s]
       /\ future[s] = t => epoch[s] = handle[t].epoch
       /\ epoch[s] = handle[t].epoch => future[s] = t \/ (pc = "bump" /\ cur = s)

\* Calls of abort: who is in one has a published task; the owner's own calls
\* return before the task can end; a task for which the flag was stored has
\* it up for as long as it lives; and whoever's task still lives is recorded.
CallOf(w, t, s) ==
  /\ w = Owner => future[s] = t
  /\ future[s] = t => t \in requested
  /\ future[s] = t /\ call[w].at = "mark" => abort[s]
CallInv ==
  \A w \in Workers : call[w].at # "out" =>
    /\ call[w].task \in TaskIds /\ handle[call[w].task].slot # NoSlot
    /\ CallOf(w, call[w].task, handle[call[w].task].slot)

\* The auxiliary sets speak of tasks that were spawned and published, and a
\* flag that is up over a task is somebody's request or a late store.
FlagInv ==
  /\ \A t \in woken : t <= spawns
  /\ \A t \in honoured : handle[t].slot # NoSlot
  /\ \A s \in Slots : abort[s] /\ future[s] # None /\ ~(spawning = s /\ ~cleared)
       => future[s] \in requested \cup strayed

ArenaInv ==
  /\ ArenaType /\ GhostType
  /\ LoopInv /\ FutureInv /\ HandleInv /\ EpochInv /\ CallInv /\ FlagInv
  /\ WakePending /\ AbortPending /\ OnlyLateStoresStray

-----------------------------------------------------------------------------
(* Every step preserves it *)

LEMMA SlotsAreNat ==
  Slots \subseteq Nat /\ NoSlot \notin Slots /\ None \notin TaskIds
BY ArenaAssumption, SMTT(60) DEF Slots, NoSlot, None, TaskIds

LEMMA SpawnClaimStep ==
  ASSUME ArenaInv, SpawnClaim PROVE ArenaInv'
<1> USE SlotsAreNat DEF ArenaInv, SpawnClaim, arena, loop, spawner, ghost
<1>1. PICK s \in Slots : /\ s \notin used /\ used' = used \cup {s} /\ spawning' = s
                        /\ future' = [future EXCEPT ![s] = spawns + 1]
  BY Zenon DEF Lowest
<1>2. /\ future[s] = None /\ spawns + 1 \in TaskIds /\ spawning = NoSlot /\ call[Owner] = NoCall
      /\ pc \in {"loop", "poll"} /\ spawns \in Nat /\ spawns' = spawns + 1
  BY <1>1, ArenaAssumption, SMTT(60) DEF FutureInv, ArenaType, TaskIds, OwnerMayCall, OwnerFree
<1>3. \A x \in Slots : future'[x] = IF x = s THEN spawns + 1 ELSE future[x]
  BY Zenon, <1>1 DEF ArenaType
<1>4. \A x \in Slots : future[x] # spawns + 1
  BY <1>2, SMTT(60) DEF FutureInv, ArenaType, TaskIds, None
<1>5. /\ readyBits' = readyBits /\ abort' = abort /\ epoch' = epoch /\ pc' = pc /\ word' = word
      /\ taken' = taken
      /\ cur' = cur /\ handle' = handle /\ cleared' = cleared /\ call' = call /\ woken' = woken
      /\ requested' = requested
      /\ honoured' = honoured /\ strayed' = strayed /\ aborted' = aborted
  BY Zenon
<1> USE <1>1, <1>2, <1>3, <1>4, <1>5
<1> HIDE DEF SpawnClaim, arena, loop, spawner, ghost
<1>6. ArenaType' BY SMTT(60), ArenaAssumption DEF ArenaType, TaskIds
<1>7. LoopInv' BY Zenon DEF ArenaType, LoopInv, FutureInv, None
<1>8. FutureInv'
  <2>1. \A x \in Slots : future'[x] # None => x \in used'
    BY Zenon DEF FutureInv
  <2>2. \A x \in used' : future'[x] # None \/ (pc' \in {"bump", "clear"} /\ cur' = x)
    BY Zenon DEF FutureInv, ArenaType
  <2>3. \A x, y \in Slots : future'[x] # None /\ future'[x] = future'[y] => x = y
    BY SMTT(60) DEF FutureInv
  <2>4. \A x \in Slots : future'[x] <= spawns'
    BY SMTT(60) DEF FutureInv, ArenaType, TaskIds, None
  <2> QED BY Zenon, <2>1, <2>2, <2>3, <2>4 DEF FutureInv
<1>9. HandleInv' BY SMTT(60) DEF ArenaType, HandleInv, TaskIds, None
<1>10. EpochInv' BY SMTT(60) DEF ArenaType, EpochInv, HandleInv, FutureInv, TaskIds, None
<1>11. CallInv'
  <2> SUFFICES ASSUME NEW v \in Workers, call'[v].at # "out"
               PROVE  /\ call'[v].task \in TaskIds /\ handle'[call'[v].task].slot # NoSlot
                      /\ CallOf(v, call[v].task, handle[call[v].task].slot)'
    BY Zenon DEF CallInv
  <2>1. PICK u \in TaskIds, x \in Slots : call[v].task = u /\ handle[u].slot = x /\ CallOf(v, u, x)
    <3>1. /\ call[v].task \in TaskIds /\ handle[call[v].task].slot # NoSlot
          /\ CallOf(v, call[v].task, handle[call[v].task].slot)
      BY Zenon DEF CallInv
    <3>2. handle[call[v].task].slot \in Slots
      BY <3>1, Zenon DEF ArenaType
    <3> QED BY <3>1, <3>2, Zenon
  <2>2. v # Owner /\ x # NoSlot
    <3>1. NoCall.at = "out"
      BY Zenon DEF NoCall
    <3>2. call[v] # NoCall
      BY <3>1, Zenon
    <3> QED BY <3>2, Zenon
  <2>3. u # spawns + 1
    <3>1. u <= spawns
      BY <2>1, <2>2, Zenon DEF HandleInv
    <3> QED BY <3>1, SMTT(60) DEF TaskIds
  <2>4. future'[x] = u => future[x] = u
    BY <2>3, Zenon
  <2> QED BY <2>1, <2>2, <2>4, Zenon DEF CallOf
<1>12. FlagInv' BY SMTT(60) DEF ArenaType, FlagInv, LoopInv, GhostType, TaskIds
<1>13. WakePending'
  <2>1. \A x \in Slots : future'[x] \in woken => x # s
    BY SMTT(60) DEF FlagInv
  <2> QED BY <2>1, SMTT(60) DEF WakePending
<1>14. AbortPending' BY SMTT(60) DEF ArenaType, AbortPending, FlagInv, HandleInv, GhostType, TaskIds
<1>15. GhostType' /\ OnlyLateStoresStray'
  BY Zenon DEF GhostType, OnlyLateStoresStray
<1> QED BY Zenon, <1>6, <1>7, <1>8, <1>9, <1>10, <1>11, <1>12, <1>13, <1>14, <1>15

LEMMA SpawnFullStep ==
  ASSUME ArenaInv, SpawnFull PROVE ArenaInv'
<1> USE SlotsAreNat DEF ArenaInv, SpawnFull, arena, loop, spawner, ghost
<1>1. spawns \in Nat /\ spawns' = spawns + 1 /\ spawns' \in 0 .. MaxSpawns
  BY ArenaAssumption, SMTT(60) DEF ArenaType
<1>2. \A x \in Slots : future[x] \in Nat /\ epoch[x] \in Nat
  BY SMTT(60) DEF ArenaType, TaskIds, None
<1>3. /\ used' = used /\ readyBits' = readyBits /\ abort' = abort /\ epoch' = epoch
      /\ future' = future /\ pc' = pc
      /\ word' = word /\ taken' = taken /\ cur' = cur /\ handle' = handle
      /\ spawning' = spawning /\ cleared' = cleared
      /\ call' = call /\ woken' = woken /\ requested' = requested /\ honoured' = honoured
      /\ strayed' = strayed /\ aborted' = aborted
  BY Zenon
<1> USE <1>1, <1>3
<1> HIDE DEF SpawnFull, arena, loop, spawner, ghost
<1>4. ArenaType' BY Zenon DEF ArenaType
<1>5. FutureInv' BY <1>2, SMTT(60) DEF FutureInv
<1>6. HandleInv'
  <2>1. \A t \in TaskIds : t <= spawns => t <= spawns + 1
    BY SMTT(60) DEF TaskIds
  <2> QED BY <2>1, Zenon DEF HandleInv
<1>7. EpochInv' BY <1>2, SMTT(60) DEF EpochInv, ArenaType
<1>8. FlagInv'
  <2>1. \A t \in woken : t \in Nat
    BY SMTT(60) DEF GhostType, TaskIds
  <2> QED BY <2>1, SMTT(60) DEF FlagInv
<1>9. GhostType' /\ LoopInv' /\ CallInv' /\ WakePending' /\ AbortPending' /\ OnlyLateStoresStray'
  BY Zenon DEF GhostType, LoopInv, CallInv, WakePending, AbortPending, OnlyLateStoresStray, CallOf
<1> QED BY Zenon, <1>4, <1>5, <1>6, <1>7, <1>8, <1>9

LEMMA SpawnClearAbortStep ==
  ASSUME ArenaInv, SpawnClearAbort PROVE ArenaInv'
<1> USE SlotsAreNat DEF ArenaInv, SpawnClearAbort, arena, loop, spawner, ghost
<1>1. /\ used' = used /\ readyBits' = readyBits /\ epoch' = epoch /\ future' = future
      /\ pc' = pc /\ word' = word
      /\ taken' = taken /\ cur' = cur /\ handle' = handle /\ spawning' = spawning
      /\ spawns' = spawns /\ call' = call
      /\ woken' = woken /\ requested' = requested /\ honoured' = honoured /\ strayed' = strayed
      /\ aborted' = aborted /\ spawning # NoSlot /\ ~cleared
      /\ abort' = [abort EXCEPT ![spawning] = FALSE] /\ cleared' = TRUE
  BY Zenon
<1> USE <1>1
<1> HIDE DEF SpawnClearAbort, arena, loop, spawner, ghost
<1>2. ArenaType' BY Zenon DEF ArenaType
<1>3. LoopInv' BY Zenon DEF ArenaType, LoopInv
<1>4. CallInv' BY Zenon DEF ArenaType, CallInv, CallOf, HandleInv
<1>5. FlagInv' BY Zenon DEF ArenaType, FlagInv
<1>6. AbortPending' BY ZenonT(60) DEF ArenaType, AbortPending, FlagInv, HandleInv
<1>7. GhostType' /\ FutureInv' /\ HandleInv' /\ EpochInv' /\ WakePending' /\ OnlyLateStoresStray'
  BY Zenon DEF GhostType, FutureInv, HandleInv, EpochInv, WakePending, OnlyLateStoresStray
<1> QED BY Zenon, <1>2, <1>3, <1>4, <1>5, <1>6, <1>7

LEMMA SpawnPublishStep ==
  ASSUME ArenaInv, SpawnPublish PROVE ArenaInv'
<1> USE SlotsAreNat DEF ArenaInv, SpawnPublish, arena, loop, spawner, ghost
<1>1. PICK t \in TaskIds : future[spawning] = t /\ handle[t].slot = NoSlot /\ spawning \in Slots
  BY Zenon DEF HandleInv, ArenaType
<1>2. handle' = [handle EXCEPT ![t] = [slot |-> spawning, epoch |-> epoch[spawning]]]
  BY Zenon, <1>1
<1>3. /\ handle'[t].slot = spawning /\ handle'[t].epoch = epoch[spawning]
      /\ \A u \in TaskIds : u # t => handle'[u] = handle[u]
  BY <1>1, <1>2, SMTT(60) DEF ArenaType
<1>4. /\ used' = used /\ abort' = abort /\ epoch' = epoch /\ future' = future /\ pc' = pc
      /\ word' = word
      /\ taken' = taken /\ cur' = cur /\ spawns' = spawns /\ call' = call
      /\ requested' = requested /\ honoured' = honoured
      /\ strayed' = strayed /\ aborted' = aborted /\ spawning # NoSlot /\ cleared
      /\ readyBits' = readyBits \cup {spawning} /\ woken' = woken \cup {future[spawning]}
      /\ spawning' = NoSlot /\ cleared' = FALSE
  BY Zenon
<1> USE <1>1, <1>2, <1>3, <1>4
<1> HIDE DEF SpawnPublish, arena, loop, spawner, ghost
<1>5. ArenaType'
  <2>1. [slot |-> spawning, epoch |-> epoch[spawning]] \in [slot : Slots \cup {NoSlot}, epoch : Nat]
    BY Zenon DEF ArenaType
  <2>2. handle' \in [TaskIds -> [slot : Slots \cup {NoSlot}, epoch : Nat]]
    BY Zenon, <2>1 DEF ArenaType
  <2> QED BY <2>2, Zenon DEF ArenaType
<1>6. GhostType' BY Zenon DEF GhostType
<1>7. LoopInv' BY ZenonT(60) DEF ArenaType, LoopInv
<1>8. HandleInv' BY SMTT(60) DEF HandleInv, FutureInv, ArenaType
<1>9. EpochInv' BY SMTT(60) DEF EpochInv, FutureInv, ArenaType
<1>10. CallInv'
  <2>1. ASSUME NEW v \in Workers, call[v].at # "out"
        PROVE  call[v].task \in TaskIds /\ handle'[call[v].task] = handle[call[v].task]
    BY <2>1, ZenonT(60) DEF CallInv
  <2> SUFFICES ASSUME NEW v \in Workers, call'[v].at # "out"
               PROVE  /\ call'[v].task \in TaskIds /\ handle'[call'[v].task].slot # NoSlot
                      /\ CallOf(v, call[v].task, handle[call[v].task].slot)'
    BY Zenon DEF CallInv
  <2>2. /\ call[v].task \in TaskIds /\ handle[call[v].task].slot # NoSlot
        /\ CallOf(v, call[v].task, handle[call[v].task].slot)
    BY Zenon DEF CallInv
  <2>3. call'[v].task = call[v].task /\ handle'[call[v].task] = handle[call[v].task]
    BY <2>1, Zenon
  <2> QED BY <2>2, <2>3, Zenon DEF CallOf
<1>11. FlagInv' BY SMTT(60) DEF FlagInv, FutureInv, GhostType, ArenaType
<1>12. WakePending' BY Zenon DEF WakePending, FutureInv
<1>13. AbortPending' BY ZenonT(60) DEF ArenaType, AbortPending
<1>14. FutureInv' /\ OnlyLateStoresStray'
  BY Zenon DEF FutureInv, OnlyLateStoresStray
<1> QED BY Zenon, <1>5, <1>6, <1>7, <1>8, <1>9, <1>10, <1>11, <1>12, <1>13, <1>14

LEMMA WakeStep ==
  ASSUME ArenaInv, NEW w \in Workers, NEW s \in Slots, Wake(w, s) PROVE ArenaInv'
<1> USE SlotsAreNat DEF ArenaInv, Wake, arena, loop, spawner, ghost
<1>1. /\ used' = used /\ abort' = abort /\ epoch' = epoch /\ future' = future /\ pc' = pc
      /\ word' = word
      /\ taken' = taken /\ cur' = cur /\ handle' = handle /\ spawning' = spawning
      /\ cleared' = cleared /\ spawns' = spawns
      /\ call' = call /\ requested' = requested /\ honoured' = honoured /\ strayed' = strayed
      /\ aborted' = aborted
      /\ readyBits' = readyBits \cup {s} /\ woken' = woken \cup ({future[s]} \ {None})
  BY Zenon
<1> USE <1>1
<1> HIDE DEF Wake, arena, loop, spawner, ghost
<1>2. ArenaType' BY Zenon DEF ArenaType
<1>3. GhostType' BY ZenonT(60) DEF ArenaType, GhostType
<1>4. FlagInv' BY Zenon DEF FlagInv, FutureInv, ArenaType
<1>5. WakePending' BY Zenon DEF WakePending, FutureInv
<1>6. AbortPending' BY Zenon DEF ArenaType, AbortPending
<1>7. LoopInv' /\ FutureInv' /\ HandleInv' /\ EpochInv' /\ CallInv' /\ OnlyLateStoresStray'
  BY Zenon DEF LoopInv, FutureInv, HandleInv, EpochInv, CallInv, OnlyLateStoresStray, CallOf
<1> QED BY Zenon, <1>2, <1>3, <1>4, <1>5, <1>6, <1>7

LEMMA AbortCheckStep ==
  ASSUME ArenaInv, NEW w \in Workers, NEW t \in TaskIds, AbortCheck(w, t) PROVE ArenaInv'
<1> USE SlotsAreNat DEF ArenaInv, AbortCheck, arena, loop, spawner, ghost
<1>1. \A v \in Workers : \/ call'[v] = call[v]
                         \/ /\ v = w /\ call'[v] = [task |-> t, at |-> "store"]
                            /\ epoch[handle[t].slot] = handle[t].epoch
  BY Zenon DEF ArenaType
<1>2. w = Owner => pc \in {"loop", "poll"} /\ spawning = NoSlot
  BY Zenon DEF OwnerMayCall, OwnerFree
<1>3. Owner \in Workers
  BY Zenon DEF Workers
<1>4. /\ used' = used /\ readyBits' = readyBits /\ abort' = abort /\ epoch' = epoch
      /\ future' = future /\ pc' = pc
      /\ word' = word /\ taken' = taken /\ cur' = cur /\ handle' = handle
      /\ spawning' = spawning /\ cleared' = cleared
      /\ spawns' = spawns /\ woken' = woken /\ honoured' = honoured /\ strayed' = strayed
      /\ aborted' = aborted /\ handle[t].slot # NoSlot
      /\ requested' = requested \cup ({t} \cap Live)
      /\ call' \in {call, [call EXCEPT ![w] = [task |-> t, at |-> "store"]]}
  BY Zenon
<1> USE <1>1, <1>2, <1>3, <1>4
<1> HIDE DEF AbortCheck, arena, loop, spawner, ghost
<1>5. ArenaType' BY SMTT(60) DEF ArenaType
<1>6. GhostType' BY Zenon DEF ArenaType, GhostType
<1>7. LoopInv' BY ZenonT(60) DEF LoopInv, NoCall
<1>8. CallInv'
  <2>1. call'[w] = [task |-> t, at |-> "store"] /\ epoch[handle[t].slot] = handle[t].epoch
        => CallOf(w, t, handle[t].slot)'
    <3> SUFFICES ASSUME call'[w] = [task |-> t, at |-> "store"], epoch[handle[t].slot] = handle[t].epoch
                 PROVE  CallOf(w, t, handle[t].slot)'
      BY Zenon
    <3>1. call'[w].at # "mark"
      <4>1. [task |-> t, at |-> "store"].at = "store"
        BY Zenon
      <4>2. call'[w].at = "store"
        BY <4>1, Zenon
      <4> QED BY <4>2, Zenon
    <3>2. w = Owner => future[handle[t].slot] = t
      BY Zenon DEF EpochInv
    <3>3. future[handle[t].slot] = t => t \in requested'
      <4>1. handle[t].slot \in Slots /\ t # None
        BY Zenon DEF ArenaType
      <4> QED BY <4>1, Zenon DEF Live
    <3> QED BY <3>1, <3>2, <3>3, Zenon DEF CallOf
  <2>2. ASSUME NEW v \in Workers, call'[v] = call[v], call[v].at # "out"
        PROVE  CallOf(v, call[v].task, handle[call[v].task].slot)'
    <3>1. CallOf(v, call[v].task, handle[call[v].task].slot)
      BY Zenon, <2>2 DEF CallInv
    <3> QED BY Zenon, <2>2, <3>1 DEF CallOf
  <2> SUFFICES ASSUME NEW v \in Workers, call'[v].at # "out"
               PROVE  /\ call'[v].task \in TaskIds /\ handle'[call'[v].task].slot # NoSlot
                      /\ CallOf(v, call[v].task, handle[call[v].task].slot)'
    BY Zenon DEF CallInv
  <2>3. CASE call'[v] = call[v]
    <3>1. call[v].at # "out"
      BY <2>3, Zenon
    <3>2. call[v].task \in TaskIds /\ handle[call[v].task].slot # NoSlot
      BY <3>1, Zenon DEF CallInv
    <3>3. CallOf(v, call[v].task, handle[call[v].task].slot)'
      BY <2>2, <2>3, <3>1, Zenon
    <3> QED BY <2>3, <3>2, <3>3, Zenon
  <2>4. CASE v = w /\ call'[v] = [task |-> t, at |-> "store"] /\ epoch[handle[t].slot] = handle[t].epoch
    <3>1. [task |-> t, at |-> "store"].task = t
      BY SMTT(60)
    <3>2. call'[v].task = t /\ handle'[t].slot = handle[t].slot
      BY <2>4, <3>1, Zenon
    <3> QED BY <2>1, <2>4, <3>2, Zenon DEF CallOf
  <2> QED BY <2>3, <2>4, Zenon
<1>9. FlagInv' BY Zenon DEF ArenaType, FlagInv
<1>10. FutureInv' /\ HandleInv' /\ EpochInv' /\ WakePending' /\ AbortPending' /\
      OnlyLateStoresStray'
  BY Zenon DEF FutureInv, HandleInv, EpochInv, WakePending, AbortPending, OnlyLateStoresStray
<1> QED BY Zenon, <1>5, <1>6, <1>7, <1>8, <1>9, <1>10

LEMMA AbortStoreStep ==
  ASSUME ArenaInv, NEW w \in Workers, AbortStore(w) PROVE ArenaInv'
<1> USE SlotsAreNat DEF ArenaInv, AbortStore, arena, loop, spawner, ghost
<1>1. PICK t \in TaskIds, s \in Slots : /\ call[w].task = t /\ handle[t].slot = s
                                     /\ CallOf(w, t, s)
  BY Zenon DEF CallInv, ArenaType
<1>2. /\ call'[w] = [task |-> t, at |-> "mark"]
      /\ \A v \in Workers : v # w => call'[v] = call[v]
      /\ abort'[s] = TRUE /\ \A x \in Slots : x # s => abort'[x] = abort[x]
  BY Zenon, <1>1 DEF ArenaType
<1>3. /\ future[s] \in TaskIds \cup {None}
      /\ strayed' = strayed \cup (IF w = Owner THEN {} ELSE {future[s]} \ {None, t})
  BY Zenon, <1>1 DEF ArenaType
<1>4. Owner \in Workers
  BY Zenon DEF Workers
<1>5. /\ used' = used /\ readyBits' = readyBits /\ epoch' = epoch /\ future' = future
      /\ pc' = pc /\ word' = word
      /\ taken' = taken /\ cur' = cur /\ handle' = handle /\ spawning' = spawning
      /\ cleared' = cleared /\ spawns' = spawns
      /\ woken' = woken /\ requested' = requested /\ honoured' = honoured /\ aborted' = aborted
      /\ call[w].at = "store"
      /\ call' = [call EXCEPT ![w] = [task |-> @.task, at |-> "mark"]]
      /\ abort' = [abort EXCEPT ![handle[call[w].task].slot] = TRUE]
  BY Zenon
<1> USE <1>1, <1>2, <1>3, <1>4, <1>5
<1> HIDE DEF AbortStore, arena, loop, spawner, ghost
<1>6. ArenaType' BY Zenon DEF ArenaType
<1>7. GhostType' BY ZenonT(60) DEF GhostType
<1>8. LoopInv' BY SMTT(60) DEF LoopInv, NoCall
<1>9. CallInv'
  <2>1. SUFFICES ASSUME NEW v \in Workers, call'[v].at # "out"
                 PROVE  /\ call'[v].task \in TaskIds /\ handle[call'[v].task].slot # NoSlot
                        /\ CallOf(v, call[v].task, handle[call[v].task].slot)'
    BY ZenonT(60) DEF CallInv
  <2>2. CASE v = w
    <3>0. [task |-> t, at |-> "mark"].task = t
      BY SMTT(60)
    <3>1. call'[v].task = t /\ handle'[t].slot = s /\ s # NoSlot
      BY <2>2, <3>0, Zenon
    <3>2. /\ w = Owner => future'[s] = t
          /\ future'[s] = t => t \in requested'
          /\ abort'[s]
      BY Zenon DEF CallOf
    <3> QED BY <2>2, <3>1, <3>2, Zenon DEF CallOf
  <2>3. CASE v # w
    <3>1. call'[v] = call[v] /\ call[v].at # "out"
      BY Zenon, <2>1, <2>3
    <3>2. PICK u \in TaskIds, x \in Slots : call[v].task = u /\ handle[u].slot = x /\ CallOf(v, u, x)
      <4>1. call[v].task \in TaskIds /\ handle[call[v].task].slot # NoSlot
            /\ CallOf(v, call[v].task, handle[call[v].task].slot)
        BY <3>1, ZenonT(60) DEF CallInv
      <4>2. handle[call[v].task].slot \in Slots
        BY <4>1, SMTT(60) DEF ArenaType
      <4> QED BY <4>1, <4>2, Zenon
    <3>3. /\ call'[v].task = u /\ handle'[u].slot = x /\ x # NoSlot
          /\ abort[x] => abort'[x]
      BY <3>1, <3>2, Zenon
    <3>4. /\ v = Owner => future'[x] = u
          /\ future'[x] = u => u \in requested'
          /\ future'[x] = u /\ call'[v].at = "mark" => abort'[x]
      <4>1. /\ v = Owner => future[x] = u
            /\ future[x] = u => u \in requested
            /\ future[x] = u /\ call[v].at = "mark" => abort[x]
        BY <3>2, Zenon DEF CallOf
      <4> QED BY <3>1, <3>3, <4>1, Zenon
    <3>5. CallOf(v, call[v].task, handle[call[v].task].slot)'
      BY <3>3, <3>4, Zenon DEF CallOf
    <3> QED BY <3>3, <3>5, Zenon
  <2> QED BY Zenon, <2>2, <2>3
<1>10. FlagInv' BY Zenon DEF FlagInv, CallOf
<1>11. AbortPending' BY ZenonT(60) DEF AbortPending
<1>12. OnlyLateStoresStray' BY Zenon DEF OnlyLateStoresStray
<1>13. FutureInv' /\ HandleInv' /\ EpochInv' /\ WakePending'
  BY Zenon DEF FutureInv, HandleInv, EpochInv, WakePending
<1> QED BY Zenon, <1>6, <1>7, <1>8, <1>9, <1>10, <1>11, <1>12, <1>13

LEMMA AbortMarkStep ==
  ASSUME ArenaInv, NEW w \in Workers, AbortMark(w) PROVE ArenaInv'
<1> USE SlotsAreNat DEF ArenaInv, AbortMark, arena, loop, spawner, ghost
<1>1. PICK t \in TaskIds, s \in Slots : /\ call[w].task = t /\ handle[t].slot = s
                                     /\ CallOf(w, t, s)
  BY Zenon DEF CallInv, ArenaType
<1>2. call'[w] = NoCall /\ \A v \in Workers : v # w => call'[v] = call[v]
  BY Zenon DEF ArenaType
<1>3. readyBits' = readyBits \cup {s} /\ honoured' = honoured \cup ({t} \cap Live)
  BY Zenon, <1>1
<1>4. Owner \in Workers
  BY Zenon DEF Workers
<1>5. /\ used' = used /\ abort' = abort /\ epoch' = epoch /\ future' = future /\ pc' = pc
      /\ word' = word
      /\ taken' = taken /\ cur' = cur /\ handle' = handle /\ spawning' = spawning
      /\ cleared' = cleared /\ spawns' = spawns
      /\ woken' = woken /\ requested' = requested /\ strayed' = strayed /\ aborted' = aborted
      /\ call[w].at = "mark"
      /\ call' = [call EXCEPT ![w] = NoCall]
  BY Zenon
<1> USE <1>1, <1>2, <1>3, <1>4, <1>5
<1> HIDE DEF AbortMark, arena, loop, spawner, ghost
<1>6. ArenaType' BY Zenon DEF ArenaType, NoCall
<1>7. GhostType' BY Zenon DEF GhostType
<1>8. LoopInv' BY Zenon DEF LoopInv, NoCall
<1>9. CallInv'
  <2>1. SUFFICES ASSUME NEW v \in Workers, call'[v].at # "out"
                 PROVE  /\ call'[v].task \in TaskIds /\ handle[call'[v].task].slot # NoSlot
                        /\ CallOf(v, call[v].task, handle[call[v].task].slot)'
    BY Zenon DEF CallInv
  <2>2. v # w /\ call'[v] = call[v]
    <3>1. NoCall.at = "out"
      BY Zenon DEF NoCall
    <3>2. v # w
      BY <2>1, <3>1, Zenon
    <3> QED BY <3>2, Zenon
  <2>3. PICK u \in TaskIds, x \in Slots : call[v].task = u /\ handle[u].slot = x /\ CallOf(v, u, x)
    BY <2>1, <2>2, Zenon DEF CallInv, ArenaType
  <2> QED BY <2>2, <2>3, ZenonT(60) DEF CallOf
<1>10. FlagInv' BY ZenonT(60) DEF FlagInv
<1>11. WakePending' BY Zenon DEF WakePending
<1>12. AbortPending'
  <2> SUFFICES ASSUME NEW u \in honoured', NEW x \in Slots, future[x] = u
               PROVE  abort[x] /\ x \in readyBits' \cup taken
    BY Zenon DEF AbortPending
  <2>1. CASE u \in honoured
    BY <2>1, Zenon DEF AbortPending
  <2>2. CASE u = t
    <3>1. t # None /\ s # NoSlot
      BY Zenon
    <3>2. x # spawning
      BY <2>2, <3>1, Zenon DEF HandleInv
    <3>3. x = s
      <4>1. future[x] # None /\ x # spawning => handle[future[x]].slot = x
        BY Zenon DEF HandleInv
      <4>2. future[x] = t
        BY <2>2, Zenon
      <4>3. handle[future[x]].slot = s
        BY <4>2, Zenon
      <4> QED BY <3>1, <3>2, <4>1, <4>2, <4>3, Zenon
    <3>4. future[s] = t => abort[s]
      BY Zenon DEF CallOf
    <3>5. s \in readyBits'
      BY Zenon
    <3> QED BY <2>2, <3>3, <3>4, <3>5, Zenon
  <2> QED BY <2>1, <2>2, Zenon
<1>13. FutureInv' /\ HandleInv' /\ EpochInv' /\ OnlyLateStoresStray'
  BY ZenonT(60) DEF FutureInv, HandleInv, EpochInv, OnlyLateStoresStray
<1> QED BY Zenon, <1>6, <1>7, <1>8, <1>9, <1>10, <1>11, <1>12, <1>13

\* The owner goes on in its loop: tick begins, goes to the next word, or
\* leaves a task that is pending.
LEMMA OwnerMovesStep ==
  ASSUME ArenaInv, TickStart \/ WordDone \/ TaskPending PROVE ArenaInv'
<1> USE SlotsAreNat DEF ArenaInv, TickStart, WordDone, TaskPending, arena, loop, spawner, ghost
<1>1. /\ spawning = NoSlot /\ call[Owner].at = "out" /\ pc \notin {"bump", "clear"}
      /\ pc' \in {"sweep", "loop", "visit"} /\ (pc' # "visit" => taken = {})
      /\ cur' \in {cur, NoSlot}
  BY SMTT(60) DEF LoopInv, OwnerFree, NoCall
<1>2. /\ used' = used /\ readyBits' = readyBits /\ abort' = abort /\ epoch' = epoch
      /\ future' = future /\ taken' = taken
      /\ handle' = handle /\ spawning' = spawning /\ cleared' = cleared /\ spawns' = spawns
      /\ call' = call /\ woken' = woken
      /\ requested' = requested /\ honoured' = honoured /\ strayed' = strayed
      /\ aborted' = aborted
  BY Zenon
<1> USE <1>1, <1>2
<1> HIDE DEF TickStart, WordDone, TaskPending, arena, loop, spawner, ghost
<1>3. ArenaType' BY Zenon DEF ArenaType
<1>4. LoopInv' BY Zenon DEF LoopInv
<1>5. FutureInv' BY Zenon DEF FutureInv
<1>6. EpochInv' BY Zenon DEF EpochInv
<1>7. GhostType' /\ HandleInv' /\ CallInv' /\ FlagInv' /\ WakePending' /\ AbortPending' /\
      OnlyLateStoresStray'
  BY Zenon DEF GhostType, HandleInv, CallInv, FlagInv, WakePending, AbortPending, OnlyLateStoresStray,
     CallOf
<1> QED BY Zenon, <1>3, <1>4, <1>5, <1>6, <1>7

LEMMA SweepWordStep ==
  ASSUME ArenaInv, SweepWord PROVE ArenaInv'
<1> USE SlotsAreNat DEF ArenaInv, SweepWord, arena, loop, spawner, ghost
<1>1. /\ used' = used /\ abort' = abort /\ epoch' = epoch /\ future' = future /\ word' = word
      /\ cur' = cur
      /\ handle' = handle /\ spawning' = spawning /\ cleared' = cleared /\ spawns' = spawns
      /\ call' = call /\ woken' = woken
      /\ requested' = requested /\ honoured' = honoured /\ strayed' = strayed
      /\ aborted' = aborted /\ pc = "sweep" /\ pc' = "visit"
      /\ taken' = readyBits \cap Word(word) /\ readyBits' = readyBits \ Word(word)
  BY Zenon
<1> USE <1>1
<1> HIDE DEF SweepWord, arena, loop, spawner, ghost
<1>2. ArenaType' BY Zenon DEF ArenaType
<1>3. LoopInv' BY Zenon DEF LoopInv
<1>4. FutureInv' BY Zenon DEF FutureInv
<1>5. EpochInv' BY Zenon DEF EpochInv
<1>6. WakePending' BY Zenon DEF WakePending, LoopInv
<1>7. AbortPending' BY Zenon DEF AbortPending, LoopInv
<1>8. GhostType' /\ HandleInv' /\ CallInv' /\ FlagInv' /\ OnlyLateStoresStray'
  BY Zenon DEF GhostType, HandleInv, CallInv, FlagInv, OnlyLateStoresStray, CallOf
<1> QED BY Zenon, <1>2, <1>3, <1>4, <1>5, <1>6, <1>7, <1>8

LEMMA VisitFreeStep ==
  ASSUME ArenaInv, VisitFree PROVE ArenaInv'
<1> USE SlotsAreNat DEF ArenaInv, VisitFree, arena, loop, spawner, ghost
<1>1. PICK s \in Slots : taken' = taken \ {s} /\ future[s] = None
  BY Zenon DEF FutureInv, ArenaType
<1>2. /\ used' = used /\ readyBits' = readyBits /\ abort' = abort /\ epoch' = epoch
      /\ future' = future /\ pc' = pc
      /\ word' = word /\ cur' = cur /\ handle' = handle /\ spawning' = spawning
      /\ cleared' = cleared /\ spawns' = spawns
      /\ call' = call /\ woken' = woken /\ requested' = requested /\ honoured' = honoured
      /\ strayed' = strayed /\ aborted' = aborted /\ pc = "visit"
  BY Zenon
<1> USE <1>1, <1>2
<1> HIDE DEF VisitFree, arena, loop, spawner, ghost
<1>3. ArenaType' BY Zenon DEF ArenaType
<1>4. LoopInv' BY Zenon DEF LoopInv
<1>5. WakePending' BY Zenon DEF WakePending, GhostType
<1>6. AbortPending' BY Zenon DEF AbortPending, GhostType
<1>7. GhostType' /\ FutureInv' /\ HandleInv' /\ EpochInv' /\ CallInv' /\ FlagInv' /\
      OnlyLateStoresStray'
  BY Zenon DEF GhostType, FutureInv, HandleInv, EpochInv, CallInv, FlagInv, OnlyLateStoresStray, CallOf
<1> QED BY Zenon, <1>3, <1>4, <1>5, <1>6, <1>7

LEMMA VisitPollStep ==
  ASSUME ArenaInv, VisitPoll PROVE ArenaInv'
<1> USE SlotsAreNat DEF ArenaInv, VisitPoll, arena, loop, spawner, ghost
<1>1. PICK s \in Slots : /\ s \in used /\ ~abort[s] /\ taken' = taken \ {s} /\ cur' = s
                        /\ woken' = woken \ {future[s]}
  BY Zenon DEF ArenaType
<1>2. /\ used' = used /\ readyBits' = readyBits /\ abort' = abort /\ epoch' = epoch
      /\ future' = future /\ word' = word
      /\ handle' = handle /\ spawning' = spawning /\ cleared' = cleared /\ spawns' = spawns
      /\ call' = call /\ requested' = requested
      /\ honoured' = honoured /\ strayed' = strayed /\ aborted' = aborted /\ pc = "visit"
      /\ pc' = "poll"
  BY Zenon
<1> USE <1>1, <1>2
<1> HIDE DEF VisitPoll, arena, loop, spawner, ghost
<1>3. ArenaType' BY Zenon DEF ArenaType
<1>4. GhostType' BY Zenon DEF GhostType
<1>5. LoopInv' BY Zenon DEF LoopInv, FutureInv, ArenaType
<1>6. FutureInv' BY Zenon DEF FutureInv
<1>7. EpochInv' BY Zenon DEF EpochInv
<1>8. FlagInv' BY Zenon DEF FlagInv
<1>9. WakePending' BY Zenon DEF WakePending, FutureInv
<1>10. AbortPending' BY Zenon DEF AbortPending
<1>11. HandleInv' /\ CallInv' /\ OnlyLateStoresStray'
  BY Zenon DEF HandleInv, CallInv, OnlyLateStoresStray, CallOf
<1> QED BY Zenon, <1>3, <1>4, <1>5, <1>6, <1>7, <1>8, <1>9, <1>10, <1>11

\* The task in slot s ends: poll_slot drops it when ready, tick when aborted.
Ends(s) ==
  /\ s \in used /\ future[s] # None /\ pc \in {"visit", "poll"} /\ spawning = NoSlot
  /\ call[Owner].at = "out"
  /\ future' = [future EXCEPT ![s] = None] /\ Forget(future[s]) /\ pc' = "bump" /\ cur' = s
  /\ \/ taken' = taken /\ abort' = abort /\ aborted' = aborted
     \/ /\ taken' = taken \ {s} /\ abort' = [abort EXCEPT ![s] = FALSE] /\ abort[s]
        /\ aborted' = aborted \cup ({future[s]} \ requested)
  /\ UNCHANGED <<used, readyBits, epoch, word, spawner, call, strayed>>

LEMMA TaskEndsStep ==
  ASSUME ArenaInv, NEW s \in Slots, Ends(s) PROVE ArenaInv'
<1> USE SlotsAreNat DEF ArenaInv, Ends, arena, loop, spawner, ghost
<1>1. /\ s \in used /\ future[s] \in TaskIds /\ spawning = NoSlot /\ call[Owner].at = "out"
      /\ \A x \in Slots : future[x] = future[s] => x = s
  BY Zenon DEF FutureInv, ArenaType
<1>2. /\ future'[s] = None /\ \A x \in Slots : x # s => future'[x] = future[x]
      /\ future' \in [Slots -> TaskIds \cup {None}]
  BY Zenon DEF ArenaType
<1>3. /\ woken' = woken \ {future[s]} /\ requested' = requested \ {future[s]}
      /\ honoured' = honoured \ {future[s]} /\ cur' = s
  BY Zenon DEF Forget
<1>4. /\ taken' \subseteq taken
      /\ \A x \in Slots : x # s => abort'[x] = abort[x] /\ (x \in taken => x \in taken')
      /\ abort' \in [Slots -> BOOLEAN]
      /\ aborted' \subseteq aborted \cup {future[s]}
      /\ future[s] \in aborted' \ aborted => abort[s] /\ future[s] \notin requested
  BY Zenon DEF ArenaType
<1>5. /\ used' = used /\ readyBits' = readyBits /\ epoch' = epoch /\ word' = word
      /\ handle' = handle /\ spawning' = spawning
      /\ cleared' = cleared /\ spawns' = spawns /\ call' = call /\ strayed' = strayed
      /\ pc \in {"visit", "poll"} /\ pc' = "bump"
  BY Zenon
<1> USE <1>1, <1>2, <1>3, <1>4, <1>5
<1> HIDE DEF Ends, arena, loop, spawner, ghost
<1>6. ArenaType' BY Zenon DEF ArenaType
<1>7. GhostType' BY Zenon DEF GhostType
<1>8. LoopInv' BY ZenonT(60) DEF LoopInv
<1>9. FutureInv' BY SMTT(60) DEF FutureInv, ArenaType, None
<1>10. HandleInv' BY SMTT(60) DEF HandleInv
<1>11. EpochInv'
  <2>1. ASSUME NEW t \in TaskIds, NEW x \in Slots, handle[t].slot = x
        PROVE  /\ handle[t].epoch <= epoch[x]
               /\ future'[x] = t => epoch[x] = handle[t].epoch
               /\ epoch[x] = handle[t].epoch => future'[x] = t \/ x = s
    BY <2>1, ZenonT(60) DEF EpochInv
  <2>2. \A t \in TaskIds : handle[t].slot # NoSlot => handle[t].slot \in Slots
    BY Zenon DEF ArenaType
  <2>3. (\A x \in Slots : epoch[x] <= spawns) /\ \A x \in used : epoch[x] < spawns
    BY Zenon DEF EpochInv
  <2> HIDE <1>1, <1>2, <1>4
  <2> QED BY Zenon, <2>1, <2>2, <2>3 DEF EpochInv
<1>12. CallInv'
  <2>1. SUFFICES ASSUME NEW v \in Workers, call[v].at # "out"
                 PROVE  /\ call[v].task \in TaskIds /\ handle[call[v].task].slot # NoSlot
                        /\ CallOf(v, call[v].task, handle[call[v].task].slot)'
    BY Zenon DEF CallInv
  <2>2. PICK t \in TaskIds, x \in Slots : call[v].task = t /\ handle[t].slot = x /\ CallOf(v, t, x)
    BY <2>1, Zenon DEF CallInv, ArenaType
  <2>3. v # Owner /\ (future'[x] = t => future[x] = t /\ x # s)
    BY <2>1, <2>2, Zenon
  <2> QED BY Zenon, <2>2, <2>3 DEF CallOf
<1>13. FlagInv' BY Zenon DEF FlagInv, ArenaType
<1>14. WakePending'
  <2>1. SUFFICES ASSUME NEW x \in Slots, future'[x] \in woken'
                 PROVE  x \in readyBits \cup taken'
    BY Zenon DEF WakePending
  <2>2. x # s
    BY Zenon, <2>1 DEF GhostType
  <2> QED BY Zenon, <2>1, <2>2 DEF WakePending
<1>15. AbortPending' BY SMTT(60) DEF AbortPending, GhostType
<1>16. OnlyLateStoresStray' BY Zenon DEF OnlyLateStoresStray, FlagInv
<1> QED BY Zenon, <1>6, <1>7, <1>8, <1>9, <1>10, <1>11, <1>12, <1>13, <1>14, <1>15, <1>16

LEMMA BumpEpochStep ==
  ASSUME ArenaInv, BumpEpoch PROVE ArenaInv'
<1> USE SlotsAreNat DEF ArenaInv, BumpEpoch, arena, loop, spawner, ghost
<1>1. cur \in Slots /\ cur \in used /\ future[cur] = None
  BY Zenon DEF LoopInv, ArenaType
<1>2. epoch[cur] \in Nat /\ epoch[cur] < spawns /\ spawns \in Nat /\ spawns <= MaxSpawns
  BY <1>1, SMTT(60) DEF EpochInv, ArenaType
<1>3. /\ epoch'[cur] = epoch[cur] + 1
      /\ \A x \in Slots : x # cur => epoch'[x] = epoch[x]
      /\ epoch' \in [Slots -> Nat]
  BY <1>1, <1>2, ArenaAssumption, SMTT(60) DEF NextEpoch, ArenaType
<1>4. /\ used' = used /\ readyBits' = readyBits /\ abort' = abort /\ future' = future
      /\ word' = word /\ taken' = taken
      /\ cur' = cur /\ handle' = handle /\ spawning' = spawning /\ cleared' = cleared
      /\ spawns' = spawns /\ call' = call
      /\ woken' = woken /\ requested' = requested /\ honoured' = honoured /\ strayed' = strayed
      /\ aborted' = aborted /\ pc = "bump" /\ pc' = "clear"
  BY Zenon
<1> USE <1>1, <1>2, <1>3, <1>4
<1> HIDE DEF BumpEpoch, arena, loop, spawner, ghost
<1>5. ArenaType' BY Zenon DEF ArenaType
<1>6. LoopInv' BY Zenon DEF ArenaType, LoopInv
<1>7. FutureInv' BY Zenon DEF ArenaType, FutureInv
<1>8. EpochInv'
  <2>1. \A x \in Slots : epoch'[x] <= spawns'
    BY SMTT(60) DEF EpochInv, ArenaType
  <2>2. \A x \in used' : ~(pc' = "clear" /\ cur' = x) => epoch'[x] < spawns'
    BY Zenon DEF EpochInv, ArenaType
  <2>3. ASSUME NEW t \in TaskIds, NEW x \in Slots, handle[t].slot = x
        PROVE  /\ handle[t].epoch <= epoch'[x]
               /\ future[x] = t => epoch'[x] = handle[t].epoch
               /\ epoch'[x] = handle[t].epoch => future[x] = t
    BY <2>3, SMTT(60) DEF EpochInv, ArenaType
  <2>4. \A t \in TaskIds : handle[t].slot # NoSlot => handle[t].slot \in Slots
    BY Zenon DEF ArenaType
  <2> QED BY Zenon, <2>1, <2>2, <2>3, <2>4 DEF EpochInv
<1>9. GhostType' /\ HandleInv' /\ CallInv' /\ FlagInv' /\ WakePending' /\ AbortPending' /\
      OnlyLateStoresStray'
  BY Zenon DEF GhostType, HandleInv, CallInv, FlagInv, WakePending, AbortPending, OnlyLateStoresStray,
     CallOf
<1> QED BY Zenon, <1>5, <1>6, <1>7, <1>8, <1>9

LEMMA ClearUsedStep ==
  ASSUME ArenaInv, ClearUsed PROVE ArenaInv'
<1> USE SlotsAreNat DEF ArenaInv, ClearUsed, arena, loop, spawner, ghost
<1>1. /\ readyBits' = readyBits /\ abort' = abort /\ epoch' = epoch /\ future' = future
      /\ word' = word /\ taken' = taken
      /\ handle' = handle /\ spawning' = spawning /\ cleared' = cleared /\ spawns' = spawns
      /\ call' = call /\ woken' = woken
      /\ requested' = requested /\ honoured' = honoured /\ strayed' = strayed
      /\ aborted' = aborted /\ pc = "clear" /\ pc' = "visit" /\ cur' = NoSlot
      /\ used' = used \ {cur}
  BY Zenon
<1> USE <1>1
<1> HIDE DEF ClearUsed, arena, loop, spawner, ghost
<1>2. ArenaType' BY Zenon DEF ArenaType
<1>3. LoopInv' BY Zenon DEF LoopInv
<1>4. FutureInv' BY Zenon DEF FutureInv, LoopInv
<1>5. EpochInv' BY Zenon DEF EpochInv
<1>6. GhostType' /\ HandleInv' /\ CallInv' /\ FlagInv' /\ WakePending' /\ AbortPending' /\
      OnlyLateStoresStray'
  BY Zenon DEF GhostType, HandleInv, CallInv, FlagInv, WakePending, AbortPending, OnlyLateStoresStray,
     CallOf
<1> QED BY Zenon, <1>2, <1>3, <1>4, <1>5, <1>6

LEMMA DrainArenaStep ==
  ASSUME ArenaInv, DrainArena PROVE ArenaInv'
<1> USE SlotsAreNat DEF ArenaInv, DrainArena, arena, loop, spawner, ghost
<1>1. \A x \in Slots : future'[x] = None /\ (x \in used <=> future[x] # None)
  BY Zenon DEF FutureInv, ArenaType
<1>2. \A x \in Slots : epoch[x] \in Nat /\ (x \in used => epoch[x] < spawns) /\ epoch[x] <= spawns
  BY Zenon DEF EpochInv, ArenaType
<1>3. /\ spawns \in Nat /\ spawns <= MaxSpawns
      /\ EpochMod \in Nat /\ MaxSpawns \in Nat /\ MaxSpawns < EpochMod
  BY ArenaAssumption, SMTT(60) DEF ArenaType
<1>4. \A x \in Slots : epoch'[x] = IF x \in used THEN epoch[x] + 1 ELSE epoch[x]
  BY <1>2, <1>3, SMTT(60) DEF NextEpoch
<1>5. call[Owner].at = "out" /\ spawning = NoSlot /\ taken = {}
  BY SMTT(60) DEF OwnerFree, NoCall, LoopInv
<1>6. /\ word' = word /\ taken' = taken /\ cur' = cur /\ handle' = handle
      /\ spawning' = spawning /\ cleared' = cleared
      /\ spawns' = spawns /\ call' = call /\ strayed' = strayed /\ aborted' = aborted
      /\ pc' = "stopped" /\ pc = "loop"
      /\ used' = {} /\ readyBits' = {} /\ woken' = {} /\ requested' = {} /\ honoured' = {}
      /\ epoch' = [s \in Slots |-> IF s \in used THEN NextEpoch(epoch[s]) ELSE epoch[s]]
      /\ future' = [s \in Slots |-> IF s \in used THEN None ELSE future[s]]
      /\ abort' = [s \in Slots |-> abort[s] /\ s \notin used]
  BY Zenon
<1> USE <1>1, <1>2, <1>3, <1>4, <1>5, <1>6
<1> HIDE DEF DrainArena, arena, loop, spawner, ghost
<1>7. ArenaType'
  <2>1. epoch' \in [Slots -> Nat]
    BY SMTT(60)
  <2>2. abort' \in [Slots -> BOOLEAN] /\ future' \in [Slots -> TaskIds \cup {None}]
    BY Zenon DEF ArenaType
  <2> QED BY Zenon, <2>1, <2>2 DEF ArenaType
<1>8. GhostType' BY Zenon DEF ArenaType, GhostType
<1>9. LoopInv' BY Zenon DEF LoopInv, NoCall
<1>10. FutureInv'
  <2>1. \A x \in Slots : future'[x] = None
    BY Zenon DEF FutureInv
  <2>2. None <= spawns
    BY SMTT(60) DEF None
  <2> QED BY <2>1, <2>2, Zenon DEF FutureInv
<1>11. HandleInv' BY Zenon DEF HandleInv
<1>12. EpochInv'
  <2>1. \A x \in Slots : epoch'[x] <= spawns
    BY SMTT(60)
  <2>2. ASSUME NEW t \in TaskIds, NEW x \in Slots, handle[t].slot = x
        PROVE  handle[t].epoch <= epoch'[x] /\ epoch'[x] # handle[t].epoch
    <3>1. handle[t].epoch \in Nat /\ handle[t].epoch <= epoch[x]
      BY <2>2, ZenonT(60) DEF EpochInv, ArenaType
    <3>2. x \notin used => epoch[x] # handle[t].epoch
      <4>1. handle[t].slot # NoSlot /\ t # None /\ pc # "bump"
        BY <2>2, Zenon
      <4>2. epoch[x] = handle[t].epoch => future[x] = t \/ pc = "bump"
        BY <2>2, <4>1, Zenon DEF EpochInv
      <4>3. x \notin used => future[x] = None
        BY Zenon
      <4> QED BY <4>1, <4>2, <4>3, Zenon
    <3> QED BY <3>1, <3>2, SMTT(60)
  <2>3. ASSUME NEW t \in TaskIds, handle[t].slot # NoSlot
        PROVE  handle[t].slot \in Slots
    BY <2>3, SMTT(60) DEF ArenaType
  <2> QED BY <2>1, <2>2, <2>3, ZenonT(60) DEF EpochInv
<1>13. CallInv'
  <2>1. SUFFICES ASSUME NEW v \in Workers, call[v].at # "out"
                 PROVE  /\ call[v].task \in TaskIds /\ handle[call[v].task].slot # NoSlot
                        /\ CallOf(v, call[v].task, handle[call[v].task].slot)'
    BY Zenon DEF CallInv
  <2>2. PICK t \in TaskIds, x \in Slots : call[v].task = t /\ handle[t].slot = x /\ CallOf(v, t, x)
    BY <2>1, ZenonT(60) DEF CallInv, ArenaType
  <2>3. v # Owner /\ future'[x] # t
    BY <2>1, <2>2, SMTT(60)
  <2> QED BY Zenon, <2>2, <2>3 DEF CallOf
<1>14. FlagInv' BY Zenon DEF FlagInv
<1>15. WakePending' BY Zenon DEF WakePending
<1>16. AbortPending' BY Zenon DEF ArenaType, AbortPending
<1>17. OnlyLateStoresStray'
  BY Zenon DEF OnlyLateStoresStray
<1> QED BY Zenon, <1>7, <1>8, <1>9, <1>10, <1>11, <1>12, <1>13, <1>14, <1>15, <1>16, <1>17

-----------------------------------------------------------------------------
(* The theorems *)

LEMMA InitialArena ==
  ASSUME ArenaInit PROVE ArenaInv
<1> USE SlotsAreNat DEF ArenaInit
<1>1. ArenaType
  <2>1. /\ [slot |-> NoSlot, epoch |-> 0] \in [slot : Slots \cup {NoSlot}, epoch : Nat]
        /\ NoCall \in [task : TaskIds \cup {None}, at : {"out", "store", "mark"}]
        /\ 0 \in 0 .. MaxSpawns /\ 0 \in Nat
    BY ArenaAssumption, SMTT(60) DEF NoCall
  <2> QED BY <2>1, Zenon DEF ArenaType
<1>2. GhostType /\ LoopInv /\ FutureInv /\ HandleInv
  BY SMTT(60) DEF GhostType, LoopInv, FutureInv, HandleInv, NoCall, Workers, None
<1>3. EpochInv /\ CallInv /\ FlagInv /\ WakePending /\ AbortPending /\ OnlyLateStoresStray
  BY SMTT(60) DEF EpochInv, CallInv, FlagInv, WakePending, AbortPending, OnlyLateStoresStray, NoCall
<1> QED BY Zenon, <1>1, <1>2, <1>3 DEF ArenaInv

LEMMA ArenaInductive ==
  ASSUME ArenaInv, [ArenaNext]_arenaVars PROVE ArenaInv'
<1>1. CASE SpawnStep
  BY Zenon, <1>1, SpawnClaimStep, SpawnFullStep, SpawnClearAbortStep, SpawnPublishStep DEF SpawnStep
<1>2. CASE TickStep
  <2>1. VisitAbort => \E s \in Slots : Ends(s)
    BY ZenonT(60) DEF VisitAbort, Ends, ArenaInv, ArenaType, LoopInv, FutureInv
  <2>2. TaskReady => Ends(cur) /\ cur \in Slots
    BY SMTT(60) DEF TaskReady, Ends, OwnerFree, NoCall, ArenaInv, ArenaType, LoopInv
  <2> QED BY Zenon, <1>2, <2>1, <2>2, OwnerMovesStep, TaskEndsStep, SweepWordStep, VisitFreeStep,
          VisitPollStep, BumpEpochStep, ClearUsedStep DEF TickStep
<1>3. CASE DrainArena
  BY Zenon, <1>3, DrainArenaStep
<1>4. ASSUME NEW w \in Workers, CallStep(w) PROVE ArenaInv'
  BY ZenonT(60), <1>4, WakeStep, AbortCheckStep, AbortStoreStep, AbortMarkStep DEF CallStep, AbortStep
<1>5. CASE UNCHANGED arenaVars
  BY <1>5, ZenonT(60) DEF arenaVars, arena, loop, spawner, ghost, ArenaInv, ArenaType, GhostType, LoopInv, FutureInv,
     HandleInv, EpochInv, CallInv, CallOf, FlagInv, WakePending, AbortPending, OnlyLateStoresStray
<1> QED BY Zenon, <1>1, <1>2, <1>3, <1>4, <1>5 DEF ArenaNext

\* The strengthened invariant holds in every reachable state of the arena of
\* one worker (spawn_boxed, tick, poll_slot, wakers and TaskHandle::abort).
THEOREM ArenaInvariance ==
  ArenaSpec => []ArenaInv
<1>1. ArenaInit => ArenaInv
  BY Zenon, InitialArena
<1>2. ArenaInv /\ [ArenaNext]_arenaVars => ArenaInv'
  BY Zenon, ArenaInductive
<1> QED BY <1>1, <1>2, PTL DEF ArenaSpec

LEMMA FinishedIsExact ==
  ASSUME ArenaInv PROVE FinishedExact
<1> USE SlotsAreNat DEF ArenaInv
<1>1. SUFFICES ASSUME NEW t \in TaskIds, NEW s \in Slots, handle[t].slot = s
               PROVE  /\ future[s] = t => ~IsFinished(t)
                      /\ ~IsFinished(t) => future[s] = t \/ (pc = "bump" /\ cur = s)
  BY Zenon DEF FinishedExact, ArenaType
<1> QED BY Zenon, <1>1 DEF EpochInv, FutureInv, IsFinished

\* No wake and no completed abort is lost, TaskHandle::is_finished is exact
\* although slots are reused, and a task nobody called abort on is dropped only
\* by an abort of the slot's earlier task whose store came late: for any number
\* of workers, bitmap words and spawns below the width of the epoch.
THEOREM ArenaIsExact ==
  ArenaSpec => []ArenaExact
<1>1. ArenaInv => ArenaExact
  BY Zenon, FinishedIsExact DEF ArenaInv, ArenaExact
<1> QED BY <1>1, ArenaInvariance, PTL

-----------------------------------------------------------------------------
(* The event.  From here on facts about finite sets are used. *)
INSTANCE FiniteSetTheorems


EventType ==
    /\ set \in BOOLEAN /\ slot \in BOOLEAN /\ present \in BOOLEAN /\ called \in BOOLEAN
    /\ items \in Nat
    /\ prod \in [Producers -> {"idle", "swap", "wake", "call"}]
    /\ cons \in {"look", "reset", "again", "poll", "park", "check", "asleep"}

\* Somebody is about to raise the flag; somebody took the waker and is about
\* to call it; somebody is about to take it.
Publishing == \E p \in Producers : prod[p] = "swap"
Calling == \E p \in Producers : prod[p] = "call"
Waking == \E p \in Producers : prod[p] = "wake"

\* What the second look of the consumer establishes: an item that came after
\* it has raised the flag or is about to.
LaterIsFlagged == cons \in {"poll", "park", "check", "asleep"} /\ items > 0 => set \/ Publishing

\* A parked waker goes only to a producer who calls it.
TakenIsCalled == cons \in {"check", "asleep"} /\ ~slot => called \/ Calling

\* A flag raised over a sleeper belongs to somebody who wakes it.
RaisedIsWaking == cons = "asleep" /\ set => called \/ Calling \/ (Waking /\ slot)

EventInv == EventType /\ GateIsSlot /\ LaterIsFlagged /\ TakenIsCalled /\ RaisedIsWaking

LEMMA EventInitial == EventInit => EventInv
<1> SUFFICES ASSUME EventInit PROVE EventInv BY Zenon
<1>1. EventType BY Zenon DEF EventInit, EventType
<1>2. GateIsSlot BY Zenon DEF EventInit, GateIsSlot
<1>3. cons = "look" BY Zenon DEF EventInit
<1>4. LaterIsFlagged /\ TakenIsCalled /\ RaisedIsWaking
  BY <1>3, Zenon DEF LaterIsFlagged, TakenIsCalled, RaisedIsWaking
<1> QED BY <1>1, <1>2, <1>4, Zenon DEF EventInv

LEMMA EventInductive == EventInv /\ [EventNext]_eventVars => EventInv'
<1> SUFFICES ASSUME EventInv, [EventNext]_eventVars PROVE EventInv' BY Zenon
<1> USE DEF EventInv, EventType, GateIsSlot, LaterIsFlagged, TakenIsCalled, RaisedIsWaking,
            Publishing, Calling, Waking
<1>1. CASE UNCHANGED eventVars BY <1>1, Zenon DEF eventVars
<1>2. CASE Look BY <1>2, SMTT(60) DEF Look
<1>3. CASE Reset BY <1>3, Zenon DEF Reset
<1>4. CASE PollFlag BY <1>4, Zenon DEF PollFlag
<1>5. CASE Park BY <1>5, Zenon DEF Park
<1>6. CASE Repoll BY <1>6, Zenon DEF Repoll
<1>7. CASE Cancel BY <1>7, ZenonT(60) DEF Cancel
<1>8. ASSUME NEW p \in Producers, Publish(p) PROVE EventInv' BY <1>8, SMTT(60) DEF Publish
<1>9. ASSUME NEW p \in Producers, Set(p) PROVE EventInv' BY <1>9, Zenon DEF Set
<1>10. ASSUME NEW p \in Producers, WakeParked(p) PROVE EventInv' BY <1>10, Zenon DEF WakeParked
<1>11. ASSUME NEW p \in Producers, CallWaker(p) PROVE EventInv' BY <1>11, Zenon DEF CallWaker
<1> QED BY <1>1, <1>2, <1>3, <1>4, <1>5, <1>6, <1>7, <1>8, <1>9, <1>10, <1>11, ZenonT(60)
        DEF EventNext, Consumer, Producer

\* The inductive invariant of the event holds: WaitEvent::poll parks between
\* two looks at the flag, and set() wakes when it raises it.
THEOREM EventInvariance == EventSpec => []EventInv
<1>1. EventInit => EventInv BY EventInitial, Zenon
<1>2. EventInv /\ [EventNext]_eventVars => EventInv' BY EventInductive, ZenonT(60)
<1> QED BY <1>1, <1>2, PTL DEF EventSpec

\* No consumer of an AsyncEvent sleeps over an item that nobody is about to
\* wake it for, however many producers call set() at once, and the gate of
\* the waker slot says what the slot holds.
THEOREM EventIsExact == EventSpec => []EventExact
<1>1. EventInv => EventExact
  BY Zenon DEF EventInv, EventType, GateIsSlot, LaterIsFlagged, TakenIsCalled, RaisedIsWaking,
         Publishing, Calling, Waking, EventExact, NoLostWake
<1> QED BY <1>1, EventInvariance, PTL

-----------------------------------------------------------------------------
(* The cells that are written once. *)

OncePcs == {"idle", "filled", "publish", "holds", "panic", "write", "release", "read", "has"}

OnceType ==
    /\ slots \in Threads \cup {NoThread} /\ len \in {0, 1} /\ tables \subseteq Threads
    /\ flag \in BOOLEAN /\ value \in Threads \cup {Null}
    /\ th \in [Threads -> [pc : OncePcs, got : Threads \cup {Null, NoThread}, left : Int]]

\* Who builds a table owns it until it published or dropped it, and only
\* after it wrote the length; the published table is nobody's to drop.
Builders ==
    /\ \A t \in Threads : th[t].pc \in {"filled", "publish"} => t \in tables
    /\ \A t \in Threads : At(t, "publish") => len = 1
    /\ slots # NoThread => th[slots].pc \notin {"filled", "publish"}
    /\ \A t \in Threads : At(t, "holds") => slots # NoThread

\* The flag is raised by the one thread that goes on to write.
Claim ==
    /\ \A t \in Threads : th[t].pc \in {"write", "release"} => flag = TRUE
    /\ value # Null => flag = TRUE
    /\ \A t, u \in Threads :
         th[t].pc \in {"write", "release"} /\ th[u].pc \in {"write", "release"} => t = u
    /\ \A t \in Threads : At(t, "write") => value = Null

OnceInv == OnceType /\ OneTable /\ Builders /\ Claim

LEMMA OnceInitial == OnceInit => OnceInv
<1> SUFFICES ASSUME OnceInit PROVE OnceInv BY Zenon
<1>1. \A t \in Threads : th[t].pc = "idle" BY Zenon DEF OnceInit, Fresh
<1>2. OnceType
  <2>1. Fresh \in [pc : OncePcs, got : Threads \cup {Null, NoThread}, left : Int]
    BY CellAssumption, SMTT(60) DEF Fresh, OncePcs
  <2> QED BY Zenon, <2>1 DEF OnceInit, OnceType
<1>3. OneTable BY <1>1, Zenon DEF OnceInit, OneTable, At
<1>4. Builders BY <1>1, Zenon DEF OnceInit, Builders, At
<1>5. Claim BY <1>1, Zenon DEF OnceInit, Claim, At
<1> QED BY <1>2, <1>3, <1>4, <1>5, ZenonT(60) DEF OnceInv

LEMMA OnceInductive == OnceInv /\ [OnceNext]_onceVars => OnceInv'
<1> SUFFICES ASSUME OnceInv, [OnceNext]_onceVars PROVE OnceInv' BY Zenon
<1> USE CellAssumption DEF OnceInv, OnceType, OneTable, Builders, Claim, OncePcs, At, Go, Call, Becomes, Keeps
<1>1. CASE UNCHANGED onceVars BY <1>1, ZenonT(60) DEF onceVars
<1>2. ASSUME NEW t \in Threads, TableInit(t) PROVE OnceInv' BY <1>2, SMTT(60) DEF TableInit
<1>3. ASSUME NEW t \in Threads, TableLen(t) PROVE OnceInv' BY <1>3, SMTT(60) DEF TableLen
<1>4. ASSUME NEW t \in Threads, TablePublish(t) PROVE OnceInv' BY <1>4, SMTT(60) DEF TablePublish
<1>5. ASSUME NEW t \in Threads, TableRead(t) PROVE OnceInv' BY <1>5, SMTT(60) DEF TableRead
<1>6. ASSUME NEW t \in Threads, OnceClaim(t) PROVE OnceInv' BY <1>6, SMTT(60) DEF OnceClaim
<1>7. ASSUME NEW t \in Threads, OnceWrite(t) PROVE OnceInv' BY <1>7, ZenonT(60) DEF OnceWrite
<1>8. ASSUME NEW t \in Threads, OnceRelease(t) PROVE OnceInv'
  BY <1>8, ZenonT(60) DEF OnceRelease
<1>9. ASSUME NEW t \in Threads, OnceGet(t) PROVE OnceInv' BY <1>9, SMTT(60) DEF OnceGet
<1>10. ASSUME NEW t \in Threads, OnceRead(t) PROVE OnceInv' BY <1>10, Zenon DEF OnceRead
<1>11. ASSUME NEW t \in Threads, Done(t) PROVE OnceInv' BY <1>11, ZenonT(60) DEF Done
<1> QED BY <1>1, <1>2, <1>3, <1>4, <1>5, <1>6, <1>7, <1>8, <1>9, <1>10, <1>11, ZenonT(60) DEF OnceNext

\* The inductive invariant of the cells that are written once.
THEOREM OnceInvariance == OnceSpec => []OnceInv
<1>1. OnceInit => OnceInv BY OnceInitial, Zenon
<1>2. OnceInv /\ [OnceNext]_onceVars => OnceInv' BY OnceInductive, ZenonT(60)
<1> QED BY <1>1, <1>2, PTL DEF OnceSpec

\* However many workers race to initialise a PerWorker table or an InitOnce,
\* everybody uses one table that is never freed, and one thread at a time
\* writes a value that nobody wrote before.
THEOREM CellsAreInitialisedOnce == OnceSpec => []InitialisedOnce
<1>1. ASSUME OnceInv PROVE InitialisedOnce
  <2> DEFINE W == {t \in Threads : th[t].pc \in {"write", "release"}}
  <2>1. W = {} \/ \E t \in Threads : W = {t} BY <1>1, SMTT(60) DEF OnceInv, Claim
  <2>2. Cardinality({}) = 0 /\ \A t \in Threads : Cardinality({t}) = 1
    BY FS_EmptySet, FS_Singleton, Zenon
  <2>3. Cardinality(W) \in {0, 1} BY Zenon, <2>1, <2>2
  <2>4. Cardinality(W) <= 1
    <3> HIDE DEF W
    <3> QED BY <2>3, SMTT(60)
  <2> QED BY <1>1, <2>4, ZenonT(60) DEF OnceInv, Claim, InitialisedOnce, OneWinner
<1> QED BY <1>1, OnceInvariance, PTL

\* A published table is never exchanged and a written value never rewritten
\* (PerWorker::init's compare-exchange, InitOnce::init's claim of the flag).
THEOREM CellsAreWrittenOnce == OnceSpec => WrittenOnce
<1>1. OnceInv /\ [OnceNext]_onceVars
      => [/\ slots # NoThread => slots' = slots
          /\ value # Null => value' = value]_onceVars
  <2> SUFFICES ASSUME OnceInv, OnceNext
               PROVE (slots # NoThread => slots' = slots) /\ (value # Null => value' = value)
    BY Zenon DEF onceVars
  <2>1. PICK t \in Threads : \/ TableInit(t) \/ TableLen(t) \/ TablePublish(t) \/ TableRead(t)
                             \/ OnceClaim(t) \/ OnceWrite(t) \/ OnceRelease(t) \/ OnceGet(t)
                             \/ OnceRead(t) \/ Done(t)
    BY Zenon DEF OnceNext
  <2> QED BY <2>1, Zenon DEF OnceInv, Claim, TableInit, TableLen, TablePublish, TableRead, OnceClaim,
                      OnceWrite, OnceRelease, OnceGet, OnceRead, Done, At
<1> QED BY <1>1, OnceInvariance, PTL DEF OnceSpec, WrittenOnce

-----------------------------------------------------------------------------
(***************************************************************************)
(* The timer wheel.  NoneOverdue is not inductive: that `advance` fires a  *)
(* due timer rests on the bound of its slot (BoundIsLower), and that an    *)
(* insert lands in front of the hand rests on the hand being no further    *)
(* than the clock.                                                         *)
(***************************************************************************)
\* The hand of the wheel is at most one tick ahead of the clock.
HandFollowsClock == tick <= now + 1

TimersInv == TypeOK /\ BoundIsLower /\ NoneOverdue /\ HandFollowsClock

\* A deadline has a slot.
LEMMA SlotInWheel == ASSUME NEW d \in Times PROVE SlotOf(d) \in SlotIdx
  BY WheelAssumption, TimeAssumption, SMTT(60) DEF SlotOf, SlotIdx, Times

\* A set of numbers that is not empty has a least element.
LEMMA LeastExists ==
  ASSUME NEW D \in SUBSET Nat, D # {}
  PROVE  \E m \in D : \A d \in D : m <= d
<1> DEFINE Less == {p \in Nat \X Nat : p[1] < p[2]}
<1>1. IsWellFoundedOn(Less, Nat)
  BY NatLessThanWellFounded, Zenon DEF OpToRel
<1>2. PICK m \in D : \A d \in D : ~ (<<d, m>> \in Less)
  <2> HIDE DEF Less
  <2> QED BY <1>1, WFMin, Zenon
<1>3. ASSUME NEW d \in D PROVE m <= d
  <2>1. d \in Nat /\ m \in Nat
    BY Zenon
  <2>2. d < m => <<d, m>> \in Less
    BY <2>1, Zenon
  <2>3. ~ (d < m)
    <3> HIDE DEF Less
    <3> QED BY <1>2, <2>2, Zenon
  <2> QED BY <2>1, <2>3, SMTT(60)
<1> QED BY <1>3, Zenon

\* The bound that `advance` leaves in a slot is right.
LEMMA LeastDeadlineIsBound ==
  ASSUME NEW T \in SUBSET Timers
  PROVE  /\ LeastDeadline(T) \in 0 .. Infinity
         /\ \A t \in T : LeastDeadline(T) <= t.deadline
<1>1. \E m \in 0 .. Infinity : IsBound(m, T)
  <2>1. CASE T = {}
    BY <2>1, TimeAssumption, SMTT(60) DEF IsBound, Infinity
  <2>2. CASE T # {}
    <3> DEFINE D == {t.deadline : t \in T}
    <3>1. D \in SUBSET Nat /\ D # {}
      BY <2>2, TimeAssumption, SMTT(60) DEF Timers, Times
    <3>2. PICK m \in D : \A d \in D : m <= d
      <4> HIDE DEF D
      <4> QED BY <3>1, LeastExists, Zenon
    <3>3. m \in 0 .. Infinity
      BY TimeAssumption, SMTT(60) DEF Timers, Times, Infinity
    <3>4. IsBound(m, T)
      BY <3>2, Zenon DEF IsBound
    <3> QED BY <3>3, <3>4, ZenonT(60)
  <2> QED BY <2>1, <2>2, Zenon
<1>2. LeastDeadline(T) \in 0 .. Infinity /\ IsBound(LeastDeadline(T), T)
  BY <1>1, Zenon DEF LeastDeadline
<1> QED BY <1>2, Zenon DEF IsBound

LEMMA TimersInitial == Init => TimersInv
  BY WheelAssumption, TimeAssumption, SMTT(60)
  DEF Init, TimersInv, TypeOK, BoundIsLower, NoneOverdue, HandFollowsClock, Infinity,
      Times, SlotIdx

LEMMA TimersInductive == TimersInv /\ [Next]_vars => TimersInv'
<1> SUFFICES ASSUME TimersInv, [Next]_vars PROVE TimersInv'
  BY Zenon
<1> USE TimeAssumption
<1>0. /\ TypeOK /\ BoundIsLower /\ NoneOverdue /\ HandFollowsClock
      /\ now \in Nat /\ tick \in Nat
  BY SMTT(60) DEF TimersInv, TypeOK, Times
<1>1. CASE ClockTick
  BY <1>0, <1>1, SMTT(60)
  DEF ClockTick, TimersInv, TypeOK, BoundIsLower, NoneOverdue, HandFollowsClock,
      wheelVars, sleepVars, Times
<1>2. CASE Advance
  <2> DEFINE fired == UNION {Due(i) : i \in Scanned}
  <2>1. /\ wheel' = wheel \ fired
        /\ ready' = ready \cup {t.arg : t \in fired}
        /\ bound' = [i \in SlotIdx |-> IF i \in Scanned
                                       THEN LeastDeadline(InSlot(wheel', i))
                                       ELSE bound[i]]
        /\ tick' = IF tick <= now \/ wheel = {} THEN now + 1 ELSE tick
        /\ UNCHANGED <<now, sleepVars>>
    BY <1>2, Zenon DEF Advance
  <2>2. ASSUME NEW t \in wheel, t.deadline <= now PROVE t \in fired
    <3> DEFINE i == SlotOf(t.deadline)
    <3>1. t.deadline \in tick .. now
      BY <1>0, <2>2, SMTT(60) DEF TypeOK, Timers, Times, NoneOverdue
    <3>2. i \in Visited
      BY <3>1, Zenon DEF Visited
    <3>3. t \in InSlot(wheel, i) /\ t \in Due(i)
      BY <2>2, Zenon DEF InSlot, Due
    <3>4. bound[i] <= now
      <4>1. bound[i] <= t.deadline /\ t.deadline \in Times /\ i \in SlotIdx
        BY <1>0, SlotInWheel, Zenon DEF BoundIsLower, TypeOK, Timers
      <4>2. bound[i] \in 0 .. Infinity
        BY <1>0, <4>1, Zenon DEF TypeOK
      <4> HIDE DEF i
      <4> QED BY <1>0, <4>1, <4>2, <2>2, SMTT(60) DEF Times, Infinity
    <3>5. i \in Scanned
      <4> HIDE DEF i
      <4> QED BY <3>2, <3>3, <3>4, Zenon DEF Scanned
    <3> HIDE DEF i
    <3> QED BY <3>3, <3>5, ZenonT(60)
  <2>3. fired \subseteq wheel
    BY Zenon DEF Due, InSlot
  <2> HIDE DEF fired
  <2>4. wheel' \subseteq wheel /\ wheel' \subseteq Timers
    BY <1>0, <2>1, ZenonT(60) DEF TypeOK
  <2>5. \A t \in wheel' : t.deadline > now
    BY <1>0, <2>1, <2>2, <2>4, SMTT(60) DEF Timers, Times
  <2>6. \A i \in SlotIdx : /\ LeastDeadline(InSlot(wheel', i)) \in 0 .. Infinity
                           /\ \A t \in InSlot(wheel', i) :
                                LeastDeadline(InSlot(wheel', i)) <= t.deadline
    <3> TAKE i \in SlotIdx
    <3>1. InSlot(wheel', i) \in SUBSET Timers
      BY <2>4, Zenon DEF InSlot
    <3> QED BY <3>1, LeastDeadlineIsBound, ZenonT(60)
  <2>7. TypeOK'
    <3>1. bound' \in [SlotIdx -> 0 .. Infinity]
      BY <1>0, <2>1, <2>6, Zenon DEF TypeOK
    <3>2. ready' \subseteq Tasks
      BY <1>0, <2>1, <2>3, ZenonT(60) DEF TypeOK, Timers
    <3>3. tick' \in 0 .. MaxTime + 1
      BY <1>0, <2>1, SMTT(60) DEF TypeOK, Times
    <3> QED BY <1>0, <2>1, <2>4, <3>1, <3>2, <3>3, ZenonT(60) DEF TypeOK, sleepVars
  <2>8. BoundIsLower'
    <3> SUFFICES ASSUME NEW t \in wheel'
                 PROVE  bound'[SlotOf(t.deadline)] <= t.deadline
      BY Zenon DEF BoundIsLower
    <3>1. SlotOf(t.deadline) \in SlotIdx
      BY <2>4, SlotInWheel, Zenon DEF Timers
    <3>2. t \in InSlot(wheel', SlotOf(t.deadline))
      BY Zenon DEF InSlot
    <3>3. bound[SlotOf(t.deadline)] <= t.deadline
      BY <1>0, <2>4, ZenonT(60) DEF BoundIsLower
    <3> QED BY <2>1, <2>6, <3>1, <3>2, <3>3, ZenonT(60)
  <2>9. NoneOverdue'
    BY <1>0, <2>1, <2>4, <2>5, SMTT(60) DEF NoneOverdue, Timers, Times
  <2>10. HandFollowsClock'
    BY <1>0, <2>1, SMTT(60) DEF HandFollowsClock
  <2> QED BY <2>7, <2>8, <2>9, <2>10, ZenonT(60) DEF TimersInv
<1>3. ASSUME NEW s \in Sleeps, NEW d \in Delays, Create(s, d) PROVE TimersInv'
  <2>1. now + d \in Times /\ TaskOf[s] \in Tasks
    BY <1>0, <1>3, SMTT(60) DEF Create, Times, Tasks
  <2> QED
    BY <1>0, <1>3, <2>1, ZenonT(60)
    DEF Create, TimersInv, TypeOK, BoundIsLower, NoneOverdue, HandFollowsClock, wheelVars
<1>4. ASSUME NEW s \in Sleeps, PollElapsed(s) \/ PollRefused(s) PROVE TimersInv'
  BY <1>0, <1>4, Zenon
  DEF PollElapsed, PollRefused, TimersInv, TypeOK, BoundIsLower, NoneOverdue,
      HandFollowsClock, wheelVars
<1>5. ASSUME NEW s \in Sleeps, PollArm(s) PROVE TimersInv'
  <2> DEFINE new == [sleep |-> s, deadline |-> deadline[s], arg |-> TaskOf[s]]
             i == SlotOf(deadline[s])
  <2>1. /\ now < deadline[s]
        /\ wheel' = wheel \cup {new}
        /\ bound' = [bound EXCEPT ![i] = Lesser(@, deadline[s])]
        /\ armed' = [armed EXCEPT ![s] = TRUE]
        /\ state' = [state EXCEPT ![s] = "parked"]
        /\ UNCHANGED <<tick, now, deadline, ready>>
    BY <1>5, Zenon DEF PollArm, Insert
  <2>2. deadline[s] \in Times /\ i \in SlotIdx
    BY <1>0, SlotInWheel, Zenon DEF TypeOK
  <2>3. new \in Timers
    BY <2>2, Zenon DEF Timers, Tasks
  <2>4. new.deadline = deadline[s]
    BY Zenon
  <2>5. TypeOK'
    <3> HIDE DEF new, i
    <3>1. bound' \in [SlotIdx -> 0 .. Infinity]
      BY <1>0, <2>1, <2>2, SMTT(60) DEF TypeOK, Lesser, Times, Infinity
    <3> QED BY <1>0, <2>1, <2>3, <3>1, ZenonT(60) DEF TypeOK
  <2>6. BoundIsLower'
    <3> SUFFICES ASSUME NEW t \in wheel'
                 PROVE  bound'[SlotOf(t.deadline)] <= t.deadline
      BY Zenon DEF BoundIsLower
    <3>1. t.deadline \in Times /\ SlotOf(t.deadline) \in SlotIdx
      BY <1>0, <2>1, <2>3, SlotInWheel, ZenonT(60) DEF TypeOK, Timers
    <3>2. \A j \in SlotIdx : bound[j] \in 0 .. Infinity
      BY <1>0, Zenon DEF TypeOK
    <3>3. bound'[SlotOf(t.deadline)] =
            IF SlotOf(t.deadline) = i THEN Lesser(bound[i], deadline[s])
                                      ELSE bound[SlotOf(t.deadline)]
      <4> HIDE DEF i, new
      <4> QED BY <1>0, <2>1, <2>2, <3>1, ZenonT(60) DEF TypeOK
    <3>4. CASE t = new
      BY <2>2, <2>4, <3>2, <3>3, <3>4, SMTT(60) DEF Lesser, Times, Infinity
    <3>5. CASE t \in wheel
      <4>1. bound[SlotOf(t.deadline)] <= t.deadline
        BY <1>0, <3>5, ZenonT(60) DEF BoundIsLower
      <4> HIDE DEF i, new
      <4> QED BY <4>1, <2>2, <3>1, <3>2, <3>3, SMTT(60) DEF Lesser, Times, Infinity
    <3> QED BY <2>1, <3>4, <3>5, Zenon
  <2>7. NoneOverdue'
    <3> HIDE DEF new, i
    <3> QED BY <1>0, <2>1, <2>2, <2>3, <2>4, SMTT(60)
            DEF NoneOverdue, HandFollowsClock, TypeOK, Timers, Times
  <2>8. HandFollowsClock'
    BY <1>0, <2>1, Zenon DEF HandFollowsClock
  <2> QED BY <2>5, <2>6, <2>7, <2>8, ZenonT(60) DEF TimersInv
<1>6. ASSUME NEW k \in Tasks, PollPending(k) PROVE TimersInv'
  BY <1>0, <1>6, Zenon
  DEF PollPending, TimersInv, TypeOK, BoundIsLower, NoneOverdue, HandFollowsClock,
      wheelVars, sleepVars
<1>7. ASSUME NEW s \in Sleeps, Drop(s) PROVE TimersInv'
  <2> DEFINE i == SlotOf(deadline[s])
  <2>1. /\ state' = [state EXCEPT ![s] = "none"]
        /\ armed' = [armed EXCEPT ![s] = FALSE]
        /\ deadline' = [deadline EXCEPT ![s] = 0]
        /\ UNCHANGED <<now, ready>>
    BY <1>7, ZenonT(60) DEF Drop
  <2>2. CASE UNCHANGED wheelVars
    BY <1>0, <2>1, <2>2, SMTT(60)
    DEF TimersInv, TypeOK, BoundIsLower, NoneOverdue, HandFollowsClock, wheelVars, Times
  <2>3. ASSUME NEW t \in Cancellable(deadline[s], TaskOf[s]),
               wheel' = wheel \ {t},
               bound' = IF InSlot(wheel', i) = {}
                          THEN [bound EXCEPT ![i] = Infinity] ELSE bound,
               UNCHANGED tick
        PROVE  TimersInv'
    <3>1. i \in SlotIdx /\ bound \in [SlotIdx -> 0 .. Infinity]
      BY <1>0, SlotInWheel, ZenonT(60) DEF TypeOK
    <3>2. bound' \in [SlotIdx -> 0 .. Infinity]
      <4> HIDE DEF i
      <4> QED BY <2>3, <3>1, SMTT(60) DEF Infinity
    <3>3. TypeOK'
      <4>1. wheel' \subseteq Timers
        BY <1>0, <2>3, ZenonT(60) DEF TypeOK
      <4>2. /\ state' \in [Sleeps -> {"none", "new", "parked", "done"}]
            /\ deadline' \in [Sleeps -> Times]
            /\ armed' \in [Sleeps -> BOOLEAN]
        BY <1>0, <2>1, SMTT(60) DEF TypeOK, Times
      <4>3. UNCHANGED <<now, ready, tick>>
        BY <2>1, <2>3, Zenon
      <4> QED BY <1>0, <3>2, <4>1, <4>2, <4>3, ZenonT(60) DEF TypeOK
    <3>4. ASSUME NEW u \in wheel'
          PROVE  bound'[SlotOf(u.deadline)] <= u.deadline
      <4>1. bound[SlotOf(u.deadline)] <= u.deadline
        BY <1>0, <2>3, <3>4, Zenon DEF BoundIsLower
      <4>2. InSlot(wheel', i) = {} => SlotOf(u.deadline) # i
        BY <3>4, Zenon DEF InSlot
      <4>3. bound'[SlotOf(u.deadline)] = bound[SlotOf(u.deadline)]
        <5>1. SlotOf(u.deadline) \in SlotIdx
          BY <1>0, <2>3, <3>4, SlotInWheel, ZenonT(60) DEF TypeOK, Timers
        <5> HIDE DEF i
        <5> QED BY <2>3, <3>1, <4>2, <5>1, ZenonT(60)
      <4> QED BY <4>1, <4>3, Zenon
    <3>5. NoneOverdue' /\ HandFollowsClock'
      BY <1>0, <2>1, <2>3, ZenonT(60) DEF NoneOverdue, HandFollowsClock
    <3> QED BY <3>3, <3>4, <3>5, Zenon DEF TimersInv, BoundIsLower
  <2> QED BY <1>7, <2>2, <2>3, Zenon DEF Drop, CancelAt
<1>8. CASE UNCHANGED vars
  BY <1>0, <1>8, ZenonT(60)
  DEF vars, wheelVars, sleepVars, TimersInv, TypeOK, BoundIsLower, NoneOverdue,
      HandFollowsClock
<1> QED BY <1>1, <1>2, <1>3, <1>4, <1>5, <1>6, <1>7, <1>8, ZenonT(60) DEF Next, PollStep

\* The inductive invariant holds in every behaviour.
THEOREM TimersInvariance == Spec => []TimersInv
  BY TimersInitial, TimersInductive, PTL DEF Spec

\* min_deadline is a lower bound on the deadlines of its slot whatever is
\* inserted, cancelled and fired, so `advance` never skips a slot wrongly.
THEOREM BoundsAreLower == Spec => []BoundIsLower
<1>1. TimersInv => BoundIsLower
  BY Zenon DEF TimersInv
<1> QED BY <1>1, TimersInvariance, PTL

\* No timer is behind the hand of the wheel: `advance` has fired whatever was
\* due, however far the clock jumped between two calls.
THEOREM NeverOverdue == Spec => []NoneOverdue
<1>1. TimersInv => NoneOverdue
  BY Zenon DEF TimersInv
<1> QED BY <1>1, TimersInvariance, PTL
=============================================================================
