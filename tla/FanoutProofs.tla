---------------------------- MODULE FanoutProofs ----------------------------
(***************************************************************************)
(* Safety of Fanout for any number of workers, fan-outs and table slots.   *)
(***************************************************************************)
EXTENDS Fanout, TLAPS

\* Slots are given out once, in order.
Claimed ==
  /\ \A f \in Fanouts : idx[f] # Full => idx[f] < count
  /\ \A f, g \in Fanouts :
       f # g /\ idx[f] # Full => idx[f] # idx[g]
  /\ \A f \in Fanouts : phase[f] \in {"chunk", "store"} => idx[f] # Full
  /\ \A f \in Fanouts : phase[f] = "new" => idx[f] = Full
  /\ \A i \in Slots : slots[i] \in Fanouts => idx[slots[i]] = i

\* A worker inside a launcher is at a slot that was given out.
Busy ==
  \A w \in Workers : wk[w] # "tick" => fired[w] < count /\ fired[w] < MaxLaunchers

\* What the drop of a handle knows about the workers it has passed, and what
\* becomes of a task it does not find.
Passed ==
  /\ \A f \in Fanouts : phase[f] = "abort" => stopping[f]
  /\ \A f \in Fanouts : swept[f] > 0 => stopping[f]
  /\ \A f \in Fanouts : ~bound[f] => swept[f] = NumWorkers
  /\ \A f \in Fanouts, w \in Workers : At(f, w, "keep") => lock[f][w]
  /\ \A f \in Fanouts, w \in Workers :
       swept[f] > w => ~At(f, w, "keep") /\ ~handles[f][w]
  /\ \A f \in Fanouts, w \in Workers :
       task[f][w] = "running"
         => \/ handles[f][w]
            \/ At(f, w, "install") \/ At(f, w, "keep") \/ At(f, w, "discard")

\* A launcher that was called lies behind the worker's cursor or is running.
Counted ==
  /\ calls \in [Fanouts -> [Workers -> Nat]]
  /\ CalledOnce
  /\ \A f \in Fanouts, w \in Workers :
       calls[f][w] > 0
         => /\ idx[f] # Full
            /\ \/ idx[f] < fired[w]
               \/ idx[f] = fired[w] /\ wk[w] # "tick"

IInv == TypeOK /\ Claimed /\ Busy /\ Passed /\ Counted

-----------------------------------------------------------------------------
\* Chunk indices are natural numbers.
LEMMA Quotient == ASSUME NEW i \in Nat PROVE i \div ChunkSize \in Nat
  BY FanoutAssumption, SMTT(60)

\* A worker inside a launcher has its cursor on a slot of the table ...
LEMMA Inside ==
  ASSUME TypeOK, Busy, NEW w \in Workers, wk[w] # "tick"
  PROVE  fired[w] \in 0 .. MaxLaunchers - 1
<1>1. fired[w] \in 0 .. MaxLaunchers
  BY Zenon DEF TypeOK
<1>2. fired[w] < MaxLaunchers
  BY Zenon DEF Busy
<1> QED
  BY <1>1, <1>2, FanoutAssumption, SMTT(60)

\* ... which belongs to one launcher.
LEMMA Alone ==
  ASSUME TypeOK, Busy, Claimed, NEW w \in Workers, wk[w] # "tick",
         NEW f \in Fanouts, idx[f] = fired[w]
  PROVE  \A g \in Fanouts : g # f => idx[g] # fired[w]
<1>1. idx[f] # Full
  BY Inside, FanoutAssumption, SMTT(60) DEF Full
<1> QED
  BY <1>1, Zenon DEF Claimed

\* The initial states satisfy the invariant.
LEMMA Start == Init => IInv
<1> SUFFICES ASSUME Init PROVE IInv
  BY Zenon
<1> USE FanoutAssumption DEF Init, PerFanout, Full, Slots, Workers
<1>1. TypeOK
  <2>1. count \in Nat
    BY SMTT(60)
  <2>2. ASSUME NEW c \in chunks PROVE c \in Nat
    <3>1. PICK i \in 0 .. count - 1 : c = i \div ChunkSize
      BY Zenon
    <3>2. i \in Nat
      BY <2>1, SMTT(60)
    <3> HIDE DEF Init
    <3> QED
      BY <3>1, <3>2, Quotient, Zenon
  <2>3. chunks \subseteq Nat
    BY <2>2, Zenon
  <2>4. /\ slots \in [Slots -> Fanouts \cup {"null", "tombstone"}]
        /\ fired \in [Workers -> 0 .. MaxLaunchers]
        /\ wk \in [Workers -> {"tick", "call", "spawn", "install", "keep", "discard"}]
    BY SMTT(60)
  <2>5. /\ stopping \in [Fanouts -> BOOLEAN]
        /\ bound \in [Fanouts -> BOOLEAN]
        /\ handles \in [Fanouts -> [Workers -> BOOLEAN]]
        /\ lock \in [Fanouts -> [Workers -> BOOLEAN]]
    BY SMTT(60)
  <2>6. /\ task \in [Fanouts -> [Workers -> {"none", "running", "aborted", "ended"}]]
        /\ phase \in [Fanouts -> {"new", "chunk", "store", "up", "abort",
                                 "release", "gone"}]
        /\ idx \in [Fanouts -> Slots \cup {Full}]
        /\ swept \in [Fanouts -> 0 .. NumWorkers]
    BY SMTT(60)
  <2> HIDE DEF Init
  <2> QED
    BY <2>1, <2>3, <2>4, <2>5, <2>6, Zenon DEF TypeOK
<1>2. Claimed
  BY Zenon DEF Claimed
<1>3. Busy
  BY Zenon DEF Busy
<1>4. Passed
  BY SMTT(60) DEF Passed, At
<1>5. Counted
  BY SMTT(60) DEF Counted, CalledOnce
<1> QED
  BY <1>1, <1>2, <1>3, <1>4, <1>5, Zenon DEF IInv

\* Every step preserves the types.
LEMMA TypeStep == IInv /\ [Next]_vars => TypeOK'
<1> SUFFICES ASSUME IInv, [Next]_vars PROVE TypeOK'
  BY Zenon
<1> USE FanoutAssumption DEF IInv, Full, Slots, Workers, TypeOK, Claimed, Busy
<1>1. ASSUME NEW f \in Fanouts, RegisterFull(f) PROVE TypeOK'
  BY <1>1, SMTT(60) DEF RegisterFull, table, ctx, owner
<1>2. ASSUME NEW f \in Fanouts, RegisterClaim(f) PROVE TypeOK'
  BY <1>2, SMTT(60) DEF RegisterClaim, table, ctx, owner
<1>3. ASSUME NEW f \in Fanouts, RegisterChunk(f) PROVE TypeOK'
  <2>1. idx[f] \in Nat
    BY SMTT(60)
  <2>2. idx[f] \div ChunkSize \in Nat
    BY <2>1, Quotient, Zenon
  <2>3. chunks' \subseteq Nat
    BY <1>3, <2>2, Zenon DEF RegisterChunk
  <2> QED
    BY <1>3, <2>3, Zenon DEF RegisterChunk, ctx
<1>4. ASSUME NEW f \in Fanouts, RegisterStore(f) PROVE TypeOK'
  BY <1>4, SMTT(60) DEF RegisterStore, table, ctx, owner
<1>5. ASSUME NEW f \in Fanouts, DropStop(f) PROVE TypeOK'
  BY <1>5, SMTT(60) DEF DropStop, table, ctx, owner
<1>6. ASSUME NEW f \in Fanouts, DropTake(f) PROVE TypeOK'
  <2>1. swept' \in [Fanouts -> 0 .. NumWorkers]
    BY <1>6, SMTT(60) DEF DropTake
  <2>2. handles' \in [Fanouts -> [Workers -> BOOLEAN]]
    BY <1>6, Zenon DEF DropTake
  <2>3. task' \in [Fanouts -> [Workers -> {"none", "running", "aborted", "ended"}]]
    <3>1. CASE handles[f][swept[f]]
      <4>1. Abort(f, swept[f])
        BY <1>6, <3>1, Zenon DEF DropTake
      <4>2. task \in [Fanouts -> [Workers -> {"none", "running", "aborted", "ended"}]]
        BY Zenon
      <4>3. swept[f] \in Workers
        BY <1>6, SMTT(60) DEF DropTake
      <4> HIDE DEF TypeOK, Claimed, Busy, IInv, Workers
      <4> QED
        BY <4>1, <4>2, <4>3, SMTT(60) DEF Abort
    <3>2. CASE ~handles[f][swept[f]]
      BY <1>6, <3>2, SMTT(60) DEF DropTake
    <3> QED
      BY <3>1, <3>2, Zenon
  <2> QED
    BY <1>6, <2>1, <2>2, <2>3, Zenon DEF DropTake, table
<1>7. ASSUME NEW f \in Fanouts, DropPort(f) PROVE TypeOK'
  BY <1>7, SMTT(60) DEF DropPort, table, ctx, owner
<1>8. ASSUME NEW f \in Fanouts, DropRelease(f) PROVE TypeOK'
  BY <1>8, SMTT(60) DEF DropRelease, table, ctx, owner
<1>9. ASSUME NEW w \in Workers, VisitTombstone(w) PROVE TypeOK'
  BY <1>9, SMTT(60)
     DEF VisitTombstone, table, ctx, owner, Advance, Visiting, Current
<1>10. ASSUME NEW f \in Fanouts, NEW w \in Workers, VisitLive(f, w)
       PROVE TypeOK'
  BY <1>10, SMTT(60) DEF VisitLive, table, ctx, owner, Visiting, Current
<1>11. ASSUME NEW f \in Fanouts, NEW w \in Workers, LaunchStopped(f, w)
       PROVE TypeOK'
  <2>1. fired[w] \in 0 .. MaxLaunchers - 1
    <3>1. wk[w] # "tick"
      BY <1>11, Zenon DEF LaunchStopped, At
    <3> HIDE DEF TypeOK, Busy, Claimed, Slots
    <3> QED
      BY <3>1, Inside, Zenon
  <2>2. /\ fired' \in [Workers -> 0 .. MaxLaunchers]
        /\ wk' \in [Workers -> {"tick", "call", "spawn", "install", "keep", "discard"}]
    BY <1>11, <2>1, SMTT(60) DEF LaunchStopped, Advance
  <2> QED
    BY <1>11, <2>2, Zenon DEF LaunchStopped, table, ctx, owner
<1>12. ASSUME NEW f \in Fanouts, NEW w \in Workers, LaunchGo(f, w) PROVE TypeOK'
  BY <1>12, SMTT(60) DEF LaunchGo, table, ctx, owner, At
<1>13. ASSUME NEW f \in Fanouts, NEW w \in Workers, Spawn(f, w) PROVE TypeOK'
  BY <1>13, SMTT(60) DEF Spawn, table, ctx, owner, At
<1>14. ASSUME NEW f \in Fanouts, NEW w \in Workers, SpawnErr(f, w) PROVE TypeOK'
  <2>1. fired[w] \in 0 .. MaxLaunchers - 1
    <3>1. wk[w] # "tick"
      BY <1>14, Zenon DEF SpawnErr, At
    <3> HIDE DEF TypeOK, Busy, Claimed, Slots
    <3> QED
      BY <3>1, Inside, Zenon
  <2>2. /\ fired' \in [Workers -> 0 .. MaxLaunchers]
        /\ wk' \in [Workers -> {"tick", "call", "spawn", "install", "keep", "discard"}]
    BY <1>14, <2>1, SMTT(60) DEF SpawnErr, Advance
  <2> QED
    BY <1>14, <2>2, Zenon DEF SpawnErr, table, ctx, owner
<1>15. ASSUME NEW f \in Fanouts, NEW w \in Workers, Install(f, w) PROVE TypeOK'
  BY <1>15, SMTT(60) DEF Install, table, ctx, owner, At
<1>16. ASSUME NEW f \in Fanouts, NEW w \in Workers, InstallKeep(f, w)
       PROVE TypeOK'
  <2>1. fired[w] \in 0 .. MaxLaunchers - 1
    <3>1. wk[w] # "tick"
      BY <1>16, Zenon DEF InstallKeep, At
    <3> HIDE DEF TypeOK, Busy, Claimed, Slots
    <3> QED
      BY <3>1, Inside, Zenon
  <2>2. /\ fired' \in [Workers -> 0 .. MaxLaunchers]
        /\ wk' \in [Workers -> {"tick", "call", "spawn", "install", "keep", "discard"}]
    BY <1>16, <2>1, SMTT(60) DEF InstallKeep, Advance
  <2>3. /\ handles' \in [Fanouts -> [Workers -> BOOLEAN]]
        /\ lock' \in [Fanouts -> [Workers -> BOOLEAN]]
    BY <1>16, Zenon DEF InstallKeep
  <2> QED
    BY <1>16, <2>2, <2>3, Zenon DEF InstallKeep, table, ctx, owner
<1>17. ASSUME NEW f \in Fanouts, NEW w \in Workers, InstallAbort(f, w)
       PROVE TypeOK'
  <2>1. fired[w] \in 0 .. MaxLaunchers - 1
    <3>1. wk[w] # "tick"
      BY <1>17, Zenon DEF InstallAbort, At
    <3> HIDE DEF TypeOK, Busy, Claimed, Slots
    <3> QED
      BY <3>1, Inside, Zenon
  <2>2. /\ fired' \in [Workers -> 0 .. MaxLaunchers]
        /\ wk' \in [Workers -> {"tick", "call", "spawn", "install", "keep", "discard"}]
    BY <1>17, <2>1, SMTT(60) DEF InstallAbort, Advance
  <2>3. lock' \in [Fanouts -> [Workers -> BOOLEAN]]
    BY <1>17, Zenon DEF InstallAbort
  <2>4. task' \in [Fanouts -> [Workers -> {"none", "running", "aborted", "ended"}]]
    BY <1>17, SMTT(60) DEF InstallAbort, Abort
  <2> QED
    BY <1>17, <2>2, <2>3, <2>4, Zenon DEF InstallAbort, table, ctx, owner
<1>18. ASSUME NEW f \in Fanouts, NEW w \in Workers, TaskEnds(f, w) PROVE TypeOK'
  BY <1>18, SMTT(60) DEF TaskEnds, table, ctx, owner
<1>19. ASSUME NEW f \in Fanouts, NEW w \in Workers, TaskDropped(f, w)
       PROVE TypeOK'
  BY <1>19, SMTT(60) DEF TaskDropped, table, ctx, owner
<1>20. CASE UNCHANGED vars
  BY <1>20, SMTT(60) DEF vars, table, ctx, owner
<1> QED
  BY Zenon, <1>1, <1>2, <1>3, <1>4, <1>5, <1>6, <1>7, <1>8, <1>9, <1>10, <1>11,
     <1>12, <1>13, <1>14, <1>15, <1>16, <1>17, <1>18, <1>19, <1>20
     DEF Next, Register, Drop, FirePending, Launch

\* A slot is given out once, and holds the launcher it was given out for.
LEMMA ClaimedStep == IInv /\ [Next]_vars => Claimed'
<1> SUFFICES ASSUME IInv, [Next]_vars PROVE Claimed'
  BY Zenon
<1> USE FanoutAssumption DEF IInv, Full, Slots, Workers, TypeOK, Claimed
<1>1. ASSUME NEW f \in Fanouts, RegisterFull(f) PROVE Claimed'
  BY <1>1, SMTT(60) DEF RegisterFull, table, ctx, owner
<1>2. ASSUME NEW f \in Fanouts, RegisterClaim(f) PROVE Claimed'
  <2>1. count \in Slots /\ idx' = [idx EXCEPT ![f] = count] /\ count' = count + 1
        /\ slots' = slots /\ phase' = [phase EXCEPT ![f] = "chunk"]
    BY <1>2, SMTT(60) DEF RegisterClaim
  <2>2. \A g \in Fanouts : g # f => idx'[g] = idx[g]
    BY <2>1, Zenon
  <2>3. idx'[f] = count
    BY <2>1, Zenon
  <2>4. \A g \in Fanouts : idx'[g] # Full => idx'[g] < count'
    BY <2>1, <2>2, <2>3, SMTT(60)
  <2>5. \A g, h \in Fanouts : g # h /\ idx'[g] # Full => idx'[g] # idx'[h]
    <3>1. \A h \in Fanouts : h # f => idx[h] # count
      <4> SUFFICES ASSUME NEW h \in Fanouts PROVE idx[h] # count
        BY Zenon
      <4>1. CASE idx[h] = Full
        BY <2>1, <4>1, SMTT(60)
      <4>2. CASE idx[h] # Full
        <5>1. idx[h] < count /\ count \in Nat
          BY <4>2, Zenon
        <5>2. idx[h] \in Int
          BY SMTT(60)
        <5> HIDE DEF TypeOK, Claimed, IInv
        <5> QED
          BY <5>1, <5>2, SMTT(60)
      <4> QED
        BY <4>1, <4>2, Zenon
    <3>2. \A g, h \in Fanouts :
            g # f /\ h # f /\ g # h /\ idx[g] # Full => idx[g] # idx[h]
      BY Zenon
    <3> HIDE DEF TypeOK, Claimed, IInv
    <3> QED
      BY <2>2, <2>3, <3>1, <3>2, Zenon
  <2>6. \A g \in Fanouts : phase'[g] \in {"chunk", "store"} => idx'[g] # Full
    BY <2>1, <2>2, <2>3, SMTT(60)
  <2>7. idx[f] = Full
    BY <1>2, SMTT(60) DEF RegisterClaim
  <2>8. \A i \in Slots : slots[i] \in Fanouts => idx'[slots[i]] = i
    BY <2>1, <2>2, <2>7, SMTT(60)
  <2> QED
    BY <2>1, <2>4, <2>5, <2>6, <2>8, SMTT(60)
<1>3. ASSUME NEW f \in Fanouts, RegisterChunk(f) PROVE Claimed'
  BY <1>3, SMTT(60) DEF RegisterChunk, table, ctx, owner
<1>4. ASSUME NEW f \in Fanouts, RegisterStore(f) PROVE Claimed'
  BY <1>4, SMTT(60) DEF RegisterStore, table, ctx, owner
<1>5. ASSUME NEW f \in Fanouts, DropStop(f) PROVE Claimed'
  BY <1>5, SMTT(60) DEF DropStop, table, ctx, owner
<1>6. ASSUME NEW f \in Fanouts, DropTake(f) PROVE Claimed'
  BY <1>6, SMTT(60) DEF DropTake, table, ctx, owner, Abort
<1>7. ASSUME NEW f \in Fanouts, DropPort(f) PROVE Claimed'
  BY <1>7, SMTT(60) DEF DropPort, table, ctx, owner
<1>8. ASSUME NEW f \in Fanouts, DropRelease(f) PROVE Claimed'
  <2>1. \A i \in Slots : slots'[i] \in Fanouts => slots'[i] = slots[i]
    BY <1>8, Zenon DEF DropRelease
  <2>2. idx' = idx /\ count' = count
    BY <1>8, Zenon DEF DropRelease
  <2>3. \A g \in Fanouts : phase'[g] \in {"new", "chunk", "store"} => phase'[g] = phase[g]
    BY <1>8, Zenon DEF DropRelease
  <2> QED
    BY <2>1, <2>2, <2>3, SMTT(60)
<1>9. ASSUME NEW w \in Workers, VisitTombstone(w) PROVE Claimed'
  BY <1>9, SMTT(60)
     DEF VisitTombstone, table, ctx, owner, Advance, Visiting, Current
<1>10. ASSUME NEW f \in Fanouts, NEW w \in Workers, VisitLive(f, w)
       PROVE Claimed'
  BY <1>10, SMTT(60) DEF VisitLive, table, ctx, owner, Visiting, Current
<1>11. ASSUME NEW f \in Fanouts, NEW w \in Workers, LaunchStopped(f, w)
       PROVE Claimed'
  BY <1>11, SMTT(60) DEF LaunchStopped, table, ctx, owner, Advance, At
<1>12. ASSUME NEW f \in Fanouts, NEW w \in Workers, LaunchGo(f, w)
       PROVE Claimed'
  BY <1>12, SMTT(60) DEF LaunchGo, table, ctx, owner, At
<1>13. ASSUME NEW f \in Fanouts, NEW w \in Workers, Spawn(f, w) PROVE Claimed'
  BY <1>13, SMTT(60) DEF Spawn, table, ctx, owner, At
<1>14. ASSUME NEW f \in Fanouts, NEW w \in Workers, SpawnErr(f, w)
       PROVE Claimed'
  BY <1>14, SMTT(60) DEF SpawnErr, table, ctx, owner, Advance, At
<1>15. ASSUME NEW f \in Fanouts, NEW w \in Workers, Install(f, w) PROVE Claimed'
  BY <1>15, SMTT(60) DEF Install, table, ctx, owner, At
<1>16. ASSUME NEW f \in Fanouts, NEW w \in Workers, InstallKeep(f, w)
       PROVE Claimed'
  BY <1>16, SMTT(60) DEF InstallKeep, table, ctx, owner, Advance, At
<1>17. ASSUME NEW f \in Fanouts, NEW w \in Workers, InstallAbort(f, w)
       PROVE Claimed'
  BY <1>17, SMTT(60) DEF InstallAbort, table, ctx, owner, Advance, At, Abort
<1>18. ASSUME NEW f \in Fanouts, NEW w \in Workers, TaskEnds(f, w)
       PROVE Claimed'
  BY <1>18, SMTT(60) DEF TaskEnds, table, ctx, owner
<1>19. ASSUME NEW f \in Fanouts, NEW w \in Workers, TaskDropped(f, w)
       PROVE Claimed'
  BY <1>19, SMTT(60) DEF TaskDropped, table, ctx, owner
<1>20. CASE UNCHANGED vars
  BY <1>20, SMTT(60) DEF vars, table, ctx, owner
<1> QED
  BY Zenon, <1>1, <1>2, <1>3, <1>4, <1>5, <1>6, <1>7, <1>8, <1>9, <1>10, <1>11,
     <1>12, <1>13, <1>14, <1>15, <1>16, <1>17, <1>18, <1>19, <1>20
     DEF Next, Register, Drop, FirePending, Launch

\* The table only grows under a worker inside a launcher.
LEMMA BusyStep == IInv /\ [Next]_vars => Busy'
<1> SUFFICES ASSUME IInv, [Next]_vars PROVE Busy'
  BY Zenon
<1> USE FanoutAssumption DEF IInv, Full, Slots, Workers, TypeOK, Busy
<1>1. ASSUME NEW f \in Fanouts, RegisterFull(f) PROVE Busy'
  BY <1>1, SMTT(60) DEF RegisterFull, table, ctx, owner
<1>2. ASSUME NEW f \in Fanouts, RegisterClaim(f) PROVE Busy'
  BY <1>2, SMTT(60) DEF RegisterClaim, table, ctx, owner
<1>3. ASSUME NEW f \in Fanouts, RegisterChunk(f) PROVE Busy'
  BY <1>3, SMTT(60) DEF RegisterChunk, table, ctx, owner
<1>4. ASSUME NEW f \in Fanouts, RegisterStore(f) PROVE Busy'
  BY <1>4, SMTT(60) DEF RegisterStore, table, ctx, owner
<1>5. ASSUME NEW f \in Fanouts, DropStop(f) PROVE Busy'
  BY <1>5, SMTT(60) DEF DropStop, table, ctx, owner
<1>6. ASSUME NEW f \in Fanouts, DropTake(f) PROVE Busy'
  BY <1>6, SMTT(60) DEF DropTake, table, ctx, owner, Abort
<1>7. ASSUME NEW f \in Fanouts, DropPort(f) PROVE Busy'
  BY <1>7, SMTT(60) DEF DropPort, table, ctx, owner
<1>8. ASSUME NEW f \in Fanouts, DropRelease(f) PROVE Busy'
  BY <1>8, SMTT(60) DEF DropRelease, table, ctx, owner
<1>9. ASSUME NEW w \in Workers, VisitTombstone(w) PROVE Busy'
  BY <1>9, SMTT(60)
     DEF VisitTombstone, table, ctx, owner, Advance, Visiting, Current
<1>10. ASSUME NEW f \in Fanouts, NEW w \in Workers, VisitLive(f, w) PROVE Busy'
  BY <1>10, SMTT(60) DEF VisitLive, table, ctx, owner, Visiting, Current
<1>11. ASSUME NEW f \in Fanouts, NEW w \in Workers, LaunchStopped(f, w)
       PROVE Busy'
  BY <1>11, SMTT(60) DEF LaunchStopped, table, ctx, owner, Advance, At
<1>12. ASSUME NEW f \in Fanouts, NEW w \in Workers, LaunchGo(f, w) PROVE Busy'
  BY <1>12, SMTT(60) DEF LaunchGo, table, ctx, owner, At
<1>13. ASSUME NEW f \in Fanouts, NEW w \in Workers, Spawn(f, w) PROVE Busy'
  BY <1>13, SMTT(60) DEF Spawn, table, ctx, owner, At
<1>14. ASSUME NEW f \in Fanouts, NEW w \in Workers, SpawnErr(f, w) PROVE Busy'
  BY <1>14, SMTT(60) DEF SpawnErr, table, ctx, owner, Advance, At
<1>15. ASSUME NEW f \in Fanouts, NEW w \in Workers, Install(f, w) PROVE Busy'
  BY <1>15, SMTT(60) DEF Install, table, ctx, owner, At
<1>16. ASSUME NEW f \in Fanouts, NEW w \in Workers, InstallKeep(f, w)
       PROVE Busy'
  BY <1>16, SMTT(60) DEF InstallKeep, table, ctx, owner, Advance, At
<1>17. ASSUME NEW f \in Fanouts, NEW w \in Workers, InstallAbort(f, w)
       PROVE Busy'
  BY <1>17, SMTT(60) DEF InstallAbort, table, ctx, owner, Advance, At, Abort
<1>18. ASSUME NEW f \in Fanouts, NEW w \in Workers, TaskEnds(f, w) PROVE Busy'
  BY <1>18, SMTT(60) DEF TaskEnds, table, ctx, owner
<1>19. ASSUME NEW f \in Fanouts, NEW w \in Workers, TaskDropped(f, w)
       PROVE Busy'
  BY <1>19, SMTT(60) DEF TaskDropped, table, ctx, owner
<1>20. CASE UNCHANGED vars
  BY <1>20, SMTT(60) DEF vars, table, ctx, owner
<1> QED
  BY Zenon, <1>1, <1>2, <1>3, <1>4, <1>5, <1>6, <1>7, <1>8, <1>9, <1>10, <1>11,
     <1>12, <1>13, <1>14, <1>15, <1>16, <1>17, <1>18, <1>19, <1>20
     DEF Next, Register, Drop, FirePending, Launch

\* The drop of a handle and the launchers do not miss each other.
LEMMA PassedStep == IInv /\ [Next]_vars => Passed'
<1> SUFFICES ASSUME IInv, [Next]_vars PROVE Passed'
  BY Zenon
<1> USE FanoutAssumption DEF IInv, Full, Slots, Workers, TypeOK, Claimed, Busy, Passed
<1>1. ASSUME NEW f \in Fanouts, RegisterFull(f) PROVE Passed'
  BY <1>1, SMTT(60) DEF RegisterFull, table, ctx, owner, At
<1>2. ASSUME NEW f \in Fanouts, RegisterClaim(f) PROVE Passed'
  <2>1. \A g \in Fanouts, v \in Workers, p \in {"install", "keep", "discard"} :
          At(g, v, p)' <=> At(g, v, p)
    <3> SUFFICES ASSUME NEW g \in Fanouts, NEW v \in Workers,
                        NEW p \in {"install", "keep", "discard"}
                 PROVE At(g, v, p)' <=> At(g, v, p)
      BY Zenon
    <3>1. wk' = wk /\ fired' = fired /\ idx' = [idx EXCEPT ![f] = count]
      BY <1>2, Zenon DEF RegisterClaim
    <3>2. idx[f] = Full /\ count < MaxLaunchers
      BY <1>2, SMTT(60) DEF RegisterClaim
    <3>3. wk[v] = p => fired[v] < count
      BY SMTT(60)
    <3>4. CASE g = f
      BY <3>1, <3>2, <3>3, <3>4, SMTT(60) DEF At
    <3>5. CASE g # f
      BY <3>1, <3>5, SMTT(60) DEF At
    <3> QED
      BY <3>4, <3>5, Zenon
  <2>2. UNCHANGED <<swept, stopping, handles, lock, bound, task>>
    BY <1>2, Zenon DEF RegisterClaim, ctx
  <2>5. \A g \in Fanouts : phase'[g] = "abort" => stopping'[g]
    BY <1>2, <2>2, Zenon DEF RegisterClaim
  <2>6. \A g \in Fanouts : swept'[g] > 0 => stopping'[g]
    BY <2>2, Zenon
  <2>7. \A g \in Fanouts : ~bound'[g] => swept'[g] = NumWorkers
    BY <2>2, Zenon
  <2>8. \A g \in Fanouts, v \in Workers : At(g, v, "keep")' => lock'[g][v]
    BY <2>1, <2>2, Zenon
  <2>9. \A g \in Fanouts, v \in Workers :
          swept'[g] > v => ~At(g, v, "keep")' /\ ~handles'[g][v]
    BY <2>1, <2>2, SMTT(60)
  <2>10. \A g \in Fanouts, v \in Workers :
          task'[g][v] = "running"
            => \/ handles'[g][v]
               \/ At(g, v, "install")' \/ At(g, v, "keep")' \/ At(g, v, "discard")'
    BY <2>1, <2>2, SMTT(60)
  <2> QED
    BY <2>5, <2>6, <2>7, <2>8, <2>9, <2>10, Zenon
<1>3. ASSUME NEW f \in Fanouts, RegisterChunk(f) PROVE Passed'
  BY <1>3, SMTT(60) DEF RegisterChunk, table, ctx, owner, At
<1>4. ASSUME NEW f \in Fanouts, RegisterStore(f) PROVE Passed'
  BY <1>4, SMTT(60) DEF RegisterStore, table, ctx, owner, At
<1>5. ASSUME NEW f \in Fanouts, DropStop(f) PROVE Passed'
  BY <1>5, SMTT(60) DEF DropStop, table, ctx, owner, At
<1>6. ASSUME NEW f \in Fanouts, DropTake(f) PROVE Passed'
  <2>1. /\ swept[f] \in Workers /\ swept' = [swept EXCEPT ![f] = @ + 1]
        /\ handles' = [handles EXCEPT ![f][swept[f]] = FALSE]
        /\ ~lock[f][swept[f]] /\ phase[f] = "abort"
    BY <1>6, SMTT(60) DEF DropTake
  <2>2. UNCHANGED <<wk, fired, idx, stopping, lock, bound>>
    BY <1>6, Zenon DEF DropTake, table
  <2>3. \A g \in Fanouts, v \in Workers, p \in {"install", "keep", "discard"} :
          At(g, v, p)' <=> At(g, v, p)
    BY <2>2, Zenon DEF At
  <2>4. \A g \in Fanouts, v \in Workers :
          task'[g][v] = "running"
            => task[g][v] = "running" /\ (handles[g][v] => handles'[g][v])
    <3>1. CASE handles[f][swept[f]]
      BY <1>6, <2>1, <3>1, SMTT(60) DEF DropTake, Abort
    <3>2. CASE ~handles[f][swept[f]]
      BY <1>6, <2>1, <3>2, SMTT(60) DEF DropTake
    <3> QED
      BY <3>1, <3>2, ZenonT(60)
  <2>5. \A g \in Fanouts : phase'[g] = "abort" => stopping'[g]
    BY <1>6, <2>2, Zenon DEF DropTake
  <2>6. \A g \in Fanouts : swept'[g] > 0 => stopping'[g]
    BY <2>1, <2>2, SMTT(60)
  <2>7. \A g \in Fanouts : ~bound'[g] => swept'[g] = NumWorkers
    BY <2>1, <2>2, SMTT(60)
  <2>8. \A g \in Fanouts, v \in Workers : At(g, v, "keep")' => lock'[g][v]
    BY <2>2, <2>3, Zenon
  <2>9. \A g \in Fanouts, v \in Workers :
          swept'[g] > v => ~At(g, v, "keep")' /\ ~handles'[g][v]
    BY <2>1, <2>2, <2>3, SMTT(60)
  <2>10. \A g \in Fanouts, v \in Workers :
          task'[g][v] = "running"
            => \/ handles'[g][v]
               \/ At(g, v, "install")' \/ At(g, v, "keep")' \/ At(g, v, "discard")'
    BY <2>3, <2>4, SMTT(60)
  <2> QED
    BY <2>5, <2>6, <2>7, <2>8, <2>9, <2>10, Zenon
<1>7. ASSUME NEW f \in Fanouts, DropPort(f) PROVE Passed'
  BY <1>7, SMTT(60) DEF DropPort, table, ctx, owner, At
<1>8. ASSUME NEW f \in Fanouts, DropRelease(f) PROVE Passed'
  BY <1>8, SMTT(60) DEF DropRelease, table, ctx, owner, At
<1>9. ASSUME NEW w \in Workers, VisitTombstone(w) PROVE Passed'
  BY <1>9, SMTT(60)
     DEF VisitTombstone, table, ctx, owner, Advance, Visiting, Current, At
<1>10. ASSUME NEW f \in Fanouts, NEW w \in Workers, VisitLive(f, w)
       PROVE Passed'
  BY <1>10, SMTT(60) DEF VisitLive, table, ctx, owner, Visiting, Current, At
<1>11. ASSUME NEW f \in Fanouts, NEW w \in Workers, LaunchStopped(f, w)
       PROVE Passed'
  BY <1>11, SMTT(60) DEF LaunchStopped, table, ctx, owner, Advance, At
<1>12. ASSUME NEW f \in Fanouts, NEW w \in Workers, LaunchGo(f, w) PROVE Passed'
  BY <1>12, SMTT(60) DEF LaunchGo, table, ctx, owner, At
<1>13. ASSUME NEW f \in Fanouts, NEW w \in Workers, Spawn(f, w) PROVE Passed'
  <2>1. /\ idx[f] = fired[w] /\ wk[w] = "spawn"
        /\ task' = [task EXCEPT ![f][w] = "running"]
        /\ wk' = [wk EXCEPT ![w] = "install"]
    BY <1>13, Zenon DEF Spawn, At
  <2>2. UNCHANGED <<fired, idx, swept, phase, stopping, handles, lock, bound>>
    BY <1>13, Zenon DEF Spawn, ctx, owner
  <2>5. \A g \in Fanouts : phase'[g] = "abort" => stopping'[g]
    BY <2>2, Zenon
  <2>6. \A g \in Fanouts : swept'[g] > 0 => stopping'[g]
    BY <2>2, Zenon
  <2>7. \A g \in Fanouts : ~bound'[g] => swept'[g] = NumWorkers
    BY <2>2, Zenon
  <2>8. \A g \in Fanouts, v \in Workers : At(g, v, "keep")' => lock'[g][v]
    BY <2>1, <2>2, SMTT(60) DEF At
  <2>9. \A g \in Fanouts, v \in Workers :
          swept'[g] > v => ~At(g, v, "keep")' /\ ~handles'[g][v]
    BY <2>1, <2>2, SMTT(60) DEF At
  <2>10. \A g \in Fanouts, v \in Workers :
          task'[g][v] = "running"
            => \/ handles'[g][v]
               \/ At(g, v, "install")' \/ At(g, v, "keep")' \/ At(g, v, "discard")'
    BY <2>1, <2>2, SMTT(60) DEF At
  <2> QED
    BY <2>5, <2>6, <2>7, <2>8, <2>9, <2>10, Zenon
<1>14. ASSUME NEW f \in Fanouts, NEW w \in Workers, SpawnErr(f, w) PROVE Passed'
  BY <1>14, SMTT(60) DEF SpawnErr, table, ctx, owner, Advance, At
<1>15. ASSUME NEW f \in Fanouts, NEW w \in Workers, Install(f, w) PROVE Passed'
  <2>1. \A g \in Fanouts : g # f => idx[g] # fired[w]
    <3>1. wk[w] # "tick" /\ idx[f] = fired[w]
      BY <1>15, Zenon DEF Install, At
    <3> HIDE DEF TypeOK, Busy, Claimed
    <3> QED
      BY <3>1, Alone, Zenon
  <2>2. /\ idx[f] = fired[w] /\ wk[w] = "install"
        /\ lock' = [lock EXCEPT ![f][w] = TRUE]
        /\ wk' = [wk EXCEPT ![w] = IF stopping[f] THEN "discard" ELSE "keep"]
    BY <1>15, Zenon DEF Install, At
  <2>3. UNCHANGED <<fired, idx, swept, stopping, handles, bound, task>>
    BY <1>15, Zenon DEF Install, table, owner
  <2>5. \A g \in Fanouts : phase'[g] = "abort" => stopping'[g]
    BY <1>15, <2>3, ZenonT(60) DEF Install, owner
  <2>6. \A g \in Fanouts : swept'[g] > 0 => stopping'[g]
    BY <2>3, Zenon
  <2>7. \A g \in Fanouts : ~bound'[g] => swept'[g] = NumWorkers
    BY <2>3, Zenon
  <2>8. \A g \in Fanouts, v \in Workers : At(g, v, "keep")' => lock'[g][v]
    BY <2>1, <2>2, <2>3, SMTT(60) DEF At
  <2>9. \A g \in Fanouts, v \in Workers :
          swept'[g] > v => ~At(g, v, "keep")' /\ ~handles'[g][v]
    BY <2>1, <2>2, <2>3, SMTT(60) DEF At
  <2>10. \A g \in Fanouts, v \in Workers :
          task'[g][v] = "running"
            => \/ handles'[g][v]
               \/ At(g, v, "install")' \/ At(g, v, "keep")' \/ At(g, v, "discard")'
    BY <2>1, <2>2, <2>3, SMTT(60) DEF At
  <2> QED
    BY <2>5, <2>6, <2>7, <2>8, <2>9, <2>10, Zenon
<1>16. ASSUME NEW f \in Fanouts, NEW w \in Workers, InstallKeep(f, w)
       PROVE Passed'
  <2>1. \A g \in Fanouts : g # f => idx[g] # fired[w]
    <3>1. wk[w] # "tick" /\ idx[f] = fired[w]
      BY <1>16, Zenon DEF InstallKeep, At
    <3> HIDE DEF TypeOK, Busy, Claimed
    <3> QED
      BY <3>1, Alone, Zenon
  <2>2. /\ At(f, w, "keep") /\ idx' = idx
        /\ fired' = [fired EXCEPT ![w] = @ + 1] /\ wk' = [wk EXCEPT ![w] = "tick"]
        /\ handles' = [handles EXCEPT ![f][w] = TRUE]
        /\ lock' = [lock EXCEPT ![f][w] = FALSE]
    BY <1>16, Zenon DEF InstallKeep, Advance, owner
  <2>3. UNCHANGED <<swept, stopping, bound, task>>
    BY <1>16, Zenon DEF InstallKeep, owner
  <2>5. \A g \in Fanouts : phase'[g] = "abort" => stopping'[g]
    BY <1>16, <2>3, ZenonT(60) DEF InstallKeep, owner
  <2>6. \A g \in Fanouts : swept'[g] > 0 => stopping'[g]
    BY <2>3, Zenon
  <2>7. \A g \in Fanouts : ~bound'[g] => swept'[g] = NumWorkers
    BY <2>3, Zenon
  <2>8. \A g \in Fanouts, v \in Workers : At(g, v, "keep")' => lock'[g][v]
    BY <2>1, <2>2, <2>3, SMTT(60) DEF At
  <2>9. \A g \in Fanouts, v \in Workers :
          swept'[g] > v => ~At(g, v, "keep")' /\ ~handles'[g][v]
    BY <2>1, <2>2, <2>3, SMTT(60) DEF At
  <2>10. \A g \in Fanouts, v \in Workers :
          task'[g][v] = "running"
            => \/ handles'[g][v]
               \/ At(g, v, "install")' \/ At(g, v, "keep")' \/ At(g, v, "discard")'
    BY <2>1, <2>2, <2>3, SMTT(60) DEF At
  <2> QED
    BY <2>5, <2>6, <2>7, <2>8, <2>9, <2>10, Zenon
<1>17. ASSUME NEW f \in Fanouts, NEW w \in Workers, InstallAbort(f, w)
       PROVE Passed'
  <2>1. \A g \in Fanouts : g # f => idx[g] # fired[w]
    <3>1. wk[w] # "tick" /\ idx[f] = fired[w]
      BY <1>17, Zenon DEF InstallAbort, At
    <3> HIDE DEF TypeOK, Busy, Claimed
    <3> QED
      BY <3>1, Alone, Zenon
  <2>2. /\ At(f, w, "discard") /\ idx' = idx
        /\ fired' = [fired EXCEPT ![w] = @ + 1] /\ wk' = [wk EXCEPT ![w] = "tick"]
        /\ lock' = [lock EXCEPT ![f][w] = FALSE]
    BY <1>17, Zenon DEF InstallAbort, Advance, owner
  <2>3. UNCHANGED <<swept, stopping, bound, handles>>
    BY <1>17, Zenon DEF InstallAbort, owner
  <2>4. \A g \in Fanouts, v \in Workers :
          task'[g][v] = "running" => task[g][v] = "running" /\ (g # f \/ v # w)
    BY <1>17, SMTT(60) DEF InstallAbort, Abort
  <2>5. \A g \in Fanouts : phase'[g] = "abort" => stopping'[g]
    BY <1>17, <2>3, ZenonT(60) DEF InstallAbort, owner
  <2>6. \A g \in Fanouts : swept'[g] > 0 => stopping'[g]
    BY <2>3, Zenon
  <2>7. \A g \in Fanouts : ~bound'[g] => swept'[g] = NumWorkers
    BY <2>3, Zenon
  <2>8. \A g \in Fanouts, v \in Workers : At(g, v, "keep")' => lock'[g][v]
    BY <2>1, <2>2, <2>3, SMTT(60) DEF At
  <2>9. \A g \in Fanouts, v \in Workers :
          swept'[g] > v => ~At(g, v, "keep")' /\ ~handles'[g][v]
    BY <2>1, <2>2, <2>3, SMTT(60) DEF At
  <2>10. \A g \in Fanouts, v \in Workers :
          task'[g][v] = "running"
            => \/ handles'[g][v]
               \/ At(g, v, "install")' \/ At(g, v, "keep")' \/ At(g, v, "discard")'
    BY <2>1, <2>2, <2>3, <2>4, SMTT(60) DEF At
  <2> QED
    BY <2>5, <2>6, <2>7, <2>8, <2>9, <2>10, Zenon
<1>18. ASSUME NEW f \in Fanouts, NEW w \in Workers, TaskEnds(f, w) PROVE Passed'
  BY <1>18, SMTT(60) DEF TaskEnds, table, ctx, owner, At
<1>19. ASSUME NEW f \in Fanouts, NEW w \in Workers, TaskDropped(f, w)
       PROVE Passed'
  BY <1>19, SMTT(60) DEF TaskDropped, table, ctx, owner, At
<1>20. CASE UNCHANGED vars
  BY <1>20, SMTT(60) DEF vars, table, ctx, owner, At
<1> QED
  BY ZenonT(60), <1>1, <1>2, <1>3, <1>4, <1>5, <1>6, <1>7, <1>8, <1>9, <1>10, <1>11,
     <1>12, <1>13, <1>14, <1>15, <1>16, <1>17, <1>18, <1>19, <1>20
     DEF Next, Register, Drop, FirePending, Launch

\* The cursor moves past a launcher it has called.
LEMMA CountedStep == IInv /\ [Next]_vars => Counted'
<1> SUFFICES ASSUME IInv, [Next]_vars PROVE Counted'
  BY Zenon
<1> USE FanoutAssumption DEF IInv, Full, Slots, Workers, TypeOK, Claimed, Busy, Counted, CalledOnce
<1>1. ASSUME NEW f \in Fanouts, RegisterFull(f) PROVE Counted'
  BY <1>1, SMTT(60) DEF RegisterFull, table, ctx, owner
<1>2. ASSUME NEW f \in Fanouts, RegisterClaim(f) PROVE Counted'
  <2>1. idx[f] = Full /\ idx' = [idx EXCEPT ![f] = count]
    BY <1>2, SMTT(60) DEF RegisterClaim
  <2>2. UNCHANGED <<fired, wk, calls>>
    BY <1>2, Zenon DEF RegisterClaim
  <2>3. \A g \in Fanouts, v \in Workers : calls[g][v] > 0 => idx'[g] = idx[g]
    BY <2>1, ZenonT(60)
  <2> QED
    BY <2>2, <2>3, SMTT(60)
<1>3. ASSUME NEW f \in Fanouts, RegisterChunk(f) PROVE Counted'
  BY <1>3, SMTT(60) DEF RegisterChunk, table, ctx, owner
<1>4. ASSUME NEW f \in Fanouts, RegisterStore(f) PROVE Counted'
  BY <1>4, SMTT(60) DEF RegisterStore, table, ctx, owner
<1>5. ASSUME NEW f \in Fanouts, DropStop(f) PROVE Counted'
  BY <1>5, SMTT(60) DEF DropStop, table, ctx, owner
<1>6. ASSUME NEW f \in Fanouts, DropTake(f) PROVE Counted'
  BY <1>6, SMTT(60) DEF DropTake, table, ctx, owner, Abort
<1>7. ASSUME NEW f \in Fanouts, DropPort(f) PROVE Counted'
  BY <1>7, SMTT(60) DEF DropPort, table, ctx, owner
<1>8. ASSUME NEW f \in Fanouts, DropRelease(f) PROVE Counted'
  BY <1>8, SMTT(60) DEF DropRelease, table, ctx, owner
<1>9. ASSUME NEW w \in Workers, VisitTombstone(w) PROVE Counted'
  BY <1>9, SMTT(60)
     DEF VisitTombstone, table, ctx, owner, Advance, Visiting, Current
<1>10. ASSUME NEW f \in Fanouts, NEW w \in Workers, VisitLive(f, w)
       PROVE Counted'
  <2>1. fired[w] \in Slots /\ slots[fired[w]] = f /\ wk[w] = "tick"
    <3>1. Visiting(w) /\ Current(w) = f /\ f # "null"
      BY <1>10, SMTT(60) DEF VisitLive
    <3>2. slots[fired[w]] = f
      BY <3>1, Zenon DEF Current
    <3> QED
      BY <3>1, <3>2, SMTT(60) DEF Visiting
  <2>2. idx[f] = fired[w] /\ idx[f] # Full
    BY <2>1, SMTT(60)
  <2>3. calls[f][w] = 0
    BY <2>1, <2>2, SMTT(60)
  <2>4. /\ UNCHANGED <<fired, idx>>
        /\ calls' = [calls EXCEPT ![f][w] = @ + 1] /\ wk' = [wk EXCEPT ![w] = "call"]
    BY <1>10, Zenon DEF VisitLive, owner
  <2>5. calls' \in [Fanouts -> [Workers -> Nat]]
    BY <2>4, SMTT(60)
  <2>6. \A g \in Fanouts, v \in Workers :
          calls'[g][v] <= 1 /\ (calls'[g][v] > 0 => calls[g][v] > 0 \/ (g = f /\ v = w))
    BY <2>3, <2>4, SMTT(60)
  <2> QED
    BY <2>2, <2>4, <2>5, <2>6, SMTT(60)
<1>11. ASSUME NEW f \in Fanouts, NEW w \in Workers, LaunchStopped(f, w)
       PROVE Counted'
  BY <1>11, SMTT(60) DEF LaunchStopped, table, ctx, owner, Advance, At
<1>12. ASSUME NEW f \in Fanouts, NEW w \in Workers, LaunchGo(f, w)
       PROVE Counted'
  BY <1>12, SMTT(60) DEF LaunchGo, table, ctx, owner, At
<1>13. ASSUME NEW f \in Fanouts, NEW w \in Workers, Spawn(f, w) PROVE Counted'
  BY <1>13, SMTT(60) DEF Spawn, table, ctx, owner, At
<1>14. ASSUME NEW f \in Fanouts, NEW w \in Workers, SpawnErr(f, w)
       PROVE Counted'
  BY <1>14, SMTT(60) DEF SpawnErr, table, ctx, owner, Advance, At
<1>15. ASSUME NEW f \in Fanouts, NEW w \in Workers, Install(f, w) PROVE Counted'
  BY <1>15, SMTT(60) DEF Install, table, ctx, owner, At
<1>16. ASSUME NEW f \in Fanouts, NEW w \in Workers, InstallKeep(f, w)
       PROVE Counted'
  BY <1>16, SMTT(60) DEF InstallKeep, table, ctx, owner, Advance, At
<1>17. ASSUME NEW f \in Fanouts, NEW w \in Workers, InstallAbort(f, w)
       PROVE Counted'
  BY <1>17, SMTT(60) DEF InstallAbort, table, ctx, owner, Advance, At, Abort
<1>18. ASSUME NEW f \in Fanouts, NEW w \in Workers, TaskEnds(f, w)
       PROVE Counted'
  BY <1>18, SMTT(60) DEF TaskEnds, table, ctx, owner
<1>19. ASSUME NEW f \in Fanouts, NEW w \in Workers, TaskDropped(f, w)
       PROVE Counted'
  BY <1>19, SMTT(60) DEF TaskDropped, table, ctx, owner
<1>20. CASE UNCHANGED vars
  BY <1>20, SMTT(60) DEF vars, table, ctx, owner
<1> QED
  BY ZenonT(60), <1>1, <1>2, <1>3, <1>4, <1>5, <1>6, <1>7, <1>8, <1>9, <1>10, <1>11,
     <1>12, <1>13, <1>14, <1>15, <1>16, <1>17, <1>18, <1>19, <1>20
     DEF Next, Register, Drop, FirePending, Launch

-----------------------------------------------------------------------------
\* The inductive invariant holds in every state.
THEOREM Invariance == Spec => []IInv
<1>1. Init => IInv
  BY Start, Zenon
<1>2. IInv /\ [Next]_vars => IInv'
  BY TypeStep, ClaimedStep, BusyStep, PassedStep, CountedStep, Zenon DEF IInv
<1> QED
  BY <1>1, <1>2, PTL DEF Spec

\* The variables keep their types.
THEOREM TypesHold == Spec => []TypeOK
<1>1. IInv => TypeOK
  BY Zenon DEF IInv
<1> QED
  BY <1>1, Invariance, PTL

\* No launcher is called twice on a worker.
THEOREM LaunchersAreCalledOnce == Spec => []CalledOnce
<1>1. IInv => CalledOnce
  BY Zenon DEF IInv, Counted
<1> QED
  BY <1>1, Invariance, PTL

\* No task escapes both the drop of its handle and its launcher.
THEOREM NoTaskIsLeftBehind == Spec => []NoneLeftBehind
<1>1. IInv => NoneLeftBehind
  BY Zenon DEF IInv, Passed, NoneLeftBehind
<1> QED
  BY <1>1, Invariance, PTL

\* No handle is stored where nobody will look for it.
THEOREM NoHandleIsForgotten == Spec => []NoHandleForgotten
<1>1. IInv => NoHandleForgotten
  <2> SUFFICES ASSUME IInv, NEW f \in Fanouts, ~bound[f], NEW w \in Workers
               PROVE  ~handles[f][w]
    BY Zenon DEF NoHandleForgotten
  <2>1. swept[f] = NumWorkers
    BY Zenon DEF IInv, Passed
  <2>2. swept[f] > w
    BY <2>1, FanoutAssumption, SMTT(60) DEF Workers
  <2> QED
    BY <2>2, Zenon DEF IInv, Passed
<1> QED
  BY <1>1, Invariance, PTL
=============================================================================
