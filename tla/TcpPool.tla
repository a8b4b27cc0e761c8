------------------------------- MODULE TcpPool -------------------------------
(***************************************************************************)
(* The connection pool of one core (crates/net/tcp pool.rs, listener.rs,   *)
(* connect.rs and the walk of on_tcp_tick): slots with generations, the    *)
(* free list, the open-addressed index from flows to slots, the intrusive  *)
(* list of slots with an armed timer, and the accept ring.  A connection   *)
(* is reduced to its state, its flow and whether a deadline is armed; what *)
(* its segments and timers do is TcpConn's subject.                        *)
(*                                                                         *)
(* Everything runs on the owning core, so an operation is one action: an   *)
(* operator from the pool record to its successor.                         *)
(***************************************************************************)
EXTENDS Integers, FiniteSets, Sequences, SequencesExt

CONSTANTS
    Flows,                   \* remote address and port, for the one listening port
    KeyOf,                   \* flow -> tcp_hash_key
    BucketOf,                \* key -> tcp_hash_bucket
    HashSize,                \* TCP_HASH_SIZE
    SegmentSize, MaxSegments,
    AcceptRingCapacity,
    MaxHandles,              \* bound: streams the application holds at once
    MaxGen,                  \* bound: generations told apart at once
    GivesUp                  \* may a retransmission or a probe run out of retries?

VARIABLES
    pool,    \* the pool record of the core
    handles  \* <<slot, generation>> of the streams the application holds

vars == <<pool, handles>>

Null == -1
NoKey == "none"
NoFlow == "-"

\* TcpConnection::new
NewSlot(gen) ==
    [st |-> "Closed", flow |-> NoFlow, gen |-> gen, nextFree |-> Null, accepted |-> FALSE,
     armed |-> FALSE, inList |-> FALSE, tickNext |-> Null]

Capacity(p) == Len(p.slots)
Indices(p) == 0 .. Capacity(p) - 1
At(p, i) == p.slots[i + 1]
Put(p, i, c) == [p EXCEPT !.slots[i + 1] = c]

Live(c) == c.st \notin {"Closed", "Listen"}

-----------------------------------------------------------------------------
(* Free list and segments. *)

FreeSlot(p, i) == [Put(p, i, [At(p, i) EXCEPT !.nextFree = p.freeHead]) EXCEPT !.freeHead = i]

\* A new segment goes onto the free list so that its lowest slot comes first.
GrowSegment(p) ==
    LET base == Capacity(p)
        grown == [p EXCEPT !.slots = @ \o [k \in 1 .. SegmentSize |-> NewSlot(0)]]
    IN  FoldLeft(FreeSlot, grown, [k \in 1 .. SegmentSize |-> base + SegmentSize - k])

CanGrow(p) == Capacity(p) < SegmentSize * MaxSegments

\* TcpPool::alloc on a pool with a free slot.
Pop(p) == [p EXCEPT !.freeHead = At(p, p.freeHead).nextFree]

-----------------------------------------------------------------------------
(* The flow index: linear probing, removal by re-insertion of the cluster. *)

Probe(key, n) == (BucketOf[key] + n) % HashSize

\* The distance at which the probe for key stops: its own entry or a hole.
StopsAt(p, key) ==
    CHOOSE n \in 0 .. HashSize :
        /\ n < HashSize => p.hash[Probe(key, n)].key \in {key, NoKey}
        /\ \A m \in 0 .. n - 1 : p.hash[Probe(key, m)].key \notin {key, NoKey}

HashFind(p, key) ==
    LET at(n) == IF n = HashSize \/ p.hash[Probe(key, n)].key = NoKey THEN Null
                 ELSE p.hash[Probe(key, n)].slot
    IN  at(StopsAt(p, key))

HashInsert(p, key, slot) ==
    LET at(n) == IF n = HashSize THEN p
                 ELSE [p EXCEPT !.hash[Probe(key, n)] = [key |-> key, slot |-> slot]]
    IN  at(StopsAt(p, key))

RECURSIVE Reinsert(_, _)
Reinsert(p, i) ==
    LET e == p.hash[i]
        without == [p EXCEPT !.hash[i] = [key |-> NoKey, slot |-> 0]]
    IN  IF e.key = NoKey THEN p
        ELSE Reinsert(HashInsert(without, e.key, e.slot), (i + 1) % HashSize)

HashRemove(p, key) ==
    LET from(i) == Reinsert([p EXCEPT !.hash[i] = [key |-> NoKey, slot |-> 0]], (i + 1) % HashSize)
    IN  IF HashFind(p, key) = Null THEN p ELSE from(Probe(key, StopsAt(p, key)))

\* tcp_linear_find, and the scan of the RST handler: the first live slot.
LinearFind(p, f) ==
    LET found == {i \in Indices(p) : Live(At(p, i)) /\ At(p, i).flow = f}
    IN  IF found = {} THEN Null ELSE CHOOSE i \in found : \A j \in found : i <= j

\* The slot a segment of flow f is dispatched to.
Dispatch(p, f) ==
    LET orScan(i) == IF i # Null THEN i ELSE LinearFind(p, f) IN orScan(HashFind(p, KeyOf[f]))

-----------------------------------------------------------------------------
(* The armed-timer list. *)

\* register_armed_slot
ArmSlot(p, i) ==
    IF At(p, i).inList THEN Put(p, i, [At(p, i) EXCEPT !.armed = TRUE])
    ELSE [Put(p, i, [At(p, i) EXCEPT !.armed = TRUE, !.inList = TRUE, !.tickNext = p.tickHead])
          EXCEPT !.tickHead = i]

RECURSIVE ListFrom(_, _, _)
ListFrom(p, i, seen) ==
    IF i = Null \/ i \in seen THEN <<>>
    ELSE <<i>> \o ListFrom(p, At(p, i).tickNext, seen \cup {i})
TickList(p) == ListFrom(p, p.tickHead, {})

\* The splice in free_connection: a no-op for a slot the list does not reach.
Splice(p, i) ==
    LET before == {j \in Range(TickList(p)) : At(p, j).tickNext = i}
    IN  CASE p.tickHead = i -> [p EXCEPT !.tickHead = At(p, i).tickNext]
          [] p.tickHead # i /\ before # {} ->
               LET j == CHOOSE k \in before : TRUE
               IN  Put(p, j, [At(p, j) EXCEPT !.tickNext = At(p, i).tickNext])
          [] OTHER -> p

\* The 16-bit generation moves on; a stream would have to be held over 2^16
\* uses of its slot to meet its own generation again.
NextGen(i, gen) ==
    LET other == {g \in 0 .. MaxGen : g # gen /\ <<i, g>> \notin handles}
    IN  CHOOSE g \in other : \A h \in other : g <= h

\* free_connection
FreeConnection(p, i) ==
    LET c == At(p, i)
        unindexed == IF Live(c) THEN HashRemove(p, KeyOf[c.flow]) ELSE p
        unlinked == IF c.inList THEN Splice(unindexed, i) ELSE unindexed
        reset == Put(unlinked, i, NewSlot(NextGen(i, c.gen)))
    IN  IF c.st = "Closed" /\ c.nextFree # Null THEN p ELSE FreeSlot(reset, i)

\* alloc_connection: a free slot, a new segment, or the first connection in
\* the earliest of the reclaimable states.  The result is the pool and the slot.
Reclaimable == <<"FinWait1", "FinWait2", "LastAck", "TimeWait", "CloseWait">>
Victims(p) ==
    LET of(st) == {i \in Indices(p) : At(p, i).st = st}
        k == CHOOSE n \in 1 .. Len(Reclaimable) + 1 :
               /\ n <= Len(Reclaimable) => of(Reclaimable[n]) # {}
               /\ \A m \in 1 .. n - 1 : of(Reclaimable[m]) = {}
    IN  IF k > Len(Reclaimable) THEN {} ELSE of(Reclaimable[k])

AllocConnection(p) ==
    LET take(q) == [pool |-> Put(Pop(q), q.freeHead, NewSlot(At(q, q.freeHead).gen)),
                    got |-> q.freeHead]
    IN  CASE p.freeHead # Null -> take(p)
          [] p.freeHead = Null /\ CanGrow(p) -> take(GrowSegment(p))
          [] p.freeHead = Null /\ ~CanGrow(p) /\ Victims(p) # {} ->
               LET i == CHOOSE k \in Victims(p) : \A j \in Victims(p) : k <= j
               IN  take(FreeConnection(p, i))
          [] OTHER -> [pool |-> p, got |-> Null]

-----------------------------------------------------------------------------
(* The operations. *)

Empty ==
    [slots |-> <<>>, freeHead |-> Null, tickHead |-> Null, ring |-> <<>>,
     hash |-> [i \in 0 .. HashSize - 1 |-> [key |-> NoKey, slot |-> 0]]]

Init == pool = Empty /\ handles = {}

\* listen_on_core, for the one port.
Listening == \E i \in Indices(pool) : At(pool, i).st = "Listen"
Listen ==
    /\ ~Listening
    /\ \E a \in {AllocConnection(pool)} :
         /\ a.got # Null
         /\ pool' = Put(a.pool, a.got, [At(a.pool, a.got) EXCEPT !.st = "Listen"])
    /\ UNCHANGED handles

\* The passive open of tcp_receive_inner; a hash hit counts only if the slot
\* really is that flow's.
SynIn(f) ==
    LET hit(s) == s # Null /\ At(pool, s).flow = f
        cleared(s) == IF hit(s) /\ Live(At(pool, s)) THEN FreeConnection(pool, s) ELSE pool
        open(c) == [c EXCEPT !.st = "SynReceived", !.flow = f]
    IN  /\ Listening
        /\ \E s \in {HashFind(pool, KeyOf[f])} :
             /\ ~(hit(s) /\ At(pool, s).st \in {"Established", "SynSent"})
             /\ \E a \in {AllocConnection(cleared(s))} :
                  pool' = IF a.got = Null THEN a.pool
                          ELSE HashInsert(Put(a.pool, a.got, open(At(a.pool, a.got))), KeyOf[f], a.got)
        /\ UNCHANGED handles

\* accept_ring_push drops the entry when the ring is full.
RingPush(p, i) == IF Len(p.ring) >= AcceptRingCapacity THEN p ELSE [p EXCEPT !.ring = Append(@, i)]

\* A segment of flow f: the state machine of the slot it is dispatched to
\* moves (TcpConn), arming or disarming a deadline, or ends the connection.
Moves ==
    {<<"SynReceived", "Established">>, <<"SynSent", "Established">>, <<"Established", "CloseWait">>,
     <<"FinWait1", "FinWait2">>, <<"FinWait1", "TimeWait">>, <<"FinWait2", "TimeWait">>,
     <<"LastAck", "Closed">>}

SegmentIn(f, to) ==
    /\ \E i \in {Dispatch(pool, f)} :
          /\ i # Null /\ Live(At(pool, i))
          /\ <<At(pool, i).st, to>> \in Moves
          /\ LET moved == Put(pool, i, [At(pool, i) EXCEPT !.st = to, !.armed = FALSE])
             IN  pool' = CASE to = "Closed" -> FreeConnection(pool, i)
                           [] to = "TimeWait" -> ArmSlot(moved, i)
                           [] to = "Established" /\ At(pool, i).st = "SynReceived" -> RingPush(moved, i)
                           [] OTHER -> moved
    /\ UNCHANGED handles

\* An acknowledgement that empties or restarts the retransmission timer, and
\* a send that starts it.
Rearm(i, on) ==
    /\ Live(At(pool, i)) /\ At(pool, i).st \in {"Established", "FinWait1"}
    /\ ~on => At(pool, i).st = "Established"
    /\ At(pool, i).armed # on
    /\ pool' = IF on THEN ArmSlot(pool, i) ELSE Put(pool, i, [At(pool, i) EXCEPT !.armed = FALSE])
    /\ UNCHANGED handles

\* The RST handler scans the pool.
RstIn(f) ==
    /\ \E i \in {LinearFind(pool, f)} :
        /\ i # Null
        /\ pool' = IF At(pool, i).st = "SynSent"
                   THEN Put(HashRemove(pool, KeyOf[f]), i,
                            [At(pool, i) EXCEPT !.st = "Closed", !.armed = FALSE])
                   ELSE FreeConnection(pool, i)
    /\ UNCHANGED handles

\* tuple_in_use and connect_on_core: the port picked makes a flow not in use.
Connect(f) ==
    LET open(c) == [c EXCEPT !.st = "SynSent", !.flow = f, !.accepted = TRUE]
        inUse(s) == s # Null /\ At(pool, s).st # "Closed" /\ At(pool, s).flow = f
    IN  /\ Cardinality(handles) < MaxHandles
        /\ ~inUse(HashFind(pool, KeyOf[f]))
        /\ \E a \in {AllocConnection(pool)} :
             /\ a.got # Null
             /\ pool' = ArmSlot(HashInsert(Put(a.pool, a.got, open(At(a.pool, a.got))),
                                           KeyOf[f], a.got), a.got)
             /\ handles' = handles \cup {<<a.got, At(a.pool, a.got).gen>>}

\* accept_on_port_core: ring entries that are still good, else a scan.
Acceptable(i) == At(pool, i).st = "Established" /\ ~At(pool, i).accepted
Accept ==
    LET good == {n \in DOMAIN pool.ring : Acceptable(pool.ring[n])}
        n == CHOOSE k \in good : \A j \in good : k <= j
        scan == {i \in Indices(pool) : Acceptable(i)}
        i == IF good # {} THEN pool.ring[n] ELSE CHOOSE k \in scan : \A j \in scan : k <= j
        left == IF good # {} THEN SubSeq(pool.ring, n + 1, Len(pool.ring)) ELSE <<>>
    IN  /\ scan # {} /\ Cardinality(handles) < MaxHandles
        /\ pool' = [Put(pool, i, [At(pool, i) EXCEPT !.accepted = TRUE]) EXCEPT !.ring = left]
        /\ handles' = handles \cup {<<i, At(pool, i).gen>>}

\* close through a handle: nothing for one of an earlier generation.
Close(h) ==
    LET i == h[1]
        c == At(pool, i)
        fin(st) == ArmSlot(Put(pool, i, [c EXCEPT !.st = st]), i)
    IN  /\ handles' = handles \ {h}
        /\ pool' = CASE c.gen # h[2] -> pool
                     [] c.gen = h[2] /\ c.st = "Established" -> fin("FinWait1")
                     [] c.gen = h[2] /\ c.st = "CloseWait" -> fin("LastAck")
                     [] OTHER -> FreeConnection(pool, i)

\* on_tcp_tick: the list is taken, walked and rebuilt.  `out' says for each
\* slot what its handlers do: "giveup" (free_connection and continue), "free"
\* (TIME-WAIT over, FIN retries spent), "fail" (fail_connect), "clear" or
\* "keep".  After a give-up the loop comes back to the same slot, now reset.
RECURSIVE Walk(_, _, _, _)
Walk(p, walker, newHead, out) ==
    LET i == walker
        c == At(p, i)
        next == c.tickNext
        handled == CASE out[i] = "free" /\ c.st # "Closed" -> FreeConnection(p, i)
                     [] out[i] = "fail" /\ c.st # "Closed" ->
                          Put(HashRemove(p, KeyOf[c.flow]), i,
                              [c EXCEPT !.st = "Closed", !.armed = FALSE])
                     [] out[i] = "clear" -> Put(p, i, [c EXCEPT !.armed = FALSE])
                     [] OTHER -> p
        relist(q) ==
            IF At(q, i).armed
            THEN Walk(Put(q, i, [At(q, i) EXCEPT !.tickNext = newHead]), next, walker, out)
            ELSE Walk(Put(q, i, [At(q, i) EXCEPT !.inList = FALSE, !.tickNext = Null]), next,
                      newHead, out)
    IN  IF walker = Null THEN [p EXCEPT !.tickHead = newHead]
        ELSE IF out[i] = "giveup" /\ c.st # "Closed"
        THEN Walk(FreeConnection(p, i), walker, newHead, out)
        ELSE relist(handled)

\* What the handlers do with a slot whose deadline has passed.
WhenDue(c) ==
    CASE c.st \in {"FinWait1", "LastAck", "TimeWait"} -> "free"
      [] c.st = "SynSent" -> "fail"
      [] c.st = "FinWait2" -> "clear"
      [] GivesUp /\ c.st = "Established" -> "giveup"
      [] OTHER -> "keep"

Tick ==
    /\ pool.tickHead # Null
    /\ \E due \in SUBSET {i \in Indices(pool) : At(pool, i).armed /\ WhenDue(At(pool, i)) # "keep"} :
         pool' = Walk([pool EXCEPT !.tickHead = Null], pool.tickHead, Null,
                      [i \in Indices(pool) |-> IF i \in due THEN WhenDue(At(pool, i)) ELSE "keep"])
    /\ UNCHANGED handles

Next ==
    \/ Listen \/ Accept \/ Tick
    \/ \E f \in Flows : SynIn(f) \/ RstIn(f) \/ Connect(f)
    \/ \E f \in Flows, to \in {m[2] : m \in Moves} : SegmentIn(f, to)
    \/ \E i \in Indices(pool), on \in BOOLEAN : Rearm(i, on)
    \/ \E h \in handles : Close(h)

Spec == Init /\ [][Next]_vars

-----------------------------------------------------------------------------
(* Properties *)

\* The free list: the slots reached from its head.
RECURSIVE FreeFrom(_, _)
FreeFrom(i, n) == IF i = Null \/ n = 0 THEN <<>> ELSE <<i>> \o FreeFrom(At(pool, i).nextFree, n - 1)
FreeList == FreeFrom(pool.freeHead, Capacity(pool) + 1)

\* Every slot is on the free list exactly once or in use, never both: no
\* sequence of opens, failures, closes, reclaims and ticks frees one twice.
\* A slot that is neither belongs to a failed connect whose handle is held.
FreeListExact ==
    /\ Cardinality(Range(FreeList)) = Len(FreeList)
    /\ \A i \in Indices(pool) :
         /\ i \in Range(FreeList) => At(pool, i).st = "Closed"
         /\ At(pool, i).st = "Closed" /\ i \notin Range(FreeList) =>
              <<i, At(pool, i).gen>> \in handles

\* A live connection is the only one of its flow, and a segment of that flow
\* is dispatched to it, whatever was inserted and removed around it.
FlowFindsItsSlot ==
    \A i \in Indices(pool) :
        Live(At(pool, i)) =>
            /\ Dispatch(pool, At(pool, i).flow) = i
            /\ LinearFind(pool, At(pool, i).flow) = i

\* Between ticks every slot with an armed deadline is on the list that the
\* next tick walks, and the list holds nothing but slots marked as on it.
ArmedIsListed ==
    \A i \in Indices(pool) :
        /\ At(pool, i).armed => i \in Range(TickList(pool))
        /\ At(pool, i).inList <=> i \in Range(TickList(pool))

\* Of two streams the application holds, at most one acts on a slot, and an
\* accepted or connected slot that is live is held by at most that one.
OneOwner ==
    \A i \in Indices(pool) :
        /\ i \in Range(FreeList) => <<i, At(pool, i).gen>> \notin handles
        /\ Live(At(pool, i)) /\ ~At(pool, i).accepted => <<i, At(pool, i).gen>> \notin handles

=============================================================================
