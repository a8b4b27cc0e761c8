--------------------------- MODULE QuicEndpoint -----------------------------
(***************************************************************************)
(* The endpoint around the QUIC connections: the slots they live in, the   *)
(* scheduler of what they send, and the key updates of one of them.  The three*)
(* machines are independent.                                               *)
(***************************************************************************)
EXTENDS Integers, Sequences, FiniteSets, SequencesExt

(***************************************************************************)
(* One worker's QUIC endpoint (crates/proto/quic endpoint.rs, inbox.rs):   *)
(* the listener task routes each datagram by its connection id to the      *)
(* inbox of a connection task, or admits a new connection by taking a slot *)
(* of the slot table; a connection task runs until its connection ends and *)
(* then gives its slot back.  The worker runs one task at a time, so a     *)
(* step is what a task does between two awaits.                            *)
(*                                                                         *)
(* A local connection id is <<slot, generation>> (the nonce only makes it  *)
(* unguessable); a client's first connection id is a model value.  What a  *)
(* connection makes of a datagram is a nondeterministic outcome.           *)
(***************************************************************************)
CONSTANTS Ips,             \* source addresses
          Dcids,           \* ids clients choose for their first packets
          MaxCapacity,     \* SLOTS_PER_WORKER
          SegmentSize,     \* slots added at a time (64)
          NullSlot,        \* end of the free list; no slot has this index
          PerIpSlotLimit,  \* connections one unvalidated address may hold
          GenMod,          \* generations are u16
          InboxCap,        \* ConnInbox::DEFAULT_CAPACITY
          BatchLimit,      \* datagrams one wakeup may process
          MaxTasks,        \* bound: connections over a behaviour
          MayFail          \* whether getrandom and spawn may fail

Tasks == 1 .. MaxTasks
NoTask == 0

VARIABLES slots,  \* SlotTable::segments, flattened
          freeHead, perIp, initialDcids, live,
          conn,  \* per task: its ConnTaskArgs, its inbox (of the source
              \* addresses of the datagrams in it) and its connection
          nextTask

slotsVars == <<slots, freeHead, perIp, initialDcids, live, conn, nextTask>>

Slot0 == [gen |-> 0, inbox |-> NoTask, ip |-> "any", counted |-> FALSE,
          next |-> NullSlot]
Idle == [st |-> "none", idx |-> 0, gen |-> 0, dcid |-> {}, queue |-> <<>>, event |-> FALSE,
         valid |-> FALSE, promoted |-> FALSE, peer |-> {}]

SlotsInit ==
         /\ slots = <<>> /\ freeHead = NullSlot /\ live = 0
         /\ perIp = [i \in Ips |-> 0]
         /\ initialDcids = [d \in {} |-> <<0, 0>>]
         /\ conn = [t \in Tasks |-> Idle] /\ nextTask = 1

Running(t) == conn[t].st = "run"

-----------------------------------------------------------------------------
(* SlotTable.  Slot indices are 0-based in the code. *)

SlotAt(s, idx) == s[idx + 1]
Capacity(s) == Len(s)

\* The new segment is threaded through the free list in index order.
GrowSegment(s, head) ==
    LET base == Len(s)
        Fresh(i) == [Slot0 EXCEPT !.next = IF i = SegmentSize THEN head ELSE base + i]
    IN  [slots |-> s \o [i \in 1 .. SegmentSize |-> Fresh(i)], head |-> base]

CanGrow(s) == Len(s) + SegmentSize <= NullSlot

\* lookup: the generation must match and the inbox must still be held.
Lookup(cid) ==
    LET s == SlotAt(slots, cid[1])
    IN  IF cid[1] >= Capacity(slots) THEN NoTask
        ELSE IF s.gen # cid[2] \/ s.inbox = NoTask THEN NoTask
        ELSE IF Running(s.inbox) THEN s.inbox ELSE NoTask

\* allocate, as far as it may refuse.  Heap pressure is the environment's.
MayAllocate(ip, pressure) ==
    /\ ~pressure
    /\ live < MaxCapacity
    /\ perIp[ip] < PerIpSlotLimit
    /\ freeHead # NullSlot \/ CanGrow(slots)

Uncount(table, ip) == [table EXCEPT ![ip] = IF @ > 0 THEN @ - 1 ELSE 0]

\* mark_validated: the connection stops counting against its address.
MarkValidated(t) ==
    LET s == SlotAt(slots, conn[t].idx)
    IN  IF s.gen # conn[t].gen \/ ~s.counted THEN UNCHANGED <<slots, perIp>>
        ELSE /\ slots' = [slots EXCEPT ![conn[t].idx + 1].counted = FALSE]
             /\ perIp' = Uncount(perIp, s.ip)

\* The client's first connection id keeps naming the slot.
FreeSlotKeepsDcid(t) ==
    LET idx == conn[t].idx
        s == SlotAt(slots, idx)
    IN  IF s.gen # conn[t].gen
        THEN UNCHANGED <<slots, freeHead, perIp, initialDcids, live>>
        ELSE /\ slots' = [slots EXCEPT ![idx + 1] =
                             [@ EXCEPT !.counted = FALSE, !.inbox = NoTask, !.next = freeHead]]
             /\ perIp' = IF s.counted THEN Uncount(perIp, s.ip) ELSE perIp
             /\ freeHead' = idx /\ live' = live - 1 /\ UNCHANGED initialDcids

FreeSlot(t) ==
    LET idx == conn[t].idx
        s == SlotAt(slots, idx)
    IN  IF s.gen # conn[t].gen
        THEN UNCHANGED <<slots, freeHead, perIp, initialDcids, live>>
        ELSE /\ slots' = [slots EXCEPT ![idx + 1] =
                             [@ EXCEPT !.counted = FALSE, !.inbox = NoTask, !.next = freeHead]]
             /\ perIp' = IF s.counted THEN Uncount(perIp, s.ip) ELSE perIp
             /\ initialDcids' =
                    LET keep == {d \in DOMAIN initialDcids : initialDcids[d] # <<idx, s.gen>>}
                    IN  [d \in keep |-> initialDcids[d]]
             /\ freeHead' = idx
             /\ live' = live - 1

-----------------------------------------------------------------------------
(* ConnInbox. *)

Push(t, d) ==
    conn' = IF Len(conn[t].queue) >= InboxCap THEN conn
            ELSE [conn EXCEPT ![t].queue = Append(@, d.ip), ![t].event = TRUE]

\* pop and try_pop: the event is lowered with the last datagram.
Popped(c, n) ==
    LET rest == SubSeq(c.queue, n + 1, Len(c.queue))
    IN  [c EXCEPT !.queue = rest, !.event = IF rest = <<>> THEN FALSE ELSE @]

-----------------------------------------------------------------------------
(* listener_loop: one datagram.  `to' is a local id or a client's id.      *)

\* Whether an id is of the form this endpoint mints; a client's id may be,
\* and then finds no slot (parse_local_cid).
IsLocal(to) == to \notin Dcids

Routed(d) ==
    IF IsLocal(d.to) /\ Lookup(d.to) # NoTask THEN Lookup(d.to)
    ELSE IF d.to \in DOMAIN initialDcids THEN Lookup(initialDcids[d.to])
    ELSE NoTask

\* A stale entry of initial_dcids goes when a lookup finds it stale.
PrunedDcids(d) ==
    IF Routed(d) = NoTask /\ d.to \in DOMAIN initialDcids
    THEN [e \in DOMAIN initialDcids \ {d.to} |-> initialDcids[e]]
    ELSE initialDcids

Admit(d, pruned, failure) ==
    LET grown == IF freeHead = NullSlot THEN GrowSegment(slots, freeHead)
                 ELSE [slots |-> slots, head |-> freeHead]
        idx == grown.head
        old == SlotAt(grown.slots, idx)
        gen == (old.gen + 1) % GenMod
        t == nextTask
    IN  /\ slots' = [grown.slots EXCEPT ![idx + 1] =
                        [gen |-> gen, inbox |-> IF failure = "nonce" THEN NoTask ELSE t, ip |-> d.ip,
                         counted |-> TRUE, next |-> NullSlot]]
        /\ freeHead' = old.next
        /\ perIp' = [perIp EXCEPT ![d.ip] = @ + 1]
        /\ live' = live + 1
        /\ initialDcids' = [e \in DOMAIN pruned \cup {d.to} |->
                               IF e = d.to THEN <<idx, gen>> ELSE pruned[e]]
        \* without a nonce, a seed or a task nobody runs the connection
        /\ conn' = [conn EXCEPT ![t] =
                       IF failure = "nonce" THEN @
                       ELSE [Idle EXCEPT !.st = IF failure = "none" THEN "run" ELSE "lost",
                                         !.idx = idx, !.gen = gen, !.dcid = {d.to},
                                         !.queue = <<d.ip>>, !.event = TRUE]]
        /\ nextTask' = IF failure = "nonce" THEN nextTask ELSE nextTask + 1

Arrive(d, pressure, failure) ==
    \* choices that make no difference are made once
    /\ pressure \/ failure # "none" => Routed(d) = NoTask /\ d.initial /\ MayAllocate(d.ip, FALSE)
    /\ Routed(d) # NoTask => d.initial
    /\ failure # "none" => MayFail /\ MayAllocate(d.ip, pressure)
    /\ IF Routed(d) # NoTask
       THEN Push(Routed(d), d) /\ UNCHANGED <<slots, freeHead, perIp, initialDcids, live, nextTask>>
       ELSE IF d.initial /\ MayAllocate(d.ip, pressure)
       THEN /\ nextTask \in Tasks
            /\ Admit(d, PrunedDcids(d), failure)
       ELSE /\ initialDcids' = PrunedDcids(d)
            /\ UNCHANGED <<slots, freeHead, perIp, live, conn, nextTask>>

-----------------------------------------------------------------------------
(* conn_task. *)

\* A task ends: the connection is marked terminated, the slot released,
\* and the inbox goes with the task.
Ends(t) ==
    /\ conn' = [conn EXCEPT ![t] = [Idle EXCEPT !.st = "done", !.idx = conn[t].idx, !.gen = conn[t].gen]]
    /\ FreeSlot(t)

\* The path of an authenticated datagram becomes the peer's; before there
\* is one, any datagram's does (is_path_migration).
PeerAfter(peer, ip, auth) ==
    LET migrating == peer # {} /\ peer # {ip} IN IF migrating /\ ~auth THEN peer ELSE {ip}

\* A wakeup with `n' datagrams in the inbox: each is processed; the last
\* one may fail the connection.
Wakes(t, n, auth, validates, outcome) ==
    /\ Running(t) /\ conn[t].event
    /\ n = IF Len(conn[t].queue) < BatchLimit THEN Len(conn[t].queue) ELSE BatchLimit
    /\ validates => auth
    /\ auth => outcome = "ok"          \* a task that ends keeps nothing of the datagrams
    /\ LET c == conn[t]
           peer == FoldLeft(LAMBDA p, ip : PeerAfter(p, ip, auth), c.peer, SubSeq(c.queue, 1, n))
           after == [Popped(c, n) EXCEPT !.peer = peer, !.valid = @ \/ validates,
                                         !.promoted = @ \/ c.valid \/ validates]
       IN  IF outcome = "ends" THEN Ends(t)
           ELSE /\ conn' = [conn EXCEPT ![t] = after]
                /\ IF after.promoted /\ ~c.promoted THEN MarkValidated(t) ELSE UNCHANGED <<slots, perIp>>
                /\ UNCHANGED <<freeHead, initialDcids, live>>
    /\ UNCHANGED nextTask

\* The idle timeout, also when datagrams wait: the deadline is looked at
\* before the inbox.
IdleOut(t) == Running(t) /\ Ends(t) /\ UNCHANGED nextTask

-----------------------------------------------------------------------------
LocalIds == {<<conn[t].idx, conn[t].gen>> : t \in {u \in Tasks : conn[u].st # "none"}}
Datagrams == [to : Dcids \cup LocalIds, ip : Ips, initial : BOOLEAN]

SlotsNext ==
         \/ \E d \in Datagrams, pressure \in BOOLEAN, failure \in {"none", "nonce", "seed"} :
               Arrive(d, pressure, failure)
         \/ \E t \in Tasks :
               \/ \E n \in 1 .. BatchLimit, a, v \in BOOLEAN, o \in {"ok", "ends"} : Wakes(t, n, a, v, o)
               \/ IdleOut(t)

SlotsSpec == SlotsInit /\ [][SlotsNext]_slotsVars

-----------------------------------------------------------------------------
RECURSIVE FreeFrom(_, _)
FreeFrom(idx, k) ==
    IF idx = NullSlot \/ k = 0 THEN <<>> ELSE <<idx>> \o FreeFrom(SlotAt(slots, idx).next, k - 1)
FreeSeq == FreeFrom(freeHead, Len(slots) + 1)
Allocated == (0 .. Len(slots) - 1) \ ToSet(FreeSeq)

\* The table's three books agree: a slot is in the free list once or it is
\* allocated, `live' counts the allocated ones, and an address is charged
\* for exactly the connections it has not validated (inbox.rs:515-678).
SlotBooks ==
    /\ IsInjective(FreeSeq)
    /\ live = Cardinality(Allocated)
    /\ \A i \in Ips : perIp[i] = Cardinality({x \in Allocated : SlotAt(slots, x).counted /\ SlotAt(slots, x).ip = i})
    /\ \A x \in ToSet(FreeSeq) : ~SlotAt(slots, x).counted

\* No connection loses its slot while it runs: the slot stays allocated in
\* its generation with its inbox, so every datagram to its id finds it,
\* and no two running connections share one (inbox.rs:632-640).
SlotIsOurs ==
    \A t \in Tasks : Running(t) =>
        /\ conn[t].idx \in Allocated
        /\ Lookup(<<conn[t].idx, conn[t].gen>>) = t

\* A client's first id leads to a connection that still exists or to none:
\* entries go with their slot (inbox.rs:655-669), so a new connection in a
\* reused slot never gets another client's datagrams.
DcidsFollowSlots ==
    \A d \in DOMAIN initialDcids :
        LET e == initialDcids[d]
        IN  /\ e[1] \in Allocated /\ SlotAt(slots, e[1]).gen = e[2]
            /\ \A t \in Tasks : Running(t) /\ <<conn[t].idx, conn[t].gen>> = e => d \in conn[t].dcid

\* A connection task never sleeps over a datagram (inbox.rs:106-155).
InboxSignalled == \A t \in Tasks : Running(t) => (conn[t].event <=> conn[t].queue # <<>>)

\* A slot in use has a connection running in it, unless the connection
\* could not be started (getrandom failed): then listener_loop goes on
\* without giving the slot back (endpoint.rs:800-804, 830-833).
SlotHasTask ==
    \A x \in Allocated :
        \/ \E t \in Tasks : Running(t) /\ conn[t].idx = x
        \/ LET owner == SlotAt(slots, x).inbox IN owner = NoTask \/ conn[owner].st = "lost"

-----------------------------------------------------------------------------
(***************************************************************************)
(* The per-core QUIC egress scheduler (crates/proto/quic egress.rs) over   *)
(* deficit round robin (drr.rs): connections take a flow id, are activated *)
(* when they have something to send, and the event loop's drain visits the *)
(* active flows in turn, each for its quantum of bytes.                    *)
(*                                                                         *)
(* A connection is what the scheduler sees of it: `out', the lengths of    *)
(* the datagrams already built; `data', the lengths of those it could      *)
(* build; `open', whether pacing and the congestion window let it build.   *)
(* The drain of one core runs without yielding; a step of it here is one   *)
(* visit, during which nothing else happens.                               *)
(***************************************************************************)
CONSTANTS Conns, N,       \* flow ids 0 .. N - 1
          Quantum,        \* QUANTUM_BYTES
          U32Max,         \* where the deficit saturates
          MaxDrainIters,
          Sizes,          \* datagram lengths
          MaxQueue        \* bound: datagrams waiting per connection

TxFlows == 0 .. N - 1
NoConn == "none"

VARIABLES active, deficit, scheduled, ring,  \* DeficitRoundRobin; ring[1] is its head
          ship, free,  \* QuicEgress
          flow,  \* per connection: its FlowGuard's id, or -1
          out, data, open,
          drain  \* visits left in the running drain, or -1
egressVars == <<active, deficit, scheduled, ring, ship, free, flow, out, data, open, drain>>

EgressInit ==
          /\ active = [f \in TxFlows |-> FALSE] /\ deficit = [f \in TxFlows |-> 0]
          /\ scheduled = [f \in TxFlows |-> FALSE] /\ ring = <<>>
          /\ ship = [f \in TxFlows |-> NoConn] /\ free = [i \in 1 .. N |-> N - i]
          /\ flow = [c \in Conns |-> -1]
          /\ out = [c \in Conns |-> <<>>] /\ data = [c \in Conns |-> <<>>]
          /\ open = [c \in Conns |-> TRUE] /\ drain = -1

-----------------------------------------------------------------------------
(* DeficitRoundRobin. *)

Activate(f) ==
    /\ active' = [active EXCEPT ![f] = TRUE]
    /\ scheduled' = [scheduled EXCEPT ![f] = TRUE]
    /\ deficit' = IF scheduled[f] THEN deficit ELSE [deficit EXCEPT ![f] = 0]
    /\ ring' = IF scheduled[f] THEN ring ELSE Append(ring, f)

\* A deactivated flow leaves the ring when the scheduler next meets it.
Deactivate(f) ==
    /\ active' = [active EXCEPT ![f] = FALSE]
    /\ deficit' = [deficit EXCEPT ![f] = 0]

\* The flow that was served stays at the head.
NextFlowSticky ==
    LET lazy == SelectInSeq(ring, LAMBDA f : active[f])
    IN  IF lazy = 0 THEN [ring |-> <<>>, dropped |-> ToSet(ring), f |-> -1]
        ELSE [ring |-> SubSeq(ring, lazy, Len(ring)), dropped |-> ToSet(SubSeq(ring, 1, lazy - 1)),
              f |-> ring[lazy]]

\* next_flow: inactive flows at the head are dropped; the first active one
\* gets its quantum and goes to the tail.  The result is the ring, the
\* flows dropped and the flow to serve (or -1).
NextFlow ==
    LET lazy == SelectInSeq(ring, LAMBDA f : active[f])
        rest == SubSeq(ring, lazy + 1, Len(ring))
    IN  IF lazy = 0 THEN [ring |-> <<>>, dropped |-> ToSet(ring), f |-> -1]
        ELSE [ring |-> Append(rest, ring[lazy]), dropped |-> ToSet(SubSeq(ring, 1, lazy - 1)),
              f |-> ring[lazy]]

-----------------------------------------------------------------------------
(* Connections. *)

Register(c) ==
    /\ drain = -1 /\ flow[c] = -1 /\ free # <<>>
    /\ flow' = [flow EXCEPT ![c] = Last(free)]
    /\ free' = Front(free)
    /\ ship' = [ship EXCEPT ![Last(free)] = c]
    /\ UNCHANGED <<active, deficit, scheduled, ring, out, data, open, drain>>

\* flush_to_wire, after the connection queued something, may send again,
\* or neither (a handler that queued nothing).
Flush(c) ==
    IF out'[c] # <<>> \/ data'[c] # <<>> THEN Activate(flow[c])
    ELSE UNCHANGED <<active, deficit, scheduled, ring>>

Queue(c, n, built) ==
    /\ drain = -1 /\ flow[c] # -1 /\ Len(out[c]) + Len(data[c]) < MaxQueue
    /\ out' = [out EXCEPT ![c] = IF built THEN Append(@, n) ELSE @]
    /\ data' = [data EXCEPT ![c] = IF built THEN @ ELSE Append(@, n)]
    /\ Flush(c)
    /\ UNCHANGED <<ship, free, flow, open, drain>>

\* An acknowledgement or the pacing timer lets the connection send again;
\* the connection task ends with flush_to_wire.
Reopen(c) ==
    /\ drain = -1 /\ flow[c] # -1 /\ ~open[c]
    /\ open' = [open EXCEPT ![c] = TRUE]
    /\ UNCHANGED <<out, data>> /\ Flush(c)
    /\ UNCHANGED <<ship, free, flow, drain>>

\* The last QuicConn goes: FlowGuard::drop.
Drop(c) ==
    /\ drain = -1 /\ flow[c] # -1
    /\ ship' = [ship EXCEPT ![flow[c]] = NoConn]
    /\ Deactivate(flow[c])
    /\ free' = Append(free, flow[c])
    /\ flow' = [flow EXCEPT ![c] = -1]
    /\ out' = [out EXCEPT ![c] = <<>>] /\ data' = [data EXCEPT ![c] = <<>>]
    /\ open' = [open EXCEPT ![c] = TRUE]
    /\ UNCHANGED <<scheduled, ring, drain>>

-----------------------------------------------------------------------------
(* drain_current_core. *)

StartDrain == /\ drain = -1 /\ ring # <<>> /\ drain' = MaxDrainIters
              /\ UNCHANGED <<active, deficit, scheduled, ring, ship, free, flow, out, data, open>>

EndDrain == /\ drain # -1 /\ (ring = <<>> \/ drain = 0) /\ drain' = -1
            /\ UNCHANGED <<active, deficit, scheduled, ring, ship, free, flow, out, data, open>>

Least(a, b) == IF a < b THEN a ELSE b
Rest(s, k) == SubSeq(s, k + 1, Len(s))
Total(s) == FoldLeft(LAMBDA a, b : a + b, 0, s)
\* The datagrams of s sent while less than `grant' has been: the last one
\* may overshoot.
Sent(s, before, grant) ==
    CHOOSE k \in 0 .. Len(s) :
        /\ k = Len(s) \/ before + Total(SubSeq(s, 1, k)) >= grant
        /\ \A j \in 0 .. k - 1 : before + Total(SubSeq(s, 1, j)) < grant

\* Flow f sends: at least one built datagram goes, however small the grant;
\* then datagrams are built while the grant lasts and the gate is open, which
\* may close after any of them (`shut').  Unused or overdrawn deficit is not
\* carried below zero.
DrainFlow(f, c, grant, shut) ==
    LET first == {[k |-> k, sent |-> Total(SubSeq(out[c], 1, k))] : k \in {Sent(out[c], 0, grant)}}
        room(a) == IF open[c] THEN Sent(data[c], a.sent, grant) ELSE 0
        build(a, r) == [shut |-> shut < r, left |-> Rest(data[c], Least(shut, r)),
                        sent |-> a.sent + Total(SubSeq(data[c], 1, Least(shut, r)))]
    IN  \E a \in first : \E r \in {room(a)} : \E b \in {build(a, r)} :
          \E quiet \in {b.sent = 0 \/ (a.k = Len(out[c]) /\ b.left = <<>>)} :
             /\ out' = [out EXCEPT ![c] = Rest(@, a.k)]
             /\ data' = [data EXCEPT ![c] = b.left]
             /\ open' = [open EXCEPT ![c] = @ /\ ~b.shut]
             /\ active' = [active EXCEPT ![f] = ~quiet]
             /\ deficit' = [deficit EXCEPT ![f] = IF quiet \/ b.sent > grant THEN 0 ELSE grant - b.sent]

\* One visit of the ring.
Visit(shut) ==
    /\ drain > 0 /\ ring # <<>>
    /\ drain' = drain - 1
    /\ \E nf \in {NextFlow} :
          /\ ring' = nf.ring
          /\ scheduled' = [g \in TxFlows |-> scheduled[g] /\ g \notin nf.dropped]
          /\ \/ nf.f = -1 /\ UNCHANGED <<active, deficit, out, data, open>>
             \/ /\ nf.f # -1 /\ ship[nf.f] = NoConn
                /\ Deactivate(nf.f) /\ UNCHANGED <<out, data, open>>
             \/ /\ nf.f # -1 /\ ship[nf.f] # NoConn
                /\ DrainFlow(nf.f, ship[nf.f], Least(deficit[nf.f] + Quantum, U32Max), shut)
    /\ UNCHANGED <<ship, free, flow>>

EgressNext ==
          \/ \E c \in Conns : Register(c) \/ Reopen(c) \/ Drop(c)
          \/ \E c \in Conns, n \in Sizes, built \in BOOLEAN : Queue(c, n, built)
          \/ StartDrain \/ EndDrain
          \/ \E shut \in 0 .. MaxQueue : Visit(shut)

EgressSpec == EgressInit /\ [][EgressNext]_egressVars

-----------------------------------------------------------------------------
\* The ring holds exactly the scheduled flows, each once, so it never
\* overflows, and every active flow is in it: none is starved for want of
\* a place (drr.rs:89-135).
RingExact ==
    /\ IsInjective(ring)
    /\ ToSet(ring) = {f \in TxFlows : scheduled[f]}
    /\ \A f \in TxFlows : active[f] => scheduled[f]

\* A flow id has one owner or is free, and a flow reused by another
\* connection brings no credit with it (egress.rs:136-147, drr.rs:106-113).
FlowsExact ==
    /\ IsInjective(free)
    /\ \A f \in TxFlows : f \in ToSet(free) <=> ship[f] = NoConn
    /\ \A f \in TxFlows : ship[f] # NoConn => flow[ship[f]] = f
    /\ \A f \in TxFlows : ship[f] = NoConn => ~active[f] /\ deficit[f] = 0

\* A connection that could send now is active, or a drain is about to find
\* it: deactivating a flow that sent nothing loses nothing, because what
\* reopens its gate activates it again (egress.rs:272-281).
ReadyIsActive ==
    \A c \in Conns :
        flow[c] # -1 /\ (out[c] # <<>> \/ (open[c] /\ data[c] # <<>>)) => active[flow[c]]

\* Nobody starves: a waiting flow's place in the ring only improves, and
\* every visit that serves another flow improves it, whatever the others
\* queue meanwhile (egress.rs:1-16, drr.rs:83-99).
Place(r, f) == SelectInSeq(r, LAMBDA g : g = f)
NobodyStarves ==
    [][\A f \in TxFlows : active[f] /\ active'[f] =>
          IF drain > 0 /\ drain' = drain - 1
          THEN Place(ring', f) < Place(ring, f) \/ Place(ring', f) = Len(ring')
          ELSE Place(ring', f) = Place(ring, f)]_egressVars

-----------------------------------------------------------------------------
(***************************************************************************)
(* 1-RTT key updates (RFC 9001 section 6) as a waitless endpoint answers   *)
(* them: crates/proto/quic conn/rx.rs process_short_header_packet,         *)
(* conn/keys.rs and the in-place AEAD of crates/crypto/aes-gcm.  The peer  *)
(* is external and follows the RFC: it updates its keys once it has seen   *)
(* the current generation acknowledged, and finds the key of what it       *)
(* receives from the phase bit.  Key generations are numbers; the phase    *)
(* bit of a generation is its parity.                                      *)
(*                                                                         *)
(* Aes128GcmFast::open decrypts the buffer as it authenticates it, so a    *)
(* failed attempt leaves a buffer nothing can open any more.               *)
(***************************************************************************)
CONSTANTS MaxGen, MaxSent   \* bounds: key generations, packets the peer sends

VARIABLES recv,       \* generation of application_recv; recv_key_phase is its parity
          prev,       \* generation of application_recv_prev, or -1
          send,       \* generation of application_send; send_key_phase is its parity
          peer,       \* the external peer's generation
          confirmed,  \* the peer has seen its generation used towards it
          sent, net,  \* packets the peer sent, and those still under way
          opened,     \* what we decrypted
          ours        \* what we sent: [gen, phase]
keysVars == <<recv, prev, send, peer, confirmed, sent, net, opened, ours>>

Phase(gen) == gen % 2

KeysInit ==
        /\ recv = 0 /\ prev = -1 /\ send = 0 /\ peer = 0 /\ confirmed = TRUE
        /\ sent = 0 /\ net = {} /\ opened = {} /\ ours = {}

PeerSends ==
    /\ sent < MaxSent
    /\ sent' = sent + 1
    /\ net' = net \cup {[id |-> sent, gen |-> peer]}
    /\ UNCHANGED <<recv, prev, send, peer, confirmed, opened, ours>>

PeerUpdates ==
    /\ confirmed /\ peer < MaxGen
    /\ peer' = peer + 1 /\ confirmed' = FALSE
    /\ UNCHANGED <<recv, prev, send, sent, net, opened, ours>>

-----------------------------------------------------------------------------
\* aead_open: whether the buffer opens under a generation's key, and the
\* buffer it leaves.
AeadOpen(buf, gen, key) ==
    [ok |-> buf = "sealed" /\ gen = key,
     buf |-> IF buf = "sealed" /\ gen = key THEN "open" ELSE "garbled"]

\* Which keys are tried, in order, on the same buffer.
Attempts(p) ==
    IF Phase(p.gen) = Phase(recv) THEN <<recv>>
    ELSE <<recv + 1>> \o (IF prev = -1 THEN <<>> ELSE <<prev>>)

\* The number of the attempt that opened the packet, or 0.
OpenedBy(p) ==
    LET a == Attempts(p)
        first == AeadOpen("sealed", p.gen, a[1])
    IN  IF first.ok THEN 1
        ELSE IF Len(a) = 2 /\ AeadOpen(first.buf, p.gen, a[2]).ok THEN 2 ELSE 0

\* rotate_recv_keys, and with it rotate_send_keys.
Rotate ==
    /\ prev' = recv /\ recv' = recv + 1 /\ send' = send + 1

Receive(p) ==
    /\ p \in net
    /\ net' = net \ {p}
    /\ LET n == OpenedBy(p)
       IN  /\ opened' = IF n = 0 THEN opened ELSE opened \cup {p.id}
           /\ IF n = 1 /\ Phase(p.gen) # Phase(recv) THEN Rotate ELSE UNCHANGED <<recv, prev, send>>
    /\ UNCHANGED <<peer, confirmed, sent, ours>>

\* We send: ordinary packets carry the phase of their key
\* (encode_one_rtt_packet_with_keys); the peer learns that we follow.
Send ==
    /\ ours' = ours \cup {[gen |-> send, phase |-> Phase(send)]}
    /\ confirmed' = (confirmed \/ send = peer)
    /\ UNCHANGED <<recv, prev, send, peer, sent, net, opened>>

\* A PTO probe and a CONNECTION_CLOSE leave the phase bit clear
\* (encode_ping_probe, encode_close_packet).
SendProbe ==
    /\ ours' = ours \cup {[gen |-> send, phase |-> 0]}
    /\ UNCHANGED <<recv, prev, send, peer, confirmed, sent, net, opened>>

KeysNext == PeerSends \/ PeerUpdates \/ Send \/ SendProbe \/ \E p \in net : Receive(p)
KeysSpec == KeysInit /\ [][KeysNext]_keysVars

-----------------------------------------------------------------------------
\* The two ends are never more than the update under way apart, and both
\* our directions move together (keys.rs:185-193).
Lockstep == recv = send /\ recv \in {peer - 1, peer} /\ (prev = -1 \/ prev = recv - 1)

\* A packet of the generation in use or of the next one is never lost to a
\* key: the update takes effect with the first packet that shows it.
CurrentOpens == \A p \in net : p.gen \in {recv, recv + 1} => OpenedBy(p) # 0

\* rx.rs:511-514: a packet sent before the last update and delivered after
\* it "might be a reordered straggler": it is opened with the previous keys.
StragglerOpens == \A p \in net : p.gen = prev => OpenedBy(p) # 0

\* tx.rs:1206-1208: the phase bit of what we send is that of its key.
PhaseIsKey == \A o \in ours : o.phase = Phase(o.gen)
=============================================================================
