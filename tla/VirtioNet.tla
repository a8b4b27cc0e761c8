----------------------------- MODULE VirtioNet ------------------------------
(***************************************************************************)
(* The virtio-net driver: its virtqueues, the receive half and the transmit*)
(* half.  The halves share no state; each has its own Init and Next, and a *)
(* variable that both name is that half's own.                             *)
(***************************************************************************)
EXTENDS Integers, Sequences, FiniteSets, SequencesExt

(***************************************************************************)
(* The split virtqueue of src/crates/drivers/bus/src/virtio.rs as a record *)
(* and the operations on it.  A driver module holds such records in its    *)
(* variables; one operation of this module is one call of the code, and a  *)
(* module splits a call where another processor can see the middle of it.  *)
(*                                                                         *)
(* The descriptor table is three functions on Ids: next (the free list and *)
(* the chain link), more (the NEXT flag) and addr (the buffer).  IdxMod    *)
(* stands for 2^16, the width of the ring indices; it is a multiple of     *)
(* QSize because the code masks an index with queue_size - 1.              *)
(***************************************************************************)
CONSTANTS QSize,   \* queue_size, a power of two
          IdxMod   \* the modulus of the ring indices (65536 in the code)

Ids == 0 .. QSize - 1

\* Virtqueue::ZERO after alloc_rings: every descriptor is on the free list and
\* interrupts are off.
alloc_rings ==
  [next |-> [i \in Ids |-> i + 1], more |-> [i \in Ids |-> FALSE],
   addr |-> [i \in Ids |-> 0], free_head |-> 0, num_free |-> QSize,
   last_used |-> 0, avail |-> [i \in Ids |-> 0], avail_idx |-> 0,
   used |-> [i \in Ids |-> [id |-> 0, len |-> 0]], used_idx |-> 0,
   no_interrupt |-> TRUE, event_idx |-> FALSE, used_event |-> 0,
   no_notify |-> FALSE, pending_kick |-> FALSE, kick_dirty |-> FALSE]

Succ(i) == (i + 1) % IdxMod

\* The n-th descriptor from the head of the free list.
RECURSIVE FreeAt(_, _)
FreeAt(q, n) == IF n = 0 THEN q.free_head ELSE q.next[FreeAt(q, n - 1)]

\* add_chain and add_buf: take Len(bufs) descriptors off the free list, link
\* them, and publish the head.  No change (and -1 in the code) without room.
add_chain(q, bufs) ==
  LET total == Len(bufs)
      at(k) == FreeAt(q, k - 1)                    \* descriptor of bufs[k]
      pos(i) == CHOOSE k \in 1 .. total : at(k) = i
      mine == {at(k) : k \in 1 .. total}
  IN  IF total = 0 \/ q.num_free < total THEN [ok |-> FALSE, q |-> q]
      ELSE [ok |-> TRUE,
            q |-> [q EXCEPT
              !.addr = [i \in Ids |-> IF i \in mine THEN bufs[pos(i)] ELSE q.addr[i]],
              !.more = [i \in Ids |-> IF i \in mine THEN pos(i) < total ELSE q.more[i]],
              !.free_head = FreeAt(q, total), !.num_free = @ - total,
              !.avail = [@ EXCEPT ![q.avail_idx % QSize] = q.free_head],
              !.avail_idx = Succ(@)]]

\* kick: mark the queue dirty; ring the bell unless kicks are deferred.
\* kick_now: the bell rings unless the device asked not to be notified.
kick_now(q) == ~q.no_notify

kick(q) == [q |-> [q EXCEPT !.kick_dirty = TRUE],
            bell |-> ~q.pending_kick /\ kick_now(q)]

flush_kick(q) ==
  IF q.pending_kick
  THEN [q |-> [q EXCEPT !.kick_dirty = FALSE], bell |-> kick_now(q)]
  ELSE [q |-> q, bell |-> FALSE]

flush_kick_if_dirty(q) ==
  IF q.pending_kick /\ q.kick_dirty
  THEN [q |-> [q EXCEPT !.kick_dirty = FALSE], bell |-> kick_now(q)]
  ELSE [q |-> q, bell |-> FALSE]

set_deferred_kick(q, defer) == [q EXCEPT !.pending_kick = defer]

has_used(q) == q.last_used # q.used_idx

\* The descriptors of the chain headed by id, in order.
RECURSIVE Chain(_, _)
Chain(q, id) == IF q.more[id] THEN <<id>> \o Chain(q, q.next[id]) ELSE <<id>>

\* used: consume one used-ring entry and put its chain back at the head of the
\* free list.  The caller reads the buffer address from the freed descriptor.
used(q) ==
  LET e == q.used[q.last_used % QSize]
      c == Chain(q, e.id)
  IN  IF ~has_used(q) THEN [some |-> FALSE, q |-> q]
      ELSE [some |-> TRUE, len |-> e.len, buf |-> q.addr[e.id],
            q |-> [q EXCEPT !.last_used = Succ(@), !.num_free = @ + Len(c),
                            !.next = [@ EXCEPT ![c[Len(c)]] = q.free_head],
                            !.free_head = e.id]]

enable_interrupts(q) ==
  [q EXCEPT !.no_interrupt = FALSE,
            !.used_event = IF q.event_idx THEN q.used_idx ELSE @]

disable_interrupts(q) ==
  [q EXCEPT !.no_interrupt = TRUE,
            !.used_event = IF q.event_idx THEN (q.used_idx - 1) % IdxMod ELSE @]

(***************************************************************************)
(* The device's side of the rings (external).                              *)
(***************************************************************************)

\* Publish the chain at avail position `seen` as used, with `len` bytes written.
device_put(q, seen, len) ==
  [q EXCEPT !.used = [@ EXCEPT ![q.used_idx % QSize] = [id |-> q.avail[seen % QSize], len |-> len]],
            !.used_idx = Succ(@)]

\* Whether the device raises the interrupt after moving the used index from
\* `old`: the vring_need_event formula quoted in disable_interrupts, or the flag.
device_signals(q, old) ==
  IF q.event_idx THEN (q.used_idx - q.used_event - 1) % IdxMod < (q.used_idx - old) % IdxMod
  ELSE ~q.no_interrupt

\* The chains the device has not taken yet, and those it has not returned.
Posted(q, seen) == (q.avail_idx - seen) % IdxMod

-----------------------------------------------------------------------------
(***************************************************************************)
(* The receive half of one virtio-net queue pair                           *)
(* (src/crates/drivers/virtio-net/src/rx.rs, irq.rs): the core that polls  *)
(* the used ring and sleeps between interrupts, the cores on which         *)
(* delivered buffers are dropped, and the device.                          *)
(*                                                                         *)
(* Buffers are posted, filled, delivered as owned chains, and re-posted by *)
(* their drop callback on whatever core the chain dies.  The critical      *)
(* sections under rx_lock are single steps; the steps between them are     *)
(* interleaved.  StoreBuffer gives the polling core an x86 store buffer    *)
(* for what enable_interrupts writes: dsb_st is only a compiler fence      *)
(* there, so the store may become visible after the load that follows it.  *)
(***************************************************************************)
CONSTANTS Bufs,         \* the RX buffers posted at init (RX_BUFFERS)
          MaxFrames,    \* frames the network offers
          Runts,        \* frame numbers that arrive shorter than the header
          EventIdx,     \* VIRTIO_RING_F_EVENT_IDX was negotiated
          IrqMasks,     \* the interrupt handler disables interrupts (aarch64)
          StoreBuffer,  \* stores of enable_interrupts are buffered (x86)
          Bounded       \* the sleep has a timer: idle_bounded (core 0), not
                        \* idle_unbounded (the other cores)

VARIABLES q,        \* the receive virtqueue, as memory holds it
          dirty,    \* rx_dirty
          pc,       \* the polling core: "poll", "runt", "kick", "arm", "check", "sleep"
          cur,      \* the runt in hand, or 0
          armed,    \* buffered stores of enable_interrupts: <<>> or <<used_event>>
          irq,      \* an interrupt is pending at the core
          dev,      \* the device: "run", "signal", "recheck", "wait"
          seen,     \* its cursor in the avail ring
          old,      \* the used index before its last publication
          bell,     \* the doorbell rang
          mem,      \* what each buffer holds: a frame number or 0
          held,     \* delivered buffers whose chain is still alive
          arrived,  \* frames the device has written
          got       \* frames delivered, in order

rxVars == <<q, dirty, pc, cur, armed, irq, dev, seen, old, bell, mem, held, arrived, got>>

RECURSIVE Post(_, _)
Post(r, n) == IF n = 0 THEN r ELSE add_chain(Post(r, n - 1), <<n>>).q

\* init: the rings with every buffer posted, kicked, and enable_irq done.
RxInit ==
    /\ q = enable_interrupts([Post(alloc_rings, Bufs) EXCEPT !.event_idx = EventIdx])
    /\ dirty = FALSE /\ pc = "poll" /\ cur = 0 /\ armed = <<>> /\ irq = FALSE
    /\ dev = "run" /\ seen = 0 /\ old = 0 /\ bell = FALSE
    /\ mem = [b \in 1 .. Bufs |-> 0] /\ held = {} /\ arrived = 0 /\ got = <<>>

Device == <<dev, seen, old, bell, arrived>>

(***************************************************************************)
(* The polling core.                                                       *)
(***************************************************************************)

\* poll_qp's loop, one rx_used_locked: harvest a buffer, deliver it, or find
\* the ring empty and go on to the kick.
Harvest ==
  LET u == used(q) IN
  /\ pc = "poll"
  /\ \/ /\ ~u.some
        /\ pc' = "kick"
        /\ UNCHANGED <<q, cur, held, got>>
     \/ /\ u.some /\ u.len = 1
        /\ q' = u.q
        /\ held' = held \union {u.buf}
        /\ got' = Append(got, mem[u.buf])
        /\ UNCHANGED <<pc, cur>>
     \/ /\ u.some /\ u.len = 0
        /\ q' = u.q /\ cur' = u.buf /\ pc' = "runt"
        /\ UNCHANGED <<held, got>>
  /\ UNCHANGED <<dirty, armed, irq, mem, Device>>

\* rx_repost: under rx_lock, add_buf and set rx_dirty.
rx_repost(b) ==
  /\ q' = add_chain(q, <<b>>).q
  /\ dirty' = TRUE

\* A frame no longer than the header is counted and re-posted at once.
Runt ==
  /\ pc = "runt"
  /\ rx_repost(cur)
  /\ pc' = "poll" /\ cur' = 0
  /\ UNCHANGED <<armed, irq, mem, held, got, Device>>

\* The end of poll_qp: one kick for all buffers re-posted so far.  The caller
\* polls again after a busy round (the next Harvest) or goes on to sleep.
EndOfPoll ==
  /\ pc = "kick"
  /\ dirty' = FALSE
  /\ q' = IF dirty THEN kick(q).q ELSE q
  /\ bell' = (bell \/ (dirty /\ kick(q).bell))
  /\ pc' \in {"poll", "arm"}
  /\ UNCHANGED <<cur, armed, irq, mem, held, got, dev, seen, old, arrived>>

\* The idle path, its two halves: enable_interrupts, then has_used
\* (wait_for_events on core 0, rearm_rx_napi on the others).
Arm ==
  /\ pc = "arm"
  /\ IF StoreBuffer THEN armed' = <<q.used_idx>> /\ q' = q
     ELSE armed' = armed /\ q' = enable_interrupts(q)
  /\ pc' = "check"
  /\ UNCHANGED <<dirty, cur, irq, mem, held, got, Device>>

\* The store buffer drains at some later moment.
Drain ==
  /\ armed # <<>>
  /\ q' = [q EXCEPT !.no_interrupt = FALSE,
                    !.used_event = IF q.event_idx THEN armed[1] ELSE @]
  /\ armed' = <<>>
  /\ UNCHANGED <<dirty, pc, cur, irq, mem, held, got, Device>>

\* The core sleeps without looking once more.
CheckNot ==
  /\ pc = "check"
  /\ pc' = "sleep"
  /\ UNCHANGED <<q, dirty, cur, armed, irq, mem, held, got, Device>>

Check ==
  /\ pc = "check"
  /\ pc' = IF has_used(q) THEN "poll" ELSE "sleep"
  /\ UNCHANGED <<q, dirty, cur, armed, irq, mem, held, got, Device>>

\* The interrupt: the handler runs on the polling core and ends its sleep.  From
\* the arming to the sleep the core takes none (IrqGuard; `sti; hlt; cli`).
Interrupt ==
  /\ irq /\ pc # "check"
  /\ irq' = FALSE
  /\ q' = IF IrqMasks THEN disable_interrupts(q) ELSE q
  /\ pc' = IF pc = "sleep" THEN "poll" ELSE pc
  /\ UNCHANGED <<dirty, cur, armed, mem, held, got, Device>>

\* The timer of idle_bounded ends a sleep.
Timer ==
  /\ Bounded /\ pc = "sleep"
  /\ pc' = "poll"
  /\ UNCHANGED <<q, dirty, cur, armed, irq, mem, held, got, Device>>

\* virtio_rx_repost: a delivered chain is dropped, on any core.
Drop(b) ==
  /\ b \in held
  /\ held' = held \ {b}
  /\ rx_repost(b)
  /\ mem' = [mem EXCEPT ![b] = 0]
  /\ UNCHANGED <<pc, cur, armed, irq, got, Device>>

(***************************************************************************)
(* The device (external): fill a posted buffer, publish it, decide whether *)
(* to interrupt; without buffers, ask for a doorbell, look once more and   *)
(* wait.                                                                   *)
(***************************************************************************)
DevFill ==
  LET b == q.addr[q.avail[seen % QSize]] IN
  /\ dev = "run" /\ arrived < MaxFrames /\ Posted(q, seen) > 0
  /\ arrived' = arrived + 1
  /\ mem' = [mem EXCEPT ![b] = arrived + 1]
  /\ q' = device_put([q EXCEPT !.no_notify = TRUE], seen, IF arrived + 1 \in Runts THEN 0 ELSE 1)
  /\ seen' = Succ(seen)
  /\ old' = q.used_idx
  /\ dev' = "signal"
  /\ UNCHANGED <<dirty, pc, cur, armed, irq, held, got, bell>>

DevSignal ==
  /\ dev = "signal"
  /\ irq' = (irq \/ device_signals(q, old))
  /\ dev' = "run"
  /\ UNCHANGED <<q, dirty, pc, cur, armed, mem, held, got, seen, old, bell, arrived>>

RxDevStarve ==
    /\ dev = "run" /\ Posted(q, seen) = 0
    /\ q' = [q EXCEPT !.no_notify = FALSE]
    /\ dev' = "recheck"
    /\ UNCHANGED <<dirty, pc, cur, armed, irq, mem, held, got, seen, old, bell, arrived>>

RxDevRecheck ==
    /\ dev = "recheck"
    /\ dev' = IF Posted(q, seen) > 0 THEN "run" ELSE "wait"
    /\ UNCHANGED <<q, dirty, pc, cur, armed, irq, mem, held, got, seen, old, bell, arrived>>

RxDevBell ==
    /\ bell
    /\ bell' = FALSE
    /\ dev' = IF dev = "wait" THEN "run" ELSE dev
    /\ UNCHANGED <<q, dirty, pc, cur, armed, irq, mem, held, got, seen, old, arrived>>

RxNext == \/ Harvest \/ Runt \/ EndOfPoll \/ Arm \/ Drain \/ Check \/ Interrupt \/ Timer
          \/ \E b \in 1 .. Bufs : Drop(b)
          \/ DevFill \/ DevSignal \/ RxDevStarve \/ RxDevRecheck \/ RxDevBell

\* Every core and the device keep running; the timer of a bounded sleep fires.
Fair == /\ WF_rxVars(Harvest \/ Runt \/ EndOfPoll \/ Arm \/ Check)
        /\ WF_rxVars(Drain) /\ WF_rxVars(Interrupt) /\ WF_rxVars(Timer)
        /\ WF_rxVars(DevFill \/ DevSignal \/ RxDevStarve \/ RxDevRecheck) /\ WF_rxVars(RxDevBell)

RxSpec == RxInit /\ [][RxNext]_rxVars /\ Fair

(***************************************************************************)
(* Properties.                                                             *)
(***************************************************************************)

\* The heads between two positions of a ring.
Between(ring, from, n) == {ring[(from + k) % QSize] : k \in 0 .. n - 1}

\* Every descriptor is in exactly one place: on the free list, posted, or
\* returned and not yet harvested; and so is every buffer: posted, returned,
\* delivered, or the runt in hand.  Harvest and the drop callbacks race for
\* the free list (rx_used_locked's comment).
RxBooksBalance ==
  LET free == {FreeAt(q, n) : n \in 0 .. q.num_free - 1}
      posted == Between(q.avail, seen, Posted(q, seen))
      back == {q.used[(q.last_used + k) % QSize].id : k \in 0 .. ((q.used_idx - q.last_used) % IdxMod) - 1}
      inRing == {q.addr[i] : i \in posted \union back}
      runt == IF pc = "runt" THEN {cur} ELSE {}
  IN  /\ Cardinality(free) = q.num_free
      /\ Cardinality(free) + Cardinality(posted) + Cardinality(back) = QSize
      /\ free \union posted \union back = Ids
      /\ inRing \union held \union runt = 1 .. Bufs
      /\ Cardinality(inRing) + Cardinality(held) + Cardinality(runt) = Bufs

\* Every frame is delivered once, whole, in arrival order: what has been
\* delivered is the frames that arrived, runts left out, up to some point.
FramesInOrder ==
  LET kept == SelectSeq([n \in 1 .. arrived |-> n], LAMBDA n : n \notin Runts)
  IN  /\ Len(got) <= Len(kept)
      /\ got = SubSeq(kept, 1, Len(got))

\* The core does not sleep over a frame: asleep with a published frame, an
\* interrupt is pending or the device is about to decide on one.
\* (rearm_rx_napi: "enable RX notifications ..., then re-check for work that
\* arrived in the arm window".)
NoSleepOverFrame ==
  (pc = "sleep" /\ has_used(q)) => (irq \/ dev = "signal")

\* A device waiting for its doorbell learns of re-posted buffers: the drop
\* callback only marks the queue, and the kick is the next poll's.
RingIsFed ==
  (dev = "wait" /\ Posted(q, seen) > 0) ~> (dev # "wait")

-----------------------------------------------------------------------------
(***************************************************************************)
(* The transmit half of virtio-net (src/crates/drivers/virtio-net/src/     *)
(* tx.rs, with tx-pool's slot scan and stall breaker): workers claim a     *)
(* slot of their own pool, fill it, enqueue it on the queue their worker   *)
(* number selects, and ring the doorbell at the end of the turn; whoever   *)
(* drains a queue's used ring frees the slots of every worker.             *)
(*                                                                         *)
(* Reading the free list and publishing the chain are two steps of a       *)
(* submission, so that an unlocked queue shows what another worker can do  *)
(* between them; with TX_LOCK held they are one.                           *)
(***************************************************************************)
CONSTANTS NumWorkers,  \* num_workers
          Nqp,         \* num_queue_pairs
          SmallSize,   \* TX_POOL_SMALL_SIZE
          BigSize      \* TX_POOL_BIG_SIZE, 0 without TSO

Workers == 0 .. NumWorkers - 1
Qps == 0 .. Nqp - 1
TxSlots == ({"small"} \X (1 .. SmallSize)) \union ({"big"} \X (1 .. BigSize))
NoSlot == <<"none", 0>>

VARIABLES inUse,    \* inUse[w]: the claimed slots of worker w's pool
          slot,     \* slot[w]: the slot of the handle in hand
          snap,     \* snap[w]: the queue fields add_buf has read
          mark,     \* mark[w]: used_idx at the last lap of a stalled acquire
          turn,     \* turn[w]: worked since its last flush
          lock,     \* holder of TX_LOCK, or -1
          breaker,  \* TX_STALL: the frozen used_idx it armed on, or -1
          frames,   \* frames submitted so far
          sub,      \* sub[qp]: the frames enqueued, in order
          wire      \* wire[qp]: the frames the device has sent

txVars == <<q, inUse, mem, pc, slot, snap, mark, turn, lock, breaker, dev, seen, bell, frames, sub, wire>>

\* init and enable_deferred_tx_kick.
TxInit ==
    /\ q = [p \in Qps |-> set_deferred_kick(alloc_rings, TRUE)]
    /\ inUse = [w \in Workers |-> {}]
    /\ mem = [w \in Workers |-> [s \in TxSlots |-> 0]]
    /\ pc = [w \in Workers |-> "idle"]
    /\ slot = [w \in Workers |-> NoSlot]
    /\ snap = [w \in Workers |-> <<>>]
    /\ mark = [w \in Workers |-> 0]
    /\ turn = [w \in Workers |-> FALSE]
    /\ lock = -1 /\ breaker = -1
    /\ dev = [p \in Qps |-> "wait"] /\ seen = [p \in Qps |-> 0] /\ bell = [p \in Qps |-> FALSE]
    /\ frames = 0 /\ sub = [p \in Qps |-> <<>>] /\ wire = [p \in Qps |-> <<>>]

qp_needs_lock == Nqp = 1 /\ NumWorkers > 1

worker_qp(w) == IF Nqp > 1 /\ w < Nqp THEN w ELSE 0

\* tx_drain_qp: consume the used ring, freeing the slot each buffer belongs to.
\* The result is the queue and the claimed slots of every worker.
RECURSIVE tx_drain_qp(_, _)
tx_drain_qp(r, u) ==
  LET e == used(r) IN
  IF ~e.some THEN [q |-> r, inUse |-> u]
  ELSE tx_drain_qp(e.q, [u EXCEPT ![e.buf[1]] = @ \ {e.buf[2]}])

\* claim_first_free over the worker's slots of one pool.
free_slots(u, w, pool) == {s \in TxSlots : s[1] = pool /\ s \notin u[w]}
claim_first_free(u, w, pool) ==
  CHOOSE s \in free_slots(u, w, pool) : \A t \in free_slots(u, w, pool) : s[2] <= t[2]

Unlocked == qp_needs_lock => lock = -1

\* The drain of current_worker_and_qp, then the claim.  A full small pool stalls
\* (unless the breaker says the ring is still frozen), a full big pool fails.
\* A claimed buffer is filled with the next frame at once: only this worker
\* writes to it.
acquire(w, pool) ==
  LET p == worker_qp(w)
      d == tx_drain_qp(q[p], inUse)
      s == claim_first_free(d.inUse, w, pool)
  IN  /\ Unlocked
      /\ IF free_slots(d.inUse, w, pool) # {}
         THEN /\ inUse' = [d.inUse EXCEPT ![w] = @ \union {s}]
              /\ mem' = [mem EXCEPT ![w] = [@ EXCEPT ![s] = frames + 1]]
              /\ slot' = [slot EXCEPT ![w] = s]
              /\ pc' = [pc EXCEPT ![w] = "held"]
              /\ frames' = frames + 1
              /\ UNCHANGED <<mark, breaker>>
         ELSE /\ inUse' = d.inUse
              /\ \/ /\ pool = "small"
                    /\ pc' = [pc EXCEPT ![w] = "stalled"]
                    /\ mark' = [mark EXCEPT ![w] = q[p].used_idx]
                    /\ breaker' = -1
                 \/ /\ pool = "big" \/ breaker = q[p].used_idx
                    /\ pc' = [pc EXCEPT ![w] = "idle"]
                    /\ UNCHANGED <<mark, breaker>>
              /\ UNCHANGED <<mem, slot, frames>>
      /\ turn' = [turn EXCEPT ![w] = TRUE]

acquire_tx_buf(w) ==
  /\ pc[w] = "idle" /\ frames < MaxFrames
  /\ \E pool \in {"small"} \union (IF BigSize > 0 THEN {"big"} ELSE {}) :
       /\ acquire(w, pool)
       /\ q' = [q EXCEPT ![worker_qp(w)] = tx_drain_qp(@, inUse).q]
  /\ UNCHANGED <<snap, lock, dev, seen, bell, sub, wire>>

\* One lap of TxStallBreaker::spin: flush_kick, without the lock, then the drain
\* and another scan.
StallLap(w) ==
  LET p == worker_qp(w)
      f == flush_kick(q[p])
  IN  /\ pc[w] = "stalled" /\ frames < MaxFrames
      /\ acquire(w, "small")
      /\ q' = [q EXCEPT ![p] = tx_drain_qp(f.q, inUse).q]
      /\ bell' = [bell EXCEPT ![p] = @ \/ f.bell]
      /\ UNCHANGED <<snap, lock, dev, seen, sub, wire>>

\* The budget runs out with no progress since the last lap: the frame is
\* dropped and the breaker armed on the frozen index.
StallGiveUp(w) ==
  /\ pc[w] = "stalled"
  /\ q[worker_qp(w)].used_idx = mark[w]
  /\ breaker' = mark[w]
  /\ pc' = [pc EXCEPT ![w] = "idle"]
  /\ UNCHANGED <<q, inUse, mem, slot, snap, mark, turn, lock, dev, seen, bell, frames, sub, wire>>

\* release_tx_slot: the handle is dropped, or submit_tx refuses the length.
release_tx_slot(w) ==
  /\ pc[w] = "held"
  /\ inUse' = [inUse EXCEPT ![w] = @ \ {slot[w]}]
  /\ slot' = [slot EXCEPT ![w] = NoSlot]
  /\ pc' = [pc EXCEPT ![w] = "idle"]
  /\ UNCHANGED <<q, mem, snap, mark, turn, lock, breaker, dev, seen, bell, frames, sub, wire>>

\* submit_tx and submit_tx_tso, first half: TX_LOCK where the queue is shared,
\* and add_buf's reads; without a free descriptor the slot is released.
submit_tx(w) ==
  LET p == worker_qp(w) IN
  /\ pc[w] = "held" /\ Unlocked
  /\ IF q[p].num_free = 0
     THEN /\ inUse' = [inUse EXCEPT ![w] = @ \ {slot[w]}]
          /\ slot' = [slot EXCEPT ![w] = NoSlot]
          /\ pc' = [pc EXCEPT ![w] = "idle"]
          /\ UNCHANGED <<snap, lock>>
     ELSE /\ snap' = [snap EXCEPT ![w] = <<q[p].free_head, q[p].num_free, q[p].avail_idx>>]
          /\ lock' = IF qp_needs_lock THEN w ELSE lock
          /\ pc' = [pc EXCEPT ![w] = "adding"]
          /\ UNCHANGED <<inUse, slot>>
  /\ UNCHANGED <<q, mem, mark, turn, breaker, dev, seen, bell, frames, sub, wire>>

\* Second half: the descriptor, the ring slot and the index, then the deferred
\* kick and the unlock.
submit_tx_publish(w) ==
  LET p == worker_qp(w)
      r == [q[p] EXCEPT !.free_head = snap[w][1], !.num_free = snap[w][2], !.avail_idx = snap[w][3]]
      k == kick(add_chain(r, <<<<w, slot[w]>>>>).q)
  IN  /\ pc[w] = "adding"
      /\ q' = [q EXCEPT ![p] = k.q]
      /\ bell' = [bell EXCEPT ![p] = @ \/ k.bell]
      /\ sub' = [sub EXCEPT ![p] = Append(@, mem[w][slot[w]])]
      /\ lock' = IF lock = w THEN -1 ELSE lock
      /\ slot' = [slot EXCEPT ![w] = NoSlot]
      /\ snap' = [snap EXCEPT ![w] = <<>>]
      /\ pc' = [pc EXCEPT ![w] = "idle"]
      /\ UNCHANGED <<inUse, mem, mark, turn, breaker, dev, seen, frames, wire>>

\* The drain in poll_qp: on the polling core, with try_lock where shared.
PollDrain(w) ==
  LET p == worker_qp(w)
      d == tx_drain_qp(q[p], inUse)
  IN  /\ pc[w] = "idle" /\ Unlocked /\ has_used(q[p])
      /\ q' = [q EXCEPT ![p] = d.q]
      /\ inUse' = d.inUse
      /\ UNCHANGED <<mem, pc, slot, snap, mark, turn, lock, breaker, dev, seen, bell, frames, sub, wire>>

\* net_flush_cb at the end of a turn that did work: with one queue,
\* flush_tx_staging (under the lock) and then flush_tx_kick_if_dirty; with
\* several, only the worker's own queue.
EndOfTurn(w) ==
  LET p == worker_qp(w)
      f == IF Nqp > 1 THEN flush_kick_if_dirty(q[p]) ELSE flush_kick(q[p])
  IN  /\ pc[w] = "idle" /\ turn[w] /\ Unlocked
      /\ q' = [q EXCEPT ![p] = f.q]
      /\ bell' = [bell EXCEPT ![p] = @ \/ f.bell]
      /\ turn' = [turn EXCEPT ![w] = FALSE]
      /\ UNCHANGED <<inUse, mem, pc, slot, snap, mark, lock, breaker, dev, seen, frames, sub, wire>>

(***************************************************************************)
(* The device (external): send what is posted, suppressing doorbells while *)
(* it runs; when the ring is empty ask for one, look once more, and wait.  *)
(***************************************************************************)
DevUnchanged == UNCHANGED <<inUse, mem, pc, slot, snap, mark, turn, lock, breaker, frames, sub>>

DevSend(p) ==
  LET b == q[p].addr[q[p].avail[seen[p] % QSize]] IN
  /\ dev[p] = "run" /\ Posted(q[p], seen[p]) > 0
  /\ q' = [q EXCEPT ![p] = device_put([@ EXCEPT !.no_notify = TRUE], seen[p], 0)]
  /\ seen' = [seen EXCEPT ![p] = Succ(@)]
  /\ wire' = [wire EXCEPT ![p] = Append(@, mem[b[1]][b[2]])]
  /\ UNCHANGED <<dev, bell>> /\ DevUnchanged

TxDevStarve(p) ==
    /\ dev[p] = "run" /\ Posted(q[p], seen[p]) = 0
    /\ q' = [q EXCEPT ![p] = [@ EXCEPT !.no_notify = FALSE]]
    /\ dev' = [dev EXCEPT ![p] = "recheck"]
    /\ UNCHANGED <<seen, bell, wire>> /\ DevUnchanged

TxDevRecheck(p) ==
    /\ dev[p] = "recheck"
    /\ dev' = [dev EXCEPT ![p] = IF Posted(q[p], seen[p]) > 0 THEN "run" ELSE "wait"]
    /\ UNCHANGED <<q, seen, bell, wire>> /\ DevUnchanged

TxDevBell(p) ==
    /\ bell[p]
    /\ bell' = [bell EXCEPT ![p] = FALSE]
    /\ dev' = [dev EXCEPT ![p] = IF @ = "wait" THEN "run" ELSE @]
    /\ UNCHANGED <<q, seen, wire>> /\ DevUnchanged

TxNext ==
    \/ \E w \in Workers :
         \/ acquire_tx_buf(w) \/ StallLap(w) \/ StallGiveUp(w) \/ release_tx_slot(w)
         \/ submit_tx(w) \/ submit_tx_publish(w) \/ PollDrain(w) \/ EndOfTurn(w)
    \/ \E p \in Qps : DevSend(p) \/ TxDevStarve(p) \/ TxDevRecheck(p) \/ TxDevBell(p)

TxSpec == TxInit /\ [][TxNext]_txVars

(***************************************************************************)
(* Properties.                                                             *)
(***************************************************************************)

\* What leaves on the wire is what the workers enqueued, in order: no slot is
\* rewritten while the device owns it, no chain is lost, doubled or overtaken.
WireExact == \A p \in Qps : IsPrefix(wire[p], sub[p])

Ring(p) ==
  {q[p].avail[(seen[p] + k) % QSize] : k \in 0 .. Posted(q[p], seen[p]) - 1}
    \union {q[p].used[(q[p].last_used + k) % QSize].id :
             k \in 0 .. ((q[p].used_idx - q[p].last_used) % IdxMod) - 1}

\* The free list and the rings partition each descriptor table, and a slot is
\* claimed exactly when a handle or a ring holds it (qp_needs_lock: "True when
\* multiple workers feed the same qp").
TxBooksBalance ==
  /\ \A p \in Qps :
       LET free == {FreeAt(q[p], n) : n \in 0 .. q[p].num_free - 1}
       IN  /\ free \intersect Ring(p) = {}
           /\ free \union Ring(p) = Ids
           /\ Cardinality(free) = q[p].num_free
  /\ \A w \in Workers :
       inUse[w] = {s \in TxSlots : \/ s = slot[w]
                                 \/ \E p \in Qps : \E i \in Ring(p) : q[p].addr[i] = <<w, s>>}

\* No frame is left behind: once every worker has ended its turn, a device that
\* waits for a doorbell has nothing posted or the doorbell has rung.
NoFrameLeftBehind ==
  \A p \in Qps :
    (dev[p] = "wait" /\ ~bell[p] /\ Posted(q[p], seen[p]) > 0)
      => \E w \in Workers : worker_qp(w) = p /\ turn[w]
=============================================================================
