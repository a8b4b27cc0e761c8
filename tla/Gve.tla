-------------------------------- MODULE Gve ---------------------------------
(***************************************************************************)
(* The data path of the gVNIC driver in its two queue formats, DQO_RDA and *)
(* GQI_QPL: one transmit and one receive queue of each.  A queue is set up in*)
(* one format, so the four machines never run together; they share the names*)
(* of the TxQueue and RxQueue fields, and each has its own Init and Next.  *)
(***************************************************************************)
EXTENDS Integers, Sequences, FiniteSets, SequencesExt

(***************************************************************************)
(* One transmit queue of the gVNIC driver in the DQO_RDA format            *)
(* (src/crates/drivers/gve/src/dqo.rs, tx.rs).                             *)
(*                                                                         *)
(* The driver keeps two wrapping counts, fill_cnt and done_cnt, on a ring  *)
(* whose doorbell and completions carry masked positions only.  A small    *)
(* packet is built in the bounce buffer of its ring position and has no    *)
(* other owner; a super-segment has a slot of the big pool, which its      *)
(* packet completion frees.  done_cnt moves only by the descriptor         *)
(* completions the device writes for descriptors that asked for one, at    *)
(* most one per DQO_TX_RE_INTERVAL.  Completions are told new from old by  *)
(* a generation bit.                                                       *)
(*                                                                         *)
(* The device is external: it fetches descriptors in order up to the tail  *)
(* it was told, reads the buffers of at most FetchAhead packets later, and *)
(* completes both in its completion ring.                                  *)
(***************************************************************************)
CONSTANTS Ring,        \* TX_RING_ENTRIES, a power of two
          CountMod,    \* the width of the counts, a multiple of Ring
          DrainAt,     \* the 64 of tx_reserve_n
          NearFull,    \* the 16 of dqo_kick
          ReInterval,  \* DQO_TX_RE_INTERVAL
          BigSlots,    \* DQO_TX_BIG_SLOTS
          MaxBufs,     \* packet descriptors a super-segment may take
          Deferred,    \* DEFERRED_KICK
          FetchAhead,  \* packets the device holds between fetch and read
          MaxFrames    \* bound on the frames sent

VARIABLES fill, done, kicked, lastRe,  \* TxQueue
          ring, bounce, big, used,     \* descriptors and buffers
          held,                        \* the handle between acquire and submit
          head, gen, compl,            \* the completion ring, driver side
          next,                        \* frames made so far
          tail, dhead, pend, dcompl,   \* the device
          wire                         \* what the device has sent

dqoTxDriver == <<fill, done, kicked, lastRe, ring, bounce, big, used, held, head, gen, next>>
dqoTxDevice == <<dhead, pend, dcompl, wire>>
dqoTxVars == <<dqoTxDriver, compl, tail, dqoTxDevice>>

RingSlots == 0 .. Ring - 1
NoDesc == [type |-> "none", buf |-> 0, re |-> FALSE, eop |-> FALSE, tag |-> 0]
NoHandle == [kind |-> "none", at |-> 0]
Nothing == [gen |-> 0, type |-> "none", val |-> 0]
Big(s) == Ring + s           \* DQO_TX_BIG_COMPL_TAG_BASE + slot
Wrap(n) == n % CountMod
Mask(n) == n % Ring

DqoTxInit == /\ fill = 0 /\ done = 0 /\ kicked = 0
             /\ lastRe = Wrap(-ReInterval)
             /\ ring = [i \in RingSlots |-> NoDesc]
             /\ bounce = [i \in RingSlots |-> 0]
             /\ big = [s \in 0 .. BigSlots - 1 |-> 0]
             /\ used = [s \in 0 .. BigSlots - 1 |-> FALSE]
             /\ held = NoHandle
             /\ head = 0 /\ gen = 1
             /\ compl = [i \in RingSlots |-> Nothing]
             /\ next = 1
             /\ tail = 0 /\ dhead = 0 /\ pend = << >> /\ dcompl = 0
             /\ wire = << >>

-----------------------------------------------------------------------------
(* tx_drain: the completions whose generation is current. *)

Gen(n) == 1 - ((n \div Ring) % 2)   \* the generation the device writes at its n-th completion
RECURSIVE drain_from(_, _)
drain_from(k, d) ==
    LET c == compl[Mask(k.head)]
        past == [head |-> Wrap(k.head + 1),
                 gen |-> IF Mask(k.head + 1) = 0 THEN 1 - k.gen ELSE k.gen]
    IN  IF c.gen # k.gen \/ c.type = "none" THEN [head |-> k.head, gen |-> k.gen, done |-> d.done, used |-> d.used]
        ELSE drain_from(past,
                [done |-> IF c.type = "desc" THEN Wrap(d.done + Mask(c.val - Mask(d.done))) ELSE d.done,
                 used |-> IF c.type = "pkt" /\ c.val >= Ring
                          THEN [d.used EXCEPT ![c.val - Ring] = FALSE] ELSE d.used])
dqo_tx_drain == drain_from([head |-> head, gen |-> gen], [done |-> done, used |-> used])
NoDrain == [head |-> head, gen |-> gen, done |-> done, used |-> used]

\* tx_reserve_n: drain only near the end of the ring, and keep the masked
\* tail off the device's head: [ok, head, gen, done, used].
InFlight(d) == Wrap(fill - d)
tx_reserve_n(n) ==
    LET near == InFlight(done) + DrainAt > Ring
        d == IF near THEN dqo_tx_drain ELSE NoDrain
    IN  [ok |-> ~near \/ InFlight(d.done) + n <= Ring - 2, d |-> d]
Drained(d) == /\ head' = d.head /\ gen' = d.gen /\ done' = d.done

\* re_flag: the next descriptor completion is asked for an interval after the last.
re_flag(pos) == Wrap(pos - lastRe) >= ReInterval

\* dqo_kick: publish the new count, and tell the device unless kicks are
\* deferred and there is room.
dqo_kick(n, d) == LET tell == ~Deferred \/ Wrap(n - d) >= Ring - NearFull
                  IN  /\ fill' = n
                      /\ tail' = IF tell THEN Mask(n) ELSE tail
                      /\ kicked' = IF tell THEN n ELSE kicked

\* emit_ctx_pkt: a context and a packet descriptor at fill_cnt.
pkt_bounce_buf == Mask(fill + 1)
emit_ctx_pkt(d) ==
    /\ ring' = [ring EXCEPT ![Mask(fill)] = [NoDesc EXCEPT !.type = "ctx"],
                            ![Mask(fill + 1)] = [type |-> "pkt", buf |-> pkt_bounce_buf, re |-> re_flag(fill),
                                                 eop |-> TRUE, tag |-> Mask(fill + 1)]]
    /\ lastRe' = IF re_flag(fill) THEN fill ELSE lastRe
    /\ dqo_kick(Wrap(fill + 2), d)

\* emit_tso_descs: two contexts and the buffers of the super-segment.
emit_tso_descs(s, bufs, d) ==
    LET last == Wrap(fill + 1 + bufs)
        At(i) == IF i <= 1 THEN [NoDesc EXCEPT !.type = "ctx"]
                 ELSE [type |-> "pkt", buf |-> Big(s), re |-> i = 1 + bufs /\ re_flag(last),
                       eop |-> i = 1 + bufs, tag |-> Big(s)]
    IN  /\ ring' = [j \in RingSlots |-> LET i == Mask(j - fill) IN IF i <= 1 + bufs THEN At(i) ELSE ring[j]]
        /\ lastRe' = IF re_flag(last) THEN last ELSE lastRe
        /\ dqo_kick(Wrap(fill + 2 + bufs), d)

-----------------------------------------------------------------------------
(* The driver's operations, all on the core that owns the queue. *)

\* The slice path: the frame is copied and sent, or dropped when there is no room.
send_on_qp == /\ held = NoHandle
              /\ next <= MaxFrames
              /\ LET r == tx_reserve_n(2)
                 IN  /\ Drained(r.d)
                     /\ used' = r.d.used
                     /\ IF r.ok
                        THEN /\ bounce' = [bounce EXCEPT ![pkt_bounce_buf] = next]
                             /\ next' = next + 1
                             /\ emit_ctx_pkt(r.d.done)
                        ELSE UNCHANGED <<bounce, next, ring, lastRe, fill, tail, kicked>>
              /\ UNCHANGED <<big, held, compl, dqoTxDevice>>

\* The direct-fill pair: the bounce buffer of the next packet is lent, filled
\* and submitted, or given back by doing nothing.
acquire_tx_buf == /\ held = NoHandle
                  /\ next <= MaxFrames
                  /\ LET r == tx_reserve_n(2)
                     IN  /\ Drained(r.d)
                         /\ used' = r.d.used
                         /\ IF r.ok
                            THEN /\ held' = [kind |-> "small", at |-> pkt_bounce_buf]
                                 /\ bounce' = [bounce EXCEPT ![pkt_bounce_buf] = next]
                                 /\ next' = next + 1
                            ELSE UNCHANGED <<held, bounce, next>>
                  /\ UNCHANGED <<fill, kicked, lastRe, ring, big, compl, tail, dqoTxDevice>>

submit_tx == /\ held.kind = "small"
             /\ held' = NoHandle
             /\ emit_ctx_pkt(done)
             /\ UNCHANGED <<done, head, gen, used, bounce, big, compl, next, dqoTxDevice>>

\* A super-segment takes a slot of the big pool.
acquire_tx_tso_buf ==
    /\ held = NoHandle
    /\ next <= MaxFrames
    /\ LET r == tx_reserve_n(2 + MaxBufs)
           free == {s \in DOMAIN used : ~r.d.used[s]}
           s == CHOOSE s \in free : \A t \in free : s <= t
       IN  /\ Drained(r.d)
           /\ IF r.ok /\ free # {}
              THEN /\ held' = [kind |-> "big", at |-> s]
                   /\ used' = [r.d.used EXCEPT ![s] = TRUE]
                   /\ big' = [big EXCEPT ![s] = next]
                   /\ next' = next + 1
              ELSE used' = r.d.used /\ UNCHANGED <<held, big, next>>
    /\ UNCHANGED <<fill, kicked, lastRe, ring, bounce, compl, tail, dqoTxDevice>>

submit_tx_tso(bufs) == /\ held.kind = "big"
                       /\ held' = NoHandle
                       /\ emit_tso_descs(held.at, bufs, done)
                       /\ UNCHANGED <<done, head, gen, used, bounce, big, compl, next, dqoTxDevice>>

\* A handle that is never submitted: release_noop, release_big_slot.
release == /\ held # NoHandle
           /\ held' = NoHandle
           /\ used' = IF held.kind = "big" THEN [used EXCEPT ![held.at] = FALSE] ELSE used
           /\ next' = next - 1
           /\ UNCHANGED <<fill, done, kicked, lastRe, ring, bounce, big, head, gen, compl, tail, dqoTxDevice>>

\* The end of poll_qp_inner.
poll == /\ held = NoHandle
        /\ Drained(dqo_tx_drain)
        /\ used' = dqo_tx_drain.used
        /\ UNCHANGED <<fill, kicked, lastRe, ring, bounce, big, held, compl, next, tail, dqoTxDevice>>

\* The event loop's flush at the end of a turn.
flush_tx_kick_if_dirty == /\ held = NoHandle
                          /\ fill # kicked
                          /\ tail' = Mask(fill)
                          /\ kicked' = fill
                          /\ UNCHANGED <<fill, done, lastRe, ring, bounce, big, used, held, head, gen, compl, next, dqoTxDevice>>

-----------------------------------------------------------------------------
(* The device. *)

Complete(type, val) == /\ compl' = [compl EXCEPT ![Mask(dcompl)] = [gen |-> Gen(dcompl), type |-> type, val |-> val]]
                       /\ dcompl' = (dcompl + 1) % (2 * Ring)

\* A masked tail equal to the head is an empty ring.
DevFetch == /\ dhead # tail
            /\ Len(pend) < FetchAhead
            /\ dhead' = Mask(dhead + 1)
            /\ LET c == ring[dhead]
               IN  /\ pend' = IF c.type = "pkt" THEN Append(pend, c) ELSE pend
                   /\ IF c.re THEN Complete("desc", Mask(dhead + 1)) ELSE UNCHANGED <<compl, dcompl>>
            /\ UNCHANGED <<dqoTxDriver, tail, wire>>

DevRead == /\ pend # << >>
           /\ LET c == Head(pend)
              IN  IF c.eop
                  THEN /\ wire' = Append(wire, IF c.buf >= Ring THEN big[c.buf - Ring] ELSE bounce[c.buf])
                       /\ Complete("pkt", c.tag)
                  ELSE UNCHANGED <<wire, compl, dcompl>>
           /\ pend' = Tail(pend)
           /\ UNCHANGED <<dqoTxDriver, tail, dhead>>

DqoTxNext == \/ send_on_qp \/ acquire_tx_buf \/ submit_tx \/ acquire_tx_tso_buf
             \/ \E bufs \in 1 .. MaxBufs : submit_tx_tso(bufs)
             \/ release \/ poll \/ flush_tx_kick_if_dirty
             \/ DevFetch \/ DevRead

DqoTxSpec == DqoTxInit /\ [][DqoTxNext]_dqoTxVars

-----------------------------------------------------------------------------
Idle == dhead = tail /\ pend = << >>

\* What leaves is what was submitted, each frame once and in order: no
\* descriptor is overwritten before it is fetched, no bounce buffer or big
\* slot is filled again while the device may still read it, and the counts
\* survive their wrap.
GveWireExact == /\ \A i \in DOMAIN wire : wire[i] = i
                /\ (Idle /\ fill = kicked /\ held = NoHandle) => Len(wire) = next - 1

\* The queue cannot freeze: once the device has done all it was told and the
\* driver has told it everything, a drain makes room for another packet, and
\* every big slot is free again (the masked tail never meets the head, and
\* some descriptor in flight always asked for a completion).
GveTxUnsticks == (Idle /\ fill = kicked /\ held = NoHandle) =>
                     /\ InFlight(dqo_tx_drain.done) + 2 <= Ring - 2
                     /\ \A s \in DOMAIN used : ~dqo_tx_drain.used[s]

-----------------------------------------------------------------------------
(***************************************************************************)
(* One receive queue of the gVNIC driver in the DQO_RDA format             *)
(* (src/crates/drivers/gve/src/dqo.rs: post_initial_rx_for_qp,             *)
(* poll_qp_inner, dqo_repost).                                             *)
(*                                                                         *)
(* A completion names a buffer, which is wrapped in place: the handle owns *)
(* it, and dropping the handle posts the buffer again, on whichever core   *)
(* the drop happens.  A frame may span buffers; the parts are joined in a  *)
(* per-queue chain until the one that ends the frame.  The masked tail     *)
(* must never meet the device's head, so one ring position stays empty.    *)
(*                                                                         *)
(* dqo_repost is three steps: it claims a position, writes the descriptor  *)
(* and rings the doorbell with the position it claimed.                    *)
(***************************************************************************)
CONSTANTS MaxBatch,    \* MAX_BATCH
          Droppers,    \* the cores that drop received buffers
          MaxParts,    \* buffers a frame may take
          MayBeEmpty,  \* whether the device may report a length of zero
          MayTimeOut   \* whether a frame's parts may straddle PENDING_CHAIN_TIMEOUT_MS

VARIABLES cons,           \* RxQueue
          post,           \* the data ring and its doorbell
          chain, stale,   \* PENDING_CHAINS, and whether its time is up
          drop,           \* what each core's dqo_repost is at
          arrived, part,  \* frames arrived, and the part due next
          got             \* the frames delivered

rxq == <<fill, cons, gen, post, tail, chain, stale, held, drop, got>>
dqoRxDevice == <<compl, dhead, dcompl, arrived, part>>
dqoRxVars == <<rxq, dqoRxDevice>>

Bufs == 0 .. Ring - 1
NoBuf == -1
NoEntry == [gen |-> 0, buf |-> NoBuf, part |-> <<0, 0>>, eop |-> FALSE, empty |-> FALSE]
AtRest == [pc |-> "rest", buf |-> NoBuf, slot |-> 0]

\* post_initial_rx_for_qp: all but one position.
post_initial_rx_for_qp == /\ post = [i \in RingSlots |-> IF i < Ring - 1 THEN i ELSE NoBuf]
                          /\ fill = Ring - 1
                          /\ tail = Ring - 1
DqoRxInit == /\ post_initial_rx_for_qp
             /\ cons = 0 /\ gen = 1
             /\ compl = [i \in RingSlots |-> NoEntry]
             /\ chain = << >> /\ stale = FALSE
             /\ held = << >>
             /\ drop = [c \in Droppers |-> AtRest]
             /\ dhead = 0 /\ dcompl = 0
             /\ arrived = 0 /\ part = 1
             /\ got = << >>

-----------------------------------------------------------------------------
(* The device: it fills the buffer at its head, unless the tail says the   *)
(* ring is empty.                                                          *)

DqoRxReceive(eop, empty) ==
         /\ dhead # tail
         /\ part = 1 => arrived < MaxFrames
         /\ part = MaxParts => eop
         /\ empty => MayBeEmpty /\ part = 1 /\ eop
         /\ compl' = [compl EXCEPT ![Mask(dcompl)] =
                         [gen |-> 1 - ((dcompl \div Ring) % 2), buf |-> post[dhead],
                          part |-> <<IF part = 1 THEN arrived + 1 ELSE arrived, part>>, eop |-> eop, empty |-> empty]]
         /\ dhead' = Mask(dhead + 1)
         /\ dcompl' = (dcompl + 1) % (2 * Ring)
         /\ arrived' = IF part = 1 THEN arrived + 1 ELSE arrived
         /\ part' = IF eop THEN 1 ELSE part + 1
         /\ UNCHANGED rxq

-----------------------------------------------------------------------------
(* poll_qp_inner: up to a batch of completions of the current generation. *)

\* One completion: skipped when it has no data, delivered on its own, or
\* added to the chain, which is delivered with the part that ends it.
Buffer(c) == [buf |-> c.buf, part |-> c.part]
poll_one(q) ==
    LET c == compl[Mask(q.cons)]
        whole == Append(q.chain, Buffer(c))
    IN  [q EXCEPT !.cons = Wrap(q.cons + 1),
                  !.gen = IF Mask(q.cons + 1) = 0 THEN 1 - q.gen ELSE q.gen,
                  !.chain = IF c.empty THEN q.chain ELSE IF c.eop THEN << >> ELSE whole,
                  !.out = IF ~c.empty /\ c.eop THEN Append(q.out, whole) ELSE q.out]
RECURSIVE poll_from(_, _)
poll_from(q, n) == IF n = 0 \/ compl[Mask(q.cons)].gen # q.gen THEN q
                   ELSE poll_from(poll_one(q), n - 1)

\* A chain that waited too long is dropped first: its buffers are posted
\* again, by the polling core.
dqo_poll_qp_inner ==
        LET dropped == IF stale THEN << [parts |-> chain] >> ELSE << >>
            q == poll_from([cons |-> cons, gen |-> gen, chain |-> IF stale THEN << >> ELSE chain, out |-> << >>], MaxBatch)
        IN  /\ cons' = q.cons /\ gen' = q.gen /\ chain' = q.chain
            /\ stale' = FALSE
            /\ held' = held \o dropped \o [i \in DOMAIN q.out |-> [parts |-> q.out[i]]]
            /\ got' = got \o [i \in DOMAIN q.out |-> [j \in DOMAIN q.out[i] |-> q.out[i][j].part]]
            /\ q.cons # cons \/ stale
            /\ UNCHANGED <<fill, post, tail, drop, dqoRxDevice>>

PENDING_CHAIN_TIMEOUT_MS == /\ MayTimeOut /\ chain # << >> /\ ~stale
                            /\ stale' = TRUE
                            /\ UNCHANGED <<fill, cons, gen, post, tail, chain, held, drop, got, dqoRxDevice>>

-----------------------------------------------------------------------------
(* dqo_repost, from the drop of a delivered chain, buffer by buffer. *)

dqo_repost(c) ==
    \/ /\ drop[c].pc = "rest"
       /\ \E i \in DOMAIN held :
            LET b == Head(held[i].parts).buf
            IN  /\ drop' = [drop EXCEPT ![c] = [pc |-> "write", buf |-> b, slot |-> fill]]
                /\ held' = IF Len(held[i].parts) = 1 THEN RemoveAt(held, i)
                           ELSE [held EXCEPT ![i].parts = Tail(@)]
       /\ fill' = Wrap(fill + 1)
       /\ UNCHANGED <<post, tail>>
    \/ /\ drop[c].pc = "write"
       /\ post' = [post EXCEPT ![Mask(drop[c].slot)] = drop[c].buf]
       /\ drop' = [drop EXCEPT ![c].pc = "ring"]
       /\ UNCHANGED <<fill, tail, held>>
    \/ /\ drop[c].pc = "ring"
       /\ tail' = Mask(drop[c].slot + 1)
       /\ drop' = [drop EXCEPT ![c] = AtRest]
       /\ UNCHANGED <<fill, post, held>>
Repost(c) == dqo_repost(c) /\ UNCHANGED <<cons, gen, chain, stale, got, dqoRxDevice>>

DqoRxNext == \/ \E eop, empty \in BOOLEAN : DqoRxReceive(eop, empty)
             \/ dqo_poll_qp_inner
             \/ PENDING_CHAIN_TIMEOUT_MS
             \/ \E c \in Droppers : Repost(c)

DqoRxSpec == DqoRxInit /\ [][DqoRxNext]_dqoRxVars

-----------------------------------------------------------------------------
Posted == {post[i] : i \in {j \in RingSlots : \E k \in 0 .. Ring - 1 : j = Mask(dhead + k) /\ k < Mask(tail - dhead)}}
Unread == {i \in RingSlots : \E k \in 0 .. Ring - 1 : i = Mask(cons + k) /\ k < Mask(dcompl - cons)}
Handles == {p.buf : p \in UNION {ToSet(held[i].parts) : i \in DOMAIN held} \cup ToSet(chain)}
             \cup {drop[c].buf : c \in {d \in Droppers : drop[d].pc = "write"}}

\* A buffer is never offered to the device while a handle, the chain or an
\* unread completion still owns it, and no buffer is owned twice: a frame
\* in the application's hands is not overwritten by a later one.
BufferHasOneOwner ==
    /\ NoBuf \notin Posted
    /\ Posted \cap Handles = {}
    /\ Posted \cap {compl[i].buf : i \in Unread} = {}
    /\ Handles \cap {compl[i].buf : i \in Unread} = {}

\* When nothing is in hand every buffer but the spare is with the device, so
\* the ring never runs dry for good: skipped, timed out and delivered
\* buffers all come back.
GveRingIsFed == (Unread = {} /\ held = << >> /\ chain = << >> /\ \A c \in Droppers : drop[c] = AtRest)
                 => Cardinality(Posted) = Ring - 1

\* Frames come up whole, each once and in order: a delivered chain is parts
\* 1 .. n of one frame, later than the frame before it.
GveFramesWhole ==
    \A i \in DOMAIN got :
       /\ \A j \in DOMAIN got[i] : got[i][j] = <<got[i][1][1], j>>
       /\ i > 1 => got[i-1][1][1] < got[i][1][1]

-----------------------------------------------------------------------------
(***************************************************************************)
(* One transmit queue of the gVNIC driver in the GQI_QPL format            *)
(* (src/crates/drivers/gve/src/gqi.rs, tx.rs).                             *)
(*                                                                         *)
(* Counts and doorbells are full width.  A packet takes a slot of the      *)
(* small pool and one descriptor, a super-segment a slot of the big pool   *)
(* and two.  The device publishes one number, the descriptors it has       *)
(* finished with; tx_drain reads the finished descriptors back from the    *)
(* ring to learn which slot of which pool each of them frees.              *)
(***************************************************************************)
CONSTANTS SmallSlots,   \* TX_SMALL_POOL_SLOTS
          ReportsHalf   \* whether the device may report a super-segment half done

VARIABLES mem,      \* descriptors, slots, slot_used
          counter,  \* the doorbell, the device's counter
          read      \* the device: descriptors read, frames sent

gqiTxDriver == <<fill, done, kicked, ring, mem, used, held, next>>
gqiTxVars == <<gqiTxDriver, tail, counter, read, wire>>

Small == {<<"small", i>> : i \in 0 .. SmallSlots - 1}
Bigs == {<<"big", i>> : i \in 0 .. BigSlots - 1}
NoSlot == <<"none", 0>>

GqiTxInit == /\ fill = 0 /\ done = 0 /\ kicked = 0
             /\ ring = [i \in 0 .. Ring - 1 |-> [type |-> "std", slot |-> NoSlot]]
             /\ mem = [s \in Small \cup Bigs |-> 0]
             /\ used = {}
             /\ held = NoSlot
             /\ next = 1
             /\ tail = 0 /\ counter = 0 /\ read = 0
             /\ wire = << >>

\* tx_drain: TSO frees its big slot, STD its small slot, SEG nothing.
gqi_tx_drain == LET finished == {Mask(done + k) : k \in 0 .. Wrap(counter - done) - 1}
                IN  used \ {ring[i].slot : i \in {j \in finished : ring[j].type # "seg"}}

First(pool, taken) == CHOOSE s \in pool \ taken : \A t \in pool \ taken : s[2] <= t[2]

\* Claim a slot after a drain; when the ring or the pool is full the spin
\* kicks what is unannounced and tries again, until the breaker gives up and
\* the frame is refused.
acquire_tx_buf_for_qp ==
    /\ held = NoSlot
    /\ next <= MaxFrames
    /\ done' = counter
    /\ IF Wrap(fill - counter) < Ring /\ ~(Small \subseteq gqi_tx_drain)
       THEN /\ held' = First(Small, gqi_tx_drain)
            /\ used' = gqi_tx_drain \cup {held'}
            /\ mem' = [mem EXCEPT ![held'] = next]
            /\ next' = next + 1
            /\ UNCHANGED <<kicked, tail>>
       ELSE /\ used' = gqi_tx_drain
            /\ kicked' = fill /\ tail' = fill
            /\ UNCHANGED <<held, mem, next>>
    /\ UNCHANGED <<fill, ring, counter, read, wire>>

\* A super-segment never waits: no room for two descriptors or no slot is None.
acquire_tx_tso_buf_for_qp ==
    /\ held = NoSlot
    /\ next <= MaxFrames
    /\ done' = counter
    /\ IF Wrap(fill - counter) < Ring - 1 /\ ~(Bigs \subseteq gqi_tx_drain)
       THEN /\ held' = First(Bigs, gqi_tx_drain)
            /\ used' = gqi_tx_drain \cup {held'}
            /\ mem' = [mem EXCEPT ![held'] = next]
            /\ next' = next + 1
       ELSE used' = gqi_tx_drain /\ UNCHANGED <<held, mem, next>>
    /\ UNCHANGED <<fill, kicked, ring, tail, counter, read, wire>>

gqi_kick(n) == LET tell == ~Deferred \/ Wrap(n - done) >= Ring - NearFull
               IN  /\ fill' = n
                   /\ tail' = IF tell THEN n ELSE tail
                   /\ kicked' = IF tell THEN n ELSE kicked

submit_tx_inner == /\ held \in Small
                   /\ ring' = [ring EXCEPT ![Mask(fill)] = [type |-> "std", slot |-> held]]
                   /\ gqi_kick(Wrap(fill + 1))
                   /\ held' = NoSlot
                   /\ UNCHANGED <<done, mem, used, next, counter, read, wire>>

submit_tx_tso_inner == /\ held \in Bigs
                       /\ ring' = [ring EXCEPT ![Mask(fill)] = [type |-> "tso", slot |-> held],
                                               ![Mask(fill + 1)] = [type |-> "seg", slot |-> held]]
                       /\ gqi_kick(Wrap(fill + 2))
                       /\ held' = NoSlot
                       /\ UNCHANGED <<done, mem, used, next, counter, read, wire>>

\* A handle dropped, or submitted with a length that does not fit.
release_tx_slot == /\ held # NoSlot
                   /\ used' = used \ {held}
                   /\ held' = NoSlot
                   /\ next' = next - 1
                   /\ UNCHANGED <<fill, done, kicked, ring, mem, tail, counter, read, wire>>

flush_tx_kick_if_dirty_qp == /\ held = NoSlot
                             /\ fill # kicked
                             /\ tail' = fill /\ kicked' = fill
                             /\ UNCHANGED <<fill, done, ring, mem, used, held, next, counter, read, wire>>

\* The device reads descriptors in order and reports the count later.
DevSend == /\ read # tail
           /\ LET c == ring[Mask(read)]
              IN  wire' = IF c.type = "tso" THEN wire ELSE Append(wire, mem[c.slot])
           /\ read' = Wrap(read + 1)
           /\ UNCHANGED <<gqiTxDriver, tail, counter>>
DevReport == /\ counter # read
             /\ IF ring[Mask(counter)].type = "tso" /\ ~ReportsHalf
                THEN Wrap(read - counter) > 1 /\ counter' = Wrap(counter + 2)
                ELSE counter' = Wrap(counter + 1)
             /\ UNCHANGED <<gqiTxDriver, tail, read, wire>>

GqiTxNext == \/ acquire_tx_buf_for_qp \/ acquire_tx_tso_buf_for_qp
             \/ submit_tx_inner \/ submit_tx_tso_inner \/ release_tx_slot
             \/ flush_tx_kick_if_dirty_qp
             \/ DevSend \/ DevReport

GqiTxSpec == GqiTxInit /\ [][GqiTxNext]_gqiTxVars

-----------------------------------------------------------------------------
\* What leaves is what was submitted, once and in order: no slot is lent
\* again and no descriptor overwritten before the device has read it.
GqiWireExact == /\ \A i \in DOMAIN wire : wire[i] = i
                /\ (read = fill /\ held = NoSlot) => Len(wire) = next - 1

\* A slot is in use exactly while its handle or an unfinished descriptor
\* names it: both pools are whole again once the ring has drained, whatever
\* mix of packets and super-segments went through it.
GqiSlotsExact == used = ({held} \ {NoSlot})
                          \cup {ring[Mask(done + k)].slot : k \in 0 .. Wrap(fill - done) - 1}

-----------------------------------------------------------------------------
(***************************************************************************)
(* One receive queue of the gVNIC driver in the GQI_QPL format, and the    *)
(* interrupt its core sleeps under (src/crates/drivers/gve/src/gqi.rs:     *)
(* poll_qp_inner; irq.rs).                                                 *)
(*                                                                         *)
(* Page i of the ring belongs to position i for good: a frame is copied    *)
(* into a slab of the queue's pool, or dropped when the pool is empty, and *)
(* the whole batch is handed back with one doorbell.  A completion is new  *)
(* when its three-bit sequence number, which runs 1 .. 7, is the expected  *)
(* one.                                                                    *)
(***************************************************************************)
CONSTANTS MaxSeq,  \* the last sequence number, 7
          Slabs    \* the pool of 256 slabs

VARIABLES expected,     \* RxQueue
          page,         \* completions and pages, written by the device
          dcons, dseq,  \* the device: doorbell, position, sequence
          dropped,      \* slabs out, frames dropped, frames delivered
          masked, irq,  \* the queue's interrupt: masked, raised
          core          \* "run", "armed" or "asleep"

gqiRxDevice == <<compl, page, dcons, dseq, arrived>>
gqiRxVars == <<fill, cons, expected, gqiRxDevice, tail, held, dropped, got, masked, irq, core>>

After(s) == IF s = MaxSeq THEN 1 ELSE s + 1

GqiRxInit == /\ fill = Ring /\ cons = 0 /\ expected = 1
             /\ compl = [i \in 0 .. Ring - 1 |-> [seq |-> 0, empty |-> FALSE]]
             /\ page = [i \in 0 .. Ring - 1 |-> 0]
             /\ tail = Ring /\ dcons = 0 /\ dseq = 1
             /\ arrived = 0
             /\ held = {} /\ dropped = {} /\ got = << >>
             /\ masked = TRUE /\ irq = FALSE /\ core = "run"

\* External: a frame (or a completion of no length) in the next posted page.
GqiRxReceive(empty) == /\ dcons # tail
                       /\ arrived < MaxFrames
                       /\ arrived' = arrived + 1
                       /\ compl' = [compl EXCEPT ![Mask(dcons)] = [seq |-> dseq, empty |-> empty]]
                       /\ page' = [page EXCEPT ![Mask(dcons)] = arrived + 1]
                       /\ dcons' = Wrap(dcons + 1) /\ dseq' = After(dseq)
                       /\ irq' = (irq \/ ~masked)
                       /\ dropped' = IF empty THEN dropped \cup {arrived + 1} ELSE dropped
                       /\ UNCHANGED <<fill, cons, expected, tail, held, got, masked, core>>

\* poll_qp_inner: the batch from cons on whose sequence numbers follow on.
Batch == CHOOSE n \in 0 .. MaxBatch :
            /\ \A k \in 0 .. n - 1 : compl[Mask(cons + k)].seq = ((expected + k - 1) % MaxSeq) + 1
            /\ n = MaxBatch \/ compl[Mask(cons + n)].seq # ((expected + n - 1) % MaxSeq) + 1
Frames(n) == SelectSeq([k \in 1 .. n |-> IF compl[Mask(cons + k - 1)].empty THEN 0 ELSE page[Mask(cons + k - 1)]],
                       LAMBDA f : f # 0)
gqi_poll_qp_inner ==
        /\ core = "run"
        /\ Batch > 0
        /\ LET fs == Frames(Batch)
               room == Slabs - Cardinality(held)
               kept == IF Len(fs) <= room THEN fs ELSE SubSeq(fs, 1, room)
           IN  /\ got' = got \o kept
               /\ held' = held \cup ToSet(kept)
               /\ dropped' = dropped \cup (ToSet(fs) \ ToSet(kept))
        /\ cons' = Wrap(cons + Batch)
        /\ expected' = ((expected + Batch - 1) % MaxSeq) + 1
        /\ fill' = Wrap(fill + Batch)
        /\ tail' = Wrap(fill + Batch)
        /\ UNCHANGED <<gqiRxDevice, masked, irq, core>>

\* A delivered slab goes back to the pool.
Free(f) == /\ f \in held
           /\ held' = held \ {f}
           /\ UNCHANGED <<fill, cons, expected, gqiRxDevice, tail, dropped, got, masked, irq, core>>

\* arm_rx_idle unmasks and asks for an event for what is pending already; it
\* promises no re-check of its own.
arm_rx_idle == /\ core = "run" /\ Batch = 0
               /\ masked' = FALSE
               /\ irq' = (irq \/ dcons # cons)
               /\ core' = "armed"
               /\ UNCHANGED <<fill, cons, expected, gqiRxDevice, tail, held, dropped, got>>
Halt == /\ core = "armed"
        /\ core' = "asleep"
        /\ UNCHANGED <<fill, cons, expected, gqiRxDevice, tail, held, dropped, got, masked, irq>>

\* gve_rx_isr masks the vector; the core leaves its halt.
gve_rx_isr == /\ irq
              /\ irq' = FALSE /\ masked' = TRUE
              /\ core' = "run"
              /\ UNCHANGED <<fill, cons, expected, gqiRxDevice, tail, held, dropped, got>>

GqiRxNext == \/ \E empty \in BOOLEAN : GqiRxReceive(empty)
             \/ gqi_poll_qp_inner
             \/ \E f \in held : Free(f)
             \/ arm_rx_idle \/ Halt \/ gve_rx_isr

GqiRxSpec == GqiRxInit /\ [][GqiRxNext]_gqiRxVars /\ WF_gqiRxVars(gqi_poll_qp_inner) /\ WF_gqiRxVars(gve_rx_isr)

-----------------------------------------------------------------------------
\* Frames come up once, in order, with their own bytes: the sequence numbers
\* tell a new completion from the one a lap ago in the same place, and no
\* page is handed back before its frame is copied out of it.
GqiFramesExact == /\ \A i \in DOMAIN got : i > 1 => got[i-1] < got[i]
                  /\ ToSet(got) \cap dropped = {}
                  /\ Cardinality(ToSet(got) \cup dropped) >= arrived - Wrap(dcons - cons)

\* Every frame is delivered, or dropped for want of a slab, and the core is
\* woken for it.
GqiFramesEnd == \A f \in 1 .. MaxFrames : arrived >= f ~> f \in ToSet(got) \cup dropped
=============================================================================
