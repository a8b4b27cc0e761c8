------------------------------- MODULE TcpConn -------------------------------
(***************************************************************************)
(* A TCP connection between two nodes of this stack (crates/net/tcp): the  *)
(* handshake, the retransmission queue with its RTO, tail-loss-probe, RACK *)
(* and persist timers, SACK, the receive ring and the out-of-order queue,  *)
(* the close, and the futures an application polls.  The network loses,    *)
(* duplicates and reorders segments.                                       *)
(*                                                                         *)
(* Every handler runs to completion on the core that owns the connection,  *)
(* so a handler is one action: an operator maps the connection record to   *)
(* its successor, and the segments it sends collect in the field `out'.    *)
(* Sequence numbers are taken modulo Mod; a byte of payload is its         *)
(* position in the sender's stream.  A deadline is the name of a timer in  *)
(* the set `armed': the clock may pass any armed deadline at any tick.     *)
(***************************************************************************)
EXTENDS Integers, FiniteSets, Sequences, SequencesExt

CONSTANTS
    Mod,            \* size of the sequence space (2^32)
    ClientIsn,      \* initial sequence number of the client
    ServerIsns,     \* those of the server's successive incarnations
    Mss,
    OooMaxSegs, OooMaxBytes,
    InitialWindow, MaxWindow, SlowStartCap, U32Max,
    RtxMaxRetries, FinRetxMax, PersistMaxProbes, SynRetxMax, TlpMaxProbes,
    Plans,          \* what may happen to the connection in a run, see `plan'
    NetCap, MaxDups \* bounds: segments in flight, duplicated deliveries

VARIABLES
    conn,  \* side -> connection record (the slot on the owning core)
    wrote, \* side -> bytes of its stream handed to the wire for the first time
    got,   \* side -> bytes its application has received
    eof,   \* side -> its application was told the stream has ended
    incs,  \* server incarnations so far
    net,   \* segments in flight
    dups,  \* duplicated deliveries so far
    plan   \* ring: RX_RING_BYTES; parts: side -> lengths of the buffers of the chain it sends
           \* modes: the receive futures the applications use; cancels: may a parked one be dropped?
           \* refuses: may the driver refuse a frame (TX ring full, no MAC)?
           \* oom: may an allocation fail?  shuts: may the stack be shut down?

vars == <<conn, wrote, got, eof, incs, net, dups, plan>>

Sides == {"client", "server"}
Peer(s) == IF s = "client" THEN "server" ELSE "client"

CC == INSTANCE CongestionControl WITH TimeScale <- 1, BetaNum <- 1, BetaDen <- 1

Add(a, n) == (a + n) % Mod
Sub(a, b) == (a - b) % Mod
SeqLt(a, b) == Sub(a, b) >= Mod \div 2
Least(a, b) == IF a < b THEN a ELSE b

\* TcpConnection::new: a slot in its initial state.
Fresh ==
    [st |-> "Closed", una |-> 0, nxt |-> 0, wnd |-> 0, wl1 |-> 0, wl2 |-> 0,
     rcvNxt |-> 0, rcvWnd |-> plan.ring, ring |-> <<>>, chunk |-> <<>>, want |-> FALSE,
     ooo |-> <<>>, rtx |-> <<>>, armed |-> {}, backoff |-> 0, retries |-> 0, probes |-> 0,
     tlps |-> 0, dupAcks |-> 0, hint |-> FALSE, seeded |-> FALSE, anchor |-> -1,
     allocFailed |-> FALSE, cc |-> CC!NewReno, recvW |-> FALSE, sendW |-> FALSE,
     held |-> FALSE, accepted |-> FALSE, failure |-> "None", out |-> {},
     iss |-> 0, irs |-> 0] \* history: the initial sequence numbers of both directions

RxFree(c) == plan.ring - 1 - Len(c.ring)
Flight(c) == Sub(c.nxt, c.una)
UsableWindow(c) == LET w == Least(CC!Window(c.cc), c.wnd)
                   IN  IF w < Flight(c) THEN 0 ELSE w - Flight(c)
InFlightBytes(c) == FoldSeq(LAMBDA e, n : n + Len(e.data), 0, c.rtx)
End(e) == Add(e.seq, Len(e.data))

Arm(c, t) == [c EXCEPT !.armed = @ \cup {t}]
Disarm(c, ts) == [c EXCEPT !.armed = @ \ ts]

Segment(c, flags, seq, data) ==
    [flags |-> flags, seq |-> seq, ack |-> c.rcvNxt, wnd |-> RxFree(c), data |-> data,
     sack |-> {}]
Emit(c, m) == [c EXCEPT !.out = @ \cup {m}]

\* free_connection: both parked wakers are woken, the generation moves on (no
\* handle is good any more) and the slot is reset.
FreeConnection(c) == [Fresh EXCEPT !.out = c.out]

-----------------------------------------------------------------------------
(* The out-of-order queue and the receive ring. *)

\* The blocks an ACK reports: the stored runs, adjacent ones merged, the
\* first four.
SackBlocks(c) ==
    LET bytes == UNION {{Add(e.seq, i) : i \in 0 .. Len(e.data) - 1} : e \in Range(c.ooo)}
        lefts == {b \in bytes : Sub(b, 1) \notin bytes}
        right(l) == CHOOSE n \in 1 .. Mod : Add(l, n) \notin bytes
                                            /\ \A k \in 0 .. n - 1 : Add(l, k) \in bytes
        nearest(l) == Cardinality({k \in lefts : Sub(k, c.rcvNxt) < Sub(l, c.rcvNxt)}) < 4
    IN  {<<l, Add(l, right(l))>> : l \in {k \in lefts : nearest(k)}}

EmitAck(c) == Emit(c, [Segment(c, {"ACK"}, c.nxt, <<>>) EXCEPT !.sack = SackBlocks(c)])

OooInsert(c, seq, data0) ==
    LET off == Sub(seq, c.rcvNxt)
        data == SubSeq(data0, 1, Least(Len(data0), OooMaxBytes - off))
        total == FoldSeq(LAMBDA e, n : n + Len(e.data), 0, c.ooo)
        start(e) == Sub(e.seq, c.rcvNxt)
        clash == \E e \in Range(c.ooo) :
                    off < start(e) + Len(e.data) /\ start(e) < off + Len(data)
        before == SelectSeq(c.ooo, LAMBDA e : start(e) <= off)
        after == SelectSeq(c.ooo, LAMBDA e : start(e) > off)
    IN  IF data0 = <<>> \/ Len(c.ooo) >= OooMaxSegs \/ off = 0 \/ off >= OooMaxBytes
           \/ clash \/ total + Len(data) > OooMaxBytes
        THEN c
        ELSE [c EXCEPT !.ooo = before \o <<[seq |-> seq, data |-> data]>> \o after]

\* rx_ring_push: what fits; rcv_nxt moves by what was stored.
RxPush(c, data) ==
    LET n == Least(Len(data), RxFree(c))
    IN  [c EXCEPT !.ring = @ \o SubSeq(data, 1, n), !.rcvNxt = Add(@, n)]

\* drain_ooo with take_at: covered runs are dropped, a run that starts at or
\* before rcv_nxt is delivered, and a full ring ends the drain (the rest of
\* that run is dropped; the peer still holds it).
RECURSIVE DrainOoo(_)
DrainOoo(c) ==
    IF c.ooo = <<>> \/ (Head(c.ooo).seq # c.rcvNxt /\ SeqLt(c.rcvNxt, Head(c.ooo).seq)) THEN c
    ELSE LET e == Head(c.ooo)
             skip == Sub(c.rcvNxt, e.seq)
             tail == SubSeq(e.data, skip + 1, Len(e.data))
             taken == [c EXCEPT !.ooo = Tail(@)]
             pushed == RxPush(taken, tail)
         IN  CASE skip >= Len(e.data) -> DrainOoo(taken)
               [] Sub(pushed.rcvNxt, c.rcvNxt) < Len(tail) -> pushed
               [] OTHER -> DrainOoo(pushed)

\* Tell the peer of a window that reopened past one MSS.
MaybeSendWindowUpdate(c) ==
    IF c.st = "Established" /\ c.rcvWnd < Mss /\ RxFree(c) >= Mss
    THEN Emit([c EXCEPT !.rcvWnd = RxFree(c)], Segment(c, {"ACK"}, c.nxt, <<>>))
    ELSE c

-----------------------------------------------------------------------------
(* The retransmission queue. *)

\* arm_rtx: the RTO, and the tail-loss probe when an RTT sample allows one.
ArmRtx(c) ==
    LET tlp == IF c.seeded /\ c.tlps < TlpMaxProbes THEN {"tlp"} ELSE {}
    IN  [c EXCEPT !.armed = (@ \ {"tlp"}) \cup {"rtx"} \cup tlp]

\* The timer is not started.
RtxPushUnarmed(c, e) == [c EXCEPT !.rtx = Append(@, e), !.anchor = IF @ = -1 THEN End(e) ELSE @]

RtxPush(c, e) ==
    LET queued == [c EXCEPT !.rtx = Append(@, e), !.anchor = IF @ = -1 THEN End(e) ELSE @]
    IN  IF c.rtx = <<>> /\ "rtx" \notin c.armed THEN ArmRtx(queued) ELSE queued

\* One entry for each buffer of the chain that the sent prefix touches.
Boundary(s, k) == FoldSeq(LAMBDA n, acc : n + acc, 0, SubSeq(plan.parts[s], 1, k))
Entries(s, c, from, n) ==
    LET piece(k) == SelectSeq([i \in 1 .. n |-> from + i],
                              LAMBDA p : Boundary(s, k - 1) < p /\ p <= Boundary(s, k))
        all == [k \in 1 .. Len(plan.parts[s]) |->
                  [seq |-> IF piece(k) = <<>> THEN 0 ELSE Add(c.nxt, Head(piece(k)) - from - 1),
                   data |-> piece(k), sacked |-> FALSE]]
    IN  SelectSeq(all, LAMBDA e : e.data # <<>>)

\* rtx_on_data_sent: called with snd_nxt already past the n bytes sent.  A
\* failed push gives up retransmission until everything is acknowledged.
RtxOnDataSent(c, es, oom) ==
    CASE es = <<>> \/ c.allocFailed -> c
      [] es # <<>> /\ ~c.allocFailed /\ oom ->
           Disarm([c EXCEPT !.rtx = <<>>, !.allocFailed = TRUE], {"rtx"})
      [] OTHER -> FoldLeft(RtxPush, c, es)

\* rtx_ack: entries wholly below the acknowledgement go, the next is trimmed.
RtxAck(c, ack) ==
    LET live == SelectSeq(c.rtx, LAMBDA e : SeqLt(ack, End(e)))
        trim(e) == [e EXCEPT !.seq = ack, !.data = SubSeq(@, Sub(ack, e.seq) + 1, Len(@))]
    IN  IF live = <<>> THEN live
        ELSE IF SeqLt(Head(live).seq, ack) THEN <<trim(Head(live))>> \o Tail(live) ELSE live

\* emit_rtx_entry: at most one segment of the entry; Karn's rule drops the
\* running RTT measurement.
EmitRtxEntry(c, i) ==
    IF i \notin DOMAIN c.rtx THEN c
    ELSE LET e == c.rtx[i]
         IN  Emit([c EXCEPT !.anchor = -1],
                  Segment(c, {"ACK"}, e.seq, SubSeq(e.data, 1, Least(Len(e.data), Mss))))

RtxOnAck(c, oldUna) ==
    IF c.allocFailed
    THEN IF c.una = c.nxt THEN [c EXCEPT !.allocFailed = FALSE, !.backoff = 0] ELSE c
    ELSE IF c.una = oldUna THEN c
    ELSE LET left == RtxAck(c, c.una)
             acked == InFlightBytes(c) - InFlightBytes([c EXCEPT !.rtx = left])
             timed == c.anchor # -1 /\ ~SeqLt(c.una, c.anchor)
             next == [c EXCEPT !.rtx = left, !.cc = CC!OnAck(@, acked, 1, 0),
                               !.seeded = @ \/ timed, !.anchor = IF timed THEN -1 ELSE @,
                               !.backoff = 0, !.tlps = 0]
         IN  IF left = <<>> THEN Disarm(next, {"rtx", "tlp"}) ELSE ArmRtx(next)

\* The RTO: everything SACKed is forgotten, the window collapses, the oldest
\* entry goes out again.
RetransmitOldest(c) ==
    IF c.rtx = <<>> THEN Disarm(c, {"rtx"})
    ELSE LET cut == [c EXCEPT !.cc = CC!OnRto(@),
                              !.rtx = [i \in DOMAIN @ |-> [@[i] EXCEPT !.sacked = FALSE]]]
         IN  Arm(Disarm([EmitRtxEntry(cut, 1) EXCEPT !.backoff = @ + 1], {"tlp"}), "rtx")

SendTlpProbe(c) ==
    IF c.rtx = <<>> THEN Disarm(c, {"tlp"})
    ELSE LET probe == EmitRtxEntry([c EXCEPT !.tlps = @ + 1], 1)
         IN  IF probe.tlps < TlpMaxProbes THEN Arm(probe, "tlp") ELSE Disarm(probe, {"tlp"})

\* apply_sack: an entry inside one reported block is SACKed.
ApplySack(c, blocks) ==
    LET covered(e) == \E b \in blocks : ~SeqLt(e.seq, b[1]) /\ ~SeqLt(b[2], End(e))
        news == \E i \in DOMAIN c.rtx : ~c.rtx[i].sacked /\ covered(c.rtx[i])
    IN  [c EXCEPT !.rtx = [i \in DOMAIN @ |-> [@[i] EXCEPT !.sacked = @ \/ covered(c.rtx[i])]],
                  !.hint = @ \/ news]

Sacked(c) == {i \in DOMAIN c.rtx : c.rtx[i].sacked}
EmitAll(c, is) == FoldLeft(EmitRtxEntry, c, SetToSortSeq(is, <))

\* Third duplicate ACK: the holes below the highest SACKed byte, or the oldest.
FastRetransmit(c) ==
    LET top == CHOOSE i \in Sacked(c) : \A j \in Sacked(c) : j <= i
        cut == [c EXCEPT !.cc = CC!OnLoss(@, FALSE)]
    IN  IF Sacked(c) = {} THEN EmitRtxEntry(cut, 1)
        ELSE EmitAll(cut, {i \in 1 .. top : ~c.rtx[i].sacked})

OnDupAck(c) ==
    LET n == [c EXCEPT !.dupAcks = Least(@ + 1, 4)]
    IN  IF n.dupAcks = 3 THEN FastRetransmit(n) ELSE n

\* rack_detect: entries sent before the highest SACKed one are lost once
\* they have aged; `aged' holds the sequence numbers the clock has passed.
RackDetect(c, aged) ==
    LET top == CHOOSE i \in Sacked(c) : \A j \in Sacked(c) : j <= i
        older == {i \in 1 .. top - 1 : ~c.rtx[i].sacked}
        lost == {i \in older : c.rtx[i].seq \in aged}
        quiet == Disarm(c, {"rack"})
        cut == IF lost = {} THEN quiet
               ELSE EmitAll([quiet EXCEPT !.cc = CC!OnLoss(@, FALSE)], lost)
    IN  IF ~c.hint \/ ~c.seeded \/ c.rtx = <<>> THEN quiet
        ELSE IF Sacked(c) = {} THEN [quiet EXCEPT !.hint = FALSE]
        ELSE IF older \ lost # {} THEN Arm(cut, "rack") ELSE cut

-----------------------------------------------------------------------------
(* tcp_receive_inner *)

\* fail_connect: the slot is kept, for the connect future to see the reason.
FailConnect(c, why) ==
    Disarm([c EXCEPT !.st = "Closed", !.failure = why, !.retries = 0, !.anchor = -1,
                     !.recvW = FALSE, !.sendW = FALSE], {"life"})

RstIn(c, m) ==
    CASE c.st = "Closed" -> c
      [] c.st = "SynSent" ->
           IF "ACK" \in m.flags /\ m.ack = c.nxt THEN FailConnect(c, "Refused") ELSE c
      [] OTHER -> IF m.seq = c.rcvNxt THEN FreeConnection(c) ELSE c

SendRst(c, seq, ack) ==
    Emit(c, [flags |-> {"RST", "ACK"}, seq |-> seq, ack |-> ack, wnd |-> 0,
             data |-> <<>>, sack |-> {}])

\* send_challenge_ack; one that the token bucket holds back is one the network
\* loses (Step).
SendChallengeAck(c) == Emit(c, Segment(c, {"ACK"}, c.nxt, <<>>))

\* A SYN at the listener: a connection still in SynReceived or closing gives
\* way to the new one.
SynIn(s, c, m, env) ==
    LET opened == [Fresh EXCEPT !.st = "SynReceived", !.nxt = Add(env.isn, 1), !.una = env.isn,
                                !.wnd = m.wnd, !.wl1 = m.seq, !.rcvNxt = Add(m.seq, 1),
                                !.iss = env.isn, !.irs = m.seq]
    IN  CASE c.st = "Established" -> SendChallengeAck(c)
          [] c.st = "SynSent" -> c
          [] c.st \notin {"Established", "SynSent"} /\ s # "server" ->
               SendRst(c, 0, Add(m.seq, 1))
          [] OTHER ->
               IF env.oom THEN SendRst(Fresh, 0, Add(m.seq, 1))
               ELSE Emit(opened, [Segment(opened, {"SYN", "ACK"}, env.isn, <<>>)
                                  EXCEPT !.wnd = plan.ring])

\* handle_syn_sent: the answer to an active open.
SynSentIn(c, m) ==
    LET timed == c.anchor # -1 /\ ~SeqLt(m.ack, c.anchor)
        open == [c EXCEPT !.st = "Established", !.rcvNxt = Add(m.seq, 1), !.una = m.ack,
                          !.wnd = m.wnd, !.wl1 = m.seq, !.wl2 = m.ack, !.retries = 0,
                          !.cc = CC!NewReno, !.seeded = @ \/ timed,
                          !.anchor = IF timed THEN -1 ELSE @,
                          !.recvW = FALSE, !.sendW = FALSE, !.armed = @ \ {"life"},
                          !.irs = m.seq]
    IN  CASE "ACK" \in m.flags /\ m.ack # c.nxt ->
               Emit(c, [flags |-> {"RST"}, seq |-> m.ack, ack |-> 0, wnd |-> 0,
                        data |-> <<>>, sack |-> {}])
          [] m.flags # {"SYN", "ACK"} -> c
          [] OTHER -> Emit(open, Segment(open, {"ACK"}, open.nxt, <<>>))

\* The acknowledgement of a segment, step by step: the window by SND.WL1 / WL2,
WindowIn(c, m) ==
    IF SeqLt(c.wl1, m.seq) \/ (c.wl1 = m.seq /\ ~SeqLt(m.ack, c.wl2))
    THEN [c EXCEPT !.wnd = m.wnd, !.wl1 = m.seq, !.wl2 = m.ack] ELSE c

\* snd_una and the state,
UnaIn(c, m) ==
    CASE c.st = "SynReceived" /\ SeqLt(c.una, m.ack) ->
           [c EXCEPT !.st = "Established", !.una = m.ack]
      [] c.st = "FinWait1" /\ m.ack = c.nxt ->
           Disarm([c EXCEPT !.st = "FinWait2", !.una = m.ack, !.retries = 0], {"life"})
      [] OTHER -> IF SeqLt(c.una, m.ack) THEN [c EXCEPT !.una = m.ack] ELSE c

\* the duplicate ACKs (`old' is the connection before the segment),
DupAckIn(c, old, m) ==
    IF /\ m.ack = old.una /\ m.data = <<>> /\ m.flags \cap {"SYN", "FIN"} = {}
       /\ SeqLt(old.una, old.nxt)
    THEN OnDupAck(c)
    ELSE IF c.una # old.una THEN [c EXCEPT !.dupAcks = 0] ELSE c

\* the persist timer, and the sender's wake-up.
PersistIn(c) == IF c.wnd > 0 THEN Disarm([c EXCEPT !.probes = 0], {"persist"}) ELSE c
WakeSender(c) == IF UsableWindow(c) > 0 THEN [c EXCEPT !.sendW = FALSE] ELSE c

AckIn(c, m, env) ==
    LET queue == ApplySack(RtxOnAck(UnaIn(WindowIn(c, m), m), c.una), m.sack)
    IN  WakeSender(PersistIn(RackDetect(DupAckIn(queue, c, m), env.aged)))

\* Payload: in order to the ring (or, whole, to a waiting recv_chunk), ahead
\* of order to the queue; anything that carries payload is answered.
PayloadIn(c, m, env) ==
    LET stash == c.want /\ c.chunk = <<>> /\ c.ring = <<>>
        taken == IF stash THEN [c EXCEPT !.chunk = m.data, !.want = FALSE,
                                         !.rcvNxt = Add(@, Len(m.data))]
                 ELSE RxPush(c, m.data)
        drained == DrainOoo(taken)
        moved == drained.rcvNxt # c.rcvNxt
    IN  CASE m.data = <<>> \/ c.st \notin {"Established", "FinWait1", "FinWait2"} -> c
          [] OTHER ->
               IF m.seq = c.rcvNxt
               THEN EmitAck([drained EXCEPT !.rcvWnd = RxFree(drained),
                                            !.recvW = @ /\ ~moved])
               ELSE IF SeqLt(m.seq, c.rcvNxt) \/ env.oom THEN EmitAck(c)
               ELSE EmitAck(OooInsert(c, m.seq, m.data))

\* FIN: only when everything before it has been taken.
TakeFin(c) ==
    LET next == [c EXCEPT !.rcvNxt = Add(@, 1)]
    IN  Emit(next, Segment(next, {"ACK"}, next.nxt, <<>>))
FinInOrder(c) ==
    CASE c.st \in {"Established", "SynReceived"} ->
           [TakeFin(c) EXCEPT !.st = "CloseWait", !.recvW = FALSE]
      [] c.st \in {"FinWait1", "FinWait2"} ->
           Arm([TakeFin(c) EXCEPT !.st = "TimeWait", !.retries = 0], "life")
      [] c.st = "CloseWait" -> [TakeFin(c) EXCEPT !.recvW = FALSE]
      [] OTHER -> TakeFin(c)
AckFinAgain(c, m, before) ==
    IF before = "TimeWait" /\ "FIN" \in m.flags
    THEN Arm(Emit(c, Segment(c, {"ACK"}, c.nxt, <<>>)), "life") ELSE c
FinIn(c, m, before) ==
    AckFinAgain(IF "FIN" \in m.flags /\ Add(m.seq, Len(m.data)) = c.rcvNxt
                THEN FinInOrder(c) ELSE c, m, before)

\* The tail of the handler: a window that reopened, a reader left parked.
TailIn(c) ==
    LET u == MaybeSendWindowUpdate(c)
    IN  IF c.st # "Established" THEN c
        ELSE [u EXCEPT !.recvW = @ /\ u.ring = <<>> /\ u.chunk = <<>>]

SegmentIn(c, m, env) ==
    CASE "ACK" \in m.flags /\ SeqLt(c.nxt, m.ack) -> SendChallengeAck(c)
      [] "ACK" \in m.flags /\ ~SeqLt(c.nxt, m.ack) /\ c.st = "LastAck" /\ m.ack = c.nxt ->
           FreeConnection(c)
      [] OTHER ->
           LET a == IF "ACK" \in m.flags THEN AckIn(c, m, env) ELSE c
           IN  TailIn(FinIn(PayloadIn(a, m, env), m, c.st))

Receive(s, c, m, env) ==
    CASE "RST" \in m.flags -> RstIn(c, m)
      [] m.flags = {"SYN"} -> SynIn(s, c, m, env)
      [] c.st = "Closed" /\ m.flags # {"SYN"} /\ "RST" \notin m.flags -> c
      [] c.st = "SynSent" /\ m.flags # {"SYN"} /\ "RST" \notin m.flags -> SynSentIn(c, m)
      [] OTHER -> SegmentIn(c, m, env)

-----------------------------------------------------------------------------
(* Timers: on_tcp_tick for one slot whose deadlines in `due' have passed.  *)

RetransmitFin(c) ==
    Arm([Emit(c, Segment(c, {"FIN", "ACK"}, Sub(c.nxt, 1), <<>>)) EXCEPT !.retries = @ + 1], "life")

SendSyn(c) ==
    Emit(c, [flags |-> {"SYN"}, seq |-> c.una, ack |-> 0, wnd |-> plan.ring,
             data |-> <<>>, sack |-> {}])
RetransmitSyn(c) == Arm([SendSyn(c) EXCEPT !.anchor = -1, !.retries = @ + 1], "life")

SendWindowProbe(c) ==
    Arm([Emit(c, Segment(c, {"ACK"}, Sub(c.una, 1), <<>>)) EXCEPT !.probes = @ + 1], "persist")

LifecycleDue(c) ==
    CASE c.st \in {"FinWait1", "LastAck"} ->
           IF c.retries >= FinRetxMax THEN FreeConnection(c) ELSE RetransmitFin(c)
      [] c.st = "TimeWait" -> FreeConnection(c)
      [] c.st = "SynSent" ->
           IF c.retries >= SynRetxMax THEN FailConnect(c, "TimedOut") ELSE RetransmitSyn(c)
      [] OTHER -> Disarm(c, {"life"})

PersistDue(c) ==
    IF c.st # "Established" THEN Disarm(c, {"persist"})
    ELSE IF c.probes >= PersistMaxProbes THEN FreeConnection(c) ELSE SendWindowProbe(c)

RtxTick(c, due) ==
    IF "rtx" \in due
    THEN IF c.backoff >= RtxMaxRetries THEN FreeConnection(c) ELSE RetransmitOldest(c)
    ELSE IF "tlp" \in due
    THEN IF c.st = "Established" THEN SendTlpProbe(c) ELSE Disarm(c, {"tlp"})
    ELSE c
RackTick(c, due, aged) ==
    IF "rack" \in due /\ "rack" \in c.armed THEN RackDetect(c, aged) ELSE c
PersistTick(c, due) ==
    IF "persist" \in due /\ "persist" \in c.armed THEN PersistDue(c) ELSE c
LifecycleTick(c, due) ==
    IF "life" \in due /\ "life" \in c.armed THEN LifecycleDue(c) ELSE c

TickSlot(c, due, aged) ==
    LifecycleTick(PersistTick(RackTick(RtxTick(c, due), due, aged), due), due)

-----------------------------------------------------------------------------
(* The actions. *)

Total(s) == Boundary(s, Len(plan.parts[s]))

Init ==
    /\ plan \in Plans
    /\ conn = [s \in Sides |-> Fresh]
    /\ wrote = [s \in Sides |-> 0]
    /\ got = [s \in Sides |-> <<>>]
    /\ eof = [s \in Sides |-> FALSE]
    /\ incs = [s \in Sides |-> 0]
    /\ net = {}
    /\ dups = 0

\* The handler's effect: the slot, and any part of what it sent that the
\* network does not lose.
Step(s, c, remaining) ==
    /\ conn' = [conn EXCEPT ![s] = [c EXCEPT !.out = {}]]
    /\ \E kept \in SUBSET c.out :
         /\ net' = remaining \cup {[to |-> Peer(s), seg |-> m] : m \in kept}
         /\ Cardinality(net') <= NetCap

\* connect_on_core, and the connect future parked on it.
Connect(s) ==
    /\ s = "client" /\ incs[s] = 0
    /\ incs' = [incs EXCEPT ![s] = 1]
    /\ Step(s, SendSyn([Fresh EXCEPT !.st = "SynSent", !.una = ClientIsn, !.iss = ClientIsn,
                                     !.nxt = Add(ClientIsn, 1), !.anchor = Add(ClientIsn, 1),
                                     !.held = TRUE, !.accepted = TRUE, !.sendW = TRUE,
                                     !.armed = {"life"}]), net)
    /\ UNCHANGED <<wrote, got, eof, dups>>

\* accept_on_port_core
Accept(s) ==
    /\ s = "server" /\ conn[s].st = "Established" /\ ~conn[s].accepted
    /\ Step(s, [conn[s] EXCEPT !.accepted = TRUE, !.held = TRUE], net)
    /\ UNCHANGED <<wrote, got, eof, incs, dups>>

Opens(s, m) == s = "server" /\ m.flags = {"SYN"} /\ conn[s].st # "Established"

Deliver(p, env, again) ==
    LET s == p.to
        opened == Opens(s, p.seg) /\ ~env.oom
        restart(f, v) == IF opened THEN [f EXCEPT ![s] = v] ELSE f
    IN  /\ opened => incs[s] < Len(ServerIsns)
        /\ again => dups < MaxDups
        /\ dups' = IF again THEN dups + 1 ELSE dups
        /\ Step(s, Receive(s, conn[s], p.seg,
                           [isn |-> ServerIsns[Least(incs["server"] + 1, Len(ServerIsns))]] @@ env),
                IF again THEN net ELSE net \ {p})
        /\ incs' = restart(incs, incs[s] + 1)
        /\ wrote' = restart(wrote, 0)
        /\ got' = restart(got, <<>>)
        /\ eof' = restart(eof, FALSE)

\* What the clock has passed, where rack_detect will look; and the allocator.
Aged(s, looks) == IF looks THEN SUBSET {e.seq : e \in Range(conn[s].rtx)} ELSE {{}}
Environments(p) ==
    [oom : IF plan.oom THEN BOOLEAN ELSE {FALSE},
     aged : Aged(p.to, conn[p.to].hint \/ p.seg.sack # {})]

Tick(s, due, aged) ==
    /\ due \subseteq conn[s].armed /\ due # {}
    /\ Step(s, TickSlot(conn[s], due, aged), net)
    /\ UNCHANGED <<wrote, got, eof, incs, dups>>

\* One poll of TcpSendChain: async_try_send_chain until it takes nothing more,
\* then the waker is parked.  n is what the driver accepts.
Chunks(c, from, n) ==
    {LET m == Least(Mss, n - k * Mss)
     IN  Segment(c, {"ACK"}, Add(c.nxt, k * Mss), [i \in 1 .. m |-> from + k * Mss + i]) :
       k \in 0 .. (n + Mss - 1) \div Mss - 1}

PollSend(s, oom) ==
    LET c == conn[s]
        sendable == Least(Total(s) - wrote[s], UsableWindow(c))
        refused == {k * Mss : k \in 0 .. (sendable - 1) \div Mss} \ {sendable}
    IN  /\ c.held /\ ~c.sendW /\ c.st = "Established" /\ wrote[s] < Total(s)
        /\ \E n \in {sendable} \cup (IF plan.refuses THEN refused ELSE {}) :
             LET sent == [c EXCEPT !.nxt = Add(@, n), !.out = Chunks(c, wrote[s], n)]
                 kept == RtxOnDataSent(sent, Entries(s, c, wrote[s], n), oom)
                 parked == [kept EXCEPT !.sendW = wrote[s] + n < Total(s)]
                 shut == parked.sendW /\ n = sendable /\ kept.wnd = 0
             IN  /\ wrote' = [wrote EXCEPT ![s] = @ + n]
                 /\ Step(s, IF shut THEN Arm(parked, "persist") ELSE parked, net)
        /\ UNCHANGED <<got, eof, incs, dups>>

\* is_readable_or_closed
HasData(c) == c.ring # <<>> \/ c.chunk # <<>>
              \/ c.st \in {"Closed", "CloseWait", "LastAck", "TimeWait"}

\* One poll of TcpRecv (which copies n bytes out of the ring) or of RecvChunk
\* (which takes the stashed buffer, or the whole ring).
PollRecv(s, mode) ==
    LET c == conn[s]
        take(n) == MaybeSendWindowUpdate([c EXCEPT !.ring = SubSeq(@, n + 1, Len(@)),
                                                   !.want = FALSE])
    IN  /\ c.held /\ ~c.recvW /\ ~eof[s] /\ c.st # "SynSent"
        /\ \/ /\ ~HasData(c)
              /\ Step(s, [c EXCEPT !.recvW = TRUE, !.want = mode = "chunk"], net)
              /\ UNCHANGED <<got, eof>>
           \/ /\ mode = "chunk" /\ c.chunk # <<>>
              /\ Step(s, [c EXCEPT !.chunk = <<>>, !.want = FALSE], net)
              /\ got' = [got EXCEPT ![s] = @ \o c.chunk]
              /\ UNCHANGED eof
           \/ /\ mode = "recv" \/ c.chunk = <<>>
              /\ \E n \in 1 .. Len(c.ring) :
                   /\ mode = "chunk" => n = Len(c.ring)
                   /\ Step(s, take(n), net)
                   /\ got' = [got EXCEPT ![s] = @ \o SubSeq(c.ring, 1, n)]
              /\ UNCHANGED eof
           \/ /\ HasData(c) /\ c.ring = <<>> /\ (mode = "recv" \/ c.chunk = <<>>)
              /\ eof' = [eof EXCEPT ![s] = c.st # "Closed"]
              /\ Step(s, [c EXCEPT !.want = FALSE], net)
              /\ UNCHANGED got
        /\ UNCHANGED <<wrote, incs, dups>>

\* A parked receive future is dropped.
CancelRecv(s) ==
    /\ plan.cancels /\ conn[s].held /\ conn[s].recvW
    /\ Step(s, [conn[s] EXCEPT !.recvW = FALSE, !.want = FALSE], net)
    /\ UNCHANGED <<wrote, got, eof, incs, dups>>

\* close: the stream is dropped, whatever it had parked with it.
CloseConn(c0) ==
    LET c == [c0 EXCEPT !.held = FALSE, !.recvW = FALSE, !.sendW = FALSE, !.want = FALSE]
        fin(st) == Arm([Emit(c, Segment(c, {"FIN", "ACK"}, c.nxt, <<>>))
                        EXCEPT !.nxt = Add(@, 1), !.st = st], "life")
    IN  CASE c.st = "Established" -> fin("FinWait1")
          [] c.st = "CloseWait" -> fin("LastAck")
          [] OTHER -> FreeConnection(c)

Close(s) ==
    /\ conn[s].held
    /\ Step(s, CloseConn(conn[s]), net)
    /\ UNCHANGED <<wrote, got, eof, incs, dups>>

\* shutdown_all
Shutdown(s) ==
    /\ plan.shuts /\ conn[s].st # "Closed"
    /\ Step(s, FreeConnection(SendRst(conn[s], conn[s].nxt, conn[s].rcvNxt)), net)
    /\ UNCHANGED <<wrote, got, eof, incs, dups>>

Next ==
    /\ \/ \E s \in Sides :
            \/ Connect(s) \/ Accept(s) \/ CancelRecv(s) \/ Close(s) \/ Shutdown(s)
            \/ \E mode \in plan.modes : PollRecv(s, mode)
            \/ \E oom \in (IF plan.oom THEN BOOLEAN ELSE {FALSE}) : PollSend(s, oom)
            \/ \E due \in SUBSET conn[s].armed : \E aged \in Aged(s, "rack" \in due) :
                  Tick(s, due, aged)
       \/ \E p \in net : \E env \in Environments(p) :
            \E again \in (IF dups < MaxDups THEN BOOLEAN ELSE {FALSE}) : Deliver(p, env, again)
    /\ UNCHANGED plan

Spec == Init /\ [][Next]_vars

-----------------------------------------------------------------------------
(* Properties *)

Synchronized == {"Established", "FinWait1", "FinWait2", "CloseWait", "LastAck", "TimeWait"}

\* Both ends hold the same incarnation of the connection.
Paired ==
    /\ \A s \in Sides : conn[s].st \in Synchronized
    /\ conn["client"].irs = conn["server"].iss /\ conn["server"].irs = conn["client"].iss

\* What an application has read, what is stashed for it and what is in its
\* ring are, in this order and without gap or repetition, the first bytes of
\* the peer's stream, and rcv_nxt counts exactly them (and the FIN).
StreamInOrder ==
    \A s \in Sides :
        LET c == conn[s]
            all == got[s] \o c.chunk \o c.ring
            fin == IF c.st \in {"CloseWait", "LastAck", "TimeWait"} THEN 1 ELSE 0
        IN  /\ all = [i \in 1 .. Len(all) |-> i]
            /\ Len(all) <= wrote[Peer(s)]
            /\ c.st \in Synchronized => c.rcvNxt = Add(c.irs, 1 + Len(all) + fin)
            /\ \A e \in Range(c.ooo) : \A i \in DOMAIN e.data :
                 Add(e.seq, i - 1) = Add(c.irs, e.data[i])

\* An application that is told the stream has ended by a FIN has every byte
\* the peer ever sent on it.
EofIsComplete ==
    \A s \in Sides : eof[s] => Len(got[s]) = wrote[Peer(s)]

\* No byte is acknowledged that the peer has not taken, and the peer has
\* taken nothing that was not sent.
AckedIsReceived ==
    Paired => \A s \in Sides :
        /\ ~SeqLt(conn[Peer(s)].rcvNxt, conn[s].una)
        /\ ~SeqLt(conn[s].nxt, conn[Peer(s)].rcvNxt)

\* Every byte sent and not acknowledged is in the retransmission queue, in
\* order, and the RTO runs exactly while there is one.
UnackedIsQueued ==
    \A s \in Sides :
        LET c == conn[s]
            queued == FoldLeft(LAMBDA acc, e : acc \o e.data, <<>>, c.rtx)
            acked == wrote[s] - Len(queued)
        IN  c.st \in Synchronized /\ ~c.allocFailed =>
              /\ queued = [i \in 1 .. Len(queued) |-> acked + i]
              /\ \A i \in DOMAIN c.rtx : c.rtx[i].seq = Add(c.iss, Head(c.rtx[i].data))
              /\ queued # <<>> => c.una = Head(c.rtx).seq
              /\ ("rtx" \in c.armed) = (queued # <<>>)

\* A parked reader has nothing to read, and a parked writer whose window is
\* open was refused by the driver: no wake-up is lost.
NoLostWakeup ==
    \A s \in Sides :
        /\ conn[s].recvW => ~HasData(conn[s])
        /\ conn[s].sendW /\ conn[s].st = "Established" /\ ~plan.refuses => UsableWindow(conn[s]) = 0

\* A connection that waits for an answer to its SYN or FIN, or for the end of
\* TIME-WAIT, has a deadline that will move it on.
ClosingHasTimer ==
    \A s \in Sides :
        conn[s].st \in {"SynSent", "FinWait1", "LastAck", "TimeWait"} => "life" \in conn[s].armed

\* A parked writer has a timer that ends its wait even if every segment now
\* in flight is lost.
ParkedWriterHasTimer ==
    \A s \in Sides :
        conn[s].sendW /\ conn[s].st = "Established" /\ ~conn[s].allocFailed =>
            conn[s].armed \cap {"rtx", "persist"} # {}

=============================================================================
