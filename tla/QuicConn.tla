----------------------------- MODULE QuicConn -------------------------------
(***************************************************************************)
(* One QUIC connection: its streams, its packet-number spaces, and the state*)
(* machine that packets, timers and the application drive.                 *)
(***************************************************************************)
EXTENDS Integers, Sequences, SequencesExt, FiniteSets, FiniteSetsExt

(***************************************************************************)
(* The two halves of a QUIC stream (crates/proto/quic/src/streams.rs): the *)
(* reassembly of what the peer sends and the queue of what the application *)
(* writes.  A byte is its position in the sender's stream, so that what    *)
(* the receiver holds can be compared with what was written.               *)
(***************************************************************************)
CONSTANTS StreamWindow   \* INITIAL_MAX_STREAM_DATA

-----------------------------------------------------------------------------
(* RecvStream.  `fin' is -1 until the final size is known; `gap' maps an   *)
(* offset past the contiguous part to the longest piece received there.    *)

RecvStream == [buffer |-> <<>>, offset |-> 0, gap |-> <<>>, state |-> "Open", fin |-> -1,
               max |-> StreamWindow, high |-> 0]

IsClosed(r) == r.state = "Closed"
Consumed(r) == r.offset - Len(r.buffer)

\* The stream ends with the frame that says so, whatever is missing before it.
RecordFinEager(r, end) == [r EXCEPT !.fin = end, !.state = "Closed"]

\* Once the final size is known a later FIN can only move it up.
RecordFin(r, end) ==
    LET fin == IF r.fin > end THEN r.fin ELSE end
    IN  [r EXCEPT !.fin = fin, !.state = IF r.offset >= fin THEN "Closed" ELSE "FinSeen"]

MaybeClose(r) ==
    IF r.state = "FinSeen" /\ r.offset >= r.fin THEN [r EXCEPT !.state = "Closed"] ELSE r

Drop(s, n) == SubSeq(s, n + 1, Len(s))
Without(f, x) == [y \in DOMAIN f \ {x} |-> f[y]]
With(f, x, v) == [y \in DOMAIN f \cup {x} |-> IF y = x THEN v ELSE f[y]]
LowestOf(S) == CHOOSE x \in S : \A y \in S : x <= y

\* The pieces of the gap buffer that have become contiguous, lowest first.
RECURSIVE Absorb(_)
Absorb(r) ==
    LET next == LowestOf(DOMAIN r.gap)
        tail == Drop(r.gap[next], r.offset - next)
    IN  IF DOMAIN r.gap = {} THEN r
        ELSE IF next > r.offset THEN r
        ELSE Absorb([r EXCEPT !.gap = Without(@, next), !.buffer = @ \o tail,
                              !.offset = @ + Len(tail)])

Ingest(r, off, data, fin) ==
    LET end == off + Len(data)
        skip == IF r.offset > off THEN r.offset - off ELSE 0
        at == off + skip
        rest == Drop(data, skip)
        placed == IF at = r.offset
                  THEN Absorb([r EXCEPT !.buffer = @ \o rest, !.offset = @ + Len(rest)])
                  ELSE IF rest = <<>> THEN r
                  ELSE IF at \in DOMAIN r.gap /\ Len(r.gap[at]) >= Len(rest) THEN r
                  ELSE [r EXCEPT !.gap = With(@, at, rest)]
    IN  IF end <= r.offset THEN IF fin THEN RecordFin(r, end) ELSE r
        ELSE IF fin THEN RecordFin(placed, end) ELSE MaybeClose(placed)

ApplyReset(r, final) ==
    [r EXCEPT !.buffer = <<>>, !.gap = <<>>, !.offset = final, !.high = final,
              !.state = "Closed", !.fin = final]

\* drain into a buffer of n bytes, and whether the stream has ended with it.
Drain(r, n) == [r EXCEPT !.buffer = Drop(@, IF n < Len(@) THEN n ELSE Len(@))]
AtEof(r) == IsClosed(r) /\ r.buffer = <<>>

-----------------------------------------------------------------------------
(* SendStream.  `outbound' is the queue of buffers, the head without the   *)
(* part already sent.                                                      *)

SendStream(credit) == [outbound |-> <<>>, offset |-> 0, state |-> "Open", max |-> credit]

FinSent(s) == s.state \in {"FinSent", "ResetSent"}

WriteIobuf(s, data) ==
    IF FinSent(s) \/ data = <<>> THEN s ELSE [s EXCEPT !.outbound = Append(@, data)]

CloseSend(s) == IF s.state = "Open" THEN [s EXCEPT !.state = "Closing"] ELSE s

Abort(s) == [s EXCEPT !.outbound = <<>>, !.state = "ResetSent"]

BufferedLen(s) == FoldSeq(LAMBDA b, n : n + Len(b), 0, s.outbound)

\* Is there anything pop_chunk would return?
HasChunk(s) == s.state = "Closing" \/ (s.state = "Open" /\ s.outbound # <<>>)

\* pop_chunk: at most n bytes of the head buffer, and the FIN with the last.
PopChunk(s, n) ==
    LET head == Head(s.outbound)
        m == IF Len(head) < n THEN Len(head) ELSE n
        rest == IF m = Len(head) THEN Tail(s.outbound)
                ELSE <<Drop(head, m)>> \o Tail(s.outbound)
        fin == s.state = "Closing" /\ rest = <<>>
    IN  IF s.outbound = <<>>
        THEN [stream |-> [s EXCEPT !.state = "FinSent"], off |-> s.offset, data |-> <<>>,
              fin |-> TRUE]
        ELSE [stream |-> [s EXCEPT !.outbound = rest, !.offset = @ + m,
                                   !.state = IF fin THEN "FinSent" ELSE @],
              off |-> s.offset, data |-> SubSeq(head, 1, m), fin |-> fin]

-----------------------------------------------------------------------------
(***************************************************************************)
(* A packet-number space of a QUIC connection (SpaceState in               *)
(* crates/proto/quic/src/conn/mod.rs): the ranges of packet numbers        *)
(* received, the ACK frame made from them and read back by the peer, the   *)
(* packets sent and not yet acknowledged, and which of them an             *)
(* acknowledgement shows to be lost.                                       *)
(***************************************************************************)
CONSTANTS MaxRecvRanges,    \* MAX_RECV_RANGES
          MaxAckRanges,     \* additional ranges an ACK frame carries
          PacketThreshold   \* kPacketThreshold

Space == [next |-> 0, ranges |-> <<>>, ackPending |-> FALSE, largestAcked |-> -1, sent |-> {}]

\* record_recv_pn: ranges are <<lo, hi>>, highest first, neither overlapping
\* nor adjacent; when the table is full the lowest range makes room.
RecordRecvPn(ranges, pn) ==
    LET n == Cardinality({i \in DOMAIN ranges : ranges[i][1] > pn}) \* ranges above pn
        touchAbove == n > 0 /\ ranges[n][1] = pn + 1
        touchBelow == n < Len(ranges) /\ ranges[n + 1][2] + 1 = pn
    IN  CASE \E i \in DOMAIN ranges : ranges[i][1] <= pn /\ pn <= ranges[i][2] -> ranges
          [] touchAbove /\ touchBelow ->
               RemoveAt([ranges EXCEPT ![n][1] = ranges[n + 1][1]], n + 1)
          [] touchAbove /\ ~touchBelow -> [ranges EXCEPT ![n][1] = pn]
          [] ~touchAbove /\ touchBelow -> [ranges EXCEPT ![n + 1][2] = pn]
          [] OTHER ->
               IF Len(ranges) < MaxRecvRanges THEN InsertAt(ranges, n + 1, <<pn, pn>>)
               ELSE IF n < Len(ranges) THEN InsertAt(Front(ranges), n + 1, <<pn, pn>>)
               ELSE ranges

\* The highest packet number received, -1 for none.
LargestRecv(sp) == IF sp.ranges = <<>> THEN -1 ELSE sp.ranges[1][2]

\* ack_ranges_from: the first range, then each further one as the gap to the
\* range above it and its length, both less one.
AckFrame(ranges) ==
    LET n == IF Len(ranges) - 1 < MaxAckRanges THEN Len(ranges) - 1 ELSE MaxAckRanges
    IN  [k |-> "ack", largest |-> ranges[1][2], first |-> ranges[1][2] - ranges[1][1],
         more |-> [i \in 1 .. n |-> <<ranges[i][1] - ranges[i + 1][2] - 2,
                                      ranges[i + 1][2] - ranges[i + 1][1]>>]]

\* process_ack: the packet numbers an ACK frame names.  A gap that would go
\* below zero ends the walk.
AckedPns(f) ==
    LET start == [pns |-> f.largest - f.first .. f.largest, low |-> f.largest - f.first,
                  ok |-> TRUE]
        walk == FoldLeft(LAMBDA a, g :
                    LET high == a.low - (g[1] + 2)
                        low == IF high < g[2] THEN 0 ELSE high - g[2]
                    IN  IF ~a.ok \/ high < 0 THEN [a EXCEPT !.ok = FALSE]
                        ELSE [pns |-> a.pns \cup (low .. high), low |-> low, ok |-> TRUE],
                  start, f.more)
    IN  walk.pns

\* SentPackets in the order of their numbers.
InOrder(pkts) == SetToSortSeq(pkts, LAMBDA a, b : a.pn < b.pn)
Bytes(pkts) == FoldSet(LAMBDA p, n : n + p.bytes, 0, {p \in pkts : p.eliciting})

\* detect_loss: a packet older than the largest acknowledged is lost if it is
\* PacketThreshold behind it, or was sent before `cut', the packet number of
\* the time threshold (packets are numbered in the order they are sent).
LostPackets(sp, cut) ==
    {p \in sp.sent : p.pn < sp.largestAcked
                     /\ (p.pn + PacketThreshold <= sp.largestAcked \/ p.pn < cut)}

-----------------------------------------------------------------------------
(***************************************************************************)
(* A QUIC connection between two nodes of this stack (crates/proto/quic):  *)
(* the three packet-number spaces and their keys, the TLS handshake        *)
(* carried in CRYPTO frames, acknowledgements, loss detection and probe    *)
(* timeouts, the congestion and flow control of streams, stream resets,    *)
(* and the connection task that watches the timers.  The network loses,    *)
(* reorders and duplicates datagrams.                                      *)
(*                                                                         *)
(* A connection belongs to one core and every handler runs to completion,  *)
(* so a handler is one action: an operator maps the connection record to   *)
(* its successor, and the datagrams it builds collect in the field `out'.  *)
(* A datagram counts one unit against the anti-amplification limit; a      *)
(* packet weighs one unit plus its stream bytes.  `env' holds what the     *)
(* clock and the machine decide while a handler runs: the packet number    *)
(* below which the time threshold declares packets lost, the packets the   *)
(* pacer lets through, whether a delayed ACK has come due, whether the     *)
(* device has a segmentation buffer free.                                  *)
(***************************************************************************)
CONSTANTS FlightLen, HsBudget,  \* the server's handshake flight; what one packet holds of it
          TicketLen,  \* NewSessionTicket bytes
          AmpFactor,  \* the anti-amplification factor (3)
          AckThreshold,  \* APP_ACK_ELICIT_THRESHOLD
          Body,  \* PACKET_BODY_BUDGET, in stream bytes
          MaxFlushPackets, MaxGsoSegments,  \* 32, 16
          DataWindow,  \* INITIAL_MAX_STREAM_DATA, INITIAL_MAX_DATA
          CreditWindow, CreditRefill,  \* MAX_STREAMS window and refill threshold
          ReapedCap, ResetsCap,  \* REAPED_STREAMS_CAP, STREAM_RESETS_CAP
          InitialWindow, MaxWindow, SlowStartCap, U32Max,
          MaxPto  \* bound on consecutive probes

Levels == {"i", "h", "a"}

CC == INSTANCE CongestionControl WITH Mss <- Body + 1, TimeScale <- 1, BetaNum <- 1,
                                      BetaDen <- 1

Least(a, b) == IF a < b THEN a ELSE b
SatSub(a, b) == IF a < b THEN 0 ELSE a - b

-----------------------------------------------------------------------------
(* QuicTls: the messages are counted, not built; the contents of a CRYPTO  *)
(* stream are determined by the position in it.                            *)

\* RxBuf: the contiguous length received and the pieces past it.
RxBuf == [have |-> 0, pending |-> {}]

RECURSIVE AbsorbPending(_)
AbsorbPending(b) ==
    LET ready == {x \in b.pending : x[1] <= b.have}
        x == CHOOSE y \in ready : \A z \in ready : y[1] <= z[1]
    IN  IF ready = {} THEN b
        ELSE AbsorbPending([have |-> IF x[1] + x[2] > b.have THEN x[1] + x[2] ELSE b.have,
                            pending |-> b.pending \ {x}])

IngestCrypto(b, off, len) ==
    IF len = 0 \/ off + len <= b.have THEN b
    ELSE IF off <= b.have THEN AbsorbPending([b EXCEPT !.have = off + len])
    ELSE [b EXCEPT !.pending = {x \in @ : x[1] # off} \cup {<<off, len>>}]

Tls(role) ==
    [st |-> IF role = "client" THEN "AwaitSh" ELSE "AwaitCh",
     rx |-> [l \in Levels |-> RxBuf],
     tx |-> [l \in Levels |-> IF role = "client" /\ l = "i" THEN 1 ELSE 0],
     hs |-> FALSE, ap |-> FALSE]

\* advance: the server answers a ClientHello with its whole flight and has
\* all secrets at once; advance_client needs the flight for the last of them.
AdvanceStep(t) ==
    CASE t.st = "AwaitCh" /\ t.rx["i"].have >= 1 ->
           [t EXCEPT !.st = "AwaitFin", !.tx["i"] = @ + 1, !.tx["h"] = @ + FlightLen,
                     !.hs = TRUE, !.ap = TRUE]
      [] t.st = "AwaitFin" /\ t.rx["h"].have >= 1 ->
           [t EXCEPT !.st = "Established", !.tx["a"] = @ + TicketLen]
      [] t.st = "AwaitSh" /\ t.rx["i"].have >= 1 -> [t EXCEPT !.st = "AwaitFlight", !.hs = TRUE]
      [] t.st = "AwaitFlight" /\ t.rx["h"].have >= FlightLen ->
           [t EXCEPT !.st = "Established", !.tx["h"] = @ + 1, !.ap = TRUE]
      [] OTHER -> t

-----------------------------------------------------------------------------
(* The connection. *)

NewWith(role) ==
    [role |-> role, owned |-> FALSE, state |-> "PreHandshake", tls |-> Tls(role),
     key |-> [l \in Levels |-> FALSE], iGone |-> FALSE, hGone |-> FALSE,
     sp |-> [l \in Levels |-> Space], hsOff |-> 0, appOff |-> 0,
     valid |-> FALSE, rcvd |-> 0, sent |-> 0,
     elicited |-> <<>>, pto |-> 0, flight |-> 0, cc |-> CC!NewReno, pace |-> 1,
     close |-> "none", cryptoRetx |-> <<>>, retx |-> <<>>, doneSent |-> FALSE,
     recv |-> <<>>, send |-> <<>>, opened |-> <<>>, reaped |-> <<>>,
     resets |-> <<>>, stops |-> <<>>, peerResets |-> <<>>, aborted |-> <<>>,
     dataRecv |-> 0, dataUsed |-> 0, maxData |-> DataWindow,
     fc |-> FALSE, peerMax |-> 0, peerStream |-> 0, dataSent |-> 0,
     adv |-> [k \in {"bidi", "uni"} |-> CreditWindow],
     seen |-> [k \in {"bidi", "uni"} |-> 0],
     ackN |-> 0, ackTimer |-> FALSE, out |-> <<>>]

CloseWithError(c, code) ==
    IF c.close = "none" /\ c.state # "Failed" THEN [c EXCEPT !.close = code] ELSE c

\* discard_sent_packets, with the space's PTO anchor.
Discard(c, l) ==
    [c EXCEPT !.flight = @ - Bytes(c.sp[l].sent), !.sp[l].sent = {}, !.sp[l].largestAcked = -1,
              !.elicited = SelectSeq(@, LAMBDA x : x # l)]

DropInitialKeys(c) ==
    IF c.iGone THEN c ELSE [Discard(c, "i") EXCEPT !.iGone = TRUE, !.key["i"] = FALSE]
DropHandshakeKeys(c) ==
    IF c.hGone THEN c ELSE [Discard(c, "h") EXCEPT !.hGone = TRUE, !.key["h"] = FALSE]

\* advance_tls: keys follow secrets.  The server's own handshake flight has
\* done its job once the client's Finished is in; the client keeps its
\* Handshake space until the handshake is confirmed.
AdvanceTo(c, t) ==
    [c EXCEPT !.tls = t, !.key["h"] = @ \/ t.hs, !.key["a"] = @ \/ t.ap]
EstablishedNow(c) ==
    Discard([c EXCEPT !.state = "Established", !.iGone = TRUE, !.key["i"] = FALSE], "i")
AdvanceKeys(c) ==
    IF c.tls.st = "Established" /\ c.state # "Failed"
    THEN IF c.role = "server" THEN Discard(EstablishedNow(c), "h") ELSE EstablishedNow(c)
    ELSE c
AdvanceTls(c) == AdvanceKeys(AdvanceTo(c, AdvanceStep(AdvanceStep(c.tls))))

AntiAmpOpen(c) == c.valid \/ c.sent < AmpFactor * c.rcvd
RecordBytesSent(c) == IF c.valid THEN c ELSE [c EXCEPT !.sent = @ + 1]

ApplyPeerFlowControl(c) ==
    IF c.fc \/ c.tls.st \in {"AwaitCh", "AwaitSh", "AwaitFlight"} THEN c
    ELSE [c EXCEPT !.fc = TRUE, !.peerMax = DataWindow, !.peerStream = StreamWindow]

-----------------------------------------------------------------------------
(* Streams. *)

Kind(sid) == sid % 4
IsReaped(c, sid) == sid \in Range(c.reaped)

PushCapped(s, x, cap) == Append(IF Len(s) >= cap THEN Tail(s) ELSE s, x)

EnsureSendStream(c0, sid) ==
    LET c == ApplyPeerFlowControl(c0)
    IN  IF sid \in DOMAIN c0.send THEN c0
        ELSE [c EXCEPT !.send = With(@, sid, SendStream(c.peerStream))]

ResetStream(c0, sid) ==
    LET c == EnsureSendStream(c0, sid)
        s == c.send[sid]
    IN  IF s.state = "ResetSent" THEN c
        ELSE [c EXCEPT !.send[sid] = Abort(s),
                       !.retx = SelectSeq(@, LAMBDA f : f.sid # sid),
                       !.aborted = PushCapped(@, sid, ResetsCap),
                       !.resets = Append(@, [k |-> "reset", sid |-> sid, final |-> s.offset])]

Take(c, sid, n) ==
    [c EXCEPT !.recv[sid] = Drain(@, n), !.dataUsed = @ + Least(n, Len(c.recv[sid].buffer))]

DiscardRecv(c, sid) ==
    IF sid \in DOMAIN c.recv THEN Take(c, sid, Len(c.recv[sid].buffer)) ELSE c

StopSending(c, sid) ==
    DiscardRecv([c EXCEPT !.stops = Append(@, [k |-> "stop", sid |-> sid])], sid)

\* reap_finished_streams: both halves done and everything read.
Reapable(c) ==
    {sid \in DOMAIN c.send \cap DOMAIN c.recv :
        FinSent(c.send[sid]) /\ c.send[sid].outbound = <<>> /\ AtEof(c.recv[sid])}

Reap(c) ==
    LET done == Reapable(c)
    IN  [c EXCEPT !.send = [x \in DOMAIN @ \ done |-> @[x]],
                  !.recv = [x \in DOMAIN @ \ done |-> @[x]],
                  !.reaped = FoldSeq(LAMBDA x, acc : PushCapped(acc, x, ReapedCap), @,
                                     SetToSortSeq(done, LAMBDA x, y : x < y))]

\* exceeds_stream_limit / client_exceeds_stream_limit
ExceedsStreamLimit(c, sid) ==
    LET count == sid \div 4 + 1
        k == Kind(sid)
    IN  IF c.role = "client"
        THEN CASE k = 1 -> count > c.adv["bidi"] [] k = 3 -> count > c.adv["uni"]
               [] k = 0 -> FALSE [] OTHER -> TRUE
        ELSE CASE k = 0 -> count > c.adv["bidi"] [] k = 2 -> count > c.adv["uni"]
               [] OTHER -> TRUE

NoteAppAckEliciting(c) ==
    [c EXCEPT !.sp["a"].ackPending = TRUE, !.ackN = Least(@ + 1, AckThreshold), !.ackTimer = TRUE]

\* What a frame's handler leaves, and whether it ended the packet.
Ok(c) == [c |-> c, stop |-> FALSE]
Fatal(c, code) == [c |-> CloseWithError(c, code), stop |-> TRUE]

PeerKinds(c) == IF c.role = "client" THEN <<1, 3>> ELSE <<0, 2>>

\* Any frame of a stream opens its receiving half.
Opened(c, sid) ==
    IF sid \in DOMAIN c.recv THEN c ELSE [c EXCEPT !.recv = With(@, sid, RecvStream)]

\* The STREAM arm of dispatch_frames: c has the stream, `new' says the frame
\* opened it.
Bump(c, sid, new, k) ==
    [c EXCEPT !.seen[k] = IF new /\ sid \div 4 + 1 > @ THEN sid \div 4 + 1 ELSE @]
CountStream(c, sid, new) ==
    CASE Kind(sid) = PeerKinds(c)[1] -> Bump(c, sid, new, "bidi")
      [] Kind(sid) = PeerKinds(c)[2] -> Bump(c, sid, new, "uni")
      [] OTHER -> c
PushAccept(c, sid, new) ==
    LET push == CASE Kind(sid) = PeerKinds(c)[2] -> sid \notin Range(c.opened)
                  [] c.role = "client" /\ Kind(sid) \in {0, 2} -> FALSE
                  [] OTHER -> new
    IN  IF push THEN [c EXCEPT !.opened = Append(@, sid)] ELSE c
StreamData(c, f, new) ==
    LET r == c.recv[f.sid]
        end == f.off + Len(f.data)
        delta == SatSub(end, r.high)
        taken == [c EXCEPT !.dataRecv = @ + delta,
                           !.recv[f.sid] = Ingest([r EXCEPT !.high = IF end > @ THEN end ELSE @],
                                                  f.off, f.data, f.fin)]
    IN  IF end > r.max \/ c.dataRecv + delta > c.maxData THEN Fatal(c, "flow control")
        ELSE Ok(NoteAppAckEliciting(PushAccept(CountStream(taken, f.sid, new), f.sid, new)))

StreamIn(c, f) ==
    LET new == f.sid \notin DOMAIN c.recv
    IN  CASE IsReaped(c, f.sid) -> Ok(NoteAppAckEliciting(c))
          [] ~IsReaped(c, f.sid) /\ new /\ ExceedsStreamLimit(c, f.sid) ->
               Fatal(c, "stream limit")
          [] OTHER -> StreamData(Opened(c, f.sid), f, new)

\* process_reset_stream
ResetRecv(c, f, new) ==
    LET r == c.recv[f.sid]
        delta == SatSub(f.final, r.high)
        accept == new /\ Kind(f.sid) \in Range(PeerKinds(c))
    IN  IF f.final < r.high \/ (r.fin # -1 /\ r.fin # f.final) THEN Fatal(c, "final size")
        ELSE IF f.final > r.max \/ c.dataRecv + delta > c.maxData THEN Fatal(c, "flow control")
        ELSE Ok(NoteAppAckEliciting(
                  [c EXCEPT !.dataRecv = @ + delta, !.dataUsed = @ + SatSub(f.final, Consumed(r)),
                            !.recv[f.sid] = ApplyReset(r, f.final),
                            !.peerResets = IF f.sid \in Range(@) THEN @
                                           ELSE PushCapped(@, f.sid, ResetsCap),
                            !.opened = IF accept THEN Append(@, f.sid) ELSE @]))

ResetIn(c, f) ==
    LET new == f.sid \notin DOMAIN c.recv
    IN  CASE IsReaped(c, f.sid) -> Ok(NoteAppAckEliciting(c))
          [] ~IsReaped(c, f.sid) /\ Kind(f.sid) = (IF c.role = "client" THEN 2 ELSE 3) ->
               Fatal(c, "stream state")
          [] OTHER -> IF new /\ ExceedsStreamLimit(c, f.sid) THEN Fatal(c, "stream limit")
                      ELSE ResetRecv(Opened(c, f.sid), f, new)

\* process_stop_sending
StopIn(c, f) ==
    LET ours == f.sid % 2 = (IF c.role = "client" THEN 0 ELSE 1)
        open == f.sid \in DOMAIN c.send
    IN  CASE IsReaped(c, f.sid) -> Ok(NoteAppAckEliciting(c))
          [] ~IsReaped(c, f.sid) /\ \/ Kind(f.sid) = PeerKinds(c)[2]
                                    \/ ours /\ ~open -> Fatal(c, "stream state")
          [] OTHER -> Ok(NoteAppAckEliciting(IF open /\ FinSent(c.send[f.sid]) THEN c
                                             ELSE ResetStream(c, f.sid)))

-----------------------------------------------------------------------------
(* Acknowledgements and loss (loss.rs). *)

Frames(pkts, field) ==
    FoldLeft(LAMBDA acc, p : acc \o p[field], <<>>, InOrder(pkts))

DetectLoss(c, l, cut) ==
    LET lost == LostPackets(c.sp[l], cut)
        bytes == Bytes(lost)
        ctrl == Frames(lost, "ctrl")
    IN  IF c.sp[l].largestAcked = -1 THEN c
        ELSE [c EXCEPT !.sp[l].sent = @ \ lost, !.flight = @ - bytes,
                       !.cc = IF bytes > 0 THEN CC!OnLoss(@, FALSE) ELSE @,
                       !.retx = @ \o SelectSeq(Frames(lost, "streams"),
                                               LAMBDA f : f.sid \notin Range(c.aborted)),
                       !.resets = @ \o SelectSeq(ctrl, LAMBDA x : x.k = "reset"),
                       !.stops = @ \o SelectSeq(ctrl, LAMBDA x : x.k = "stop"),
                       !.cryptoRetx = @ \o Frames(lost, "crypto")]

ProcessAck(c, l, f, cut) ==
    LET acked == {p \in c.sp[l].sent : p.pn \in AckedPns(f)}
        bytes == Bytes(acked)
        known == [c EXCEPT !.sp[l].sent = @ \ acked, !.flight = @ - bytes,
                           !.sp[l].largestAcked = IF f.largest > @ THEN f.largest ELSE @,
                           !.pto = IF bytes > 0 THEN 0 ELSE @,
                           !.cc = IF bytes > 0 THEN CC!OnAck(@, bytes, 0, 0) ELSE @]
    IN  [DetectLoss(known, l, cut) EXCEPT
            !.elicited = IF c.sp[l].sent \subseteq acked THEN SelectSeq(@, LAMBDA x : x # l) ELSE @]

\* record_sent_packet.  `elicited' lists the spaces whose PTO runs, the one
\* whose last ack-eliciting packet is oldest first.
RecordSent(c, l, eliciting, bytes, streams, crypto, ctrl) ==
    LET pkt == [pn |-> c.sp[l].next, eliciting |-> eliciting, bytes |-> bytes,
                streams |-> streams, crypto |-> crypto, ctrl |-> ctrl]
    IN  [c EXCEPT !.sp[l].next = @ + 1, !.sp[l].sent = @ \cup {pkt},
                  !.flight = IF eliciting THEN @ + bytes ELSE @,
                  !.elicited = IF eliciting
                               THEN Append(SelectSeq(@, LAMBDA x : x # l), l) ELSE @]

Packet(c, l, frames) == [l |-> l, pn |-> c.sp[l].next, fr |-> frames]
Ship(c, dgram) == [c EXCEPT !.out = Append(@, dgram)]

\* send_pto_probe: a PING in the space that has waited longest.
SendPtoProbe(c) ==
    LET l == Head(c.elicited)
        sent == RecordSent(c, l, TRUE, 1, <<>>, <<>>, <<>>)
    IN  IF c.elicited = <<>> THEN c
        ELSE IF ~c.key[l] THEN c
        ELSE [Ship(sent, <<Packet(c, l, <<[k |-> "ping"]>>)>>)
              EXCEPT !.pto = Least(@ + 1, MaxPto),
                     !.cc = IF c.pto + 1 = 2 THEN CC!OnRto(@) ELSE @]

-----------------------------------------------------------------------------
(* Sending (tx.rs). *)

HasPendingData(c) == c.retx # <<>> \/ \E x \in DOMAIN c.send : HasChunk(c.send[x])
AppAckDue(c, env) == c.ackN >= AckThreshold \/ (c.ackTimer /\ env.late)
EmitsAck(c, env) == c.sp["a"].ackPending /\ (HasPendingData(c) \/ AppAckDue(c, env))
Replenish(c, k) == c.adv[k] <= c.seen[k] + CreditRefill
DataDue(c) == SatSub(c.maxData, c.dataUsed) <= DataWindow \div 2
StreamDue(r) == ~IsClosed(r) /\ SatSub(r.max, Consumed(r)) <= StreamWindow \div 2

RecvCreditDue(c) == DataDue(c) \/ \E x \in DOMAIN c.recv : StreamDue(c.recv[x])

HasOneRttToSend(c, env) ==
    \/ EmitsAck(c, env) \/ ~c.doneSent
    \/ Replenish(c, "bidi") \/ Replenish(c, "uni")
    \/ c.resets # <<>> \/ c.stops # <<>>
    \/ DataDue(c) /\ ~env.over
    \/ \E x \in DOMAIN c.recv : StreamDue(c.recv[x])
    \/ c.tls.tx["a"] > 0 \/ HasPendingData(c)

FlushIsNoop(c, env) ==
    /\ c.close = "none" /\ c.state = "Established" /\ c.iGone /\ c.hGone
    /\ ~HasOneRttToSend(c, env)

\* encode_initial_packet, encode_handshake_packet: `len' bytes of CRYPTO at
\* `off', and the space's ACK.
EncodeLong(c, l, off, len, ack) ==
    LET crypto == IF len = 0 THEN <<>> ELSE <<[k |-> "crypto", off |-> off, len |-> len]>>
        frames == (IF ack /\ c.sp[l].ranges # <<>> THEN <<AckFrame(c.sp[l].ranges)>> ELSE <<>>)
                  \o crypto
        retx == IF len = 0 THEN <<>> ELSE <<[l |-> l, off |-> off, len |-> len]>>
    IN  [c |-> RecordSent(c, l, len > 0, 1, <<>>, retx, <<>>), p |-> Packet(c, l, frames)]

\* The retransmission loop of encode_one_rtt_packet_with_keys: whole frames,
\* while they fit; with nothing in flight the first goes whatever the window.
RECURSIVE PopRetx(_, _)
PopRetx(a, idle) ==
    LET f == Head(a.c.retx)
    IN  IF a.c.retx = <<>> THEN a
        ELSE IF a.body >= Body \/ Len(f.data) > Body - a.body THEN a
        ELSE IF Len(f.data) > a.wire /\ ~(idle /\ a.frames = <<>>) THEN a
        ELSE PopRetx([a EXCEPT !.c.retx = Tail(@), !.frames = Append(@, f),
                               !.body = @ + Len(f.data), !.wire = SatSub(@, Len(f.data))], idle)

\* The chunks of one send stream: what the packet, the congestion window and
\* both flow-control windows allow.  A bare FIN needs none of them.
AddChunk(a, sid, chunk) ==
    LET n == Len(chunk.data)
    IN  [a EXCEPT !.c.send[sid] = chunk.stream, !.body = @ + n, !.wire = @ - n, !.new = @ + n,
                  !.frames = Append(@, [k |-> "stream", sid |-> sid, off |-> chunk.off,
                                        data |-> chunk.data, fin |-> chunk.fin])]

RECURSIVE PopStream(_, _)
PopStream(a, sid) ==
    LET s == a.c.send[sid]
        fin == s.state = "Closing" /\ s.outbound = <<>>
        room == Min({Body - a.body, a.wire, SatSub(a.c.peerMax, a.c.dataSent + a.new),
                     SatSub(s.max, s.offset)})
    IN  IF a.body >= Body \/ (~fin /\ room = 0) \/ ~HasChunk(s) THEN a
        ELSE PopStream(AddChunk(a, sid, PopChunk(s, IF fin THEN 0 ELSE room)), sid)

SortedIds(f) == SetToSortSeq(DOMAIN f, LAMBDA x, y : x < y)

\* The frames that come before stream data, and the state after them.
ControlFrames(c, env) ==
    LET ack == IF EmitsAck(c, env) THEN <<AckFrame(c.sp["a"].ranges)>> ELSE <<>>
        done == IF c.doneSent THEN <<>> ELSE <<[k |-> "done"]>>
        streams(k) == IF Replenish(c, k) THEN <<[k |-> "maxstreams"]>> ELSE <<>>
        slid == DataDue(c) /\ ~env.over
        data == IF slid THEN <<[k |-> "maxdata", max |-> c.dataUsed + DataWindow]>> ELSE <<>>
        due == SelectSeq(SortedIds(c.recv), LAMBDA x : StreamDue(c.recv[x]))
        sdata == [i \in DOMAIN due |-> [k |-> "maxstreamdata", sid |-> due[i],
                                        max |-> Consumed(c.recv[due[i]]) + StreamWindow]]
        ticket == IF c.tls.tx["a"] = 0 THEN <<>>
                  ELSE <<[k |-> "crypto", off |-> c.appOff, len |-> c.tls.tx["a"]]>>
        refill(k) == IF Replenish(c, k) THEN c.seen[k] + CreditWindow ELSE c.adv[k]
    IN  [ack |-> ack,
         frames |-> done \o c.stops \o c.resets \o streams("bidi") \o streams("uni") \o data
                    \o sdata \o ticket,
         ctrl |-> c.stops \o c.resets,
         c |-> [c EXCEPT !.sp["a"].ackPending = IF ack # <<>> THEN FALSE ELSE @,
                         !.ackN = IF ack # <<>> THEN 0 ELSE @,
                         !.ackTimer = IF ack # <<>> THEN FALSE ELSE @,
                         !.doneSent = TRUE, !.stops = <<>>, !.resets = <<>>,
                         !.adv = [k \in DOMAIN @ |-> refill(k)],
                         !.maxData = IF slid THEN c.dataUsed + DataWindow ELSE @,
                         !.recv = [x \in DOMAIN @ |->
                                     IF x \in Range(due)
                                     THEN [c.recv[x] EXCEPT !.max = Consumed(c.recv[x])
                                                                    + StreamWindow]
                                     ELSE @[x]],
                         !.appOff = @ + c.tls.tx["a"], !.tls.tx["a"] = 0]]

\* The stream data of a packet: the retransmissions, then each stream in turn,
\* with what the retransmissions still waiting leave of the window.
Window(c) == CC!Window(c.cc)
RetxLen(c) == FoldSeq(LAMBDA f, n : n + Len(f.data), 0, c.retx)
ReserveRetx(a) == [a EXCEPT !.wire = Least(@, SatSub(Window(a.c), a.c.flight + RetxLen(a.c)))]
StreamFrames(c) ==
    FoldLeft(PopStream,
             ReserveRetx(PopRetx([c |-> c, frames |-> <<>>, body |-> 0, new |-> 0,
                                  wire |-> SatSub(Window(c), c.flight)], c.flight = 0)),
             SortedIds(c.send))

\* encode_one_rtt_packet_with_keys; `pad' fills the packet up (GSO segments).
\* The result's packet is empty when there was nothing to put into it.
Assemble(ctl, a, pad) ==
    LET sent == [a.c EXCEPT !.dataSent = @ + a.new]
        frames == ctl.ack \o ctl.frames \o a.frames
        eliciting == ctl.frames # <<>> \/ a.frames # <<>>
    IN  IF frames = <<>> THEN [c |-> ctl.c, p |-> <<>>]
        ELSE [c |-> RecordSent(sent, "a", eliciting, IF pad THEN Body + 1 ELSE a.body + 1,
                               a.frames, <<>>, ctl.ctrl),
              p |-> <<Packet(sent, "a", frames)>>]
EncodeOneRtt(c, env, pad) ==
    LET packet(ctl) == Assemble(ctl, StreamFrames(ctl.c), pad)
    IN  IF c.key["a"] THEN packet(ControlFrames(c, env)) ELSE [c |-> c, p |-> <<>>]

Consume(c, n) == [c EXCEPT !.pace = SatSub(@, n)]

\* The CRYPTO fragments declared lost, each in a datagram of its own.
RECURSIVE FlushCryptoRetx(_)
FlushCryptoRetx(c) ==
    LET r == Head(c.cryptoRetx)
        popped == [c EXCEPT !.cryptoRetx = Tail(@)]
        e == EncodeLong(popped, r.l, r.off, r.len, FALSE)
        gone == IF r.l = "i" THEN c.iGone ELSE c.hGone
    IN  IF c.cryptoRetx = <<>> THEN c
        ELSE IF gone THEN FlushCryptoRetx(popped)
        ELSE IF ~AntiAmpOpen(c) THEN c
        ELSE FlushCryptoRetx(RecordBytesSent(Ship(e.c, <<e.p>>)))

\* The fragments of the handshake flight after the first.
RECURSIVE FlushHandshakeTail(_)
FlushHandshakeTail(c) ==
    LET n == Least(c.tls.tx["h"], HsBudget)
        e == EncodeLong([c EXCEPT !.tls.tx["h"] = @ - n, !.hsOff = @ + n], "h", c.hsOff, n, FALSE)
    IN  IF n = 0 \/ c.hGone \/ ~AntiAmpOpen(c) THEN c
        ELSE FlushHandshakeTail(RecordBytesSent(Ship(e.c, <<e.p>>)))

\* The further 1-RTT datagrams of one flush.
RECURSIVE FlushTail(_, _, _)
FlushTail(c, env, n) ==
    LET send(e) == IF e.p = <<>> THEN e.c
                   ELSE FlushTail(RecordBytesSent(Consume(Ship(e.c, e.p), 1)), env, n - 1)
    IN  IF n = 0 \/ ~HasPendingData(c) \/ ~AntiAmpOpen(c) \/ c.pace = 0 THEN c
        ELSE send(EncodeOneRtt(c, env, FALSE))

\* try_flush_gso: one super-packet of equal segments, not paced.
Sendable(c) ==
    RetxLen(c)
    + Least(SatSub(c.peerMax, c.dataSent),
            FoldSet(LAMBDA x, n : n + Least(BufferedLen(c.send[x]),
                                            SatSub(c.send[x].max, c.send[x].offset)),
                    0, DOMAIN c.send))

RECURSIVE GsoSegments(_, _, _)
GsoSegments(c, env, dgrams) ==
    LET add(e) == IF e.p = <<>> THEN [c |-> c, dgrams |-> dgrams]
                  ELSE GsoSegments(RecordBytesSent(e.c), env, Append(dgrams, e.p))
    IN  IF \/ Len(dgrams) = MaxGsoSegments \/ ~HasPendingData(c)
           \/ c.flight + Body + 1 > Window(c)
        THEN [c |-> c, dgrams |-> dgrams]
        ELSE add(EncodeOneRtt(c, env, TRUE))

CanGso(c, env) ==
    /\ env.gso /\ c.tls.tx["a"] = 0
    /\ SatSub(Window(c), c.flight) >= 2 * (Body + 1) /\ Sendable(c) >= 2 * Body

\* encode_close_packet at the highest level there are keys for.
FlushClose(c) ==
    LET ls == {l \in Levels : c.key[l]}
        l == IF "a" \in ls THEN "a" ELSE IF "h" \in ls THEN "h" ELSE "i"
        c1 == [c EXCEPT !.close = "none", !.state = "Failed"]
    IN  IF c.close = "none" THEN c
        ELSE IF ls = {} THEN c1
        ELSE [Ship(c1, <<Packet(c, l, <<[k |-> "close"]>>)>>) EXCEPT !.sp[l].next = @ + 1]

\* The first datagram of a flush: Initial, Handshake and 1-RTT coalesced; `a'
\* holds the connection and the datagram so far.
CoalesceLong(a, l, gone, off, n) ==
    LET c == a.c
        put(e) == [c |-> [e.c EXCEPT !.sp[l].ackPending = FALSE], dgram |-> Append(a.dgram, e.p)]
    IN  IF gone \/ (n = 0 /\ ~c.sp[l].ackPending) THEN [a EXCEPT !.c.sp[l].ackPending = FALSE]
        ELSE put(EncodeLong([c EXCEPT !.tls.tx[l] = @ - n, !.hsOff = IF l = "h" THEN @ + n ELSE @],
                            l, off, n, c.sp[l].ackPending))
CoalesceInitial(a) == CoalesceLong(a, "i", a.c.iGone, 0, a.c.tls.tx["i"])
CoalesceHandshake(a) ==
    CoalesceLong(a, "h", a.c.hGone, a.c.hsOff, Least(a.c.tls.tx["h"], HsBudget))
CoalesceOneRtt(a, env) ==
    LET put(e) == [c |-> Consume(e.c, Len(e.p)), dgram |-> a.dgram \o e.p]
    IN  IF /\ a.c.state = "Established" /\ ~a.c.owned
           /\ HasPendingData(a.c) => a.c.pace > 0
        THEN put(EncodeOneRtt(a.c, env, FALSE)) ELSE a
ShipCoalesced(a) ==
    IF a.dgram = <<>> \/ ~AntiAmpOpen(a.c) THEN a.c ELSE RecordBytesSent(Ship(a.c, a.dgram))
FlushCoalesced(c, env) ==
    ShipCoalesced(CoalesceOneRtt(CoalesceHandshake(CoalesceInitial([c |-> c, dgram |-> <<>>])),
                                 env))

\* flush_outbound_inner: a close, or the lost CRYPTO fragments, the coalesced
\* datagram, the handshake flight, and then 1-RTT datagrams.
FlushGso(c, env) ==
    IF CanGso(c, env) THEN GsoSegments(c, env, <<>>) ELSE [c |-> c, dgrams |-> <<>>]
FlushOneRtt(c, env) ==
    LET put(g) == IF g.dgrams # <<>> THEN [g.c EXCEPT !.out = @ \o g.dgrams]
                  ELSE IF c.owned THEN c
                  ELSE FlushTail(c, env, MaxFlushPackets)
    IN  IF c.state # "Established" THEN c ELSE put(FlushGso(c, env))
FlushLevels(c, env) ==
    IF FlushIsNoop(c, env) THEN c
    ELSE FlushOneRtt(FlushHandshakeTail(FlushCoalesced(c, env)), env)
FlushInner(c, env) ==
    IF c.close # "none" THEN FlushClose(c) ELSE FlushLevels(FlushCryptoRetx(c), env)
FlushOutbound(c, env) ==
    FlushInner(ApplyPeerFlowControl([c EXCEPT !.pace = IF env.pace > @ THEN env.pace ELSE @]), env)

Flush(c, env) == Reap(FlushOutbound(c, env))

\* The egress owner: build_next_one_rtt_datagram until it declines.
HasPendingTx(c, env) ==
    c.out # <<>> \/ (c.state = "Established" /\ c.hGone /\ HasOneRttToSend(c, env))

RECURSIVE BuildAtDrain(_, _, _)
BuildAtDrain(c, env, n) ==
    LET send(e) == IF e.p = <<>> THEN e.c
                   ELSE BuildAtDrain(RecordBytesSent(Consume(Ship(e.c, e.p), 1)), env, n - 1)
    IN  IF \/ n = 0 \/ c.state # "Established" \/ ~c.hGone \/ ~HasOneRttToSend(c, env)
           \/ ~AntiAmpOpen(c) \/ (HasPendingData(c) /\ c.pace = 0)
        THEN c
        ELSE send(EncodeOneRtt(c, env, FALSE))

-----------------------------------------------------------------------------
(* Receiving (rx.rs). *)

\* One frame; an error or a CONNECTION_CLOSE ends the packet.
Frame(a, l, f, env) ==
    LET c == a.c
    IN  CASE f.k \in {"ping", "maxstreams"} -> a
          [] f.k = "crypto" ->
               Ok([c EXCEPT !.tls.rx[l] = IngestCrypto(@, f.off, f.len)])
          [] f.k = "ack" -> Ok(ProcessAck(c, l, f, env.cut))
          [] f.k = "close" -> [c |-> [c EXCEPT !.state = "Failed"], stop |-> TRUE]
          [] f.k = "done" ->
               Ok(IF c.role = "client" THEN DropHandshakeKeys(c) ELSE c)
          [] f.k = "stream" -> StreamIn(c, f)
          [] f.k = "reset" -> ResetIn(c, f)
          [] f.k = "stop" -> StopIn(c, f)
          [] f.k = "maxdata" -> Ok([c EXCEPT !.peerMax = IF f.max > @ THEN f.max ELSE @])
          [] f.k = "maxstreamdata" ->
               Ok(IF f.sid \in DOMAIN c.send
                  THEN [c EXCEPT !.send[f.sid].max = IF f.max > @ THEN f.max ELSE @] ELSE c)

DispatchFrames(c, l, frames, env) ==
    FoldLeft(LAMBDA a, f : IF a.stop THEN a ELSE Frame(a, l, f, env),
             [c |-> c, stop |-> FALSE], frames).c

Received(c, p) ==
    [c EXCEPT !.sp[p.l].ranges = RecordRecvPn(@, p.pn), !.sp[p.l].ackPending = TRUE]

\* process_initial, process_handshake_pkt, process_short_header_packet.  The
\* result is "bad" where the code returns BadState: no keys yet.
Gone(c, l) == (l = "i" /\ c.iGone) \/ (l = "h" /\ c.hGone)
ProcessInitial(c) ==
    IF c.key["i"] THEN c ELSE [c EXCEPT !.key["i"] = TRUE, !.state = "Connecting"]
ProcessHandshake(c) == [DropInitialKeys(c) EXCEPT !.valid = TRUE]
ProcessShort(c) == NoteAppAckEliciting(DropHandshakeKeys(c))

ProcessOnePacket(c, p, env) ==
    LET keyed == IF p.l = "i" THEN ProcessInitial(c) ELSE c
        after(r) == CASE p.l = "i" -> r
                      [] p.l = "h" -> ProcessHandshake(r)
                      [] p.l = "a" -> ProcessShort(r)
    IN  IF Gone(c, p.l) THEN [c |-> c, res |-> "ok"]
        ELSE IF ~keyed.key[p.l] THEN [c |-> c, res |-> "bad"]
        ELSE [c |-> after(Received(DispatchFrames(keyed, p.l, p.fr, env), p)), res |-> "ok"]

\* process_datagram_inner: every packet, each followed by the TLS state
\* machine, until one cannot be read; then the answer.
ProcessPackets(c, dgram, env) ==
    LET advance(r) == IF r.res = "ok" THEN [r EXCEPT !.c = AdvanceTls(@)] ELSE r
    IN  FoldLeft(LAMBDA a, p : IF a.res = "bad" THEN a
                               ELSE advance(ProcessOnePacket(a.c, p, env)),
                 [c |-> [c EXCEPT !.rcvd = IF c.valid THEN @ ELSE @ + 1], res |-> "ok"], dgram)
Answer(c, env) == Reap(IF FlushIsNoop(c, env) THEN c ELSE FlushOutbound(c, env))
AnswerRead(r, env) ==
    IF r.res = "bad" THEN r ELSE [r EXCEPT !.c = Answer(AdvanceTls(@), env)]
ProcessDatagram(c, dgram, env) ==
    IF c.state = "Failed" THEN [c |-> c, res |-> "ok"]
    ELSE AnswerRead(ProcessPackets(c, dgram, env), env)

\* What conn_task and client_conn_task do with a datagram: an error closes
\* the connection.
TaskReceives(c, dgram, env) ==
    LET close(r) == IF r.res = "ok" THEN r.c
                    ELSE FlushClose(CloseWithError(r.c, "internal error"))
    IN  close(ProcessDatagram(c, dgram, env))

\* The deadlines the task reads at the top of its loop.
Deadlines(c) ==
    (IF c.elicited # <<>> THEN {"pto"} ELSE {})
    \cup (IF HasPendingData(c) /\ c.pace = 0 THEN {"pace"} ELSE {})
    \cup (IF c.sp["a"].ackPending /\ c.ackTimer THEN {"ack"} ELSE {})

\* The timer arm of the task's select.
TaskTimer(c, due, env) ==
    LET c1 == IF "pto" \in due THEN SendPtoProbe(c) ELSE c
    IN  IF due \cap {"pace", "ack"} # {} THEN Flush(c1, env) ELSE c1

NewClient == FlushOutbound([NewWith("client") EXCEPT !.key["i"] = TRUE, !.valid = TRUE,
                                                    !.doneSent = TRUE, !.state = "Connecting"],
                           [cut |-> 0, pace |-> 1, late |-> FALSE, gso |-> FALSE, over |-> FALSE])
NewServer == NewWith("server")

-----------------------------------------------------------------------------
(***************************************************************************)
(* A client and a server of this stack, each with its connection task      *)
(* (client_conn_task, conn_task) and an application, over a network that   *)
(* loses, delays, reorders and duplicates datagrams.                       *)
(*                                                                         *)
(* The task reads its deadlines at the top of its loop and then sleeps:    *)
(* `watch' holds the ones it sleeps on.  An application's call changes the *)
(* connection under the sleeping task and does not wake it.  With the      *)
(* egress owner (egress.rs) the server's datagrams leave when the core     *)
(* drains its flows; otherwise, and at the client, a call sends what it    *)
(* has built before it returns.                                            *)
(***************************************************************************)
CONSTANTS Plans,            \* what the ends and the network may do in a run, see `plan'
          Replies,          \* does the server's application write too?
          Environments,     \* the choices of `env'
          NetCap, MaxDups,  \* datagrams in the network; duplicated deliveries
          MaxPn             \* bound on packet numbers

Ends == {"client", "server"}
Other(e) == IF e = "client" THEN "server" ELSE "client"

VARIABLES conn,   \* end -> connection
          watch,  \* end -> deadlines the task sleeps on
          net,    \* datagrams on their way, with their destination
          dups,   \* duplicated deliveries so far
          lost,   \* has the network lost or overtaken a datagram?
          wrote,  \* end -> stream -> bytes the application wrote
          got,    \* end -> stream -> what its reader got
          ended,  \* end -> stream -> "open", "eof" or "aborted"
          plan    \* handshaken: start from an established connection?
                  \* streams, len: the client's streams, the bytes written to each, one at a time
                  \* resets: may an application reset or stop a stream?
                  \* owner: does the per-core egress owner drive the server's connection?
                  \* pto, loses: may the probe timeout run out, may the network lose a datagram?

vars == <<conn, watch, net, dups, lost, wrote, got, ended, plan>>

\* The streams of the run.
Streams == plan.streams

Established(role) ==
    [NewWith(role) EXCEPT
        !.state = "Established", !.key = [l \in Levels |-> l # "i"], !.iGone = TRUE,
        !.hGone = TRUE, !.valid = TRUE, !.doneSent = TRUE, !.fc = TRUE,
        !.peerMax = DataWindow, !.peerStream = StreamWindow,
        !.tls.st = "Established", !.tls.hs = TRUE, !.tls.ap = TRUE, !.tls.tx["i"] = 0]

\* The datagrams that survive, by their place in the queue.
Kept(out) == IF plan.loses THEN SUBSET DOMAIN out ELSE {DOMAIN out}

\* Datagrams leave the connection for the network; each is lost or not, and
\* beyond NetCap in flight all are.
Leave(e, c, rest) ==
    \E keep \in Kept(c.out) :
        LET sent == {[to |-> Other(e), d |-> c.out[i]] : i \in keep}
        IN  /\ conn' = [conn EXCEPT ![e] = [c EXCEPT !.out = <<>>]]
            /\ Cardinality(rest \cup sent) <= NetCap
            /\ net' = rest \cup sent
            /\ lost' = (lost \/ keep # DOMAIN c.out)

\* The connection after a handler; `rest' is the network without what the
\* handler took from it.
Numbered(c) == \A l \in Levels : c.sp[l].next <= MaxPn
Step(e, c, rest) ==
    /\ Numbered(c)
    /\ IF c.owned
       THEN conn' = [conn EXCEPT ![e] = c] /\ net' = rest /\ lost' = lost
       ELSE Leave(e, c, rest)

Sleep(e) == watch' = [watch EXCEPT ![e] = Deadlines(conn'[e])]

\* set_tx_owner_driven, when the server's task has registered its flow.
Owned(c) == [c EXCEPT !.owned = plan.owner /\ c.role = "server"]

Init ==
    /\ plan \in Plans /\ dups = 0 /\ lost = FALSE
    /\ IF plan.handshaken
       THEN /\ conn = [e \in Ends |-> Owned(Established(e))]
            /\ net = {}
       ELSE \E client \in {NewClient} :
              /\ conn = [e \in Ends |-> IF e = "client" THEN [client EXCEPT !.out = <<>>]
                                        ELSE Owned(NewServer)]
              /\ net \in SUBSET {[to |-> "server", d |-> client.out[1]]}
    /\ watch = [e \in Ends |-> Deadlines(conn[e])]
    /\ wrote = [e \in Ends |-> [s \in Streams |-> 0]]
    /\ got = [e \in Ends |-> [s \in Streams |-> <<>>]]
    /\ ended = [e \in Ends |-> [s \in Streams |-> "open"]]

-----------------------------------------------------------------------------
\* A datagram arrives and the task handles it.  A server connection starts
\* with an Initial packet; the endpoint drops anything else.
Deliver(e, m, env) ==
    /\ m \in net /\ m.to = e
    /\ conn[e].state # "Failed"
    /\ conn[e].state = "PreHandshake" => m.d[1].l = "i"
    /\ \E again \in BOOLEAN :
          /\ again => dups < MaxDups
          /\ dups' = IF again THEN dups + 1 ELSE dups
          /\ Step(e, TaskReceives(conn[e], m.d, env), IF again THEN net ELSE net \ {m})
    /\ Sleep(e)
    /\ UNCHANGED <<wrote, got, ended>>

\* The task's sleep ends with some of its deadlines past.
Timer(e, env) ==
    /\ conn[e].state # "Failed"
    /\ \E due \in SUBSET watch[e] \ {{}} :
          /\ "pto" \in due => plan.pto /\ conn[e].pto < MaxPto
          /\ Step(e, TaskTimer(conn[e], due, env), net)
    /\ Sleep(e)
    /\ UNCHANGED <<dups, wrote, got, ended>>

\* drain_current_core: the flow sends what it holds and builds the rest.
DrainPackets(env) ==
    LET paced == [conn["server"] EXCEPT !.pace = IF env.pace > @ THEN env.pace ELSE @]
        leave(c) == Numbered(c) /\ Leave("server", c, net)
    IN  /\ conn["server"].owned
        /\ HasPendingTx(conn["server"], env)
        /\ leave(BuildAtDrain(paced, env, MaxFlushPackets))
        /\ UNCHANGED <<watch, dups, wrote, got, ended>>

-----------------------------------------------------------------------------
(* The applications' calls. *)

\* The client may use a stream once connected, the server once it has
\* accepted the stream.
Usable(e, s) ==
    /\ conn[e].state = "Established"
    /\ e = "server" => /\ Replies
                       /\ \/ s \in Range(conn[e].opened) \/ IsReaped(conn[e], s)
                          \/ s \in DOMAIN conn[e].recv

Call(e, c, env) == Step(e, Flush(c, env), net) /\ UNCHANGED <<watch, dups>>

\* send_owned
Send(e, s, env) ==
    /\ Usable(e, s)
    /\ wrote[e][s] < plan.len /\ (s \in DOMAIN conn[e].send => conn[e].send[s].state = "Open")
    /\ ~IsReaped(conn[e], s)
    /\ LET c == EnsureSendStream(conn[e], s)
       IN  Call(e, [c EXCEPT !.send[s] = WriteIobuf(@, <<wrote[e][s]>>)], env)
    /\ wrote' = [wrote EXCEPT ![e][s] = @ + 1]
    /\ UNCHANGED <<got, ended>>

\* close_stream
CloseStream(e, s, env) ==
    /\ Usable(e, s)
    /\ s \in DOMAIN conn[e].send /\ conn[e].send[s].state = "Open"
    /\ Call(e, [conn[e] EXCEPT !.send[s] = CloseSend(@)], env)
    /\ UNCHANGED <<wrote, got, ended>>

\* reset_stream
Reset(e, s, env) ==
    /\ plan.resets /\ Usable(e, s)
    /\ s \in DOMAIN conn[e].send /\ conn[e].send[s].state \in {"Open", "Closing", "FinSent"}
    /\ Call(e, ResetStream(conn[e], s), env)
    /\ UNCHANGED <<wrote, got, ended>>

\* stop_sending
Stop(e, s, env) ==
    /\ plan.resets /\ Usable(e, s) /\ ended[e][s] = "open"
    /\ s \in DOMAIN conn[e].recv
    /\ Call(e, StopSending(conn[e], s), env)
    /\ ended' = [ended EXCEPT ![e][s] = "aborted"]
    /\ UNCHANGED <<wrote, got>>

\* recv, with the credit it frees: the reader takes what is buffered.
Recv(e, s, env) ==
    /\ Usable(e, s) \/ (e = "server" /\ s \in DOMAIN conn[e].recv)
    /\ ended[e][s] = "open" /\ s \in DOMAIN conn[e].recv
    /\ conn[e].state = "Established"
    /\ LET r == conn[e].recv[s]
           c == Take(conn[e], s, Len(r.buffer))
           reset == s \in Range(conn[e].peerResets)
       IN  /\ r.buffer # <<>> \/ AtEof(r)
           /\ IF r.buffer # <<>> /\ RecvCreditDue(c) THEN Step(e, Flush(c, env), net)
              ELSE conn' = [conn EXCEPT ![e] = c] /\ UNCHANGED <<net, lost>>
           /\ got' = [got EXCEPT ![e][s] = @ \o r.buffer]
           /\ ended' = [ended EXCEPT ![e][s] = IF IsClosed(r)
                                               THEN IF reset THEN "aborted" ELSE "eof" ELSE @]
    /\ UNCHANGED <<watch, dups, wrote>>

\* accept_stream
Accept ==
    /\ conn["server"].opened # <<>>
    /\ conn["server"].state = "Established"
    /\ conn' = [conn EXCEPT !["server"].opened = Tail(@)]
    /\ UNCHANGED <<watch, net, dups, lost, wrote, got, ended>>

\* The surroundings that make a difference to a step of e: a timer is late
\* only if it runs, and only an ACK frame declares packets lost.
Acks(m) == \E p \in Range(m.d) : \E f \in Range(p.fr) : f.k = "ack"
Around(e, acks) == {x \in Environments : (x.late => conn[e].ackTimer) /\ (x.cut # 0 => acks)}

Next ==
    /\ \/ \E e \in Ends :
             \/ \E m \in net : \E env \in Around(e, Acks(m)) : Deliver(e, m, env)
             \/ \E env \in Around(e, FALSE) :
                  \/ Timer(e, env)
                  \/ \E s \in Streams :
                        \/ Send(e, s, env) \/ CloseStream(e, s, env) \/ Reset(e, s, env)
                        \/ Stop(e, s, env) \/ Recv(e, s, env)
       \/ \E env \in Around("server", FALSE) : DrainPackets(env)
       \/ Accept
    /\ UNCHANGED plan

Spec == Init /\ [][Next]_vars

-----------------------------------------------------------------------------
(* Properties. *)

Pieces(e) == [s \in Streams |-> got[e][s] \o
                 (IF s \in DOMAIN conn[e].recv THEN conn[e].recv[s].buffer ELSE <<>>)]

\* What a reader has got is what the peer's application wrote, in order and
\* without gap or repetition, whatever the network did to the packets; and a
\* reader told of the end of the stream has got all of it.
StreamIntegrity ==
    \A e \in Ends, s \in Streams :
        /\ ended[e][s] # "aborted" =>
             Pieces(e)[s] = [i \in 1 .. Len(Pieces(e)[s]) |-> i - 1]
        /\ Len(got[e][s]) <= wrote[Other(e)][s]
        /\ ended[e][s] = "eof" => Len(got[e][s]) = wrote[Other(e)][s]

SumOver(f) == FoldSet(LAMBDA x, n : n + f[x], 0, DOMAIN f)

\* The connection's receive credit is accounted exactly: what has arrived and
\* not been consumed is what the live streams hold, within what was promised.
CreditExact ==
    \A e \in Ends :
        LET c == conn[e]
            held == [s \in DOMAIN c.recv |-> c.recv[s].high - Consumed(c.recv[s])]
        IN  /\ c.dataRecv - c.dataUsed = SumOver(held)
            /\ c.dataRecv <= c.maxData

\* bytes_in_flight is the weight of the ack-eliciting packets still tracked,
\* over all three spaces, through acknowledgement, loss and key discard.
FlightExact ==
    \A e \in Ends :
        conn[e].flight = Bytes(conn[e].sp["i"].sent) + Bytes(conn[e].sp["h"].sent)
                         + Bytes(conn[e].sp["a"].sent)

\* Every stream byte sent and not yet received is in a packet the sender
\* still tracks or in its retransmission queue, unless the stream was reset.
StreamRetained ==
    \A e \in Ends, s \in Streams :
        LET c == conn[e]
            o == conn[Other(e)]
            frames == UNION {Range(p.streams) : p \in c.sp["a"].sent} \cup Range(c.retx)
        IN  (/\ s \in DOMAIN c.send /\ c.send[s].state # "ResetSent"
             /\ s \in DOMAIN o.recv /\ c.state = "Established" /\ o.state = "Established")
            => \A b \in o.recv[s].offset .. c.send[s].offset - 1 :
                  \/ \E f \in frames : f.sid = s /\ f.off <= b /\ b < f.off + Len(f.data)
                  \/ \E x \in DOMAIN o.recv[s].gap :
                        x <= b /\ b < x + Len(o.recv[s].gap[x])

\* Two endpoints of this stack never accuse each other of breaking the
\* protocol, whatever the network does.
NoFalseAccusation ==
    \A e \in Ends : conn[e].close \notin {"stream limit", "flow control", "final size",
                                          "stream state"}

\* Ack-eliciting packets in flight have a probe timeout running.
InFlightIsTimed ==
    \A e \in Ends : conn[e].state = "Established" /\ conn[e].flight > 0 => conn[e].elicited # <<>>

\* Every byte of the handshake flight that the peer lacks is still to be sent,
\* in a packet still tracked, or queued to go again, until its keys go.
CryptoRetained ==
    \A e \in Ends :
        LET c == conn[e]
            o == conn[Other(e)]
            frames == UNION {Range(p.crypto) : p \in c.sp["h"].sent} \cup Range(c.cryptoRetx)
            all == c.hsOff + c.tls.tx["h"]
            have(b) == \/ b < o.tls.rx["h"].have
                       \/ \E x \in o.tls.rx["h"].pending : x[1] <= b /\ b < x[1] + x[2]
        IN  c.state # "Failed" /\ o.state # "Failed" /\ ~c.hGone =>
            \A b \in 0 .. all - 1 :
                have(b) \/ b >= c.hsOff
                \/ \E f \in frames : f.l = "h" /\ f.off <= b /\ b < f.off + f.len

\* A side that has dropped its handshake keys has completed the handshake.
KeysOutliveHandshake ==
    \A e \in Ends : conn[e].hGone /\ conn[e].state # "Failed" => conn[e].state = "Established"

\* A connection between two endpoints of this stack does not fail because
\* packets were lost or overtook each other.
SurvivesReordering == \A e \in Ends : conn[e].state # "Failed"

\* The end of a stream reaches its reader: a stream is forgotten only after
\* its reader has been told that it ended.
EndIsDelivered ==
    \A e \in Ends, s \in Streams : IsReaped(conn[e], s) => ended[e][s] # "open"

\* The task sleeps no longer than the probe timeout of what is in flight.
ProbeIsWatched ==
    \A e \in Ends : conn[e].state = "Established" /\ conn[e].elicited # <<>> => "pto" \in watch[e]
=============================================================================
