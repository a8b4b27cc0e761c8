------------------------------ MODULE HvfProxy ------------------------------
(***************************************************************************)
(* The userspace TCP proxy of the macOS runner, for one vCPU: it accepts   *)
(* host connections and plays their TCP peer towards the guest (inbound),  *)
(* and it dials host sockets for connections the guest opens (outbound).   *)
(* The vCPU thread alone runs it, in two ways: synchronously when the      *)
(* guest kicks a transmit queue (Handle), and as one poll iteration        *)
(* between two guest entries (Poll).  Frames to the guest need a buffer    *)
(* the guest has posted in its receive ring.                               *)
(*                                                                         *)
(* s is the proxy, the ring and the host side; g is the guest's TCP, the   *)
(* real stack reduced to what the proxy relies on: it takes only the next  *)
(* segment in sequence and retransmits what is not acknowledged.           *)
(***************************************************************************)
EXTENDS Integers, Sequences, FiniteSets, SequencesExt

CONSTANTS
    In,            \* connections hosts open towards the guest
    Out,           \* connections the guest opens towards hosts
    Mss,           \* bytes of one segment
    RingSize,      \* receive buffers the guest posts
    MaxOutbound,   \* MAX_OUTBOUND_TCP
    WordMod,        \* 2^32, sequence numbers wrap
    ProxyIsn,      \* 1000 in the code
    GuestIsn,
    HostLen,       \* bytes a host writes on a connection
    GuestLen,      \* bytes the guest writes on a connection
    Coalesces,     \* the guest puts its FIN on the last data segment
    MaxRetx,       \* guest retransmissions considered
    MayAbort,      \* the guest may reset a connection
    MayFail,       \* host sockets may report an error
    MaxTicks,      \* idle periods of OUTBOUND_IDLE_TIMEOUT considered
    StartsReady    \* the guest's queues are set up from the start

VARIABLES s, g, retx, ticks
vars == <<s, g, retx, ticks>>

Conns == In \cup Out
Wrap(n) == n % WordMod
Least(a, b) == IF a < b THEN a ELSE b

Frame(c, fl, seq, ack, data) == [c |-> c, fl |-> fl, seq |-> seq, ack |-> ack, data |-> data]

-----------------------------------------------------------------------------
\* The receive ring.

CanInject(x) == x.ready /\ x.avail > 0
inject_frame(x, f) == [x EXCEPT !.avail = @ - 1, !.rx = Append(@, f)]

\* Staged replies go out in order for as long as the ring takes them.
drain_tx_replies(x) ==
    LET n == IF x.ready THEN Least(x.avail, Len(x.rep)) ELSE 0
    IN  [x EXCEPT !.avail = @ - n, !.rx = @ \o SubSeq(x.rep, 1, n),
                  !.rep = SubSeq(@, n + 1, Len(@))]

reply(x, f) == [x EXCEPT !.rep = Append(@, f)]

\* close(2) on the host socket: the host sees everything written, then EOF.
close_fd(x, c, rst) ==
    IF x.h[c].fd \in {"conn", "open", "shut"}
    THEN [x EXCEPT !.h[c].fd = "closed", !.h[c].rst = @ \/ rst]
    ELSE x

\* Best-effort write of a guest payload: a closed descriptor takes nothing.
write_best_effort(x, c, data) ==
    IF x.h[c].fd = "open" THEN [x EXCEPT !.h[c].rcvd = @ \o data] ELSE x

-----------------------------------------------------------------------------
\* Outbound flows: the state machine of outbound_fsm.rs.

Flow == [st |-> "Connecting", my |-> ProxyIsn, ack |-> Wrap(GuestIsn + 1),
         pending |-> <<>>, host_eof |-> FALSE, idle |-> FALSE]
NoFlow == [Flow EXCEPT !.st = "none"]

NoCtl == [fl |-> {}, seq |-> 0, ack |-> 0]
Ctl(fl, seq, ack) == [fl |-> fl, seq |-> seq, ack |-> ack]
\* What the machine asks for: the next flow, whether to write the payload, the
\* operation on the host socket, a control frame, and whether to forget it.
Verdict(f, write, op, ctl, remove) ==
    [f |-> f, write |-> write, op |-> op, ctl |-> ctl, remove |-> remove]
Quiet(f) == Verdict(f, FALSE, "none", NoCtl, FALSE)
CtlOnly(f, ctl) == Verdict(f, FALSE, "none", ctl, FALSE)

refuse_syn(isn) == Ctl({"RST", "ACK"}, 0, Wrap(isn + 1))

on_connect_result(f, ok) ==
    IF f.st # "Connecting" THEN Quiet(f)
    ELSE IF ok THEN CtlOnly([f EXCEPT !.my = Wrap(@ + 1), !.st = "SynAckSent"],
                            Ctl({"SYN", "ACK"}, f.my, f.ack))
    ELSE Verdict(f, FALSE, "close", refuse_syn(Wrap(f.ack - 1)), TRUE)

established_segment(f, seq, fl, len) ==
    LET fin == "FIN" \in fl
        ack == Wrap(seq + len + (IF fin THEN 1 ELSE 0))
        f1  == IF len > 0 \/ fin THEN [f EXCEPT !.ack = ack] ELSE f
        f2  == IF fin THEN [f1 EXCEPT !.st = "GuestClosed"] ELSE f1
    IN  Verdict(f2, len > 0, IF fin THEN "shutdown" ELSE "none",
                IF len > 0 \/ fin THEN Ctl({"ACK"}, f.my, ack) ELSE NoCtl, FALSE)

on_guest_segment(f, seq, fl, len) ==
    LET reack == CtlOnly(f, Ctl({"ACK"}, f.my, f.ack)) IN
    IF "RST" \in fl THEN Verdict(f, FALSE, "close_rst", NoCtl, TRUE)
    ELSE CASE f.st = "Connecting" -> Quiet(f)
           [] f.st = "SynAckSent" ->
                IF "SYN" \in fl THEN CtlOnly(f, Ctl({"SYN", "ACK"}, Wrap(f.my - 1), f.ack))
                ELSE IF "ACK" \notin fl THEN Quiet(f)
                ELSE established_segment([f EXCEPT !.st = "Established"], seq, fl, len)
           [] f.st = "Established" -> established_segment(f, seq, fl, len)
           [] f.st = "GuestClosed" ->
                IF len > 0 \/ "FIN" \in fl THEN reack ELSE Quiet(f)
           [] f.st = "FinWait" ->
                LET fin == IF "FIN" \in fl THEN 1 ELSE 0
                    f1  == [f EXCEPT !.ack = Wrap(seq + len + fin)]
                IN  IF fin = 1 \/ len > 0
                    THEN Verdict(f1, FALSE, "none", Ctl({"ACK"}, f.my, f1.ack), fin = 1)
                    ELSE Quiet(f)

on_host_eof(f) ==
    LET ctl == Ctl({"FIN", "ACK"}, f.my, f.ack)
        f1  == [f EXCEPT !.my = Wrap(@ + 1)]
    IN  IF f.st = "GuestClosed" THEN Verdict(f1, FALSE, "close", ctl, TRUE)
        ELSE Verdict([f1 EXCEPT !.st = "FinWait"], FALSE, "close", ctl, FALSE)

on_host_error(f) == Verdict(f, FALSE, "close", Ctl({"RST"}, f.my, f.ack), TRUE)

apply_host_op(x, c, op) ==
    CASE op = "none" -> x
      [] op = "shutdown" -> IF x.h[c].fd = "open" THEN [x EXCEPT !.h[c].fd = "shut"] ELSE x
      [] op = "close" -> close_fd(x, c, FALSE)
      [] op = "close_rst" -> close_fd(x, c, TRUE)

\* The verdict carried out: payload first, then the host socket, then the
\* control frame is staged, then a finished flow leaves the map.
Carry(x, c, v, data) ==
    LET x1 == [x EXCEPT !.out[c] = v.f]
        x2 == IF v.write THEN write_best_effort(x1, c, data) ELSE x1
        x3 == apply_host_op(x2, c, v.op)
        x4 == IF v.ctl.fl = {} THEN x3
              ELSE reply(x3, Frame(c, v.ctl.fl, v.ctl.seq, v.ctl.ack, <<>>))
    IN  IF v.remove THEN [close_fd(x4, c, FALSE) EXCEPT !.out[c] = NoFlow] ELSE x4

\* A SYN for an unknown flow: refused at the cap, else a non-blocking connect
\* that resolves at once ("now"), fails at once, or is polled for later.
open_flow(x, c, isn, res) ==
    LET no == refuse_syn(isn)
        f  == [Flow EXCEPT !.ack = Wrap(isn + 1)]
        x1 == [x EXCEPT !.out[c] = f, !.h[c].fd = IF res = "now" THEN "open" ELSE "conn"]
    IN  IF \/ res = "refused"
           \/ Cardinality({d \in Out : x.out[d].st # "none"}) >= MaxOutbound
        THEN reply(x, Frame(c, no.fl, no.seq, no.ack, <<>>))
        ELSE IF res = "now" THEN Carry(x1, c, on_connect_result(f, TRUE), <<>>)
        ELSE x1

handle_guest_segment(x, f, res) ==
    IF x.out[f.c].st # "none"
    THEN LET touched == [x.out[f.c] EXCEPT !.idle = FALSE]
         IN  Carry(x, f.c, on_guest_segment(touched, f.seq, f.fl, Len(f.data)), f.data)
    ELSE IF f.fl \cap {"SYN", "ACK"} = {"SYN"} THEN open_flow(x, f.c, f.seq, res)
    ELSE x

-----------------------------------------------------------------------------
\* Inbound connections: handle_tcp and snap_and_update of guest_tx.rs.

NoConn == [st |-> "none", my |-> 0, ack |-> 0, pending |-> <<>>]

\* The state moves under the lock, FIN closing the host descriptor; the write
\* and the replies come after it and use the state as it was before.
snap_and_update(x, c, f) ==
    LET k == x.in[c]
        fin == "FIN" \in f.fl
        len == Len(f.data)
    IN  CASE k.st = "SynSent" /\ {"SYN", "ACK"} \subseteq f.fl ->
               [x EXCEPT !.in[c].ack = Wrap(f.seq + 1), !.in[c].st = "Established"]
          [] k.st = "Established" ->
               LET a  == IF len > 0 THEN Wrap(f.seq + len) ELSE k.ack
                   x1 == [x EXCEPT !.in[c].ack = IF fin THEN Wrap(a + 1) ELSE a]
               IN  IF fin
                   THEN close_fd([x1 EXCEPT !.in[c].my = Wrap(@ + 1), !.in[c].st = "Closed"],
                                 c, FALSE)
                   ELSE x1
          [] k.st = "FinWait" /\ fin ->
               [x EXCEPT !.in[c].ack = Wrap(f.seq + len + 1), !.in[c].st = "Closed"]
          [] OTHER -> x

\* What the guest's segment is answered with.
inbound_replies(x, k, f) ==
    LET len == Len(f.data)
        fin == "FIN" \in f.fl
        ans(fl, ack) == Frame(f.c, fl, k.my, Wrap(ack), <<>>)
        data == IF len > 0 THEN <<ans({"ACK"}, f.seq + len)>> ELSE <<>>
    IN  [x EXCEPT !.rep = @ \o
          CASE k.st = "SynSent" /\ {"SYN", "ACK"} \subseteq f.fl -> <<ans({"ACK"}, f.seq + 1)>>
            [] k.st = "Established" ->
                 data \o (IF fin THEN <<ans({"FIN", "ACK"}, f.seq + len + 1)>> ELSE <<>>)
            [] k.st = "FinWait" /\ fin -> <<ans({"ACK"}, f.seq + len + 1)>>
            [] OTHER -> <<>>]

handle_inbound(x, f) ==
    LET k == x.in[f.c] IN
    IF "RST" \in f.fl
    THEN [close_fd(x, f.c, TRUE) EXCEPT !.in[f.c].st = "Closed"]
    ELSE LET x1 == snap_and_update(x, f.c, f)
             x2 == IF k.st = "Established" THEN write_best_effort(x1, f.c, f.data) ELSE x1
         IN  inbound_replies(x2, k, f)

\* A frame from the guest's transmit queue, handled while the guest waits.
handle_tcp(x, f, res) ==
    IF f.c \in Out THEN handle_guest_segment(x, f, res)
    ELSE IF x.in[f.c].st # "none" THEN handle_inbound(x, f)
    ELSE x

-----------------------------------------------------------------------------
\* One poll iteration.

\* Outbound data stops at a full ring; the tail is the caller's.
RECURSIVE inject_outbound_data(_, _, _)
inject_outbound_data(x, c, data) ==
    IF data = <<>> \/ x.avail = 0 THEN [x |-> x, rest |-> data]
    ELSE LET n == Least(Mss, Len(data))
             k == x.out[c]
             f == Frame(c, {"ACK"}, k.my, k.ack, SubSeq(data, 1, n))
         IN  inject_outbound_data([inject_frame(x, f) EXCEPT !.out[c].my = Wrap(@ + n)],
                                  c, SubSeq(data, n + 1, Len(data)))

\* Inbound data of the backlog: the sequence number moves whether or not the
\* ring took the frame.
RECURSIVE inject_data_frames(_, _, _)
inject_data_frames(x, c, data) ==
    IF data = <<>> THEN x
    ELSE LET n == Least(Mss, Len(data))
             k == x.in[c]
             f == Frame(c, {"ACK"}, k.my, k.ack, SubSeq(data, 1, n))
             y == IF x.avail > 0 THEN inject_frame(x, f) ELSE x
         IN  inject_data_frames([y EXCEPT !.in[c].my = Wrap(@ + n)],
                                c, SubSeq(data, n + 1, Len(data)))

\* Folds an operator of the state and a connection over a set of connections.
Each(Op(_, _), x, cs) == FoldLeft(Op, x, SetToSeq(cs))

flush_established_pending(x) ==
    LET flush(y, c) == inject_data_frames([y EXCEPT !.in[c].pending = <<>>], c, y.in[c].pending)
    IN  Each(flush, x, {c \in In : x.in[c].st = "Established" /\ x.ready})

\* What poll(2) reports for the descriptors of the layout.
poll_wants(x, c) == x.out[c].st \in {"Connecting", "Established", "GuestClosed"}
                    /\ x.h[c].fd \in {"conn", "open", "shut"}
Readable(x, c) == x.h[c].err \/ x.h[c].src # <<>> \/ x.h[c].eof
Fired(x, c, conn) ==
    IF c \in Out THEN /\ poll_wants(x, c)
                      /\ IF x.out[c].st = "Connecting" THEN conn[c] # "wait" ELSE Readable(x, c)
    ELSE /\ x.h[c].fd \in {"open", "shut"} /\ x.in[c].st \in {"SynSent", "Established", "FinWait"}
         /\ Readable(x, c)

accept_listen_backlog(x) ==
    LET new == {c \in In : x.h[c].fd = "backlog"}
        take(y, c) == [reply(y, Frame(c, {"SYN"}, ProxyIsn, 0, <<>>))
                        EXCEPT !.h[c].fd = "open",
                               !.in[c] = [st |-> "SynSent", my |-> Wrap(ProxyIsn + 1),
                                          ack |-> 0, pending |-> <<>>]]
    IN  IF new = {} THEN x ELSE drain_tx_replies(Each(take, x, new))

\* read(2) until it would block: everything the host has written.
drain_flow_rx(x, c) ==
    LET data == x.h[c].src
        x0   == [x EXCEPT !.h[c].src = <<>>, !.h[c].read = @ \o data]
        hold == ~x.ready \/ x.out[c].pending # <<>>
        r    == IF hold THEN [x |-> x0, rest |-> data] ELSE inject_outbound_data(x0, c, data)
        x1   == [r.x EXCEPT !.out[c].pending = @ \o r.rest]
    IN  IF x.h[c].err THEN Carry(x, c, on_host_error(x.out[c]), <<>>)
        ELSE IF ~x.h[c].eof THEN x1
        ELSE LET x2 == close_fd(x1, c, FALSE)
             IN  IF x2.out[c].pending = <<>> THEN Carry(x2, c, on_host_eof(x2.out[c]), <<>>)
                 ELSE [x2 EXCEPT !.out[c].host_eof = TRUE]

\* The backlog of flows the ring stopped, and the FIN deferred behind it.
flush_outbound(x) ==
    LET flush(y, c) ==
          LET r  == inject_outbound_data([y EXCEPT !.out[c].pending = <<>>], c, y.out[c].pending)
              y1 == [r.x EXCEPT !.out[c].pending = r.rest]
          IN  IF r.rest # <<>> \/ ~y.out[c].host_eof THEN y1
              ELSE Carry([y1 EXCEPT !.out[c].host_eof = FALSE], c,
                         on_host_eof([y1.out[c] EXCEPT !.host_eof = FALSE]), <<>>)
    IN  IF ~x.ready THEN x
        ELSE Each(flush, x, {c \in Out : x.out[c].pending # <<>> \/ x.out[c].host_eof})

drain_outbound_tcp(x, fired, conn) ==
    LET serve(y, c) ==
          LET f == [y.out[c] EXCEPT !.idle = FALSE]
              ok == conn[c] = "ok"
              z == IF ok THEN [y EXCEPT !.h[c].fd = "open"] ELSE y
          IN  IF y.out[c].st = "none" THEN y
              ELSE IF f.st = "Connecting" THEN Carry(z, c, on_connect_result(f, ok), <<>>)
              ELSE drain_flow_rx([y EXCEPT !.out[c] = f], c)
        x1 == Each(serve, flush_outbound(x), fired \cap Out)
    IN  IF Len(x1.rep) > Len(x.rep) THEN drain_tx_replies(x1) ELSE x1

\* Connections whose descriptor fired, as they were before any of the reads.
ConnSnap(x, fired) == {c \in fired \cap In : x.in[c].st = "Established"}

\* One read, straight into a posted buffer; without a buffer nothing is read.
ReadInto(r, c) ==
    LET x == r.x
        n == Least(Mss, Len(x.h[c].src))
        data == SubSeq(x.h[c].src, 1, n)
        k == x.in[c]
        y == [x EXCEPT !.h[c].src = SubSeq(@, n + 1, Len(@)), !.h[c].read = @ \o data]
    IN  IF x.avail = 0 THEN r
        ELSE IF x.h[c].err THEN [r EXCEPT !.ended = @ \cup {c}]
        ELSE IF n = 0 THEN IF x.h[c].eof THEN [r EXCEPT !.ended = @ \cup {c}] ELSE r
        ELSE [r EXCEPT !.x = inject_frame(y, Frame(c, {"ACK"}, k.my, k.ack, data)),
                       !.adv = [@ EXCEPT ![c] = n]]

\* The results of the reads, applied after all of them: the sequence advance, a
\* FIN at EOF, a RST on an error.  Whether the ring took that frame is not
\* looked at.
ApplyResult(r, c) ==
    LET x  == [r.x EXCEPT !.in[c].my = Wrap(@ + r.adv[c])]
        k  == x.in[c]
        fl == IF x.h[c].err THEN {"RST"} ELSE {"FIN", "ACK"}
        y  == IF x.avail > 0 THEN inject_frame(x, Frame(c, fl, k.my, k.ack, <<>>)) ELSE x
        z  == IF x.h[c].err THEN [y EXCEPT !.in[c].st = "Closed"]
              ELSE [y EXCEPT !.in[c].st = "FinWait", !.in[c].my = Wrap(@ + 1)]
    IN  [r EXCEPT !.x = IF c \in r.ended THEN close_fd(z, c, FALSE) ELSE x]

\* Before the queue is ready the data waits in the connection.
HoldUnready(x, c) ==
    [x EXCEPT !.in[c].pending = @ \o x.h[c].src, !.h[c].src = <<>>,
              !.h[c].read = @ \o x.h[c].src]

drain_conn_rx(x, fired) ==
    LET mine == ConnSnap(x, fired)
        r0 == [x |-> x, ended |-> {}, adv |-> [c \in In |-> 0]]
    IN  IF x.ready THEN Each(ApplyResult, Each(ReadInto, r0, mine), mine).x
        ELSE Each(HoldUnready, x, fired \cap In)

\* The sweep of every thousandth iteration.
sweep(x) ==
    LET reap(y, c) == IF y.out[c].idle THEN [close_fd(y, c, FALSE) EXCEPT !.out[c] = NoFlow] ELSE y
        x1 == [x EXCEPT !.in = [c \in In |-> IF @[c].st = "Closed" /\ x.h[c].fd = "closed"
                                             THEN NoConn ELSE @[c]]]
    IN  Each(reap, x1, Out)

\* poll(2) that finds no descriptor ready ends the iteration early.
poll_worker_iteration(x, conn, swept) ==
    LET x1    == flush_established_pending(drain_tx_replies(x))
        fired == {c \in Conns : Fired(x1, c, conn)}
        x2    == accept_listen_backlog(x1)
        x3    == drain_conn_rx(drain_outbound_tcp(x2, fired, conn), fired)
    IN  IF fired = {} /\ ~(\E c \in In : x1.h[c].fd = "backlog") THEN x1
        ELSE IF swept THEN sweep(x3) ELSE x3

Poll ==
    \E conn \in [{c \in Out : s.out[c].st = "Connecting"} -> {"wait", "ok", "fail"}],
       swept \in BOOLEAN :
        /\ swept => MaxTicks > 0
        /\ s' = poll_worker_iteration(s, conn @@ [c \in Out |-> "wait"], swept)
        /\ UNCHANGED <<g, retx, ticks>>

\* OUTBOUND_IDLE_TIMEOUT passes with no activity on a flow.
Idle(c) ==
    /\ ticks < MaxTicks /\ s.out[c].st # "none" /\ ~s.out[c].idle
    /\ s' = [s EXCEPT !.out[c].idle = TRUE]
    /\ ticks' = ticks + 1
    /\ UNCHANGED <<g, retx>>

\* The guest's driver writes QUEUE_READY.
QueueReady ==
    /\ ~s.ready
    /\ s' = [s EXCEPT !.ready = TRUE, !.avail = RingSize]
    /\ UNCHANGED <<g, retx, ticks>>

-----------------------------------------------------------------------------
\* Hosts.

HostConnect(c) ==
    /\ s.h[c].fd = "none"
    /\ s' = [s EXCEPT !.h[c].fd = "backlog"]
    /\ UNCHANGED <<g, retx, ticks>>

HostWrite(c) ==
    /\ s.h[c].fd \in {"backlog", "open", "shut"} /\ ~s.h[c].eof /\ ~s.h[c].err
    /\ s.h[c].wrote < HostLen
    /\ s' = [s EXCEPT !.h[c].wrote = @ + 1, !.h[c].src = Append(@, s.h[c].wrote + 1)]
    /\ UNCHANGED <<g, retx, ticks>>

HostClose(c) ==
    /\ s.h[c].fd \in {"backlog", "open", "shut"} /\ ~s.h[c].eof /\ ~s.h[c].err
    /\ s' = [s EXCEPT !.h[c].eof = TRUE]
    /\ UNCHANGED <<g, retx, ticks>>

\* A reset drops what was not read.
HostFail(c) ==
    /\ MayFail /\ s.h[c].fd \in {"open", "shut"} /\ ~s.h[c].err
    /\ s' = [s EXCEPT !.h[c].err = TRUE, !.h[c].src = <<>>]
    /\ UNCHANGED <<g, retx, ticks>>

-----------------------------------------------------------------------------
\* The guest's TCP (external to the runner).

SendSeq(k) == Wrap(GuestIsn + 1 + k.sent + (IF k.fin THEN 1 ELSE 0))
Bytes(a, b) == [i \in 1 .. b - a |-> a + i]

\* A connect outcome matters only to a SYN of an unknown flow.
Results(f) == IF f.c \in Out /\ s.out[f.c].st = "none" /\ f.fl = {"SYN"}
              THEN {"now", "later", "refused"} ELSE {"later"}
Transmit(f) == \E res \in Results(f) : s' = handle_tcp(s, f, res)

GuestOpen(c) ==
    /\ g[c].st = "idle"
    /\ g' = [g EXCEPT ![c].st = "synsent"]
    /\ Transmit(Frame(c, {"SYN"}, GuestIsn, 0, <<>>))
    /\ UNCHANGED <<retx, ticks>>

GuestSend(c) ==
    LET k == g[c]
        last == k.sent + 1 = GuestLen
        fl == IF last /\ Coalesces THEN {"ACK", "FIN"} ELSE {"ACK"}
    IN  /\ k.st = "est" /\ ~k.fin /\ k.sent < GuestLen
        /\ g' = [g EXCEPT ![c].sent = @ + 1, ![c].fin = "FIN" \in fl]
        /\ Transmit(Frame(c, fl, SendSeq(k), k.nxt, <<k.sent + 1>>))
        /\ UNCHANGED <<retx, ticks>>

GuestFin(c) ==
    /\ g[c].st = "est" /\ ~g[c].fin
    /\ g' = [g EXCEPT ![c].fin = TRUE]
    /\ Transmit(Frame(c, {"ACK", "FIN"}, SendSeq(g[c]), g[c].nxt, <<>>))
    /\ UNCHANGED <<retx, ticks>>

\* The retransmission timer: the SYN, or everything not acknowledged.
GuestRetransmit(c) ==
    LET k == g[c]
        todo == k.sent + (IF k.fin THEN 1 ELSE 0)
    IN  /\ retx < MaxRetx
        /\ \/ /\ k.st = "synsent"
              /\ Transmit(Frame(c, {"SYN"}, GuestIsn, 0, <<>>))
           \/ /\ k.st = "est" /\ k.una < todo
              /\ Transmit(Frame(c, IF k.fin THEN {"ACK", "FIN"} ELSE {"ACK"},
                                Wrap(GuestIsn + 1 + k.una), k.nxt, Bytes(Least(k.una, k.sent), k.sent)))
        /\ retx' = retx + 1
        /\ UNCHANGED <<g, ticks>>

GuestAbort(c) ==
    /\ MayAbort /\ g[c].st \in {"est", "synrcvd"}
    /\ g' = [g EXCEPT ![c].st = "closed"]
    /\ Transmit(Frame(c, {"RST"}, SendSeq(g[c]), 0, <<>>))
    /\ UNCHANGED <<retx, ticks>>

\* Acknowledged positions, counted from the first byte.
Acked(k, f) ==
    LET n == Wrap(f.ack - (GuestIsn + 1))
        top == k.sent + (IF k.fin THEN 1 ELSE 0)
    IN  IF "ACK" \in f.fl /\ n > k.una /\ n <= top THEN n ELSE k.una

\* A segment of an open connection: only the next one in sequence counts.
GuestSegment(k, f) ==
    LET k1 == [k EXCEPT !.una = Acked(k, f)]
        n  == Len(f.data) + (IF "FIN" \in f.fl THEN 1 ELSE 0)
    IN  IF f.seq # k.nxt THEN k1
        ELSE IF "RST" \in f.fl THEN [k1 EXCEPT !.st = "closed"]
        ELSE [k1 EXCEPT !.nxt = Wrap(@ + n), !.got = @ \o f.data, !.eof = @ \/ "FIN" \in f.fl]

\* The guest takes a frame, reposts its buffer and answers a handshake.
GuestRecv ==
    /\ s.rx # <<>>
    /\ LET f == Head(s.rx)
           c == f.c
           k == g[c]
           s1 == [s EXCEPT !.rx = Tail(@), !.avail = @ + 1]
       IN  CASE c \in In /\ f.fl = {"SYN"} /\ k.st = "idle" ->
                  /\ g' = [g EXCEPT ![c].st = "synrcvd", ![c].nxt = Wrap(f.seq + 1)]
                  /\ s' = handle_tcp(s1, Frame(c, {"SYN", "ACK"}, GuestIsn, Wrap(f.seq + 1), <<>>),
                                     "later")
             [] k.st = "synsent" /\ f.fl = {"SYN", "ACK"} /\ f.ack = Wrap(GuestIsn + 1) ->
                  /\ g' = [g EXCEPT ![c].st = "est", ![c].nxt = Wrap(f.seq + 1)]
                  /\ s' = handle_tcp(s1, Frame(c, {"ACK"}, Wrap(GuestIsn + 1), Wrap(f.seq + 1), <<>>),
                                     "later")
             [] k.st = "synsent" /\ "RST" \in f.fl /\ f.ack = Wrap(GuestIsn + 1) ->
                  g' = [g EXCEPT ![c].st = "closed"] /\ s' = s1
             [] k.st \in {"synrcvd", "est"} /\ "SYN" \notin f.fl ->
                  g' = [g EXCEPT ![c] = GuestSegment([k EXCEPT !.st = "est"], f)] /\ s' = s1
             [] OTHER -> UNCHANGED g /\ s' = s1
    /\ UNCHANGED <<retx, ticks>>

-----------------------------------------------------------------------------
Init ==
    /\ s = [ready |-> StartsReady, avail |-> IF StartsReady THEN RingSize ELSE 0,
            rx |-> <<>>, rep |-> <<>>,
            in |-> [c \in In |-> NoConn], out |-> [c \in Out |-> NoFlow],
            h |-> [c \in Conns |-> [fd |-> "none", wrote |-> 0, src |-> <<>>, read |-> <<>>,
                                    rcvd |-> <<>>, eof |-> FALSE, err |-> FALSE, rst |-> FALSE]]]
    /\ g = [c \in Conns |-> [st |-> "idle", sent |-> 0, una |-> 0, fin |-> FALSE,
                             nxt |-> 0, got |-> <<>>, eof |-> FALSE]]
    /\ retx = 0 /\ ticks = 0

Next ==
    \/ Poll \/ QueueReady \/ GuestRecv
    \/ \E c \in In : HostConnect(c)
    \/ \E c \in Out : GuestOpen(c) \/ Idle(c)
    \/ \E c \in Conns : \/ HostWrite(c) \/ HostClose(c) \/ HostFail(c)
                        \/ GuestSend(c) \/ GuestFin(c) \/ GuestRetransmit(c) \/ GuestAbort(c)

Spec == Init /\ [][Next]_vars

-----------------------------------------------------------------------------
\* Data of a connection that lies in the ring, in order.
InRing(c) ==
    LET mine == SelectSeq(s.rx, LAMBDA f : f.c = c)
    IN  FlattenSeq([i \in DOMAIN mine |-> mine[i].data])

\* What the proxy read from a host socket is not lost on its way to the guest:
\* it has reached the guest's application, lies in the ring, or is kept in the
\* pending buffer (inject_outbound_data, drain_flow_rx, inject_data_frames,
\* flush_established_pending), as long as neither side has reset the connection.
HostBytesKept ==
    \A c \in Conns :
        LET p == IF c \in Out THEN s.out[c].pending ELSE s.in[c].pending
            live == IF c \in Out THEN s.out[c].st # "none" ELSE s.in[c].st \notin {"none", "Closed"}
        IN  live /\ g[c].st \in {"est", "synrcvd"} => g[c].got \o InRing(c) \o p = s.h[c].read

\* The guest sees the end of a host's stream only after all of it: the FIN waits
\* behind the data a full ring stopped (host_eof, drain_outbound_tcp).
EofIsLast ==
    \A c \in Conns : g[c].eof /\ s.h[c].eof /\ ~g[c].fin => Len(g[c].got) = s.h[c].wrote

\* A host reads what the guest sent, once and in order (write_best_effort).
HostStreamExact == \A c \in Conns : IsPrefix(s.h[c].rcvd, Bytes(0, g[c].sent))

\* A byte the proxy acknowledged has been written to the host socket, unless the
\* host had ended the connection first (handle_tcp, on_guest_segment).
AckedIsDelivered ==
    \A c \in Conns :
        ~s.h[c].eof /\ ~s.h[c].err /\ ~s.h[c].rst
            => Least(g[c].una, g[c].sent) <= Len(s.h[c].rcvd)

\* A host descriptor is open exactly while a flow or connection owns it: none
\* leaks when a flow is refused, finished, reset or swept.
DescriptorsOwned ==
    /\ \A c \in Out : s.h[c].fd \in {"conn", "open", "shut"} => s.out[c].st # "none"
    /\ \A c \in In : s.h[c].fd \in {"open", "shut"} =>
                        s.in[c].st \in {"SynSent", "Established"}

\* Data buffered behind a full ring, and the FIN behind it, moves on in the next
\* iteration once the guest has posted a buffer ("keep the tail (and any deferred
\* FIN) for the next iteration", drain_outbound_tcp).
BacklogMoves ==
    \A c \in Out :
        (s.out[c].pending # <<>> \/ s.out[c].host_eof) /\ CanInject(s)
            => poll_worker_iteration(s, [d \in Out |-> "wait"], FALSE) # s
=============================================================================
