------------------------------- MODULE Http3 -------------------------------
(***************************************************************************)
(* HTTP/3 over QUIC streams: the client's request (http3/src/client.rs)    *)
(* against the server's connection task (http3/src/server.rs).             *)
(*                                                                         *)
(* A stream carries units: a frame is its header [t, len] followed by len  *)
(* payload units, so a frame may arrive in pieces, as the bytes do.  QUIC  *)
(* delivers a stream's units in order; what has arrived and is not read    *)
(* occupies the connection's receive window.  Requests are the numbers     *)
(* 1 .. Requests: the client opens its bidirectional streams in order.     *)
(* Headers are reduced to the status; the field sections themselves are    *)
(* encoded and decoded in HttpWire.                                        *)
(***************************************************************************)
EXTENDS Integers, Sequences, FiniteSets, SequencesExt, FiniteSetsExt

CONSTANTS
    Requests,      \* requests of the client, one after the other
    BodyLen,       \* units of a request's body
    ReplyLens,     \* units of the bodies handlers answer with
    Chunk,         \* chunk = [0u8; 4096] of the read loops
    ConnWindow,    \* unread units the connection's receive window admits
    SendCap,       \* H3_SEND_BUF_CAP
    BodyCap,       \* body_cap of the client's request
    Plans,         \* what handlers do: subset of {"read", "skip"}
    HandlersFail,  \* a handler may return Err once it has written
    MayFail,       \* the QUIC connection may fail
    MayGoAway      \* the peer may announce GOAWAY

VARIABLES
    up, down,      \* per request: the stream's two directions
    failed,        \* ConnState::Failed
    goaway,        \* the control stream carries a GOAWAY
    opened,        \* opened_streams: accepted by nobody yet
    srv,           \* the connection task
    cli            \* H3ClientConn and its current request

vars == <<up, down, failed, goaway, opened, srv, cli>>

Sids == 1 .. Requests

Least(a, b) == IF a < b THEN a ELSE b

\* One direction of a stream: queued by the sender and not yet arrived,
\* arrived and not read, closed by the sender, reset by it; met: some of it
\* has arrived.
Direction == [out |-> <<>>, got |-> <<>>, fin |-> FALSE, reset |-> FALSE, met |-> FALSE]

Frame(t, payload) == <<[t |-> t, len |-> Len(payload)]>> \o payload

\* parse_frame: the frame at the head of buf, or not enough units for one.
Parse(buf) ==
    IF buf = <<>> \/ Len(buf) - 1 < Head(buf).len
    THEN [ok |-> FALSE]
    ELSE [ok |-> TRUE, t |-> Head(buf).t, used |-> Head(buf).len + 1,
          payload |-> SubSeq(buf, 2, Head(buf).len + 1)]

Rest(buf, n) == SubSeq(buf, n + 1, Len(buf))

Write(d, units) ==
    IF d.reset THEN d ELSE [d EXCEPT !.out = @ \o units]

\* FIN only on a stream with nothing queued.
CloseIfEmpty(d) == IF d.reset \/ d.out # <<>> THEN d ELSE [d EXCEPT !.fin = TRUE]

Close(d) == IF d.reset THEN d ELSE [d EXCEPT !.fin = TRUE]

ResetDir(d) == [d EXCEPT !.out = <<>>, !.got = <<>>, !.reset = TRUE]

\* (n, eof) of a read: what arrived up to a chunk, and whether it was the
\* last there will ever be.
ReadLen(d) == Least(Chunk, Len(d.got))
Drained(d) == [d EXCEPT !.got = Rest(@, ReadLen(d))]
AtEnd(d) == \/ d.reset
            \/ d.fin /\ d.out = <<>> /\ Drained(d).got = <<>>
Readable(d) == d.got # <<>> \/ AtEnd(d) \/ failed

Unread == FoldSet(LAMBDA s, n : n + Len(up[s].got), 0, Sids)

Idle == [pc |-> "accept", sid |-> 0, buf |-> <<>>, eof |-> FALSE,
         plan |-> "none", seen |-> <<>>, done |-> FALSE, left |-> 0,
         streamed |-> FALSE]

\* No handler has read the request's body to its end.
Unheard == <<0>>

Init ==
    /\ up = [s \in Sids |-> Direction] /\ down = [s \in Sids |-> Direction]
    /\ failed = FALSE /\ goaway = FALSE /\ opened = <<>>
    /\ srv = Idle
    /\ cli = [sid |-> 0, busy |-> FALSE, goaway |-> FALSE, acc |-> <<>>,
              head |-> 0, body |-> <<>>, eof |-> FALSE, results |-> <<>>,
              wrote |-> [s \in Sids |-> <<>>], heard |-> [s \in Sids |-> Unheard]]

----------------------------------------------------------------------------
\* The transport: a unit of a stream arrives; a request's first unit queues
\* the stream for accept_stream.
ArriveUp(s) ==
    /\ ~failed /\ up[s].out # <<>> /\ Unread < ConnWindow
    /\ up' = [up EXCEPT ![s].out = Tail(@), ![s].met = TRUE,
                        ![s].got = Append(@, Head(up[s].out))]
    /\ opened' = IF up[s].met THEN opened ELSE Append(opened, s)
    /\ UNCHANGED <<down, failed, goaway, srv, cli>>

ArriveDown(s) ==
    /\ ~failed /\ down[s].out # <<>>
    /\ down' = [down EXCEPT ![s].out = Tail(@),
                            ![s].got = Append(@, Head(down[s].out))]
    /\ UNCHANGED <<up, failed, goaway, opened, srv, cli>>

Fail ==
    /\ MayFail /\ ~failed
    /\ failed' = TRUE
    /\ UNCHANGED <<up, down, goaway, opened, srv, cli>>

PeerGoAway ==
    /\ MayGoAway /\ ~goaway
    /\ goaway' = TRUE
    /\ UNCHANGED <<up, down, failed, opened, srv, cli>>

----------------------------------------------------------------------------
\* The server: handle_conn accepts streams one by one and serves each to its
\* end before it accepts the next.
Accept ==
    /\ srv.pc = "accept"
    /\ \/ /\ opened # <<>>
          /\ srv' = [Idle EXCEPT !.pc = "head", !.sid = Head(opened)]
          /\ opened' = Tail(opened)
       \/ /\ opened = <<>> /\ failed
          /\ srv' = [srv EXCEPT !.pc = "gone"]
          /\ UNCHANGED opened
    /\ UNCHANGED <<up, down, failed, goaway, cli>>

\* The end of the stream is taken from its FIN alone.
FilledToFin(st) ==
    LET d == up[st.sid] IN
    [st EXCEPT !.buf = @ \o SubSeq(d.got, 1, ReadLen(d)), !.eof = @ \/ d.fin \/ d.reset \/ failed]

\* The units a read adds to the task's buffer, and its end of stream.
Filled(st) ==
    LET d == up[st.sid] IN
    [st EXCEPT !.buf = @ \o SubSeq(d.got, 1, ReadLen(d)),
               !.eof = @ \/ AtEnd(d) \/ (d.got = <<>> /\ failed)]

\* Frames before HEADERS are skipped.
RECURSIVE FindHeaders(_)
FindHeaders(buf) ==
    LET p == Parse(buf) IN
    IF ~p.ok THEN [found |-> FALSE, buf |-> buf]
    ELSE IF p.t = "HEADERS" THEN [found |-> TRUE, buf |-> Rest(buf, p.used)]
    ELSE FindHeaders(Rest(buf, p.used))

\* handle_request up to the handler's call.
ReadHead ==
    /\ srv.pc = "head" /\ Readable(up[srv.sid])
    /\ LET st == Filled(srv)  f == FindHeaders(st.buf) IN
       /\ up' = [up EXCEPT ![srv.sid] = Drained(@)]
       /\ \/ /\ f.found
             /\ \E p \in Plans, n \in ReplyLens, w \in BOOLEAN :
                  srv' = [st EXCEPT !.pc = IF p = "read" THEN "body" ELSE "reply",
                                    !.buf = f.buf, !.plan = p, !.left = n,
                                    !.streamed = w]
             /\ UNCHANGED down
          \/ /\ ~f.found /\ st.eof
             /\ down' = [down EXCEPT ![srv.sid] = Close(@)]
             /\ srv' = Idle
          \/ /\ ~f.found /\ ~st.eof
             /\ srv' = [st EXCEPT !.buf = f.buf]
             /\ UNCHANGED down
    /\ UNCHANGED <<failed, goaway, opened, cli>>

\* H3BodySource::next_chunk, from the buffer: a DATA frame is a chunk, a
\* second HEADERS (trailers) ends the body, other frames are skipped.
RECURSIVE FromBuf(_)
FromBuf(st) ==
    LET p == Parse(st.buf) IN
    IF ~p.ok THEN [st EXCEPT !.done = st.eof]
    ELSE IF p.t = "DATA" THEN [st EXCEPT !.buf = Rest(@, p.used),
                                         !.seen = @ \o p.payload]
    ELSE IF p.t = "HEADERS" THEN [st EXCEPT !.buf = Rest(@, p.used), !.done = TRUE]
    ELSE FromBuf([st EXCEPT !.buf = Rest(@, p.used)])

\* The handler asks for the next chunk of the body; an empty one ends it, as
\* BodyReader::chunk's take == 0 does.
NextChunk ==
    /\ srv.pc = "body"
    /\ \E fill \in BOOLEAN :
         /\ fill => Readable(up[srv.sid])
         /\ fill = (~Parse(srv.buf).ok /\ ~srv.eof)
         /\ LET from == IF fill THEN Filled(srv) ELSE srv
                st == FromBuf(from)
                over == st.done \/ (st.seen = from.seen /\ st.buf # from.buf)
            IN  /\ up' = IF fill THEN [up EXCEPT ![srv.sid] = Drained(@)] ELSE up
                /\ srv' = IF over THEN [st EXCEPT !.pc = "reply", !.done = TRUE] ELSE st
                /\ cli' = IF over THEN [cli EXCEPT !.heard[srv.sid] = st.seen] ELSE cli
    /\ UNCHANGED <<down, failed, goaway, opened>>

\* discard_recv: what arrived of the body and was not read is dropped.
Discarded == [up EXCEPT ![srv.sid].got = <<>>]

\* H3Sink: the first write sends the head, each write one DATA frame; a
\* failed connection is an error, and a full buffer is waited out.
WriteChunk ==
    /\ srv.pc = "reply" /\ srv.streamed /\ srv.left > 0
    /\ ~failed
    /\ LET done == cli.wrote[srv.sid]
           head == IF done = <<>> THEN Frame("HEADERS", <<200>>) ELSE <<>>
           unit == <<Len(done) + 1>>
       IN  /\ down' = [down EXCEPT ![srv.sid] = Write(@, head \o Frame("DATA", unit))]
           /\ srv' = [srv EXCEPT !.left = @ - 1,
                        !.pc = IF Len(down'[srv.sid].out) > SendCap
                               THEN "drain" ELSE "reply"]
           /\ cli' = [cli EXCEPT !.wrote[srv.sid] = done \o unit]
    /\ UNCHANGED <<up, failed, goaway, opened>>

\* stream_drain_below.
DrainBelow ==
    /\ srv.pc = "drain"
    /\ Len(down[srv.sid].out) <= SendCap \/ failed
    /\ srv' = [srv EXCEPT !.pc = "reply"]
    /\ UNCHANGED <<up, down, failed, goaway, opened, cli>>

\* The handler returns.  A streamed response is finished, or reset when the
\* handler failed; a buffered one is written now, whole.
Streamed == srv.streamed /\ cli.wrote[srv.sid] # <<>>

Return ==
    /\ srv.pc = "reply"
    /\ \/ /\ Streamed /\ srv.left = 0
          /\ down' = [down EXCEPT ![srv.sid] = Close(@)]
          /\ UNCHANGED cli
       \/ /\ Streamed /\ (failed \/ HandlersFail) /\ srv.left > 0
          /\ down' = [down EXCEPT ![srv.sid] = ResetDir(@)]
          /\ UNCHANGED cli
       \/ /\ ~Streamed /\ (srv.streamed => failed \/ srv.left = 0)
          /\ LET body == IF srv.streamed THEN <<>> ELSE [i \in 1 .. srv.left |-> i]
                 data == IF body = <<>> THEN <<>> ELSE Frame("DATA", body)
             IN  /\ down' = [down EXCEPT ![srv.sid] =
                               Close(Write(@, Frame("HEADERS", <<200>>) \o data))]
                 /\ cli' = [cli EXCEPT !.wrote[srv.sid] = body]
    /\ up' = Discarded
    /\ srv' = Idle
    /\ UNCHANGED <<failed, goaway, opened>>

----------------------------------------------------------------------------
\* The client: request, one at a time (&mut self).
Result(r) == [cli EXCEPT !.busy = FALSE,
                         !.results = Append(@, [sid |-> cli.sid, res |-> r, body |-> cli.body])]

\* poll_control: a GOAWAY that arrived on the peer's control stream.
PollControl(c, seen) == [c EXCEPT !.goaway = @ \/ seen]

Request ==
    /\ ~cli.busy /\ cli.sid < Requests
    /\ \E seen \in {FALSE, goaway} :
         LET c == [PollControl(cli, seen) EXCEPT !.sid = @ + 1, !.acc = <<>>,
                     !.head = 0, !.body = <<>>, !.eof = FALSE]
             s == c.sid
             refuse(why) == [c EXCEPT !.results =
                               Append(@, [sid |-> s, res |-> why, body |-> <<>>])]
         IN  \/ /\ failed
                /\ cli' = refuse("closed") /\ UNCHANGED up
             \/ /\ ~failed /\ c.goaway
                /\ cli' = refuse("goaway") /\ UNCHANGED up
             \/ /\ ~failed /\ ~c.goaway
                /\ cli' = [c EXCEPT !.busy = TRUE]
                /\ up' = [up EXCEPT ![s] = Close(Write(@,
                            Frame("HEADERS", <<0>>)
                            \o Frame("DATA", [i \in 1 .. BodyLen |-> i])))]
    /\ UNCHANGED <<down, failed, goaway, opened, srv>>

\* The frames of the response in acc: the first final head is kept, DATA
\* before it is malformed, DATA over the cap stops the stream.
RECURSIVE Digest(_)
Digest(c) ==
    LET p == Parse(c.acc)
        next == [c EXCEPT !.acc = Rest(@, p.used)]
    IN  IF ~p.ok THEN [err |-> "none", c |-> c]
        ELSE IF p.t = "HEADERS"
             THEN Digest(IF c.head = 0 /\ Head(p.payload) >= 200
                         THEN [next EXCEPT !.head = Head(p.payload)] ELSE next)
        ELSE IF p.t = "DATA"
             THEN IF c.head = 0 THEN [err |-> "malformed", c |-> c]
                  ELSE IF Len(c.body) + Len(p.payload) > BodyCap
                       THEN [err |-> "too large", c |-> c]
                  ELSE Digest([next EXCEPT !.body = @ \o p.payload])
        ELSE Digest(next)

\* One turn of the response loop: a read, the reset check, the control
\* stream, the frames, and the return at the end of the stream.
Response ==
    /\ cli.busy /\ Readable(down[cli.sid])
    /\ LET d == down[cli.sid]
           end == AtEnd(d) \/ (d.got = <<>> /\ failed)
       IN  \E seen \in {FALSE, goaway} :
             LET c == PollControl([cli EXCEPT !.acc = @ \o SubSeq(d.got, 1, ReadLen(d)),
                                              !.eof = @ \/ end], seen)
                 g == Digest(c)
             IN  \/ /\ d.reset
                    /\ cli' = Result("reset")
                    /\ UNCHANGED down
                 \/ /\ ~d.reset /\ g.err # "none"
                    /\ cli' = Result(g.err)
                    /\ down' = IF g.err = "too large"
                               THEN [down EXCEPT ![cli.sid] =
                                       IF @.fin THEN [@ EXCEPT !.got = <<>>]
                                       ELSE ResetDir(@)]
                               ELSE [down EXCEPT ![cli.sid] = Drained(@)]
                 \/ /\ ~d.reset /\ g.err = "none"
                    /\ down' = [down EXCEPT ![cli.sid] = Drained(@)]
                    /\ cli' = IF ~c.eof THEN g.c
                              ELSE [g.c EXCEPT !.busy = FALSE, !.results = Append(@,
                                      [sid |-> cli.sid, body |-> g.c.body,
                                       res |-> CASE g.c.head # 0 -> "ok"
                                               [] g.c.head = 0 /\ failed -> "closed"
                                               [] OTHER -> "malformed"])]
    /\ UNCHANGED <<up, failed, goaway, opened, srv>>

----------------------------------------------------------------------------
Server == Accept \/ ReadHead \/ NextChunk \/ WriteChunk \/ DrainBelow \/ Return
Client == Request \/ Response
Net == \E s \in Sids : ArriveUp(s) \/ ArriveDown(s)

Next == Server \/ Client \/ Net \/ Fail \/ PeerGoAway

\* The tasks are polled when they are woken, handlers return, and QUIC
\* retransmits until a stream's data is delivered.
Spec == Init /\ [][Next]_vars
        /\ WF_vars(Server) /\ WF_vars(Client)
        /\ \A s \in Sids : WF_vars(ArriveUp(s)) /\ WF_vars(ArriveDown(s))

----------------------------------------------------------------------------
\* An Ok response is complete: its body is all the handler wrote
\* (client.rs:349-351, "never a truncated-but-OK response").
OkIsComplete ==
    \A i \in DOMAIN cli.results :
        LET r == cli.results[i] IN
        r.res = "ok" => r.body = cli.wrote[r.sid] /\ down[r.sid].fin

\* A handler that read the request's body to its end has read all of it.
BodyIsWhole ==
    \A s \in Sids : cli.heard[s] # Unheard => cli.heard[s] = [i \in 1 .. BodyLen |-> i]

\* The receive window comes back: between requests, with nothing on the way,
\* no answered stream still holds units of the connection's window
\* (server.rs:635-641).
WindowRestored ==
    (~cli.busy /\ srv.pc = "accept" /\ opened = <<>>
       /\ \A s \in Sids : up[s].out = <<>>) => Unread = 0

\* Every request ends, with a response or an error, whatever earlier
\* requests on the connection did (server.rs:632-641).
RequestsEnd == cli.busy ~> ~cli.busy
=============================================================================
