------------------------------- MODULE Http2 --------------------------------
(***************************************************************************)
(* HTTP/2: the server's connection task with its stream handlers, first against*)
(* any client, then against the repository's own.                          *)
(***************************************************************************)
EXTENDS Integers, Sequences, FiniteSets, SequencesExt, FiniteSetsExt

(***************************************************************************)
(* Server-role HTTP/2 over one byte stream (crates/proto/http2/server.rs): *)
(* the connection task (the demux) that reads frames and is the only       *)
(* writer, the handler tasks it spawns for requests with a body, and the   *)
(* channels between them.  All run on one core: a step is what runs        *)
(* between two awaits.                                                     *)
(*                                                                         *)
(* The other end is a client that keeps to the protocol: it sends DATA     *)
(* within the windows it knows of, grants windows, changes its initial     *)
(* window, resets streams.  What it sends is processed when the demux      *)
(* reads it, so there is no queue towards the server: a client that knows  *)
(* less than it was told is one that has not received yet.  Bodies are     *)
(* byte counts.                                                            *)
(***************************************************************************)
CONSTANTS Sids,           \* the streams the client opens, in order
          InitialWindow,  \* INITIAL_WINDOW
          MaxFrame,       \* MAX_FRAME_SIZE and the client's (both 16384)
          SendCap,        \* STREAM_SEND_BUF_CAP
          MaxStreams,     \* MAX_CONCURRENT_STREAMS
          FloodCap,       \* CONTROL_FLOOD_CAP
          ResetCap,       \* RST_FLOOD_CAP
          ArenaSlots,     \* handler tasks the arena can hold
          WireCap,        \* bound: frames on their way to the client
          BodyLen,        \* bytes of a request body
          ReplyLens,      \* lengths of a buffered response
          Writes,         \* lengths of a chunk of a streamed one
          MaxWrites,      \* bound: chunks of a streamed one
          MaxGrants,      \* bound: WINDOW_UPDATE frames of the client
          ClientInits,    \* initial windows the client announces
          MayPad,         \* does the client pad its DATA?
          MayMismatch,    \* does it ever send a body unlike its content-length?
          MayGrantEarly,  \* does it grant stream credit before a response begins?
          HandlersFail    \* may a handler give up a streamed response?

VARIABLES conn, task, pc, sending, wire, client

vars == <<conn, task, pc, sending, wire, client>>

Least(a, b) == IF a < b THEN a ELSE b
Total(s) == FoldSeq(+, 0, s)

-----------------------------------------------------------------------------
(* H2Conn, StreamSlot, StreamOut; the channels StreamBody and StreamTx are *)
(* shared with the handler task and live as long as either end.            *)

NewConn == [ctrl |-> <<>>, outq |-> <<>>, streams |-> <<>>, sink |-> <<>>, wake |-> FALSE,
            win |-> InitialWindow, init |-> InitialWindow, last |-> 0, resets |-> 0,
            flood |-> 0, closing |-> FALSE]

NoTask == [st |-> "none"]
NewTask == [st |-> "run", chunks |-> <<>>, eof |-> FALSE, rst |-> FALSE, uncredited |-> 0,
            bodyEvent |-> FALSE, head |-> FALSE, out |-> <<>>, fin |-> FALSE,
            txRst |-> FALSE, txEvent |-> FALSE, pending |-> 0, writes |-> 0]

SlotOf(c, sid) == SelectInSeq(c.streams, LAMBDA s : s.id = sid)
HasSlot(c, sid) == SlotOf(c, sid) # 0
Without(c, sid) == [c EXCEPT !.streams = SelectSeq(@, LAMBDA s : s.id # sid)]
QueuedAt(c, sid) == SelectInSeq(c.outq, LAMBDA o : o.id = sid)
ActiveCount(c) == Len(c.streams) + Len(c.outq)

Headers(sid, end) == [k |-> "headers", sid |-> sid, end |-> end]
Data(sid, n, end) == [k |-> "data", sid |-> sid, n |-> n, end |-> end]
WindowUpdate(sid, n) == [k |-> "window", sid |-> sid, n |-> n]
RstStream(sid) == [k |-> "rst", sid |-> sid]

Push(c, f) == [c EXCEPT !.ctrl = Append(@, f)]

QueueResponse(c, sid, n) ==
    [c EXCEPT !.outq = Append(@, [id |-> sid, hsent |-> FALSE, left |-> n, win |-> c.init])]

\* error_goaway
ErrorGoaway(c) == IF c.closing THEN c ELSE [Push(c, [k |-> "goaway"]) EXCEPT !.closing = TRUE]

\* Both channels of a stream are reset and both events set.
BothReset(t) == [t EXCEPT !.rst = TRUE, !.bodyEvent = TRUE, !.txRst = TRUE, !.txEvent = TRUE]

ResetAllStreams(c, t) ==
    [sid \in DOMAIN t |-> IF HasSlot(c, sid) THEN BothReset(t[sid]) ELSE t[sid]]

InitWith(sent) ==
    /\ conn = NewConn /\ pc = "top" /\ sending = <<>> /\ wire = sent
    /\ task = [sid \in Sids |-> NoTask]
    /\ client = [win |-> [sid \in Sids |-> InitialWindow], cwin |-> InitialWindow,
                 credit |-> [sid \in Sids |-> InitialWindow], ccredit |-> InitialWindow,
                 init |-> InitialWindow, st |-> [sid \in Sids |-> "idle"],
                 left |-> [sid \in Sids |-> BodyLen],
                 seen |-> [sid \in Sids |-> "nothing"], grants |-> 0, ok |-> TRUE]

Init == InitWith(<<>>)

-----------------------------------------------------------------------------
(* The demux at the top of its loop. *)

\* The update is sent and the window it opens not noted.
CreditConsumedUnnoted(c, t) ==
    FoldLeft(LAMBDA a, i :
                LET n == t[a.streams[i].id].uncredited
                IN  IF n = 0 THEN a ELSE Push(a, WindowUpdate(a.streams[i].id, n)),
             c, [i \in 1 .. Len(c.streams) |-> i])

\* credit_consumed_bodies
CreditConsumed(c, t) ==
    FoldLeft(LAMBDA a, i :
                LET n == t[a.streams[i].id].uncredited
                IN  IF n = 0 THEN a
                    ELSE [Push(a, WindowUpdate(a.streams[i].id, n))
                          EXCEPT !.streams[i].rwin = @ + n],
             c, [i \in 1 .. Len(c.streams) |-> i])

Credited(c, t) ==
    [sid \in DOMAIN t |-> IF HasSlot(c, sid) THEN [t[sid] EXCEPT !.uncredited = 0] ELSE t[sid]]

\* drain_responses
DrainResponses(c, t) ==
    FoldLeft(LAMBDA a, r :
                IF ~HasSlot(a, r[1]) THEN a
                ELSE IF t[r[1]].rst THEN Without(a, r[1])
                ELSE QueueResponse(Without(a, r[1]), r[1], r[2]),
             [c EXCEPT !.sink = <<>>], c.sink)

\* drain_to_chain: a is the connection with the frames built so far.
RECURSIVE DrainToChain(_, _)
DrainToChain(a, i) ==
    LET o == a.c.outq[i]
        n == Min({a.c.win, o.win, MaxFrame, o.left})
        gone == [a.c EXCEPT !.outq = RemoveAt(@, i)]
    IN  IF i > Len(a.c.outq) THEN a
        ELSE IF ~o.hsent
        THEN DrainToChain([c |-> IF o.left = 0 THEN gone ELSE [a.c EXCEPT !.outq[i].hsent = TRUE],
                           f |-> Append(a.f, Headers(o.id, o.left = 0))], i)
        ELSE IF n <= 0 THEN DrainToChain(a, i + 1)
        ELSE DrainToChain([c |-> [(IF o.left = n THEN gone
                                   ELSE [a.c EXCEPT !.outq[i].left = @ - n,
                                                    !.outq[i].win = @ - n])
                                  EXCEPT !.win = @ - n],
                           f |-> Append(a.f, Data(o.id, n, o.left = n))], i)

\* The DATA frames of one streamed response, as far as the windows go.
RECURSIVE DrainChunks(_, _)
DrainChunks(a, i) ==
    LET s == a.c.streams[i]
        t == a.t[s.id]
        n == Min({a.c.win, s.win, MaxFrame, Head(t.out)})
        last == n = Head(t.out) /\ Len(t.out) = 1
    IN  IF t.out = <<>> THEN a
        ELSE IF n <= 0 THEN a
        ELSE DrainChunks([c |-> [a.c EXCEPT !.win = @ - n, !.streams[i].win = @ - n],
                          t |-> [a.t EXCEPT ![s.id].out =
                                    IF n = Head(t.out) THEN Tail(t.out)
                                    ELSE <<Head(t.out) - n>> \o Tail(t.out),
                                 ![s.id].txEvent = TRUE],
                          f |-> Append(a.f, Data(s.id, n, t.fin /\ last)),
                          done |-> a.done], i)

\* drain_streaming for one slot; `done' collects the finished streams.
DrainOne(a, i) ==
    LET s == a.c.streams[i]
        t == a.t[s.id]
        bare == t.fin /\ t.out = <<>>
        h == IF s.hsent THEN a
             ELSE [a EXCEPT !.f = Append(@, Headers(s.id, bare)), !.c.streams[i].hsent = TRUE]
        ended(f) == f # <<>> /\ Last(f).k = "data" /\ Last(f).sid = s.id /\ Last(f).end
        close(b) == IF t.fin /\ b.t[s.id].out = <<>>
                    THEN [b EXCEPT !.f = IF ended(@) THEN @ ELSE Append(@, Data(s.id, 0, TRUE)),
                                   !.done = @ \cup {s.id}]
                    ELSE b
    IN  IF t.txRst
        THEN IF s.hsent THEN [a EXCEPT !.f = Append(@, RstStream(s.id)), !.done = @ \cup {s.id}]
             ELSE IF t.head THEN [a EXCEPT !.done = @ \cup {s.id}] ELSE a
        ELSE IF ~t.head THEN a
        ELSE IF ~s.hsent /\ bare THEN [h EXCEPT !.done = @ \cup {s.id}]
        ELSE close(DrainChunks(h, i))

DrainStreaming(c, t, f) ==
    LET drop(a) == [a EXCEPT !.c.streams = SelectSeq(@, LAMBDA s : s.id \notin a.done)]
    IN  drop(FoldLeft(DrainOne, [c |-> c, t |-> t, f |-> f, done |-> {}],
                      [i \in 1 .. Len(c.streams) |-> i]))

\* flush, up to its await: everything sendable in one chain.
Flush(c, t) ==
    LET streaming(q) == DrainStreaming(q.c, t, q.f)
    IN  streaming(DrainToChain([c |-> [c EXCEPT !.ctrl = <<>>], f |-> c.ctrl], 1))

AfterFlush(c) ==
    IF c.closing /\ c.outq = <<>> /\ c.ctrl = <<>> /\ c.streams = <<>> THEN "closed" ELSE "select"

Top ==
    LET c1 == CreditConsumed([conn EXCEPT !.wake = FALSE], task)
        t1 == Credited(conn, task)
    IN  /\ pc = "top"
        /\ \E a \in {Flush(DrainResponses(c1, t1), t1)} :
             /\ conn' = a.c /\ task' = a.t /\ sending' = a.f
             /\ pc' = IF a.f # <<>> THEN "sending" ELSE AfterFlush(a.c)
        /\ UNCHANGED <<wire, client>>

\* The send completes once the byte stream has taken the chain.
SendDone ==
    /\ pc = "sending" /\ Len(wire) < WireCap
    /\ wire' = wire \o sending /\ sending' = <<>>
    /\ pc' = AfterFlush(conn)
    /\ UNCHANGED <<conn, task, client>>

\* The stream fails, ends, or nothing arrives for IDLE_TIMEOUT_US.
Lost ==
    /\ pc \in {"sending", "select"}
    /\ task' = ResetAllStreams(conn, task)
    /\ conn' = [conn EXCEPT !.streams = <<>>] /\ pc' = "closed" /\ sending' = <<>>
    /\ UNCHANGED <<wire, client>>

\* The demux is woken by a handler while it waits for a frame.
Woken ==
    /\ pc = "select" /\ conn.wake
    /\ pc' = "top"
    /\ UNCHANGED <<conn, task, sending, wire, client>>

-----------------------------------------------------------------------------
(* process_frame.  A result is the connection, the tasks, the next pc and  *)
(* whether the frame was a connection error.                               *)

Did(c, t) == [c |-> c, t |-> t, pc |-> "top", err |-> FALSE]
Refused(c, t) == [c |-> c, t |-> t, pc |-> "top", err |-> TRUE]

\* note_frame_for_flood_guard: frames that are no progress are counted.
Guarded(c, productive) == [c EXCEPT !.flood = IF productive THEN 0 ELSE @ + 1]

ApplyInitialWindow(c, v) ==
    LET d == v - c.init
    IN  [c EXCEPT !.init = v,
                  !.outq = [i \in DOMAIN @ |-> [@[i] EXCEPT !.win = @ + d]],
                  !.streams = [i \in DOMAIN @ |-> [@[i] EXCEPT !.win = @ + d]]]

ProcessSettings(c, t, v) == Did(Push(ApplyInitialWindow(c, v), [k |-> "settings ack"]), t)

\* complete_headers for a well-formed block.  `cl' is the declared length, -1
\* for none; a bodyless request is handled inline.
CompleteHeaders(c, t, sid, end, cl) ==
    LET opened == [c EXCEPT !.last = sid]
        slot == [id |-> sid, win |-> c.init, rwin |-> InitialWindow, hsent |-> FALSE,
                 cl |-> cl, got |-> 0]
        running == {x \in DOMAIN t : t[x].st \notin {"none", "done"}}
    IN  CASE HasSlot(c, sid) ->
               Did(c, IF end THEN [t EXCEPT ![sid].eof = TRUE, ![sid].bodyEvent = TRUE] ELSE t)
          [] ~HasSlot(c, sid) /\ sid <= c.last ->
               IF c.resets + 1 > ResetCap THEN Refused([c EXCEPT !.resets = @ + 1], t)
               ELSE Did([c EXCEPT !.resets = @ + 1], t)
          [] OTHER ->
               IF ActiveCount(c) >= MaxStreams THEN Did(Push(opened, RstStream(sid)), t)
               ELSE IF end THEN [Did(opened, t) EXCEPT !.pc = "inline"]
               ELSE IF Cardinality(running) >= ArenaSlots THEN Did(Push(opened, RstStream(sid)), t)
               ELSE Did([opened EXCEPT !.streams = Append(@, slot)], [t EXCEPT ![sid] = NewTask])

\* reset_stream
ResetStream(c, t, sid) ==
    [c |-> Push(Without(c, sid), RstStream(sid)),
     t |-> IF HasSlot(c, sid) THEN [t EXCEPT ![sid].rst = TRUE, ![sid].bodyEvent = TRUE] ELSE t]

\* process_data: n bytes, `full' with the padding.  The connection window is
\* credited on arrival, the stream's when the handler has consumed.
ProcessData(c, t, sid, n, full, end) ==
    LET i == SlotOf(c, sid)
        s == c.streams[i]
        c1 == [c EXCEPT !.streams[i].rwin = @ - full, !.streams[i].got = @ + n]
        bad == \/ s.rwin - full < 0
               \/ s.cl # -1 /\ (s.got + n > s.cl \/ (end /\ s.got + n # s.cl))
        r == ResetStream(c1, t, sid)
        credit(x) == IF full > 0 THEN Push(x, WindowUpdate(0, full)) ELSE x
    IN  IF i = 0 THEN Did(credit(c), t)
        ELSE IF bad THEN Did(credit(r.c), r.t)
        ELSE Did(credit(c1),
                 [t EXCEPT ![sid].chunks = IF n > 0 THEN Append(@, n) ELSE @,
                           ![sid].eof = @ \/ end, ![sid].bodyEvent = TRUE])

ProcessWindowUpdate(c, t, sid, n) ==
    LET q == QueuedAt(c, sid)
        i == SlotOf(c, sid)
    IN  Did(CASE sid = 0 -> [c EXCEPT !.win = @ + n]
              [] sid # 0 /\ q # 0 -> [c EXCEPT !.outq[q].win = @ + n]
              [] sid # 0 /\ q = 0 /\ i # 0 -> [c EXCEPT !.streams[i].win = @ + n]
              [] OTHER -> c, t)

ProcessRstStream(c, t, sid) ==
    LET c1 == [Without(c, sid) EXCEPT !.resets = @ + 1,
                                      !.outq = SelectSeq(@, LAMBDA o : o.id # sid)]
        t1 == IF HasSlot(c, sid) THEN [t EXCEPT ![sid] = BothReset(@)] ELSE t
    IN  IF c1.resets > ResetCap THEN Refused(c1, t1) ELSE Did(c1, t1)

\* A frame is read and processed; on a connection error what can still be
\* said goes out with the GOAWAY and every stream is reset.
Close(c, t) ==
    \E g \in {Flush(ErrorGoaway(c), t)} :
        /\ task' = ResetAllStreams(g.c, g.t) /\ conn' = [g.c EXCEPT !.streams = <<>>]
        /\ pc' = "closed" /\ sending' = <<>>
        /\ wire' = wire \o g.f

ProcessOn(r, c) ==
    /\ pc = "select"
    /\ IF r.err \/ c.flood > FloodCap
       THEN IF c.flood > FloodCap THEN Close(Guarded(conn, FALSE), task) ELSE Close(c, r.t)
       ELSE /\ conn' = c /\ task' = r.t /\ pc' = r.pc
            /\ UNCHANGED <<sending, wire>>

Process(r, productive) == ProcessOn(r, Guarded(r.c, productive))

\* dispatch_bodyless: the handler ran to its end inside the demux.
InlineDone(n) ==
    /\ pc = "inline"
    /\ conn' = QueueResponse(conn, conn.last, n) /\ pc' = "top"
    /\ UNCHANGED <<task, sending, wire, client>>

-----------------------------------------------------------------------------
(* The handler tasks: next_chunk, and a response that is buffered or       *)
(* streamed through the sink.  A task that waits resumes when its event is *)
(* set, and looks again.                                                   *)

May(sid, waits, event) ==
    /\ task[sid].st \in {"run", waits}
    /\ task[sid].st = waits => task[sid][event]

NextChunk(sid) ==
    LET t == [task[sid] EXCEPT !.bodyEvent = FALSE, !.st = "run"]
    IN  /\ May(sid, "wait body", "bodyEvent")
        /\ task[sid].st = "run" => ~(t.eof /\ t.chunks = <<>>) /\ ~t.rst
        /\ IF t.chunks # <<>>
           THEN /\ task' = [task EXCEPT ![sid] = [t EXCEPT !.chunks = Tail(@),
                                                          !.uncredited = @ + Head(t.chunks)]]
                /\ conn' = [conn EXCEPT !.wake = TRUE]
           ELSE /\ task' = [task EXCEPT ![sid] = IF t.rst \/ t.eof THEN t
                                                 ELSE [t EXCEPT !.st = "wait body"]]
                /\ UNCHANGED conn
        /\ UNCHANGED <<pc, sending, wire, client>>

\* The task ends: with a buffered response, or after a streamed one.
Ends(sid, t) ==
    /\ task' = [task EXCEPT ![sid] = [t EXCEPT !.st = "done"]]
    /\ UNCHANGED <<pc, sending, wire, client>>

Reply(sid, n) ==
    /\ task[sid].st = "run" /\ ~task[sid].head
    /\ conn' = [conn EXCEPT !.sink = Append(@, <<sid, n>>), !.wake = TRUE]
    /\ Ends(sid, task[sid])

\* The first write flushes the head; one that finds the stream reset makes the
\* handler give up, and what it has buffered is its response.
WriteChunk(sid, n) ==
    LET t == [task[sid] EXCEPT !.txEvent = FALSE, !.st = "run", !.head = TRUE,
                               !.writes = IF task[sid].st = "run" THEN @ + 1 ELSE @]
    IN  /\ May(sid, "wait tx", "txEvent") /\ t.writes <= MaxWrites
        /\ task[sid].st = "wait tx" => n = t.pending
        /\ conn' = [conn EXCEPT !.wake = TRUE,
                                !.sink = IF t.txRst /\ ~task[sid].head THEN Append(@, <<sid, 0>>)
                                         ELSE @]
        /\ IF t.txRst THEN Ends(sid, task[sid])
           ELSE /\ task' = [task EXCEPT ![sid] =
                       IF Total(t.out) = 0 \/ Total(t.out) + n <= SendCap
                       THEN [t EXCEPT !.out = Append(@, n), !.pending = 0]
                       ELSE [t EXCEPT !.st = "wait tx", !.pending = n]]
                /\ UNCHANGED <<pc, sending, wire, client>>

Finish(sid) ==
    LET t == task[sid]
    IN  /\ t.st = "run" /\ t.head
        /\ conn' = [conn EXCEPT !.wake = TRUE]
        /\ Ends(sid, IF t.txRst THEN t ELSE [t EXCEPT !.fin = TRUE])

Fail(sid) ==
    /\ HandlersFail /\ task[sid].st = "run" /\ task[sid].head
    /\ conn' = [conn EXCEPT !.wake = TRUE]
    /\ Ends(sid, [task[sid] EXCEPT !.txRst = TRUE])

-----------------------------------------------------------------------------
(* The client. *)

Alive(sid) == client.st[sid] \in {"open", "ended"}

Open(sid, end, cl) ==
    /\ client.st[sid] = "idle" /\ \A x \in Sids : x < sid => client.st[x] # "idle"
    /\ Process(CompleteHeaders(conn, task, sid, end, cl), TRUE)
    /\ client' = [client EXCEPT !.st[sid] = IF end THEN "ended" ELSE "open"]

SendData(sid, n, pad, end) ==
    /\ client.st[sid] = "open" /\ n <= client.left[sid]
    /\ n + pad > 0 \/ end
    /\ n + pad <= client.win[sid] /\ n + pad <= client.cwin
    /\ end => n = client.left[sid] \/ MayMismatch
    /\ Process(ProcessData(conn, task, sid, n, n + pad, end), n + pad > 0)
    /\ client' = [client EXCEPT !.left[sid] = @ - n, !.win[sid] = @ - (n + pad),
                                !.cwin = @ - (n + pad),
                                !.st[sid] = IF end THEN "ended" ELSE @]

Trailers(sid) ==
    /\ client.st[sid] = "open" /\ client.left[sid] = 0
    /\ Process(CompleteHeaders(conn, task, sid, TRUE, -1), TRUE)
    /\ client' = [client EXCEPT !.st[sid] = "ended"]

Grant(sid, n) ==
    /\ client.grants < MaxGrants
    /\ sid # 0 => Alive(sid) /\ (MayGrantEarly \/ client.seen[sid] # "nothing")
    /\ Process(ProcessWindowUpdate(conn, task, sid, n), FALSE)
    /\ client' = IF sid = 0 THEN [client EXCEPT !.grants = @ + 1, !.ccredit = @ + n]
                 ELSE [client EXCEPT !.grants = @ + 1, !.credit[sid] = @ + n]

SetInitialWindow(v) ==
    /\ client.grants < MaxGrants /\ v # client.init
    /\ Process(ProcessSettings(conn, task, v), FALSE)
    /\ client' = [client EXCEPT !.grants = @ + 1, !.init = v,
                       !.credit = [sid \in Sids |-> @[sid] + v - client.init]]

Reset(sid) ==
    /\ Alive(sid)
    /\ Process(ProcessRstStream(conn, task, sid), FALSE)
    /\ client' = [client EXCEPT !.st[sid] = "closed"]

Ping ==
    /\ client.grants < MaxGrants
    /\ Process(Did(Push(conn, [k |-> "ping ack"]), task), FALSE)
    /\ client' = [client EXCEPT !.grants = @ + 1]

GoAway ==
    /\ ~conn.closing
    /\ Process(Did([conn EXCEPT !.closing = TRUE], task), FALSE)
    /\ UNCHANGED client

\* What the client may see next on a stream, given what it has seen.
Legal(seen, f) == IF f.k = "headers" THEN seen = "nothing"
                  ELSE IF f.k = "data" THEN seen = "head"
                  ELSE seen \in {"nothing", "head"}

Receive ==
    LET f == Head(wire)
        onStream == f.k \in {"headers", "data", "rst"} /\ client.st[f.sid] # "closed"
        c1 == CASE f.k = "window" /\ f.sid = 0 -> [client EXCEPT !.cwin = @ + f.n]
                [] f.k = "window" /\ f.sid # 0 -> [client EXCEPT !.win[f.sid] = @ + f.n]
                [] f.k = "data" -> [client EXCEPT !.credit[f.sid] = @ - f.n, !.ccredit = @ - f.n]
                [] OTHER -> client
    IN  /\ wire # <<>>
        /\ wire' = Tail(wire)
        /\ client' = IF ~onStream THEN c1
                     ELSE [c1 EXCEPT !.ok = @ /\ Legal(client.seen[f.sid], f),
                                     !.seen[f.sid] = IF f.k = "rst" THEN "rst"
                                                     ELSE IF f.end THEN "end" ELSE "head",
                                     !.st[f.sid] = IF f.k = "rst" THEN "closed" ELSE @]
        /\ UNCHANGED <<conn, task, pc, sending>>

Demux == Top \/ SendDone \/ Lost \/ Woken \/ \E n \in ReplyLens : InlineDone(n)

Handler(sid) ==
    \/ NextChunk(sid) \/ Finish(sid) \/ Fail(sid)
    \/ \E n \in ReplyLens : Reply(sid, n)
    \/ \E n \in Writes : WriteChunk(sid, n)

Client ==
    \/ \E sid \in Sids, end \in BOOLEAN, cl \in {-1, BodyLen} : Open(sid, end, cl)
    \/ \E sid \in Sids, n \in 0 .. BodyLen, pad \in IF MayPad THEN {0, 1} ELSE {0}, end \in BOOLEAN :
           SendData(sid, n, pad, end)
    \/ \E sid \in Sids : Trailers(sid) \/ Reset(sid)
    \/ \E sid \in Sids \cup {0}, n \in 1 .. 2 : Grant(sid, n)
    \/ \E v \in ClientInits : SetInitialWindow(v)
    \/ Ping \/ GoAway \/ Receive

Next == Demux \/ Client \/ \E sid \in Sids : Handler(sid)

Spec == Init /\ [][Next]_vars

-----------------------------------------------------------------------------
(* Properties. *)

Running == pc # "closed"
OnTheWay == wire \o sending
SumOf(frames, Test(_)) == FoldSeq(LAMBDA f, a : IF Test(f) THEN a + f.n ELSE a, 0, frames)
DataOut(sid) == SumOf(OnTheWay, LAMBDA f : f.k = "data" /\ f.sid = sid)
CreditOut(sid) == SumOf(conn.ctrl \o OnTheWay, LAMBDA f : f.k = "window" /\ f.sid = sid)

\* The window the server keeps for the connection and for every live stream,
\* whether its response is streamed or queued, is exactly what the client has
\* granted less what was sent: WINDOW_UPDATEs, and changes of the initial
\* window, that arrive in any state of the stream are neither lost nor counted
\* twice (apply_setting, process_window_update, queue_response).
SendWindowExact ==
    Running =>
      /\ conn.win = client.ccredit - SumOf(OnTheWay, LAMBDA f : f.k = "data")
      /\ \A i \in DOMAIN conn.streams : LET s == conn.streams[i] IN
            Alive(s.id) => s.win = client.credit[s.id] - DataOut(s.id)
      /\ \A i \in DOMAIN conn.outq : LET o == conn.outq[i] IN
            Alive(o.id) => o.win = client.credit[o.id] - DataOut(o.id)

\* Receive credit is conserved: what the client may still send, the updates on
\* their way, what waits in the body channel and what the handler has consumed
\* but the demux has not credited add up to the initial window, for every
\* stream with a handler; the connection's window is whole again as soon as the
\* updates arrive.  So an upload never runs out of window for good.
ReceiveCreditConserved ==
    Running =>
      /\ client.cwin + CreditOut(0) = InitialWindow
      /\ \A i \in DOMAIN conn.streams :
            LET s == conn.streams[i] IN
            /\ client.win[s.id] + CreditOut(s.id) = s.rwin
            /\ s.rwin + Total(task[s.id].chunks) + task[s.id].uncredited = InitialWindow

Sendable(win, n) == Min({conn.win, win, n}) > 0

\* When the demux waits for a frame and no handler has woken it, it has left
\* nothing undone: no response unqueued, no credit ungiven, no header unsent,
\* no byte that the windows admit, no stream finished but not ended (the reset
\* of demux_wake comes before the queues are looked at).
ParkedDemuxIsIdle ==
    pc = "select" /\ ~conn.wake =>
      /\ conn.sink = <<>> /\ conn.ctrl = <<>>
      /\ \A i \in DOMAIN conn.outq :
            conn.outq[i].hsent /\ ~Sendable(conn.outq[i].win, conn.outq[i].left)
      /\ \A i \in DOMAIN conn.streams :
            LET s == conn.streams[i]
                t == task[s.id]
            IN  /\ t.uncredited = 0
                /\ t.head => s.hsent
                /\ t.head /\ t.out # <<>> => ~Sendable(s.win, Head(t.out))
                /\ t.fin => Total(t.out) > 0

\* A handler that waits can still be woken: its stream is in the demux's table,
\* or the event it waits on is already set.  No path that drops a stream
\* (reset_stream, process_rst_stream, reset_all_streams, a queued response)
\* leaves a task parked for ever.
WaitingHandlerIsKnown ==
    \A sid \in Sids :
      /\ task[sid].st = "wait body" => task[sid].bodyEvent \/ HasSlot(conn, sid)
      /\ task[sid].st = "wait tx" => task[sid].txEvent \/ HasSlot(conn, sid)

\* Every stream the client has open is answered or will be: it has seen the
\* end, the end or a reset is on its way, or the demux still holds the stream.
RequestIsAnswered ==
    Running => \A sid \in Sids :
      Alive(sid) /\ client.seen[sid] \in {"nothing", "head"} =>
        \/ HasSlot(conn, sid) \/ QueuedAt(conn, sid) # 0
        \/ pc = "inline" /\ conn.last = sid
        \/ \E i \in DOMAIN OnTheWay : LET f == OnTheWay[i] IN
               f.k \in {"headers", "data", "rst"} /\ f.sid = sid /\ (f.k = "rst" \/ f.end)
        \/ \E i \in DOMAIN conn.ctrl : conn.ctrl[i] = RstStream(sid)

\* On the wire a response is HEADERS, then DATA, and ends once: with END_STREAM
\* or RST_STREAM, and nothing follows, whichever of the two writers sent it.
ResponseWellFormed == client.ok

-----------------------------------------------------------------------------
(***************************************************************************)
(* The repository's own HTTP/2 client (H2ClientConn, client.rs) against    *)
(* its server: one request in flight at a time, the response pumped by the *)
(* caller's task.  Both directions are FIFO byte streams, `up' towards the *)
(* server and `wire' back, carrying whole frames; they take whatever the   *)
(* windows admit.                                                          *)
(*                                                                         *)
(* The client takes the place of Http2Server's generic one, whose variable *)
(* is not used here.                                                       *)
(***************************************************************************)
CONSTANTS Requests,  \* bound: requests of one connection
          BodyCap,   \* the caller's limit on a response body
          MayLose    \* may the transport end?

VARIABLES h,      \* H2ClientConn with its InFlight
          up,     \* frames on their way to the server
          wrote   \* the length of each response, as its handler made it (history)

pairVars == <<vars, h, up, wrote>>

NewClient == [pc |-> "connect", sid |-> -1, swin |-> 0, rwin |-> 0, cwin |-> InitialWindow,
              crwin |-> InitialWindow, init |-> InitialWindow, goaway |-> FALSE, dead |-> FALSE,
              left |-> 0, headersDone |-> FALSE, complete |-> FALSE, reset |-> FALSE,
              large |-> FALSE, got |-> 0, result |-> "none"]

Settings == [k |-> "settings", n |-> InitialWindow]

\* serve_conn sends its SETTINGS before it reads the preface; connect sends the
\* preface with the client's.
PairInit ==
    /\ InitWith(<<Settings>>)
    /\ h = NewClient /\ up = <<Settings>>
    /\ wrote = [sid \in Sids |-> 0]

-----------------------------------------------------------------------------
(* Frames to the client: process_frame and what it calls.  A result is the *)
(* client, the control frames it answers with and whether it is an error.  *)

Ok(c, ctrl) == [c |-> c, ctrl |-> ctrl, err |-> FALSE]
Error(c) == [c |-> c, ctrl |-> <<>>, err |-> TRUE]
Mine(c, f) == f.sid = c.sid /\ ~c.complete

ClientSettings(c, f) ==
    Ok([c EXCEPT !.swin = @ + f.n - c.init, !.init = f.n], <<[k |-> "settings ack"]>>)

ClientHeaders(c, f) ==
    IF f.sid > c.sid THEN Error(c)
    ELSE IF Mine(c, f) /\ ~c.headersDone
    THEN Ok([c EXCEPT !.headersDone = TRUE, !.complete = f.end], <<>>)
    ELSE IF Mine(c, f)
    THEN IF f.end THEN Ok([c EXCEPT !.complete = TRUE], <<>>)
         ELSE Ok([c EXCEPT !.reset = TRUE, !.complete = TRUE], <<RstStream(f.sid)>>)
    ELSE Ok(c, <<>>)

ClientData(c, f) ==
    LET mine == Mine(c, f) /\ ~c.reset
        large == c.got + f.n > BodyCap
        c1 == IF large THEN [c EXCEPT !.large = TRUE, !.complete = TRUE, !.rwin = @ - f.n]
              ELSE [c EXCEPT !.got = @ + f.n, !.complete = f.end,
                             !.rwin = IF f.end THEN @ - f.n ELSE @]
        own == IF large THEN <<RstStream(f.sid)>>
               ELSE IF f.n > 0 /\ ~f.end THEN <<WindowUpdate(f.sid, f.n)>> ELSE <<>>
        shared == IF f.n > 0 THEN <<WindowUpdate(0, f.n)>> ELSE <<>>
    IN  IF c.crwin - f.n < 0 THEN Error(c)
        ELSE IF ~mine THEN Ok(c, shared)
        ELSE IF c.rwin - f.n < 0 \/ ~c.headersDone THEN Error(c)
        ELSE Ok(c1, own \o shared)

ClientWindowUpdate(c, f) ==
    IF f.sid = 0 THEN Ok([c EXCEPT !.cwin = @ + f.n], <<>>)
    ELSE IF f.sid = c.sid THEN Ok([c EXCEPT !.swin = @ + f.n], <<>>) ELSE Ok(c, <<>>)

ClientRstStream(c, f) ==
    Ok(IF Mine(c, f) THEN [c EXCEPT !.reset = TRUE, !.complete = TRUE] ELSE c, <<>>)

ClientFrame(c, f) ==
    CASE f.k = "settings" -> ClientSettings(c, f)
      [] f.k = "headers" -> ClientHeaders(c, f)
      [] f.k = "data" -> ClientData(c, f)
      [] f.k = "window" -> ClientWindowUpdate(c, f)
      [] f.k = "rst" -> ClientRstStream(c, f)
      [] f.k = "goaway" -> Ok([c EXCEPT !.goaway = TRUE], <<>>)
      [] OTHER -> Ok(c, <<>>)

-----------------------------------------------------------------------------
(* The client's task. *)

\* The server's first frame must be SETTINGS.
Connect ==
    LET r == ClientFrame(h, Head(wire))
    IN  /\ h.pc = "connect" /\ wire # <<>> /\ wire' = Tail(wire)
        /\ h' = IF Head(wire).k = "settings" THEN [r.c EXCEPT !.pc = "idle"]
                ELSE [h EXCEPT !.dead = TRUE, !.pc = "idle"]
        /\ up' = up \o IF Head(wire).k = "settings" THEN r.ctrl ELSE <<[k |-> "goaway"]>>
        /\ UNCHANGED <<conn, task, pc, sending, client, wrote>>

\* request, up to the await of its HEADERS.
Request(body) ==
    LET sid == h.sid + 2
    IN  /\ h.pc = "idle" /\ ~h.dead /\ ~h.goaway /\ sid \in Sids
        /\ (sid + 1) \div 2 <= Requests
        /\ h' = [h EXCEPT !.pc = IF body > 0 THEN "body" ELSE "await", !.sid = sid,
                          !.swin = h.init, !.rwin = InitialWindow, !.left = body,
                          !.headersDone = FALSE, !.complete = FALSE, !.reset = FALSE,
                          !.large = FALSE, !.got = 0, !.result = "none"]
        /\ up' = Append(up, [k |-> "headers", sid |-> sid, end |-> body = 0])
        /\ UNCHANGED <<vars, wrote>>

MaySend == Min({h.cwin, h.swin, MaxFrame, h.left})

\* send_body: a frame as the windows admit, or an end before the body is sent
\* because the response has ended.
SendBody ==
    /\ h.pc = "body"
    /\ IF h.complete
       THEN /\ up' = IF h.reset THEN up ELSE Append(up, RstStream(h.sid))
            /\ h' = [h EXCEPT !.pc = "await"]
       ELSE /\ MaySend > 0
            /\ up' = Append(up, Data(h.sid, MaySend, MaySend = h.left))
            /\ h' = [h EXCEPT !.swin = @ - MaySend, !.cwin = @ - MaySend, !.left = @ - MaySend,
                              !.pc = IF MaySend = h.left THEN "await" ELSE "body"]
    /\ UNCHANGED <<vars, wrote>>

\* pump_one: one frame is read, processed, and the answers are sent.
Pump ==
    LET r == ClientFrame(h, Head(wire))
    IN  /\ h.pc = "await" \/ (h.pc = "body" /\ MaySend <= 0)
        /\ ~h.complete /\ ~(h.pc = "await" /\ h.goaway)
        /\ wire # <<>> /\ wire' = Tail(wire)
        /\ IF r.err
           THEN /\ h' = [h EXCEPT !.dead = TRUE, !.pc = "idle", !.result = "protocol"]
                /\ up' = Append(up, [k |-> "goaway"])
           ELSE h' = r.c /\ up' = up \o r.ctrl
        /\ UNCHANGED <<conn, task, pc, sending, client, wrote>>

\* request returns.  A GOAWAY's last stream is not told apart: the server's
\* covers every stream it has read.
Return ==
    /\ h.pc = "await" /\ (h.complete \/ h.goaway)
    /\ h' = [h EXCEPT !.pc = "idle",
                      !.result = CASE h.complete /\ h.reset -> "reset"
                                   [] h.complete /\ h.large -> "too large"
                                   [] h.complete /\ ~h.reset /\ ~h.large -> "ok"
                                   [] OTHER -> "goaway"]
    /\ UNCHANGED <<vars, up, wrote>>

\* The server is gone and everything it sent has been read.
Ended ==
    /\ pc = "closed" /\ wire = <<>> /\ h.pc \in {"body", "await", "connect"} /\ ~h.complete
    /\ h' = [h EXCEPT !.dead = TRUE, !.pc = "idle", !.result = "transport"]
    /\ UNCHANGED <<vars, up, wrote>>

CloseClient ==
    /\ h.pc = "idle" /\ ~h.dead
    /\ h' = [h EXCEPT !.dead = TRUE] /\ up' = Append(up, [k |-> "goaway"])
    /\ UNCHANGED <<vars, wrote>>

-----------------------------------------------------------------------------
(* The server reads a frame. *)

ServerReads ==
    LET f == Head(up)
    IN  /\ up # <<>> /\ up' = Tail(up)
        /\ Process(CASE f.k = "settings" -> ProcessSettings(conn, task, f.n)
                     [] f.k = "headers" -> CompleteHeaders(conn, task, f.sid, f.end, -1)
                     [] f.k = "data" -> ProcessData(conn, task, f.sid, f.n, f.n, f.end)
                     [] f.k = "window" -> ProcessWindowUpdate(conn, task, f.sid, f.n)
                     [] f.k = "rst" -> ProcessRstStream(conn, task, f.sid)
                     [] f.k = "goaway" -> Did([conn EXCEPT !.closing = TRUE], task)
                     [] f.k = "settings ack" -> Did(conn, task),
                   f.k = "headers" \/ (f.k = "data" /\ f.n > 0))
        /\ UNCHANGED <<client, h, wrote>>

\* The client's side is gone and everything it sent has been read.
ServerEof ==
    /\ up = <<>> /\ (h.dead \/ MayLose) /\ Lost /\ UNCHANGED <<h, up, wrote>>

Wrote(sid, n) == wrote' = [wrote EXCEPT ![sid] = @ + n] /\ UNCHANGED <<h, up>>

ServerRuns ==
    \/ (Top \/ SendDone \/ Woken) /\ UNCHANGED <<h, up, wrote>>
    \/ \E n \in ReplyLens : InlineDone(n) /\ Wrote(conn.last, n)
    \/ \E sid \in Sids :
         \/ (NextChunk(sid) \/ Finish(sid) \/ Fail(sid)) /\ UNCHANGED <<h, up, wrote>>
         \/ \E n \in ReplyLens : Reply(sid, n) /\ Wrote(sid, n)
         \/ \E n \in Writes : WriteChunk(sid, n) /\
               Wrote(sid, IF Len(task'[sid].out) > Len(task[sid].out) THEN n ELSE 0)

PairNext ==
    \/ Connect \/ SendBody \/ Pump \/ Return \/ Ended \/ CloseClient
    \/ \E body \in 0 .. BodyLen : Request(body)
    \/ ServerReads \/ ServerEof \/ ServerRuns

PairSpec == PairInit /\ [][PairNext]_pairVars

-----------------------------------------------------------------------------
(* Properties. *)

\* A request that returns a response returns the whole of it, whatever order
\* the upload, the response, an early answer and the credits came in.
AnswerIsWhole == h.result = "ok" => h.got = wrote[h.sid]

HandlerWaits(sid) == \/ task[sid].st \in {"none", "done"}
                     \/ task[sid].st = "wait body" /\ ~task[sid].bodyEvent
                     \/ task[sid].st = "wait tx" /\ ~task[sid].txEvent

\* Client, demux and handlers never all wait for each other: when the client
\* waits for a frame and nothing is on its way in either direction, the demux
\* or a handler has something to do (windows are always refilled in time).
NoMutualWait ==
    ~(/\ h.pc = "await" \/ (h.pc = "body" /\ MaySend <= 0)
      /\ ~h.complete /\ ~h.goaway /\ wire = <<>> /\ up = <<>>
      /\ pc = "select" /\ ~conn.wake
      /\ \A sid \in Sids : HandlerWaits(sid))

\* Neither end ever accuses the other: no connection error and no GOAWAY while
\* the transport holds.
NoAccusation ==
    /\ h.result # "protocol"
    /\ ~\E i \in DOMAIN wire : wire[i].k = "goaway"
=============================================================================
