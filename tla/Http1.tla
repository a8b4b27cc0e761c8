------------------------------- MODULE Http1 -------------------------------
(***************************************************************************)
(* One HTTP/1.1 connection (src/crates/proto/http): serve_conn, with its   *)
(* keep-alive loop, the body reader and the streaming sink a handler is    *)
(* given, and a peer.  The peer is either this repository's client (one    *)
(* request, then its response: client.rs) or an external one that          *)
(* pipelines its requests.                                                 *)
(*                                                                         *)
(* A message is HeadLen cells of head and the cells of its body; a cell    *)
(* says which message it belongs to, so a reader that loses the boundary   *)
(* between messages is seen to.  What the heads say (the length, whether   *)
(* the connection closes) is in reqs and heads; how they are written and   *)
(* parsed is HttpWire.  The transport delivers in order, holds Window      *)
(* cells each way, and hands over any part of what it holds.               *)
(***************************************************************************)
EXTENDS Integers, Sequences, SequencesExt

CONSTANTS HeadLen,      \* cells of a head
          MaxHead,      \* MAX_HEAD_BYTES
          Window,       \* cells the transport holds in one direction
          Requests,     \* how many requests a pipelining peer sends
          Bodies,       \* request body lengths
          Plans,        \* what handlers do: "skip", "half", "collect", "echo", "abort"
          Peers,        \* subset of {"client", "pipeline"}
          BodyCap,      \* body_cap of the client
          MayTimeout,   \* the idle timer may fire
          MayLeave      \* the peer may drop the connection

VARIABLES reqs,         \* the requests: reqs[r] = [cl, close, reject, plan]
          heads,        \* heads[r]: what the head of response r says
          c2s, s2c,     \* cells in flight
          finC, finS,   \* the side has closed its direction
          srv, cli

vars == <<reqs, heads, c2s, s2c, finC, finS, srv, cli>>

Least(a, b) == IF a < b THEN a ELSE b
From(s, n) == SubSeq(s, n + 1, Len(s))
Upto(s, n) == SubSeq(s, 1, Least(n, Len(s)))

HeadOf(kind, r) == [i \in 1 .. HeadLen |-> <<kind, r, i>>]
Body(r) == [i \in 1 .. reqs[r].cl |-> <<"b", r, i>>]
Wire(r) == HeadOf("h", r) \o Body(r)
Greeting(r) == <<<<"g", r, 1>>>>        \* what a handler that does not read answers

\* The body of the response a handler that succeeds means to send.
Meant(r) == IF reqs[r].reject THEN <<<<"g", r, 400>>>>
            ELSE IF reqs[r].plan \in {"skip", "half"} THEN Greeting(r) ELSE Body(r)

(***************************************************************************)
(* The server: serve_conn.                                                 *)
(***************************************************************************)
NoBody == [limit |-> 0, pre |-> <<>>, got |-> 0, left |-> <<>>]

\* remaining().
Remaining(b) == b.limit - b.got

\* BodyReader::new over the bytes that came with the head.
NewBody(r, carry) == [NoBody EXCEPT !.limit = reqs[r].cl, !.pre = Upto(carry, reqs[r].cl)]

\* parser.feed on a chunk, and what serve_conn does with the result: more to
\* come, over the limit, or a whole head, whose successor bytes are carried.
Feed(s, chunk) ==
  LET room  == MaxHead - Len(s.seen)
      ends  == {i \in 1 .. Least(room, Len(chunk)) : chunk[i][1] = "h" /\ chunk[i][3] = HeadLen}
      end   == CHOOSE i \in ends : \A j \in ends : i <= j
      seen  == s.seen \o Upto(chunk, end)
      r     == IF seen = HeadOf("h", seen[1][2]) THEN seen[1][2] ELSE 0
      carry == From(chunk, end)
  IN IF ends = {}
     THEN IF Len(chunk) > room THEN [s EXCEPT !.pc = "done"]
          ELSE [s EXCEPT !.seen = @ \o chunk, !.carry = <<>>]
     ELSE IF r = 0 THEN [s EXCEPT !.pc = "lost"]
     ELSE LET t == [s EXCEPT !.seen = <<>>, !.carry = carry, !.r = r, !.read = <<>>,
                             !.streamed = FALSE, !.out = <<>>,
                             !.close = reqs[r].reject \/ reqs[r].close]
          IN IF reqs[r].reject
             THEN [t EXCEPT !.body = NoBody, !.pc = "respond", !.reply = Meant(r)]
             ELSE [t EXCEPT !.body = NewBody(r, carry), !.pc = "handler", !.reply = <<>>]

\* The connection is left open.
ReturnOpen == srv' = [srv EXCEPT !.pc = "done"] /\ UNCHANGED finS

\* The future ends: its stream is dropped.
Return == srv' = [srv EXCEPT !.pc = "done"] /\ finS' = TRUE

\* The next head, from the carried bytes or from the transport, which may end
\* or stay idle.
ReadHead ==
  /\ srv.pc = "head"
  /\ \/ /\ srv.carry # <<>>
        /\ srv' = Feed(srv, srv.carry) /\ finS' = (srv'.pc = "done") /\ UNCHANGED c2s
     \/ /\ srv.carry = <<>>
        /\ \E n \in 1 .. Len(c2s) :
              /\ srv' = Feed(srv, Upto(c2s, n)) /\ finS' = (srv'.pc = "done")
              /\ c2s' = From(c2s, n)
     \/ /\ srv.carry = <<>> /\ c2s = <<>> /\ (finC \/ MayTimeout)
        /\ Return /\ UNCHANGED c2s
  /\ UNCHANGED <<reqs, heads, s2c, finC, cli>>

\* BodyReader::chunk with something to deliver: the bytes that came with the
\* head first, then a chunk of the transport, cut at the body's end.
Chunk(s, n) ==
  LET pre  == s.body.pre # <<>>
      in   == IF pre THEN s.body.pre ELSE Upto(c2s, n)
      take == Least(Len(in), Remaining(s.body))
  IN [cells |-> Upto(in, take),
      used  |-> IF pre THEN 0 ELSE n,
      body  |-> [s.body EXCEPT !.pre = <<>>, !.got = @ + take,
                               !.left = IF pre THEN @ ELSE From(in, take)]]

\* The sizes a read may return now; {} while it waits.
Sizes(s) == IF s.body.pre # <<>> THEN {0} ELSE 1 .. Len(c2s)

AtEof(s) == s.body.pre = <<>> /\ c2s = <<>> /\ finC

\* ResponseSink::send_head before the first chunk, then the chunk.
Streamed(s, cells) ==
  [s EXCEPT !.out = (IF s.streamed THEN <<>> ELSE HeadOf("H", s.r)) \o cells, !.streamed = TRUE]

StreamHead(s) == IF s.streamed THEN heads
                 ELSE [heads EXCEPT ![s.r] = [eof |-> TRUE, len |-> 0, close |-> TRUE]]

\* The handler reads a chunk of the body.  "collect" keeps it, "echo" writes
\* it back, "half" is content with one.
HandlerReads ==
  /\ srv.pc = "handler" /\ srv.out = <<>>
  /\ reqs[srv.r].plan \in {"half", "collect", "echo"}
  /\ Remaining(srv.body) > 0 /\ (reqs[srv.r].plan = "half" => srv.read = <<>>)
  /\ \E n \in Sizes(srv) :
        LET c == Chunk(srv, n)
            s == [srv EXCEPT !.body = c.body, !.read = @ \o c.cells]
        IN /\ c2s' = From(c2s, c.used)
           /\ IF reqs[srv.r].plan = "echo"
              THEN srv' = Streamed(s, c.cells) /\ heads' = StreamHead(srv)
              ELSE srv' = s /\ UNCHANGED heads
  /\ UNCHANGED <<reqs, s2c, finC, finS, cli>>

\* The body ends early: the handlers that wanted it all report the failure.
HandlerStarves ==
  /\ srv.pc = "handler" /\ srv.out = <<>> /\ Remaining(srv.body) > 0 /\ AtEof(srv)
  /\ reqs[srv.r].plan \in {"half", "collect", "echo"}
  /\ (reqs[srv.r].plan = "half" => srv.read = <<>>)
  /\ Return
  /\ UNCHANGED <<reqs, heads, c2s, s2c, finC, cli>>

\* The handler returns Ok: a buffered answer goes on to drain the body, a
\* streamed one is finished and the connection closed behind it.
HandlerReturns ==
  LET plan == reqs[srv.r].plan
      full == Remaining(srv.body) = 0
  IN /\ srv.pc = "handler" /\ srv.out = <<>>
     /\ \/ plan = "skip"
        \/ plan = "half" /\ (full \/ srv.read # <<>>)
        \/ plan \in {"collect", "echo"} /\ full
     /\ IF srv.streamed THEN Return
        ELSE /\ srv' = [srv EXCEPT !.pc = IF srv.close \/ full THEN "respond" ELSE "discard",
                                   !.reply = IF plan \in {"collect", "echo"} THEN srv.read
                                             ELSE Greeting(srv.r)]
             /\ UNCHANGED finS
     /\ UNCHANGED <<reqs, heads, c2s, s2c, finC, cli>>

\* A handler that streams a part of its answer and then fails.
HandlerAborts ==
  /\ srv.pc = "handler" /\ srv.out = <<>> /\ reqs[srv.r].plan = "abort"
  /\ IF srv.streamed THEN Return /\ UNCHANGED heads
     ELSE srv' = Streamed(srv, Upto(Body(srv.r), 1)) /\ heads' = StreamHead(srv) /\ UNCHANGED finS
  /\ UNCHANGED <<reqs, c2s, s2c, finC, cli>>

\* body.discard(): what the handler left unread goes, or the connection does.
Discard ==
  /\ srv.pc = "discard"
  /\ \/ \E n \in Sizes(srv) :
           LET c == Chunk(srv, n)
           IN /\ srv' = [srv EXCEPT !.body = c.body,
                                    !.pc = IF Remaining(c.body) = 0 THEN "respond" ELSE "discard"]
              /\ c2s' = From(c2s, c.used) /\ UNCHANGED finS
     \/ AtEof(srv) /\ Return /\ UNCHANGED c2s
  /\ UNCHANGED <<reqs, heads, s2c, finC, cli>>

\* The buffered response: head and body in one send.
Respond ==
  /\ srv.pc = "respond"
  /\ srv' = [srv EXCEPT !.pc = "sent", !.out = HeadOf("H", srv.r) \o srv.reply]
  /\ heads' = [heads EXCEPT ![srv.r] = [eof |-> FALSE, len |-> Len(srv.reply), close |-> srv.close]]
  /\ UNCHANGED <<reqs, c2s, s2c, finC, finS, cli>>

\* What the last chunk held beyond the body is forgotten.
NextRequestForgets ==
  /\ srv.pc = "sent" /\ srv.out = <<>>
  /\ IF srv.close THEN Return
     ELSE /\ srv' = [srv EXCEPT !.pc = "head", !.carry = From(@, Least(reqs[srv.r].cl, Len(@)))]
          /\ UNCHANGED finS
  /\ UNCHANGED <<reqs, heads, c2s, s2c, finC, cli>>

\* After it: close, or carry on past the body, with what a chunk held beyond it.
NextRequest ==
  /\ srv.pc = "sent" /\ srv.out = <<>>
  /\ IF srv.close THEN Return
     ELSE /\ srv' = [srv EXCEPT !.pc = "head",
                                !.carry = IF srv.body.left # <<>> THEN srv.body.left
                                          ELSE From(@, Least(reqs[srv.r].cl, Len(@)))]
          /\ UNCHANGED finS
  /\ UNCHANGED <<reqs, heads, c2s, s2c, finC, cli>>

\* The transport takes a part of what is being sent.
ServerSends ==
  /\ srv.out # <<>> /\ srv.pc # "done"
  /\ \E n \in {Least(Window - Len(s2c), Len(srv.out))} \ {0} :
        s2c' = s2c \o Upto(srv.out, n) /\ srv' = [srv EXCEPT !.out = From(@, n)]
  /\ UNCHANGED <<reqs, heads, c2s, finC, finS, cli>>

\* The peer is gone: a send fails, and with it the handler or the response.
SendFails ==
  /\ srv.out # <<>> /\ srv.pc # "done" /\ cli.pc = "done"
  /\ Return
  /\ UNCHANGED <<reqs, heads, c2s, s2c, finC, cli>>

(***************************************************************************)
(* The peer: fetch and ClientBodyReader, or a pipelining client that keeps *)
(* what follows a response.                                                *)
(***************************************************************************)
PeerSends ==
  /\ cli.out # <<>> /\ cli.pc # "done"
  /\ IF finS THEN cli' = [cli EXCEPT !.out = <<>>, !.pc = IF cli.peer = "client" THEN "done" ELSE @]
                  /\ UNCHANGED c2s
     ELSE \E n \in {Least(Window - Len(c2s), Len(cli.out))} \ {0} :
             c2s' = c2s \o Upto(cli.out, n) /\ cli' = [cli EXCEPT !.out = From(@, n)]
  /\ UNCHANGED <<reqs, heads, s2c, finC, finS, srv>>

Answered(c, ok) == Append(c.answers, [r |-> c.r, body |-> c.body, ok |-> ok])

\* The client's future ends and drops its stream; a pipelining peer goes on
\* until every request is answered or the connection closes.
After(c, ok, rest) ==
  LET d == [c EXCEPT !.answers = Answered(c, ok), !.got = rest, !.body = <<>>, !.pc = "head"]
  IN IF c.peer = "client" \/ Len(d.answers) = Requests \/ heads[c.r].close
     THEN [d EXCEPT !.pc = "done", !.got = <<>>] ELSE d

\* What has arrived is taken as far as it goes: the head, then the body its
\* framing announces.  Past its end the client drops what it has.
RECURSIVE Take(_)
Take(c) ==
  LET h == heads[c.r]
      body == c.body \o (IF h.eof THEN c.got ELSE Upto(c.got, h.len - Len(c.body)))
  IN IF c.pc = "head"
     THEN IF Len(c.got) < HeadLen THEN c
          ELSE Take([c EXCEPT !.pc = "body", !.r = c.got[1][2], !.got = From(@, HeadLen)])
     ELSE IF c.pc = "body"
     THEN IF c.peer = "client" /\ Len(body) > BodyCap THEN After(c, FALSE, <<>>)
          ELSE IF ~h.eof /\ Len(body) = h.len
          THEN Take(After([c EXCEPT !.body = body], TRUE, From(c.got, h.len - Len(c.body))))
          ELSE [c EXCEPT !.body = body, !.got = <<>>]
     ELSE c

Reading(c) == c.pc \in {"head", "body"} /\ (c.peer = "client" => c.out = <<>>)

PeerReceives ==
  /\ Reading(cli)
  /\ \E n \in 1 .. Len(s2c) :
        /\ cli' = Take([cli EXCEPT !.got = @ \o Upto(s2c, n)])
        /\ s2c' = From(s2c, n) /\ finC' = (finC \/ cli'.pc = "done")
  /\ UNCHANGED <<reqs, heads, c2s, finS, srv>>

\* The transport ends: the end of a body that runs to it, an error elsewhere.
PeerMeetsEof ==
  /\ Reading(cli) /\ s2c = <<>> /\ finS
  /\ cli' = IF cli.pc = "body"
            THEN [cli EXCEPT !.pc = "done", !.answers = Answered(cli, heads[cli.r].eof)]
            ELSE [cli EXCEPT !.pc = "done"]
  /\ finC' = TRUE
  /\ UNCHANGED <<reqs, heads, c2s, s2c, finS, srv>>

\* The peer drops the connection, wherever it is in the exchange.
PeerLeaves ==
  /\ MayLeave /\ cli.pc # "done"
  /\ cli' = [cli EXCEPT !.pc = "done", !.out = <<>>, !.got = <<>>]
  /\ finC' = TRUE
  /\ UNCHANGED <<reqs, heads, c2s, s2c, finS, srv>>

-----------------------------------------------------------------------------
Init ==
  /\ \E peer \in Peers :
        LET n == IF peer = "client" THEN 1 ELSE Requests IN
        /\ reqs \in [1 .. n -> [cl : Bodies, close : BOOLEAN, reject : BOOLEAN, plan : Plans]]
        /\ \A r \in 1 .. n : reqs[r].reject => reqs[r].cl = 0 /\ reqs[r].plan = "skip"
        /\ peer = "client" => reqs[1].close
        /\ \A r \in 1 .. n - 1 : ~reqs[r].close
        /\ heads = [r \in 1 .. n |-> [eof |-> FALSE, len |-> 0, close |-> FALSE]]
        /\ cli = [peer |-> peer, pc |-> "head", out |-> FlattenSeq([r \in 1 .. n |-> Wire(r)]),
                  r |-> 1, got |-> <<>>, body |-> <<>>, answers |-> <<>>]
  /\ c2s = <<>> /\ s2c = <<>> /\ finC = FALSE /\ finS = FALSE
  /\ srv = [pc |-> "head", carry |-> <<>>, seen |-> <<>>, r |-> 1, read |-> <<>>, body |-> NoBody,
            reply |-> <<>>, out |-> <<>>, streamed |-> FALSE, close |-> FALSE]

Server == \/ ReadHead \/ HandlerReads \/ HandlerStarves \/ HandlerReturns \/ HandlerAborts
          \/ Discard \/ Respond \/ NextRequest \/ ServerSends \/ SendFails
Peer == PeerSends \/ PeerReceives \/ PeerMeetsEof
Next == Server \/ Peer \/ PeerLeaves

\* Both tasks are polled whenever they are woken, and the transport moves what
\* it can.
Spec == Init /\ [][Next]_vars /\ WF_vars(Server) /\ WF_vars(Peer)

-----------------------------------------------------------------------------
\* The server keeps its place: wherever the chunks were cut and whatever the
\* handlers left unread, the next head it parses is the next request's, and a
\* handler reads the first bytes of its own request's body (serve_conn's carry
\* and leftover, BodyReader::chunk).
KeepsItsPlace ==
  /\ srv.pc # "lost"
  /\ srv.read = Upto(Body(srv.r), Len(srv.read))
  /\ srv.pc = "head" /\ srv.seen # <<>> => srv.seen[1] \in {<<"h", 1, 1>>, <<"h", srv.r + 1, 1>>}

\* An answer the peer holds for complete is the whole answer to the next
\* request it sent, or, where the handler failed in the middle of a streamed
\* answer, the part it had streamed: the end of the connection looks the same.
AnswerExact ==
  \A i \in DOMAIN cli.answers :
     /\ cli.answers[i].r = i
     /\ cli.answers[i].ok => IF reqs[i].plan = "abort" THEN IsPrefix(cli.answers[i].body, Body(i))
                            ELSE cli.answers[i].body = Meant(i)

\* Both ends agree on where messages start and end.
MessagesExact == KeepsItsPlace /\ AnswerExact

\* Neither side waits for ever on the other: the exchange comes to an end, and
\* unless the server gave up an idle connection the client has its answer.
ExchangeEnds == <>(cli.pc = "done" /\ srv.pc = "done")
=============================================================================
