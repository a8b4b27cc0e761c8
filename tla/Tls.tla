-------------------------------- MODULE Tls --------------------------------
(***************************************************************************)
(* TLS 1.3 over one TCP connection: TlsServer (tls/src/server.rs and       *)
(* handlers.rs) behind http2::listen's TlsStream and its pool, against     *)
(* TlsClient (tls/src/client.rs) behind https's TlsClientStream.           *)
(*                                                                         *)
(* Cryptography is symbolic.  A transcript hash is the sequence of its     *)
(* messages, a secret is the tuple it is derived from, and a record opens  *)
(* under exactly the key and sequence number it was sealed with.  Bytes    *)
(* are cells <<id, i>>: the i-th byte of the id-th record its sender made, *)
(* so a chunk can cut a record anywhere and a misframed record is visible. *)
(* An external client may also offer a ticket, and an external server may  *)
(* pack its handshake messages into records differently (Packings).        *)
(***************************************************************************)
EXTENDS Integers, Sequences, SequencesExt, FiniteSets

CONSTANTS
    HeaderLen,     \* record::HEADER_LEN
    MaxRecord,     \* MAX_RECORD_TOTAL
    MaxPlain,      \* PLAINTEXT_CHUNK: application units of one record
    CertLen,       \* bytes of the Certificate record
    TxBufLen,      \* TX_BUF_LEN
    Scratch,       \* tx_scratch: what one pop_tx takes
    SealLimit,     \* SEAL_RECORD_LIMIT
    Offers,        \* ALPN lists a client may offer
    PinOk,         \* the client's pin is the one of the server's key
    Packings,      \* subset of {"one", "split", "joined"}
    Ask, Answer,   \* application units of a request and of its response
    Sessions,      \* connections the worker serves, one after the other
    Resumes,       \* the client of a later session offers its ticket
    MayExpire,     \* ... and the ticket may be too old by then
    MayAbandon,    \* the client's TCP connection may end at any time
    PeerWaits,     \* the client keeps TCP open until the server closes
    Workers,       \* the workers that share the ticket store
    Nonces,        \* pairs <<hi, lo>>, none of them <<0, 0>>
    Offered        \* times a ticket may be offered

VARIABLES
    end,           \* end["c"], end["s"]: the two TLS state machines
    task,          \* the two tasks that drive them
    wire,          \* cells sent by a side and not yet received
    closed,        \* sides that have closed TCP
    session,       \* number of the connection
    wallet,        \* ticket the client keeps from session to session
    \* the ticket store, a machine of its own:
    once,          \* OnceTicketKey::state
    value,         \* OnceTicketKey::value: who initialised it, or nobody
    slot,          \* TABLE[idx]: [hi, lo]
    doing,         \* what each worker is doing
    arg,           \* the nonce it checks
    loaded,        \* the hi word it has loaded
    used,          \* key each worker last sealed or opened with
    accepted,      \* per nonce: times check_and_record returned true
    offers,        \* per nonce: calls of check_and_record
    evicted        \* nonces another nonce has displaced in the slot

vars == <<end, task, wire, closed, session, wallet>>

Sides == {"c", "s"}
Peer(e) == IF e = "c" THEN "s" ELSE "c"
Least(a, b) == IF a < b THEN a ELSE b
From(s, n) == SubSeq(s, n, Len(s))

---------------------------------------------------------------------------
(* Keys and records.                                                       *)

\* TrafficKey of a secret: the records sealed or opened so far.  A traffic
\* secret is its direction, its phase and what it was derived from.
TrafficKey(secret) == [secret |-> secret, seq |-> 0]
NoKey == [secret |-> <<>>, seq |-> 0]
Secret(dir, phase, psk, dh, tr) == <<dir, phase, psk, dh, tr>>

\* record::seal and record::build_plaintext: the record, and its length.
Sealed(tk, inner, parts, len) ==
    [ct |-> "enc", secret |-> tk.secret, seq |-> tk.seq, inner |-> inner,
     parts |-> parts, len |-> len]
Plain(ct, parts, len) ==
    [ct |-> ct, secret |-> <<>>, seq |-> 0, inner |-> ct, parts |-> parts, len |-> len]

\* record::open: a record of another type, key or number does not open.
Opens(tk, r) == r.ct = "enc" /\ tk.secret # <<>> /\ r.secret = tk.secret /\ r.seq = tk.seq

\* Transcript hash.  A signature or a MAC is a function of what precedes it,
\* so of those only the tag is kept.
Brief(m) == IF m[1] \in {"CV", "FIN"} THEN <<m[1]>> ELSE m

Cells(id, len) == [i \in 1 .. HeaderLen + len |-> <<id, i>>]

\* A handshake message crosses in two parts, as its header and its body may.
Parts(m) == <<<<m, 1>>, <<m, 2>>>>

\* Space in tx_buf: popped bytes give none back before the last one goes.
TxRoom(x) == TxBufLen - Len(x.tx)

\* Append one record to tx_buf, or fail with TxBufTooSmall.
Queue(x, r) ==
    IF TxRoom(x) < HeaderLen + r.len
    THEN [x EXCEPT !.err = TRUE]
    ELSE [x EXCEPT !.made = Append(@, r),
                   !.tx = @ \o Cells(Len(x.made) + 1, r.len)]

---------------------------------------------------------------------------
(* The two state machines' fields, of which each side uses its own.        *)

\* TlsServer::init_in_place and TlsClient::init_in_place.  made is the
\* record table of the connection, in which cells name their record.
InitEnd(st, share) ==
    [st |-> st, err |-> FALSE, partial |-> <<>>, tx |-> <<>>, txpos |-> 0,
     pend |-> <<>>, ranges |-> <<>>, hs |-> <<>>, tr |-> <<>>, psk |-> <<>>,
     eph |-> <<share>>, chs |-> NoKey, shs |-> NoKey, cap |-> NoKey, sap |-> NoKey,
     alpn |-> "none", vkey |-> FALSE, tickets |-> <<>>, offer |-> <<>>,
     offered |-> {}, made |-> <<>>]

Terminated(x) == x.st \in {"closed", "failed"}
Fail(x) == [x EXCEPT !.err = TRUE]

\* KeySchedule::enter_handshake: both handshake keys from the transcript
\* through ServerHello.
EnterHandshake(x, dh) ==
    [x EXCEPT !.chs = TrafficKey(Secret("c", "hs", x.psk, dh, x.tr)),
              !.shs = TrafficKey(Secret("s", "hs", x.psk, dh, x.tr))]

\* KeySchedule::enter_application, from the transcript through the server's
\* Finished.
EnterApplication(x) ==
    [x EXCEPT !.cap = TrafficKey(Secret("c", "ap", x.psk, x.chs.secret[4], x.tr)),
              !.sap = TrafficKey(Secret("s", "ap", x.psk, x.shs.secret[4], x.tr))]

\* KeySchedule::resumption_secret, from the whole transcript.
Resumption(x) == <<"res", x.psk, x.chs.secret[4], x.tr>>

Finished(secret, tr) == <<"FIN", secret, tr>>

\* Binder of an offered ticket over the hello without its binders.
Hello(share, alpns, offer) == <<"CH", share, alpns, offer>>
Binder(rms, hello) == <<rms, hello>>

---------------------------------------------------------------------------
(* Server: handlers.rs.                                                    *)

\* try_resume: an offered ticket is taken when it opens, is fresh and its
\* binder verifies.  A ticket is <<its rms>>; expired ones are offered with
\* their age, <<rms, "old">>.
TryResume(m) ==
    IF m[4] = <<>> \/ Len(m[4]) # 1 \/ m[5] # Binder(m[4][1], Hello(m[2], m[3], m[4]))
    THEN <<>> ELSE m[4][1]

SelectAlpn(offered) ==
    CASE "h2" \in offered -> "h2"
      [] "h2" \notin offered /\ "http/1.1" \in offered -> "http/1.1"
      [] OTHER -> "none"

\* The record number stays.
SealHandshakeSame(x, parts, len) ==
    IF x.err THEN x ELSE Queue(x, Sealed(x.shs, "handshake", parts, len))

\* seal_handshake_record: parts of messages as one record under server_hs.
SealHandshake(x, parts, len) ==
    IF x.err THEN x
    ELSE LET y == Queue(x, Sealed(x.shs, "handshake", parts, len))
         IN IF y.err THEN y ELSE [y EXCEPT !.shs.seq = @ + 1]

\* Transcript::update.
Say(x, m) == [x EXCEPT !.tr = Append(@, Brief(m))]
LenOf(m) == IF m[1] = "CERT" THEN CertLen ELSE 1

\* The encrypted flight: each message hashed, then sealed ("one" is what
\* TlsServer does).
RECURSIVE Flight(_, _, _)
Flight(x, msgs, packing) ==
    IF msgs = <<>> THEN x
    ELSE LET m == Head(msgs)
             y == Say(x, m)
         IN Flight(CASE packing = "one" -> SealHandshake(y, Parts(m), LenOf(m))
                     [] packing = "split" ->
                            SealHandshake(SealHandshake(y, <<Parts(m)[1]>>, 1),
                                          <<Parts(m)[2]>>, LenOf(m))
                     [] packing = "joined" -> y,
                   Tail(msgs), packing)

\* The messages that follow ServerHello.  CertificateVerify signs, and
\* Finished authenticates, everything before it.
ServerMsgs(x) ==
    LET ee == <<"EE", x.alpn>>
        cert == <<"CERT", PinOk>>
        cv == <<"CV", x.tr \o <<ee, cert>>>>
        signed == IF x.psk = <<>> THEN <<ee, cert, cv>> ELSE <<ee>>
    IN signed \o <<Finished(x.shs.secret, x.tr \o [i \in 1 .. Len(signed) |-> Brief(signed[i])])>>

\* The server's messages, a record each or together.
SendFlight(x, msgs, packing) ==
    IF packing = "joined"
    THEN SealHandshake(Flight(x, msgs, packing),
                       FlattenSeq([i \in 1 .. Len(msgs) |-> Parts(msgs[i])]), CertLen)
    ELSE Flight(x, msgs, packing)

\* The first queueing that fails ends the answer.
AnswerHello(x, m, packing) ==
    LET psk == TryResume(m)
        sh == <<"SH", x.eph[1], psk # <<>>>>
        heard == [x EXCEPT !.alpn = SelectAlpn(m[3]), !.tr = Append(@, m), !.eph = <<>>]
        keyed(y) == EnterHandshake([Say(y, sh) EXCEPT !.psk = psk], <<m[2], x.eph[1]>>)
        waits(y) == IF y.err THEN y
                    ELSE [EnterApplication(y) EXCEPT !.st = "waitClientFinished"]
        flies(y) == IF y.err THEN y ELSE waits(SendFlight(y, ServerMsgs(y), packing))
        greets(y) == IF y.err THEN y ELSE flies(Queue(keyed(y), Plain("ccs", <<>>, 1)))
    IN greets(Queue(heard, Plain("handshake", Parts(sh), 1)))

DoClientHello(x, r, packing) ==
    IF r.ct # "handshake" \/ Len(r.parts) # 2 \/ r.parts[1][1][1] # "CH" \/ x.eph = <<>>
    THEN Fail(x) ELSE AnswerHello(x, r.parts[1][1], packing)

\* emit_session_ticket: under the application key; failure is ignored.
EmitSessionTicket(x) ==
    LET y == Queue(x, Sealed(x.sap, "handshake", Parts(<<"NST", <<Resumption(x)>>>>), 1))
    IN IF y.err THEN x ELSE [y EXCEPT !.sap.seq = @ + 1]

DoClientFinished(x, r) ==
    IF r.ct = "ccs" THEN x
    ELSE IF ~ Opens(x.chs, r) THEN Fail(x)
    ELSE LET y == [x EXCEPT !.chs.seq = @ + 1]
         IN IF \/ r.inner # "handshake"
               \/ Len(r.parts) # 2
               \/ r.parts[1][1] # Finished(x.chs.secret, x.tr)
            THEN Fail(y)
            ELSE [EmitSessionTicket(Say(y, r.parts[1][1])) EXCEPT !.st = "established"]

\* Application data in a record of the chunk waits for the end of the walk;
\* from the straddle buffer it is copied out at once.
Deliver(x, r, direct) ==
    IF r.parts = <<>> THEN x
    ELSE IF direct THEN [x EXCEPT !.ranges = Append(@, r.parts)]
    ELSE [x EXCEPT !.pend = Append(@, r.parts)]

DoAppData(x, r, direct) ==
    IF ~ Opens(x.cap, r) THEN Fail(x)
    ELSE LET y == [x EXCEPT !.cap.seq = @ + 1]
         IN CASE r.inner = "data" -> Deliver(y, r, direct)
              [] r.inner = "alert" -> [y EXCEPT !.st = "closed"]
              [] OTHER -> Fail(y)

DispatchServer(x, r, direct, packing) ==
    CASE x.st = "waitClientHello" -> DoClientHello(x, r, packing)
      [] x.st = "waitClientFinished" -> DoClientFinished(x, r)
      [] x.st = "established" -> DoAppData(x, r, direct)
      [] OTHER -> x

---------------------------------------------------------------------------
(* Client: client.rs.                                                      *)

\* new_box: the hello is queued and hashed at once.  An external client may
\* add a ticket and its binder.
NewClient(share, alpns, offer) ==
    LET hello == Hello(share, alpns, offer)
        m == IF offer = <<>> THEN Append(hello, <<>>)
             ELSE Append(hello, Binder(offer[1], hello))
        x == [InitEnd("waitServerHello", share) EXCEPT !.offer = offer, !.offered = alpns]
    IN Say(Queue(x, Plain("handshake", Parts(m), 1)), m)

OnServerHello(x, m) ==
    IF x.eph = <<>> \/ (m[3] /\ x.offer = <<>>)
    THEN Fail(x)
    ELSE [EnterHandshake([Say(x, m) EXCEPT !.psk = IF m[3] THEN x.offer[1] ELSE <<>>],
                         <<x.eph[1], m[2]>>)
             EXCEPT !.eph = <<>>, !.st = "waitEncryptedExtensions"]

OnEncryptedExtensions(x, m) ==
    IF m[2] # "none" /\ m[2] \notin x.offered
    THEN Fail(x)
    ELSE [Say(x, m) EXCEPT !.alpn = m[2],
                           !.st = IF x.psk = <<>> THEN "waitCertificate" ELSE "waitFinished"]

OnCertificate(x, m) ==
    IF m[2] THEN [Say(x, m) EXCEPT !.vkey = TRUE, !.st = "waitCertificateVerify"] ELSE Fail(x)

OnCertificateVerify(x, m) ==
    IF x.vkey /\ m[2] = x.tr THEN [Say(x, m) EXCEPT !.st = "waitFinished"] ELSE Fail(x)

\* Application keys from the transcript through the server's Finished; the
\* client's own Finished, under its handshake key, is hashed after them.
SendFinished(x) ==
    LET fin == Finished(x.chs.secret, x.tr)
        done(y) == IF y.err THEN y
                   ELSE [Say(y, fin) EXCEPT !.chs.seq = @ + 1, !.st = "established"]
        ccs(y) == IF y.err THEN y ELSE done(Queue(y, Sealed(x.chs, "handshake", Parts(fin), 1)))
    IN ccs(Queue(x, Plain("ccs", <<>>, 1)))
OnServerFinished(x, m) ==
    IF m # Finished(x.shs.secret, x.tr) THEN Fail(x) ELSE SendFinished(EnterApplication(Say(x, m)))

HandleHsMessage(x, m) ==
    CASE x.st = "waitServerHello" /\ m[1] = "SH" -> OnServerHello(x, m)
      [] x.st = "waitEncryptedExtensions" /\ m[1] = "EE" -> OnEncryptedExtensions(x, m)
      [] x.st = "waitCertificate" /\ m[1] = "CERT" -> OnCertificate(x, m)
      [] x.st = "waitCertificateVerify" /\ m[1] = "CV" -> OnCertificateVerify(x, m)
      [] x.st = "waitFinished" /\ m[1] = "FIN" -> OnServerFinished(x, m)
      [] x.st = "established" /\ m[1] = "NST" -> [x EXCEPT !.tickets = Append(@, m[2])]
      [] OTHER -> Fail(x)

\* drain_hs_messages: whole messages at the head of hs_buf; bytes left over
\* where the keys change are an error.
RECURSIVE DrainHsMessages(_)
DrainHsMessages(x) ==
    IF Len(x.hs) < 2 \/ x.err \/ Terminated(x)
    THEN x
    ELSE LET next(z) == IF z.err \/ (x.st # "established" /\ z.st = "established" /\ z.hs # <<>>)
                        THEN Fail([z EXCEPT !.hs = <<>>])
                        ELSE DrainHsMessages(z)
         IN next([HandleHsMessage(x, x.hs[1][1]) EXCEPT !.hs = From(@, 3)])

AppendHsAndDrain(x, parts) == DrainHsMessages([x EXCEPT !.hs = @ \o parts])

DoEncryptedRecord(x, r, direct) ==
    LET up == x.st = "established"
        tk == IF up THEN x.sap ELSE x.shs
        y == IF up THEN [x EXCEPT !.sap.seq = @ + 1] ELSE [x EXCEPT !.shs.seq = @ + 1]
    IN IF ~ Opens(tk, r) THEN Fail(x)
       ELSE CASE r.inner = "handshake" -> AppendHsAndDrain(y, r.parts)
              [] r.inner = "data" -> IF up THEN Deliver(y, r, direct) ELSE Fail(y)
              [] r.inner = "alert" -> [y EXCEPT !.st = "closed"]
              [] OTHER -> Fail(y)

DispatchClient(x, r, direct) ==
    CASE Terminated(x) \/ r.ct = "ccs" -> x
      [] ~ Terminated(x) /\ r.ct = "handshake" ->
            IF x.st # "waitServerHello" THEN Fail(x) ELSE AppendHsAndDrain(x, r.parts)
      [] ~ Terminated(x) /\ r.ct = "alert" -> [x EXCEPT !.st = "closed"]
      [] OTHER -> DoEncryptedRecord(x, r, direct)

\* emit_fatal_alert: under the newest key there is, if it fits.
EmitFatalAlert(x) ==
    LET tk == IF x.st = "established" THEN x.cap ELSE x.chs
        r == IF tk.secret = <<>> THEN Plain("alert", <<>>, 1) ELSE Sealed(tk, "alert", <<>>, 1)
        y == Queue(x, r)
    IN IF y.err THEN x
       ELSE IF tk.secret = <<>> THEN y
       ELSE IF x.st = "established" THEN [y EXCEPT !.cap.seq = @ + 1]
       ELSE [y EXCEPT !.chs.seq = @ + 1]

---------------------------------------------------------------------------
(* process_chunk, the same on both sides.                                  *)

Dispatch(x, r, direct, side, packing) ==
    IF side = "s" THEN DispatchServer(x, r, direct, packing) ELSE DispatchClient(x, r, direct)

\* The record a run of cells frames.  Cells that are not one record's own,
\* in order, are bytes no key opens.
RecordAt(cells, book) ==
    IF \A i \in 1 .. Len(cells) : cells[i] = <<cells[1][1], i>>
    THEN book[cells[1][1]] ELSE Plain("garbage", <<>>, 0)

\* The length field, once the header is there.
Total(cells, book) == HeaderLen + book[cells[HeaderLen][1]].len

\* complete_partial: the straddling record first; n cells of the chunk are
\* used.
CompletePartial(x, cells, book, side, packing) ==
    LET have == Len(x.partial)
        head == IF have < HeaderLen THEN Least(HeaderLen - have, Len(cells)) ELSE 0
        h == x.partial \o SubSeq(cells, 1, head)
        n == head + Least(Total(h, book) - Len(h), Len(cells) - head)
        p == x.partial \o SubSeq(cells, 1, n)
    IN CASE have = 0 -> [x |-> x, n |-> 0]
         [] have > 0 /\ Len(h) < HeaderLen -> [x |-> [x EXCEPT !.partial = h], n |-> head]
         [] have > 0 /\ Len(h) >= HeaderLen ->
              IF Total(h, book) > MaxRecord
              THEN [x |-> Fail(x), n |-> head]
              ELSE IF Len(p) < Total(h, book)
              THEN [x |-> [x EXCEPT !.partial = p], n |-> n]
              ELSE [x |-> Dispatch([x EXCEPT !.partial = <<>>], RecordAt(p, book), FALSE,
                                   side, packing), n |-> n]

\* The walk over the rest of the chunk; a straddler at its end is saved.
RECURSIVE Walk(_, _, _, _, _)
Walk(x, cells, book, side, packing) ==
    IF cells = <<>> \/ x.err \/ Terminated(x) THEN x
    ELSE IF Len(cells) < HeaderLen THEN [x EXCEPT !.partial = cells]
    ELSE LET total == Total(cells, book)
         IN IF total > MaxRecord THEN Fail(x)
            ELSE IF Len(cells) < total THEN [x EXCEPT !.partial = cells]
            ELSE Walk(Dispatch(x, RecordAt(SubSeq(cells, 1, total), book), TRUE, side, packing),
                      From(cells, total + 1), book, side, packing)

\* process_chunk: an error drops what the chunk had delivered so far; the
\* client also answers it with an alert and parks in Failed.
WalkRest(c, cells, book, side, packing) ==
    IF c.x.err \/ c.x.partial # <<>> THEN c.x
    ELSE Walk(c.x, From(cells, c.n + 1), book, side, packing)
EndChunk(x, side) ==
    IF ~ x.err THEN [x EXCEPT !.pend = @ \o x.ranges, !.ranges = <<>>]
    ELSE IF side = "s" THEN x
    ELSE [(IF Terminated(x) THEN x ELSE EmitFatalAlert([x EXCEPT !.err = FALSE]))
            EXCEPT !.st = "failed", !.err = TRUE]
ProcessChunk(x, cells, book, side, packing) ==
    EndChunk(WalkRest(CompletePartial([x EXCEPT !.ranges = <<>>], cells, book, side, packing),
                      cells, book, side, packing), side)

\* close_notify: no alert when there is no room, or no session.
CloseNotify(x, side) ==
    LET tk == IF side = "s" THEN x.sap ELSE x.cap
        y == Queue(x, Sealed(tk, "alert", <<>>, 1))
    IN IF x.st # "established" \/ y.err
       THEN [x EXCEPT !.st = "closed"]
       ELSE [y EXCEPT !.st = "closed",
                      !.sap.seq = IF side = "s" THEN @ + 1 ELSE @,
                      !.cap.seq = IF side = "c" THEN @ + 1 ELSE @]

---------------------------------------------------------------------------
(* The drivers: TlsStream and TlsClientStream with the task that uses them. *)

Task(e, pc, then) == [pc |-> pc, then |-> then, phase |-> "hs", src |-> <<>>, got |-> <<>>]

Units(n) == [i \in 1 .. n |-> i]

\* TlsServer::reset, on a connection taken from the worker's pool.
Reset(x, share) ==
    [x EXCEPT !.st = "waitClientHello", !.err = FALSE, !.partial = <<>>,
              !.tx = <<>>, !.txpos = 0, !.pend = <<>>, !.ranges = <<>>,
              !.tr = <<>>, !.psk = <<>>, !.eph = <<share>>,
              !.chs = NoKey, !.shs = NoKey, !.cap = NoKey, !.sap = NoKey,
              !.alpn = "none", !.made = <<>>]

Init ==
    /\ \E alpns \in Offers :
          end = [e \in Sides |-> IF e = "s" THEN InitEnd("waitClientHello", 2)
                                 ELSE NewClient(1, alpns, <<>>)]
    /\ task = [e \in Sides |-> IF e = "s" THEN Task(e, "step", "step") ELSE Task(e, "drain", "step")]
    /\ wire = [e \in Sides |-> <<>>]
    /\ closed = {}
    /\ session = 1
    /\ wallet = <<>>

Goto(e, pc, then) == task' = [task EXCEPT ![e].pc = pc, ![e].then = then]

\* drain_tx: one pop_tx per turn, until tx_buf is empty.
Drain(e) ==
    LET x == end[e]
        n == Least(Len(x.tx) - x.txpos, Scratch)
        all == x.txpos + n = Len(x.tx)
    IN /\ task[e].pc = "drain"
       /\ wire' = [wire EXCEPT ![e] = @ \o SubSeq(x.tx, x.txpos + 1, x.txpos + n)]
       /\ end' = [end EXCEPT ![e].tx = IF all THEN <<>> ELSE @,
                             ![e].txpos = IF all THEN 0 ELSE @ + n]
       /\ IF n = 0 THEN Goto(e, task[e].then, "step") ELSE UNCHANGED task
       /\ UNCHANGED <<closed, session, wallet>>

\* recv_chunk hands over some bytes and process_chunk walks them.  An error
\* ends the driver; the client drains its alert first.
Receive(e) ==
    /\ task[e].pc = "recv"
    /\ \E n \in 1 .. Len(wire[Peer(e)]), packing \in Packings :
          /\ e = "c" \/ end[e].st # "waitClientHello" => packing = "one"
          /\ \E y \in {ProcessChunk(end[e], SubSeq(wire[Peer(e)], 1, n), end[Peer(e)].made, e,
                                    packing)} :
             /\ end' = [end EXCEPT ![e] = y]
             /\ wire' = [wire EXCEPT ![Peer(e)] = From(@, n + 1)]
             /\ IF y.err /\ e = "s" THEN Goto(e, "close", "step")
                ELSE Goto(e, "drain", IF y.err THEN "close" ELSE "step")
    /\ UNCHANGED <<closed, session, wallet>>

\* recv_chunk is None: the peer has closed TCP and everything is read.
Eof(e) ==
    /\ task[e].pc = "recv"
    /\ wire[Peer(e)] = <<>>
    /\ Peer(e) \in closed
    /\ Goto(e, "close", "step")
    /\ UNCHANGED <<end, wire, closed, session, wallet>>

\* What the driver does between two awaits: drive_handshake / handshake,
\* then recv_chunk's loop for the application, which sends its request or
\* its response when its turn comes.
Step(e) ==
    LET x == end[e]
        k == task[e]
        want == IF e = "s" THEN Ask ELSE Answer
        reply == IF e = "s" THEN Answer ELSE Ask
        begin == e = "c" /\ k.phase = "hs"
    IN /\ k.pc = "step"
       /\ \/ /\ k.phase = "hs" /\ x.st = "established"
             /\ task' = [task EXCEPT ![e].phase = "app",
                                     ![e].pc = IF begin THEN "drain" ELSE "step",
                                     ![e].then = "send",
                                     ![e].src = IF begin THEN Units(reply) ELSE <<>>]
             /\ UNCHANGED end
          \/ /\ k.phase = "hs" /\ Terminated(x)
             /\ Goto(e, "close", "step")
             /\ UNCHANGED end
          \/ /\ k.phase = "hs" /\ x.st # "established" /\ ~ Terminated(x)
             /\ Goto(e, "drain", "recv")
             /\ UNCHANGED end
          \/ /\ k.phase = "app" /\ x.pend # <<>>
             /\ end' = [end EXCEPT ![e].pend = Tail(@)]
             /\ LET got == k.got \o Head(x.pend)
                    full == Len(got) = want
                IN task' = [task EXCEPT ![e].got = got,
                       ![e].pc = IF ~ full THEN "step" ELSE IF e = "s" THEN "drain" ELSE "close",
                       ![e].then = "send",
                       ![e].src = IF full /\ e = "s" THEN Units(reply) ELSE @]
          \/ /\ k.phase = "app" /\ x.pend = <<>>
             /\ IF e = "c" /\ Terminated(x) THEN Goto(e, "close", "step")
                ELSE Goto(e, "drain", "recv")
             /\ UNCHANGED end
       /\ UNCHANGED <<wire, closed, session, wallet>>

\* send_one_record: sealed past tx_buf, straight into the transport.
SendOneRecord(e) ==
    LET x == end[e]
        tk == IF e = "s" THEN x.sap ELSE x.cap
        n == Least(MaxPlain, Len(task[e].src))
        r == Sealed(tk, "data", SubSeq(task[e].src, 1, n), n)
    IN /\ task[e].pc = "send"
       /\ IF task[e].src = <<>>
          THEN Goto(e, "step", "step") /\ UNCHANGED <<end, wire>>
          ELSE IF x.st # "established" \/ tk.seq >= SealLimit
          THEN Goto(e, "close", "step") /\ UNCHANGED <<end, wire>>
          ELSE /\ end' = [end EXCEPT ![e].made = Append(@, r),
                                     ![e].sap.seq = IF e = "s" THEN @ + 1 ELSE @,
                                     ![e].cap.seq = IF e = "c" THEN @ + 1 ELSE @]
               /\ wire' = [wire EXCEPT ![e] = @ \o Cells(Len(x.made) + 1, n)]
               /\ task' = [task EXCEPT ![e].src = From(@, n + 1)]
       /\ UNCHANGED <<closed, session, wallet>>

\* HttpStream::close, and then the stream is dropped.
Close(e) ==
    /\ task[e].pc = "close"
    /\ end' = [end EXCEPT ![e] = CloseNotify(@, e)]
    /\ Goto(e, "drain", "drop")
    /\ UNCHANGED <<wire, closed, session, wallet>>

Drop(e) ==
    /\ task[e].pc = "drop"
    /\ e = "c" /\ PeerWaits => "s" \in closed
    /\ closed' = closed \cup {e}
    /\ Goto(e, "off", "off")
    /\ wallet' = IF e = "c" /\ end[e].tickets # <<>> THEN end[e].tickets[1] ELSE wallet
    /\ UNCHANGED <<end, wire, session>>

\* The client's side goes away without a word.
Abandon ==
    /\ MayAbandon /\ "c" \notin closed
    /\ closed' = closed \cup {"c"}
    /\ Goto("c", "off", "off")
    /\ UNCHANGED <<end, wire, session, wallet>>

\* The worker accepts the next connection: the pool's box is reset.
Reconnect ==
    /\ session < Sessions
    /\ \A e \in Sides : task[e].pc = "off"
    /\ session' = session + 1
    /\ \E alpns \in Offers, old \in {FALSE, MayExpire} :
          LET offer == IF ~ Resumes \/ wallet = <<>> THEN <<>>
                       ELSE IF old THEN Append(wallet, "old") ELSE wallet
          IN end' = [e \in Sides |-> IF e = "s" THEN Reset(end["s"], 2 * session' )
                                     ELSE NewClient(2 * session' - 1, alpns, offer)]
    /\ task' = [e \in Sides |-> IF e = "s" THEN Task(e, "step", "step") ELSE Task(e, "drain", "step")]
    /\ wire' = [e \in Sides |-> <<>>]
    /\ closed' = {}
    /\ UNCHANGED wallet

Next ==
    \/ \E e \in Sides : Drain(e) \/ Receive(e) \/ Eof(e) \/ Step(e) \/ SendOneRecord(e)
                         \/ Close(e) \/ Drop(e)
    \/ Abandon
    \/ Reconnect

Spec == Init /\ [][Next]_vars

---------------------------------------------------------------------------
(* What the workers share for session tickets: the process-wide ticket key *)
(* (OnceTicketKey, ticket.rs) and the table of ticket nonces that have     *)
(* been used for early data (replay.rs).  A step is one atomic access.  A  *)
(* nonce is its two words <<hi, lo>>; all of them map to the same slot of  *)
(* the table.                                                              *)

ticketVars == <<once, value, slot, doing, arg, loaded, used, accepted, offers, evicted>>

Nobody == "nobody"

TicketInit ==
    /\ once = "empty" /\ value = Nobody
    /\ slot = [hi |-> 0, lo |-> 0]
    /\ doing = [w \in Workers |-> "idle"]
    /\ arg = [w \in Workers |-> <<0, 0>>]
    /\ loaded = [w \in Workers |-> 0]
    /\ used = [w \in Workers |-> Nobody]
    /\ accepted = [n \in Nonces |-> 0]
    /\ offers = [n \in Nonces |-> 0]
    /\ evicted = {}

table == <<slot, arg, loaded, accepted, offers, evicted>>
keys == <<once, value, used>>

Moves(w, l) == doing' = [doing EXCEPT ![w] = l]

\* get_or_init: the winner of the exchange writes the value and then says
\* so; the others spin.
GetOrInit(w) ==
    /\ doing[w] \in {"idle", "spin"}
    /\ \/ /\ once = "ready"
          /\ used' = [used EXCEPT ![w] = value] /\ Moves(w, "idle")
          /\ UNCHANGED once
       \/ /\ once = "empty"
          /\ once' = "writing" /\ Moves(w, "make")
          /\ UNCHANGED used
       \/ /\ once = "writing"
          /\ Moves(w, "spin")
          /\ UNCHANGED <<once, used>>
    /\ UNCHANGED <<value, table>>

Make(w) ==
    /\ doing[w] = "make"
    /\ value' = w /\ Moves(w, "publish")
    /\ UNCHANGED <<once, used, table>>

Publish(w) ==
    /\ doing[w] = "publish"
    /\ once' = "ready"
    /\ used' = [used EXCEPT ![w] = value] /\ Moves(w, "idle")
    /\ UNCHANGED <<value, table>>

\* open_ticket: with no key ready the ticket is somebody else's.
OpenTicket(w) ==
    /\ doing[w] = "idle" /\ once = "ready"
    /\ used' = [used EXCEPT ![w] = value]
    /\ UNCHANGED <<once, value, doing, table>>

\* check_and_record, one atomic access at a time.
Check(w) ==
    /\ doing[w] = "idle"
    /\ \E n \in Nonces :
          /\ offers[n] < Offered
          /\ offers' = [offers EXCEPT ![n] = @ + 1]
          /\ arg' = [arg EXCEPT ![w] = n]
    /\ Moves(w, "hi")
    /\ UNCHANGED <<slot, loaded, accepted, evicted, keys>>

LoadHi(w) ==
    /\ doing[w] = "hi"
    /\ loaded' = [loaded EXCEPT ![w] = slot.hi] /\ Moves(w, "lo")
    /\ UNCHANGED <<slot, arg, accepted, offers, evicted, keys>>

LoadLo(w) ==
    /\ doing[w] = "lo"
    /\ Moves(w, IF <<loaded[w], slot.lo>> = arg[w] THEN "idle" ELSE "storeHi")
    /\ UNCHANGED <<table, keys>>

StoreHi(w) ==
    /\ doing[w] = "storeHi"
    /\ slot' = [slot EXCEPT !.hi = arg[w][1]] /\ Moves(w, "storeLo")
    /\ evicted' = (evicted \cup {n \in Nonces : accepted[n] > 0}) \ {arg[w]}
    /\ UNCHANGED <<arg, loaded, accepted, offers, keys>>

StoreLo(w) ==
    /\ doing[w] = "storeLo"
    /\ slot' = [slot EXCEPT !.lo = arg[w][2]] /\ Moves(w, "idle")
    /\ accepted' = [accepted EXCEPT ![arg[w]] = @ + 1]
    /\ UNCHANGED <<arg, loaded, offers, evicted, keys>>

TicketNext ==
    \E w \in Workers :
        \/ GetOrInit(w) \/ Make(w) \/ Publish(w) \/ OpenTicket(w)
        \/ Check(w) \/ LoadHi(w) \/ LoadLo(w) \/ StoreHi(w) \/ StoreLo(w)

TicketSpec == TicketInit /\ [][TicketNext]_vars

---------------------------------------------------------------------------
(* Properties.                                                             *)

\* Two ends of this code never fail each other, wherever TCP cuts the
\* stream: every record frames, opens and is the one its state expects
\* (process_chunk, complete_partial, the handlers' transcripts and keys).
HonestPeersNeverFail == \A e \in Sides : ~ end[e].err

\* Both ends derive the same application keys and pick the same protocol, in
\* a fresh session and in a resumed one (enter_application, try_resume).
SameSession ==
    end["c"].cap.secret # <<>> /\ end["s"].cap.secret # <<>> =>
        /\ end["c"].cap.secret = end["s"].cap.secret
        /\ end["c"].sap.secret = end["s"].sap.secret
        /\ end["c"].alpn = end["s"].alpn

\* What the application has read, and what waits for it, is a prefix of what
\* the peer sent, whether a record came whole, in a chunk with others, or
\* across two chunks (app_data_ranges, rx_partial, pending_plaintext).
StreamExact ==
    \A e \in Sides :
        LET seen == task[e].got \o FlattenSeq(end[e].pend)
        IN seen = Units(Len(seen))

\* No two records are sealed under one key with one sequence number, whatever
\* path sealed them (seal_handshake_record, emit_session_ticket,
\* seal_app_data, close_notify, emit_fatal_alert).
NonceOnce ==
    \A e \in Sides : \A i, j \in 1 .. Len(end[e].made) :
        LET a == end[e].made[i]
            b == end[e].made[j]
        IN i # j /\ a.ct = "enc" /\ b.ct = "enc" => <<a.secret, a.seq>> # <<b.secret, b.seq>>

\* A client that ends on its own has read the whole response.
ResponseComplete ==
    ~ MayAbandon /\ task["c"].pc = "off" => Len(task["c"].got) = Answer

\* Neither driver waits for ever on the other: while a connection lives, one
\* of the two tasks can go on (pump_rx, recv_chunk, close).  Every step is
\* progress, so connections end.
Parked(e) ==
    \/ task[e].pc = "off"
    \/ task[e].pc = "recv" /\ wire[Peer(e)] = <<>> /\ Peer(e) \notin closed
    \/ e = "c" /\ task[e].pc = "drop" /\ PeerWaits /\ "s" \notin closed

NoMutualWait ==
    (\A e \in Sides : Parked(e)) => \A e \in Sides : task[e].pc = "off"

\* Every worker that has a ticket key has the same one, written before it was
\* published, so a ticket any worker sealed opens on every other
\* (get_or_init, get).
OneTicketKey ==
    /\ once = "ready" => value # Nobody
    /\ \A v, w \in Workers :
          used[v] # Nobody /\ used[w] # Nobody => used[v] = used[w]

\* "A second offer of the same ticket finds the nonce in the table": with
\* nothing evicted in between, a nonce is accepted once, whichever workers
\* the two offers land on (check_and_record).
AcceptedOnce == \A n \in Nonces : evicted = {} => accepted[n] <= 1
=============================================================================
