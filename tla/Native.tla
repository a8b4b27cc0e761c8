------------------------------ MODULE Native --------------------------------
(***************************************************************************)
(* The hosted backend: UDP and TCP over the sockets of the host.  The two  *)
(* machines are independent; both see descriptors as numbers of the process.*)
(***************************************************************************)
EXTENDS Integers, Sequences, FiniteSets, FiniteSetsExt

(***************************************************************************)
(* UDP on the hosted backend (src/crates/waitless/backend/src/native/      *)
(* udp.rs and the ThreadState tables of mod.rs).                           *)
(*                                                                         *)
(* A server port has one SO_REUSEPORT socket per worker thread, an         *)
(* ephemeral port one socket on its owner.  Every thread has two tables of *)
(* its own: udp_send_fd (port to descriptor) and udp_dispatch (descriptor  *)
(* to port).  Descriptors are process-wide numbers that the system hands   *)
(* out again once closed.  bind and unbind walk the tables of all the      *)
(* threads; polling and sending read the thread's own.                     *)
(***************************************************************************)
CONSTANTS Threads,    \* worker threads
          Servers,    \* server ports, bound at boot
          Ephemeral,  \* Ephemeral[t]: the ports thread t may open for itself
          Binders,    \* threads that bind and unbind server ports at run time
          Fds,        \* descriptor numbers
          MaxBinds,   \* bound on the binds
          MaxDgrams,  \* bound on the datagrams that arrive
          MaxSends    \* bound on the datagrams sent

VARIABLES sock,         \* fd -> [port, q], port NoPort when closed
          dispatch,     \* dispatch[t]: set of <<fd, port>>
          sendfd,       \* sendfd[t][port]
          bindings,     \* port -> (thread -> fd), the Mutex<HashMap>
          at,           \* what each thread is doing
          binds, came,  \* counts
          got,          \* <<app port, port the datagram was sent to>>
          sent          \* <<port asked for, port of the socket used>>

udpVars == <<sock, dispatch, sendfd, bindings, at, binds, came, got, sent>>

NoPort == 0
NoFd == -1
Ports == Servers \cup UNION {Ephemeral[t] : t \in Threads}
Idle == [op |-> "idle", port |-> NoPort, fds |-> [w \in Threads |-> NoFd], w |-> 0, fd |-> NoFd]
NoFds == [w \in Threads |-> NoFd]
Closed == [port |-> NoPort, q |-> 0]

\* The server ports are bound; the workers poll.
BootFd(p, t) == Cardinality({<<r, u>> \in Servers \X Threads : r < p \/ (r = p /\ u < t)}) + 1
UdpInit == /\ sock = [f \in Fds |-> IF \E p \in Servers, t \in Threads : f = BootFd(p, t)
                                    THEN [Closed EXCEPT !.port = CHOOSE p \in Servers : \E t \in Threads : f = BootFd(p, t)]
                                    ELSE Closed]
           /\ dispatch = [t \in Threads |-> {<<BootFd(p, t), p>> : p \in Servers}]
           /\ sendfd = [t \in Threads |-> [p \in Ports |-> IF p \in Servers THEN BootFd(p, t) ELSE NoFd]]
           /\ bindings = [p \in Ports |-> IF p \in Servers THEN [t \in Threads |-> BootFd(p, t)] ELSE NoFds]
           /\ at = [t \in Threads |-> Idle]
           /\ binds = 0 /\ came = 0 /\ got = {} /\ sent = {}

FreeFds == {f \in Fds : sock[f] = Closed}
Lowest(S) == CHOOSE f \in S : \A g \in S : f <= g

-----------------------------------------------------------------------------
(* open_udp_relay: the sockets, the bindings entry, then the tables of the *)
(* threads one by one.  A server bind whose later siblings fail keeps the  *)
(* ones it has.                                                            *)

open_udp_sibling(owners) ==
    LET fs == FoldSet(LAMBDA t, m : IF FreeFds \subseteq {m[u] : u \in Threads} THEN m
                                    ELSE [m EXCEPT ![t] = Lowest(FreeFds \ {m[u] : u \in Threads})],
                      NoFds, owners)
    IN  fs
udp_backend_bind(t, p, owners) ==
    LET fds == open_udp_sibling(owners)
    IN  /\ at[t] = Idle /\ binds < MaxBinds
        /\ bindings[p] = NoFds
        /\ fds # NoFds
        /\ sock' = [f \in Fds |-> IF \E w \in Threads : fds[w] = f THEN [port |-> p, q |-> 0] ELSE sock[f]]
        /\ bindings' = [bindings EXCEPT ![p] = fds]
        /\ at' = [at EXCEPT ![t] = [op |-> "add", port |-> p, fds |-> fds, w |-> 0, fd |-> NoFd]]
        /\ binds' = binds + 1
        /\ UNCHANGED <<dispatch, sendfd, came, got, sent>>

Walk(t, op, next) == IF at[t].w + 1 \in Threads THEN [at[t] EXCEPT !.op = op, !.w = @ + 1] ELSE next

\* add_udp_binding, on the table of thread w.
add_udp_binding(t) ==
    /\ at[t].op = "add"
    /\ LET w == at[t].w
           fd == at[t].fds[w]
       IN  IF fd = NoFd THEN UNCHANGED <<sendfd, dispatch>>
           ELSE /\ sendfd' = [sendfd EXCEPT ![w][at[t].port] = fd]
                /\ dispatch' = [dispatch EXCEPT ![w] = {e \in @ : e[1] # fd} \cup {<<fd, at[t].port>>}]
    /\ at' = [at EXCEPT ![t] = Walk(t, "add", Idle)]
    /\ UNCHANGED <<sock, bindings, binds, came, got, sent>>

\* udp_backend_unbind: out of the bindings, then each thread's tables, and
\* the descriptor is closed.
udp_backend_unbind(t, p) ==
    /\ at[t] = Idle
    /\ bindings[p] # NoFds
    /\ at' = [at EXCEPT ![t] = [op |-> "remove", port |-> p, fds |-> bindings[p], w |-> 0, fd |-> NoFd]]
    /\ bindings' = [bindings EXCEPT ![p] = NoFds]
    /\ UNCHANGED <<sock, dispatch, sendfd, binds, came, got, sent>>

remove_udp_binding(t) ==
    /\ at[t].op = "remove"
    /\ LET w == at[t].w
           fd == at[t].fds[w]
       IN  IF fd = NoFd THEN UNCHANGED <<sendfd, dispatch, sock>>
           ELSE /\ sendfd' = [sendfd EXCEPT ![w][at[t].port] = IF @ = fd THEN NoFd ELSE @]
                /\ dispatch' = [dispatch EXCEPT ![w] = {e \in @ : e[1] # fd}]
                /\ sock' = [sock EXCEPT ![fd] = Closed]
    /\ at' = [at EXCEPT ![t] = Walk(t, "remove", Idle)]
    /\ UNCHANGED <<bindings, binds, came, got, sent>>

-----------------------------------------------------------------------------
(* collect_events, dispatch_ready_fd and drain_udp_sibling. *)

Ready(t) == {f \in Fds : sock[f].q > 0 /\ \E p \in Ports : <<f, p>> \in dispatch[t]}
udp_collect_events(t) == /\ at[t] = Idle
                         /\ \E f \in Ready(t) : at' = [at EXCEPT ![t] = [Idle EXCEPT !.op = "look", !.fd = f]]
                         /\ UNCHANGED <<sock, dispatch, sendfd, bindings, binds, came, got, sent>>
dispatch_ready_fd(t) ==
    /\ at[t].op = "look"
    /\ LET ps == {e[2] : e \in {d \in dispatch[t] : d[1] = at[t].fd}}
       IN  at' = [at EXCEPT ![t] = IF ps = {} THEN Idle
                                   ELSE [Idle EXCEPT !.op = "drain", !.fd = at[t].fd, !.port = CHOOSE p \in ps : TRUE]]
    /\ UNCHANGED <<sock, dispatch, sendfd, bindings, binds, came, got, sent>>
drain_udp_sibling(t) ==
    /\ at[t].op = "drain"
    /\ LET f == at[t].fd
       IN  IF sock[f].q = 0 THEN at' = [at EXCEPT ![t] = Idle] /\ UNCHANGED <<sock, got>>
           ELSE /\ sock' = [sock EXCEPT ![f].q = @ - 1]
                /\ got' = got \cup {<<at[t].port, sock[f].port>>}
                /\ UNCHANGED at
    /\ UNCHANGED <<dispatch, sendfd, bindings, binds, came, sent>>

\* udp_send looks the descriptor up and sends on it; without one it sends
\* from a socket of its own, closed after use.
udp_send(t, p) == /\ at[t] = Idle
                  /\ Cardinality(sent) < MaxSends
                  /\ IF sendfd[t][p] = NoFd THEN UNCHANGED at
                     ELSE at' = [at EXCEPT ![t] = [Idle EXCEPT !.op = "send", !.fd = sendfd[t][p], !.port = p]]
                  /\ UNCHANGED <<sock, dispatch, sendfd, bindings, binds, came, got, sent>>
sendto(t) == /\ at[t].op = "send"
             /\ sent' = IF sock[at[t].fd] = Closed THEN sent ELSE sent \cup {<<at[t].port, sock[at[t].fd].port>>}
             /\ at' = [at EXCEPT ![t] = Idle]
             /\ UNCHANGED <<sock, dispatch, sendfd, bindings, binds, came, got>>

\* External: a datagram for port p in the queue of one of its sockets.
Arrive(f) == /\ sock[f].port # NoPort
             /\ came < MaxDgrams
             /\ came' = came + 1
             /\ sock' = [sock EXCEPT ![f].q = @ + 1]
             /\ UNCHANGED <<dispatch, sendfd, bindings, at, binds, got, sent>>

UdpNext == \/ \E t \in Threads :
                \/ \E p \in Ephemeral[t] : udp_backend_bind(t, p, {t}) \/ udp_backend_unbind(t, p)
                \/ t \in Binders /\ \E p \in Servers : udp_backend_bind(t, p, Threads) \/ udp_backend_unbind(t, p)
                \/ add_udp_binding(t) \/ remove_udp_binding(t)
                \/ udp_collect_events(t) \/ dispatch_ready_fd(t) \/ drain_udp_sibling(t)
                \/ \E p \in Ports : udp_send(t, p)
                \/ sendto(t)
           \/ \E f \in Fds : Arrive(f)

UdpSpec == UdpInit /\ [][UdpNext]_udpVars

-----------------------------------------------------------------------------
\* A datagram goes to the application port it was sent to and an answer
\* leaves from the port it is sent for, however descriptors are reused.
UdpKeepsItsPort == (\A g \in got : g[1] = g[2]) /\ (\A s \in sent : s[1] = s[2])

\* Every open socket belongs to the bindings entry of its port, or to a bind
\* or unbind under way: none is leaked and none is closed twice.
UdpSocketsExact ==
    \A f \in Fds : sock[f] # Closed =>
       \E p \in Ports, t \in Threads :
          \/ bindings[p][t] = f /\ sock[f].port = p
          \/ \E u \in Threads : at[u].op = "remove" /\ at[u].fds[t] = f /\ t >= at[u].w /\ sock[f].port = at[u].port

\* Only its own thread touches udp_dispatch[w] while the workers run: "server-
\* fanout binds run on the main thread before workers start; ephemeral binds
\* run on the owning worker. Either way, no concurrent access."
Touches(t) == CASE at[t].op \in {"add", "remove"} /\ at[t].fds[at[t].w] # NoFd -> {at[t].w}
                [] at[t].op = "look" -> {t}
                [] OTHER -> {}
DispatchIsOwn == \A t, u \in Threads : t # u => Touches(t) \cap Touches(u) = {}

-----------------------------------------------------------------------------
(***************************************************************************)
(* TCP on the hosted backend (src/crates/waitless/backend/src/native/      *)
(* tcp.rs and the connection table and event queue of mod.rs), under the   *)
(* futures of the executor's TCP reactor.                                  *)
(*                                                                         *)
(* One listening socket is in the event queue of every worker thread; a    *)
(* connection is in the queue of the thread that accepted or opened it and *)
(* takes a slot of that thread's table.  Readiness is level-triggered.     *)
(* has_pending_data is what the last dispatch said, cleared by each read;  *)
(* a read of zero bytes is the end of the stream to the caller.            *)
(*                                                                         *)
(* A stream task echoes what it reads until the end of the stream.  The    *)
(* peers and the system's sockets are external.                            *)
(***************************************************************************)
CONSTANTS Slots,         \* worker threads; CONNS_PER_THREAD
          In, Out,       \* connections that come in and that are opened
          Bytes,         \* bytes a peer may send
          SendCap,       \* the socket's send buffer
          ListenCap,     \* MAX_ASYNC_TCP_LISTENERS
          MaxUnlistens   \* bound on the unlistens

VARIABLES open,       \* descriptor -> what it is
          listeners,  \* ASYNC_TCP_LISTENERS up to ASYNC_TCP_COUNT
          backlog,    \* connections the system has not handed out yet
          peer,       \* what each peer has done and seen
          conns,      \* conns[t][k], NativeConn
          acceptor,   \* per thread: "run" or "parked"
          task,       \* the stream task of each connection
          unlistens

tcpVars == <<open, listeners, backlog, peer, conns, acceptor, task, unlistens>>

All == In \cup Out
Keys == 1 .. Slots
Free == [kind |-> "free", id |-> "none"]
empty == [fd |-> -1, closed |-> TRUE, pending |-> FALSE, gen |-> 0, recv |-> FALSE, send |-> FALSE,
          armed |-> FALSE]
NoTask == [pc |-> "none", t |-> 0, k |-> 0, gen |-> 0, read |-> 0, owed |-> 0, eof |-> FALSE]

Fd0 == Lowest(Fds)
TcpFreeFds == {f \in Fds : open[f] = Free}
Listening == {i \in DOMAIN listeners : listeners[i] # -1}

TcpInit == /\ open = [f \in Fds |-> IF f = Fd0 THEN [kind |-> "listen", id |-> "none"] ELSE Free]
           /\ listeners = <<Fd0>>
           /\ backlog = << >>
           /\ peer = [c \in All |-> [st |-> "new", sent |-> 0, eof |-> FALSE, got |-> 0, buf |-> 0]]
           /\ conns = [t \in Threads |-> [k \in Keys |-> empty]]
           /\ acceptor = [t \in Threads |-> "run"]
           /\ task = [c \in All |-> NoTask]
           /\ unlistens = 0

-----------------------------------------------------------------------------
(* The table of a thread. *)

FreeSlots(t) == {k \in Keys : conns[t][k].closed /\ conns[t][k].fd < 0}
alloc_conn(t, fd) ==
    LET k == Lowest(FreeSlots(t))
    IN  [conns EXCEPT ![t][k] = [empty EXCEPT !.fd = fd, !.closed = FALSE, !.gen = conns[t][k].gen]]
check_gen(c) == LET s == conns[task[c].t][task[c].k] IN s.gen = task[c].gen /\ ~s.closed
SlotOf(c) == conns[task[c].t][task[c].k]
SetSlot(c, s) == conns' = [conns EXCEPT ![task[c].t][task[c].k] = s]
Unread(c) == peer[c].sent - task[c].read
Gone(c) == peer[c].st = "reset"

\* release_conn: out of the queue, closed, and a new generation.
release_conn(c) ==
    LET s == SlotOf(c)
    IN  /\ open' = [open EXCEPT ![s.fd] = Free]
        /\ SetSlot(c, [empty EXCEPT !.gen = (s.gen + 1) % 4])
tcp_close(c) == IF SlotOf(c).gen = task[c].gen THEN release_conn(c) ELSE UNCHANGED <<open, conns>>

-----------------------------------------------------------------------------
(* Listening. *)

async_tcp_listen_hook ==
    /\ Listening = {}
    /\ Len(listeners) < ListenCap
    /\ TcpFreeFds # {}
    /\ LET f == Lowest(TcpFreeFds)
       IN  /\ open' = [open EXCEPT ![f] = [kind |-> "listen", id |-> "none"]]
           /\ listeners' = Append(listeners, f)
    /\ UNCHANGED <<backlog, peer, conns, acceptor, task, unlistens>>

\* The hole stays in the table; connections nobody accepted are reset.
async_tcp_unlisten_hook ==
    /\ unlistens < MaxUnlistens
    /\ \E i \in Listening :
         /\ open' = [open EXCEPT ![listeners[i]] = Free]
         /\ listeners' = [listeners EXCEPT ![i] = -1]
    /\ backlog' = << >>
    /\ peer' = [c \in All |-> IF \E i \in DOMAIN backlog : backlog[i] = c THEN [peer[c] EXCEPT !.st = "reset"] ELSE peer[c]]
    /\ unlistens' = unlistens + 1
    /\ UNCHANGED <<conns, acceptor, task>>

\* The accept future: a connection, or a connection closed because the table
\* is full, or nothing and the waker is left for the next readiness.
async_tcp_accept_hook(t) ==
    /\ acceptor[t] = "run"
    /\ IF backlog = << >> THEN acceptor' = [acceptor EXCEPT ![t] = "parked"]
                               /\ UNCHANGED <<open, backlog, peer, conns, task>>
       ELSE LET c == Head(backlog)
                f == Lowest(TcpFreeFds)
            IN  /\ backlog' = Tail(backlog)
                /\ TcpFreeFds # {}
                /\ IF FreeSlots(t) = {}
                   THEN /\ peer' = [peer EXCEPT ![c].st = "reset"]
                        /\ acceptor' = [acceptor EXCEPT ![t] = "parked"]
                        /\ UNCHANGED <<open, conns, task>>
                   ELSE /\ open' = [open EXCEPT ![f] = [kind |-> "conn", id |-> c]]
                        /\ conns' = alloc_conn(t, f)
                        /\ task' = [task EXCEPT ![c] = [NoTask EXCEPT !.pc = "recv", !.t = t, !.k = Lowest(FreeSlots(t)),
                                                            !.gen = conns[t][Lowest(FreeSlots(t))].gen]]
                        /\ UNCHANGED <<peer, acceptor>>
    /\ UNCHANGED <<listeners, unlistens>>

\* native_tcp_connect: the socket connects in the background.
native_tcp_connect(t, c) ==
    /\ task[c] = NoTask /\ peer[c].st = "new"
    /\ TcpFreeFds # {} /\ FreeSlots(t) # {}
    /\ LET f == Lowest(TcpFreeFds)
           k == Lowest(FreeSlots(t))
       IN  /\ open' = [open EXCEPT ![f] = [kind |-> "conn", id |-> c]]
           /\ conns' = alloc_conn(t, f)
           /\ task' = [task EXCEPT ![c] = [NoTask EXCEPT !.pc = "connect", !.t = t, !.k = k, !.gen = conns[t][k].gen]]
    /\ peer' = [peer EXCEPT ![c].st = "asked"]
    /\ UNCHANGED <<listeners, backlog, acceptor, unlistens>>

-----------------------------------------------------------------------------
(* The futures, each poll whole. *)

Goto(c, pc) == task' = [task EXCEPT ![c].pc = pc]
native_tcp_connect_status(c) ==
    /\ task[c].pc = "connect"
    /\ CASE peer[c].st = "up"    -> /\ Goto(c, "recv")
                                    /\ SetSlot(c, [SlotOf(c) EXCEPT !.send = FALSE, !.armed = FALSE])
                                    /\ UNCHANGED open
         [] peer[c].st = "asked" -> /\ Goto(c, "connect parked")      \* register_send_waker
                                    /\ SetSlot(c, [SlotOf(c) EXCEPT !.send = TRUE, !.armed = TRUE])
                                    /\ UNCHANGED open
         [] OTHER                -> Goto(c, "done") /\ tcp_close(c)
    /\ UNCHANGED <<listeners, backlog, peer, acceptor, unlistens>>

\* has_data is the flag, or that the connection is over; do_recv clears the
\* flag, and an end of stream or a reset closes the slot's stream.
native_tcp_has_data(c) == ~check_gen(c) \/ SlotOf(c).pending
native_tcp_do_recv(c) ==
    /\ task[c].pc = "recv"
    /\ native_tcp_has_data(c)
    /\ LET s == [SlotOf(c) EXCEPT !.recv = FALSE, !.pending = FALSE]
           nothing == ~check_gen(c) \/ Gone(c) \/ Unread(c) = 0
       IN  IF nothing
           THEN /\ task' = [task EXCEPT ![c].pc = "close", ![c].eof = TRUE]
                /\ SetSlot(c, [s EXCEPT !.closed = @ \/ (check_gen(c) /\ ~Gone(c) /\ peer[c].eof)])
           ELSE /\ task' = [task EXCEPT ![c].pc = "send", ![c].read = peer[c].sent, ![c].owed = Unread(c)]
                /\ SetSlot(c, s)
    /\ UNCHANGED <<open, listeners, backlog, peer, acceptor, unlistens>>
native_tcp_register_recv_waker(c) ==
    /\ task[c].pc = "recv"
    /\ ~native_tcp_has_data(c)
    /\ Goto(c, "recv parked")
    /\ SetSlot(c, [SlotOf(c) EXCEPT !.recv = TRUE])
    /\ UNCHANGED <<open, listeners, backlog, peer, acceptor, unlistens>>

\* try_send takes what the socket buffer has room for; with no room the send
\* waker is left and write readiness armed.
Room(c) == SendCap - peer[c].buf
native_tcp_try_send_chain(c) ==
    /\ task[c].pc = "send"
    /\ LET n == IF task[c].owed <= Room(c) THEN task[c].owed ELSE Room(c)
       IN  IF ~check_gen(c) \/ Gone(c) THEN Goto(c, "close") /\ UNCHANGED <<peer, conns>>
           ELSE IF n = 0 /\ task[c].owed > 0
           THEN /\ Goto(c, "send parked")
                /\ SetSlot(c, [SlotOf(c) EXCEPT !.send = TRUE, !.armed = TRUE])
                /\ UNCHANGED peer
           ELSE /\ peer' = [peer EXCEPT ![c].buf = @ + n]
                /\ task' = [task EXCEPT ![c].owed = @ - n, ![c].pc = IF task[c].owed = n THEN "recv" ELSE "send"]
                /\ SetSlot(c, [SlotOf(c) EXCEPT !.send = FALSE, !.armed = FALSE])
    /\ UNCHANGED <<open, listeners, backlog, acceptor, unlistens>>

\* The task ends, or is aborted at an await: its wakers and its slot go.
Close(c) == /\ task[c].pc = "close"
            /\ Goto(c, "done") /\ tcp_close(c)
            /\ UNCHANGED <<listeners, backlog, peer, acceptor, unlistens>>
Abort(c) == /\ task[c].pc \in {"recv parked", "send parked", "connect parked"}
            /\ Goto(c, "done") /\ tcp_close(c)
            /\ UNCHANGED <<listeners, backlog, peer, acceptor, unlistens>>

-----------------------------------------------------------------------------
(* collect_events and dispatch_ready_fd: every descriptor that is ready. *)

Readable(c) == peer[c].st \in {"up", "reset"} /\ (Unread(c) > 0 \/ peer[c].eof \/ Gone(c))
Writable(c) == peer[c].st # "asked" /\ (Gone(c) \/ Room(c) > 0)
Mine(t) == {c \in All : task[c].pc \notin {"none", "done"} /\ task[c].t = t /\ SlotOf(c).fd >= 0}
tcp_collect_events(t) ==
        LET r == {c \in Mine(t) : Readable(c)}
            w == {c \in Mine(t) : SlotOf(c).armed /\ Writable(c)}
            Wake(c) == CASE c \in r /\ task[c].pc = "recv parked" /\ SlotOf(c).recv       -> "recv"
                         [] c \in w /\ task[c].pc = "send parked" /\ SlotOf(c).send       -> "send"
                         [] c \in w /\ task[c].pc = "connect parked" /\ SlotOf(c).send    -> "connect"
                         [] OTHER -> task[c].pc
            At(k) == {c \in Mine(t) : task[c].k = k}
        IN  /\ r \cup w # {} \/ (backlog # << >> /\ acceptor[t] = "parked")
            /\ conns' = [conns EXCEPT ![t] = [k \in Keys |->
                           [@[k] EXCEPT !.pending = @ \/ At(k) \cap r # {},
                                        !.recv = @ /\ At(k) \cap r = {},
                                        !.send = @ /\ At(k) \cap w = {}]]]
            /\ task' = [c \in All |-> [task[c] EXCEPT !.pc = Wake(c)]]
            /\ acceptor' = [acceptor EXCEPT ![t] = IF Listening # {} /\ backlog # << >> THEN "run" ELSE @]
            /\ UNCHANGED <<open, listeners, backlog, peer, unlistens>>

-----------------------------------------------------------------------------
(* The peers. *)

PeerConnect(c) == /\ c \in In /\ peer[c].st = "new" /\ Listening # {}
                  /\ peer' = [peer EXCEPT ![c].st = "up"]
                  /\ backlog' = Append(backlog, c)
                  /\ UNCHANGED <<open, listeners, conns, acceptor, task, unlistens>>
PeerAnswer(c) == /\ peer[c].st = "asked"
                 /\ \E st \in {"up", "reset"} : peer' = [peer EXCEPT ![c].st = st]
                 /\ UNCHANGED <<open, listeners, backlog, conns, acceptor, task, unlistens>>
PeerActs(c) == /\ peer[c].st = "up"
               /\ \/ peer[c].sent < Bytes /\ ~peer[c].eof /\ peer' = [peer EXCEPT ![c].sent = @ + 1]
                  \/ ~peer[c].eof /\ peer' = [peer EXCEPT ![c].eof = TRUE]
                  \/ peer[c].buf > 0 /\ peer' = [peer EXCEPT ![c].buf = 0, ![c].got = @ + peer[c].buf]
                  \/ peer' = [peer EXCEPT ![c].st = "reset"]
               /\ UNCHANGED <<open, listeners, backlog, conns, acceptor, task, unlistens>>

TcpNext == \/ async_tcp_listen_hook \/ async_tcp_unlisten_hook
           \/ \E t \in Threads : \/ async_tcp_accept_hook(t)
                                 \/ \E c \in Out : native_tcp_connect(t, c)
                                 \/ tcp_collect_events(t)
           \/ \E c \in All : \/ native_tcp_connect_status(c) \/ native_tcp_do_recv(c)
                             \/ native_tcp_register_recv_waker(c) \/ native_tcp_try_send_chain(c)
                             \/ Close(c) \/ Abort(c)
                             \/ PeerConnect(c) \/ PeerAnswer(c) \/ PeerActs(c)

TcpSpec == TcpInit /\ [][TcpNext]_tcpVars

-----------------------------------------------------------------------------
Live(c) == task[c].pc \notin {"none", "done"}

\* The end of the stream is reported only at its end: a read of zero bytes
\* means the peer closed after everything it sent was read, or reset; and
\* every byte echoed was read before.
NativeEofIsEnd == \A c \in All : /\ task[c].eof => Gone(c) \/ (peer[c].eof /\ task[c].read = peer[c].sent)
                                 /\ peer[c].got + peer[c].buf + task[c].owed <= task[c].read

\* A parked task has its waker where the next readiness finds it: its slot
\* is its own, its descriptor is in the queue, and write readiness is armed
\* when it waits to send or to connect.
NativeWaiterIsWatched ==
    \A c \in All :
       /\ task[c].pc = "recv parked" => check_gen(c) /\ SlotOf(c).fd >= 0 /\ SlotOf(c).recv
       /\ task[c].pc \in {"send parked", "connect parked"} => SlotOf(c).fd >= 0 /\ SlotOf(c).armed /\ SlotOf(c).send

\* Open descriptors, slots and live tasks match one to one: nothing leaks
\* through aborts, full tables, refused connects and reuse of numbers.
NativeDescriptorsExact ==
    /\ \A f \in Fds : open[f].kind = "conn" <=> \E t \in Threads, k \in Keys : conns[t][k].fd = f
    /\ \A c \in All : Live(c) => open[SlotOf(c).fd] = [kind |-> "conn", id |-> c] /\ SlotOf(c).gen = task[c].gen
    /\ \A t \in Threads, k \in Keys : conns[t][k].fd >= 0 => \E c \in All : Live(c) /\ task[c].t = t /\ task[c].k = k
    /\ {f \in Fds : open[f].kind = "listen"} = {listeners[i] : i \in Listening}

\* After an unlisten the port can be bound again: the hook "clears the slot so
\* a subsequent `bind(app_port)` can allocate fresh".
RebindHasRoom == Listening = {} => Len(listeners) < ListenCap
=============================================================================
