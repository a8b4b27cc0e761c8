----------------------------- MODULE Reactors -------------------------------
(***************************************************************************)
(* The sockets of the executor: UDP and TCP.  The two machines are         *)
(* independent.                                                            *)
(***************************************************************************)
EXTENDS Integers, Sequences, FiniteSets

(***************************************************************************)
(* UDP sockets of the executor (crates/runtime/executor/src/reactor/udp.rs)*)
(* over the per-worker tables of crates/runtime/worker and the parked-waker*)
(* slot (waker_slot.rs): a registry of server ports, one inbox per worker  *)
(* and port; a pool of ephemeral ports per worker, one inbox per port; the *)
(* receive futures; and deliver_udp, on whichever worker saw the packet.   *)
(*                                                                         *)
(* A worker runs one function at a time (cpu) but the workers interleave at*)
(* every load and store that another one can see.  An inbox is a ring of   *)
(* Cap slots with a head and a tail.                                       *)
(***************************************************************************)
CONSTANTS N,                      \* num_workers()
          Socks, Kind, At, Port,  \* sockets the application opens, each once: "server" or
                                  \* "eph", the worker that opens it, the port of a server
          NReg,                   \* MAX_UDP_SOCKETS
          EphBase, EphMax,        \* EPHEMERAL_BASE, ports a worker has
          Cap,                    \* slots of a ring, a power of two
          Arrivals,               \* <<worker, port>>: packets for the port arrive there
          MaxDgrams,
          Reorders,               \* a producer's store may become visible after its next load
          BindFails               \* the backend may refuse a port

Workers == 0 .. N - 1
Boxes == ({"s"} \X (1 .. NReg) \X Workers) \cup ({"e"} \X (0 .. EphMax - 1) \X Workers)
NoSock == "nobody"
Idle == "idle"
NoDgram == [port |-> 0, id |-> 0]
NoBox == <<"s", 0, 0>>

VARIABLES reg,         \* UdpState::port
          table,       \* UdpState::inboxes is initialised
          ephPort,     \* EphSlot::port # 0, per worker and index
          free, next,  \* EphBookkeeping, per worker
          ring,        \* per inbox: head, tail, slots, alloc
          waker,       \* per inbox: WakerSlot
          sock,        \* per socket: pc, slot, released
          recv,        \* per socket and worker: the receive task
          woken,       \* per socket and worker: its waker was called
          got,         \* per socket and worker: what it received
          rx,          \* per worker: deliver_udp in progress
          cpu,         \* per worker: the function it is in the middle of
          count        \* datagrams that arrived
udpVars == <<reg, table, ephPort, free, next, ring, waker, sock, recv, woken, got, rx, cpu, count>>

NewRing == [head |-> 0, tail |-> 0, slots |-> [i \in 0 .. Cap - 1 |-> NoDgram], alloc |-> FALSE]
NoRx == [pc |-> "none", port |-> 0, d |-> NoDgram, box |-> NoBox, tail |-> 0, saw |-> FALSE]

UdpInit == /\ reg = [i \in 1 .. NReg |-> 0] /\ table = [i \in 1 .. NReg |-> FALSE]
           /\ ephPort = [w \in Workers |-> [k \in 0 .. EphMax - 1 |-> FALSE]]
           /\ free = [w \in Workers |-> <<>>] /\ next = [w \in Workers |-> 0]
           /\ ring = [b \in Boxes |-> NewRing] /\ waker = [b \in Boxes |-> NoSock]
           /\ sock = [s \in Socks |-> [pc |-> "new", slot |-> 0, port |-> Port[s], released |-> FALSE]]
           /\ recv = [s \in Socks |-> [w \in Workers |-> "none"]]
           /\ woken = [s \in Socks |-> [w \in Workers |-> FALSE]]
           /\ got = [s \in Socks |-> [w \in Workers |-> <<>>]]
           /\ rx = [w \in Workers |-> NoRx] /\ cpu = [w \in Workers |-> Idle] /\ count = 0

BoxOf(s, w) == IF Kind[s] = "server" THEN <<"s", sock[s].slot, w>> ELSE <<"e", sock[s].slot, w>>
\* Worker w goes on with what it is doing, or starts something.
On(w, what) == cpu[w] \in {Idle, what}
Stay(w, what) == cpu' = [cpu EXCEPT ![w] = what]
Leave(w) == cpu' = [cpu EXCEPT ![w] = Idle]
Sock(s, r) == sock' = [sock EXCEPT ![s] = r]

(***************************************************************************)
(* UdpSocket::bind.                                                        *)
(***************************************************************************)
UdpBindScan(s) ==
       LET taken == \E i \in 1 .. NReg : reg[i] = Port[s] IN
       /\ Kind[s] = "server" /\ sock[s].pc = "new" /\ On(At[s], s)
       /\ Sock(s, [sock[s] EXCEPT !.pc = IF taken THEN "failed" ELSE "claim"])
       /\ IF taken THEN Leave(At[s]) ELSE Stay(At[s], s)
       /\ UNCHANGED <<reg, table, ephPort, free, next, ring, waker, recv, woken, got, rx, count>>
\* The port is published first...
UdpBindClaim(s) ==
       LET frees == {i \in 1 .. NReg : reg[i] = 0}
           i == CHOOSE i \in frees : \A j \in frees : i <= j
       IN /\ sock[s].pc = "claim"
          /\ IF frees = {}
             THEN Sock(s, [sock[s] EXCEPT !.pc = "failed"]) /\ Leave(At[s]) /\ UNCHANGED reg
             ELSE /\ reg' = [reg EXCEPT ![i] = Port[s]] /\ UNCHANGED cpu
                  /\ Sock(s, [sock[s] EXCEPT !.pc = "table", !.slot = i])
          /\ UNCHANGED <<table, ephPort, free, next, ring, waker, recv, woken, got, rx, count>>
\* ...then the table of inboxes is allocated, unless an earlier bind did...
BindTable(s) ==
    /\ sock[s].pc = "table"
    /\ table' = [table EXCEPT ![sock[s].slot] = TRUE]
    /\ Sock(s, [sock[s] EXCEPT !.pc = "reset"])
    /\ UNCHANGED <<reg, ephPort, free, next, ring, waker, recv, woken, got, rx, cpu, count>>
\* ...and the inbox of every worker is allocated and emptied.
Emptied(r) == [r EXCEPT !.head = 0, !.tail = 0, !.alloc = TRUE]
BindReset(s) ==
    LET mine == {<<"s", sock[s].slot, w>> : w \in Workers} IN
    /\ sock[s].pc = "reset"
    /\ ring' = [b \in Boxes |-> IF b \in mine THEN Emptied(ring[b]) ELSE ring[b]]
    /\ waker' = [b \in Boxes |-> IF b \in mine THEN NoSock ELSE waker[b]]
    /\ Sock(s, [sock[s] EXCEPT !.pc = "backend"])
    /\ UNCHANGED <<reg, table, ephPort, free, next, recv, woken, got, rx, cpu, count>>

Receivers(s) == IF Kind[s] = "server" THEN Workers ELSE {At[s]}
\* The backend's bind hook, and the tasks of run() on every worker.
Opened(s) == /\ Sock(s, [sock[s] EXCEPT !.pc = "live"])
             /\ recv' = [recv EXCEPT ![s] = [w \in Workers |-> IF w \in Receivers(s) THEN "ready" ELSE "none"]]
BindBackend(s) ==
    /\ sock[s].pc = "backend" /\ Leave(At[s])
    /\ \/ Opened(s) /\ UNCHANGED reg
       \/ /\ BindFails
          /\ reg' = [reg EXCEPT ![sock[s].slot] = 0]
          /\ Sock(s, [sock[s] EXCEPT !.pc = "failed"]) /\ UNCHANGED recv
    /\ UNCHANGED <<table, ephPort, free, next, ring, waker, woken, got, rx, count>>

(***************************************************************************)
(* open_ephemeral: the index gives the port; the inbox is ready before the *)
(* port is published.                                                      *)
(***************************************************************************)
EphTake(s) ==
    LET w == At[s]
        recycled == free[w] # <<>>
        k == IF recycled THEN free[w][Len(free[w])] ELSE next[w]
        rest == IF recycled THEN SubSeq(free[w], 1, Len(free[w]) - 1) ELSE <<>>
    IN /\ Kind[s] = "eph" /\ sock[s].pc = "new" /\ On(w, s)
       /\ next' = IF recycled THEN next ELSE [next EXCEPT ![w] = @ + 1]
       /\ IF k >= EphMax
          THEN /\ free' = [free EXCEPT ![w] = Append(rest, k)]
               /\ Sock(s, [sock[s] EXCEPT !.pc = "failed"]) /\ Leave(w) /\ UNCHANGED <<ring, waker>>
          ELSE /\ free' = [free EXCEPT ![w] = rest]
               /\ ring' = [ring EXCEPT ![<<"e", k, w>>] = Emptied(@)]
               /\ waker' = [waker EXCEPT ![<<"e", k, w>>] = NoSock]
               /\ Sock(s, [sock[s] EXCEPT !.pc = "publish", !.slot = k, !.port = EphBase + k * N + w])
               /\ Stay(w, s)
       /\ UNCHANGED <<reg, table, ephPort, recv, woken, got, rx, count>>
EphPublish(s) ==
    LET w == At[s] IN
    /\ sock[s].pc = "publish"
    /\ ephPort' = [ephPort EXCEPT ![w][sock[s].slot] = TRUE]
    /\ Sock(s, [sock[s] EXCEPT !.pc = "ephBackend"])
    /\ UNCHANGED <<reg, table, free, next, ring, waker, recv, woken, got, rx, cpu, count>>
\* release_eph_slot, also run by Drop.
EphRelease(s) == /\ ephPort' = [ephPort EXCEPT ![At[s]][sock[s].slot] = FALSE]
                 /\ free' = [free EXCEPT ![At[s]] = Append(@, sock[s].slot)]
EphBackend(s) ==
    /\ sock[s].pc = "ephBackend" /\ Leave(At[s])
    /\ \/ Opened(s) /\ UNCHANGED <<ephPort, free>>
       \/ BindFails /\ EphRelease(s) /\ Sock(s, [sock[s] EXCEPT !.pc = "failed"]) /\ UNCHANGED recv
    /\ UNCHANGED <<reg, table, next, ring, waker, woken, got, rx, count>>

(***************************************************************************)
(* Closing.  UdpHandle::drop aborts the tasks and frees the port at once;  *)
(* the socket itself goes when the last task has been dropped.             *)
(***************************************************************************)
FreePort(s) == IF Kind[s] = "server"
               THEN reg' = [reg EXCEPT ![sock[s].slot] = 0] /\ UNCHANGED <<ephPort, free>>
               ELSE EphRelease(s) /\ UNCHANGED reg
\* The release is not noted, so that the last drop releases again.
UdpCloseUnmarked(s) ==
       /\ sock[s].pc = "live" /\ cpu[At[s]] = Idle
       /\ FreePort(s)
       /\ Sock(s, [sock[s] EXCEPT !.pc = "closed"])
       /\ UNCHANGED <<table, next, ring, waker, recv, woken, got, rx, cpu, count>>

UdpClose(s) ==
       /\ sock[s].pc = "live" /\ cpu[At[s]] = Idle
       /\ FreePort(s)
       /\ Sock(s, [sock[s] EXCEPT !.pc = "closed", !.released = TRUE])
       /\ UNCHANGED <<table, next, ring, waker, recv, woken, got, rx, cpu, count>>
\* A worker's next tick drops the aborted future and with it exactly its own
\* registration.
UdpDropTask(s, w) ==
       /\ sock[s].pc = "closed" /\ cpu[w] = Idle /\ recv[s][w] # "none"
       /\ recv' = [recv EXCEPT ![s][w] = "none"]
       /\ waker' = IF waker[BoxOf(s, w)] = s THEN [waker EXCEPT ![BoxOf(s, w)] = NoSock] ELSE waker
       /\ UNCHANGED <<reg, table, ephPort, free, next, ring, sock, woken, got, rx, cpu, count>>
\* Drop for UdpSocket, when the last clone goes: the port is free already.
DropSocket(s) ==
    /\ sock[s].pc = "closed" /\ \A w \in Workers : recv[s][w] = "none"
    /\ IF sock[s].released THEN UNCHANGED <<reg, ephPort, free>> ELSE FreePort(s)
    /\ Sock(s, [sock[s] EXCEPT !.pc = "gone"])
    /\ UNCHANGED <<table, next, ring, waker, recv, woken, got, rx, cpu, count>>

(***************************************************************************)
(* UdpRecv::poll: pop, else park and pop once more.                        *)
(***************************************************************************)
Nonempty(b) == ring[b].alloc /\ ring[b].head # ring[b].tail
Pop(s, w) == LET b == BoxOf(s, w) IN
    /\ got' = [got EXCEPT ![s][w] = Append(@, ring[b].slots[ring[b].head])]
    /\ ring' = [ring EXCEPT ![b].head = (@ + 1) % Cap]
Poll(s, w) ==
    LET b == BoxOf(s, w) IN
    /\ \/ recv[s][w] = "ready" /\ sock[s].pc = "live"
       \/ recv[s][w] = "asleep" /\ woken[s][w] /\ sock[s].pc = "live"
    /\ cpu[w] = Idle
    /\ IF Nonempty(b)
       THEN /\ Pop(s, w) /\ recv' = [recv EXCEPT ![s][w] = "ready"]
            /\ waker' = IF waker[b] = s THEN [waker EXCEPT ![b] = NoSock] ELSE waker
            /\ UNCHANGED cpu
       ELSE /\ waker' = [waker EXCEPT ![b] = s] /\ recv' = [recv EXCEPT ![s][w] = "again"] /\ Stay(w, s)
            /\ UNCHANGED <<got, ring>>
    /\ woken' = [woken EXCEPT ![s][w] = FALSE]
    /\ UNCHANGED <<reg, table, ephPort, free, next, sock, rx, count>>
PollAgain(s, w) ==
    LET b == BoxOf(s, w) IN
    /\ recv[s][w] = "again" /\ Leave(w)
    /\ IF Nonempty(b)
       THEN /\ Pop(s, w) /\ recv' = [recv EXCEPT ![s][w] = "ready"]
            /\ waker' = IF waker[b] = s THEN [waker EXCEPT ![b] = NoSock] ELSE waker
       ELSE recv' = [recv EXCEPT ![s][w] = "asleep"] /\ UNCHANGED <<got, ring, waker>>
    /\ UNCHANGED <<reg, table, ephPort, free, next, sock, woken, rx, count>>

(***************************************************************************)
(* deliver_udp.                                                            *)
(***************************************************************************)
\* lookup_eph, then the scan of the registry.
Decode(p) == <<(p - EphBase) % N, (p - EphBase) \div N>>
EphBox(p) == IF p < EphBase THEN NoBox
             ELSE LET w == Decode(p)[1]
                      k == Decode(p)[2]
                  IN IF k < EphMax /\ ephPort[w][k] THEN <<"e", k, w>> ELSE NoBox
BoxFor(p, w) ==
    LET hits == {i \in 1 .. NReg : reg[i] = p} IN
    IF EphBox(p) # NoBox THEN EphBox(p)
    ELSE IF hits = {} THEN NoBox
    ELSE <<"s", CHOOSE i \in hits : \A j \in hits : i <= j, w>>
Rx(w, r) == rx' = [rx EXCEPT ![w] = r]
Deliver(w, p) ==
    LET b == BoxFor(p, w) IN
    /\ cpu[w] = Idle /\ count < MaxDgrams
    /\ count' = count + 1
    /\ IF b = NoBox THEN UNCHANGED <<rx, cpu>>
       ELSE /\ Rx(w, [NoRx EXCEPT !.pc = "push", !.port = p, !.d = [port |-> p, id |-> count + 1], !.box = b])
            /\ Stay(w, "rx")
    /\ UNCHANGED <<reg, table, ephPort, free, next, ring, waker, sock, recv, woken, got>>
\* WorkerInbox::try_push: not allocated or full drops the datagram.
Push(w) ==
    LET r == rx[w]
        q == ring[r.box]
    IN /\ r.pc = "push"
       /\ IF ~q.alloc \/ (q.tail + 1) % Cap = q.head
          THEN Rx(w, [r EXCEPT !.pc = "gate"]) /\ UNCHANGED ring
          ELSE /\ ring' = [ring EXCEPT ![r.box].slots[q.tail] = r.d]
               /\ Rx(w, [r EXCEPT !.pc = "tail", !.tail = (q.tail + 1) % Cap])
       /\ UNCHANGED <<reg, table, ephPort, free, next, waker, sock, recv, woken, got, cpu, count>>
\* The tail, then the gate; the processor may let the gate's load overtake.
StoreTail(w) ==
    LET r == rx[w] IN
    /\ r.pc \in {"tail", "lateTail"}
    /\ ring' = [ring EXCEPT ![r.box].tail = r.tail]
    /\ Rx(w, [r EXCEPT !.pc = IF @ = "tail" THEN "gate" ELSE "wake"])
    /\ UNCHANGED <<reg, table, ephPort, free, next, waker, sock, recv, woken, got, cpu, count>>
ReadGate(w) ==
    LET r == rx[w] IN
    /\ \/ r.pc = "gate"
       \/ Reorders /\ r.pc = "tail"
    /\ Rx(w, [r EXCEPT !.pc = IF @ = "gate" THEN "wake" ELSE "lateTail", !.saw = waker[r.box] # NoSock])
    /\ UNCHANGED <<reg, table, ephPort, free, next, ring, waker, sock, recv, woken, got, cpu, count>>
\* WakerSlot::wake, when the gate said somebody is parked.
Wake(w) ==
    LET r == rx[w]
        s == waker[r.box]
    IN /\ r.pc = "wake"
       /\ IF r.saw /\ s # NoSock
          THEN waker' = [waker EXCEPT ![r.box] = NoSock] /\ woken' = [woken EXCEPT ![s][r.box[3]] = TRUE]
          ELSE UNCHANGED <<waker, woken>>
       /\ Rx(w, NoRx) /\ Leave(w)
       /\ UNCHANGED <<reg, table, ephPort, free, next, ring, sock, recv, got, count>>

UdpNext == \/ \E s \in Socks : \/ UdpBindScan(s) \/ UdpBindClaim(s) \/ BindTable(s) \/ BindReset(s) \/ BindBackend(s)
                               \/ EphTake(s) \/ EphPublish(s) \/ EphBackend(s)
                               \/ UdpClose(s) \/ DropSocket(s)
                               \/ \E w \in Workers : UdpDropTask(s, w) \/ Poll(s, w) \/ PollAgain(s, w)
           \/ \E w \in Workers : Push(w) \/ StoreTail(w) \/ ReadGate(w) \/ Wake(w)
           \/ \E a \in Arrivals : Deliver(a[1], a[2])
UdpSpec == UdpInit /\ [][UdpNext]_udpVars

-----------------------------------------------------------------------------
\* A live socket has its port for itself until it releases it: no other
\* socket's late drop, failed bind or reuse of its slot takes it away
\* (udp.rs:671-698, 1289-1331).
PortIsHeld ==
    \A s \in Socks : sock[s].pc = "live" =>
        /\ IF Kind[s] = "server" THEN reg[sock[s].slot] = Port[s]
           ELSE ephPort[At[s]][sock[s].slot] /\ \A i \in DOMAIN free[At[s]] : free[At[s]][i] # sock[s].slot
        /\ \A t \in Socks \ {s} : sock[t].pc = "live" /\ Kind[s] = Kind[t] /\ (Kind[s] = "eph" => At[s] = At[t]) => sock[s].slot # sock[t].slot

\* A receiver gets datagrams of its own port, in the order they were
\* pushed, none twice.
ReceivesInOrder ==
    \A s \in Socks, w \in Workers : \A i \in DOMAIN got[s][w] :
        /\ got[s][w][i].port = sock[s].port
        /\ i > 1 => got[s][w][i].id > got[s][w][i - 1].id

\* "the consumer's post-park re-check or the next event covers the race"
\* (waker_slot.rs:103-108): a receiver asleep over a datagram nobody woke it
\* for is still parked, so the next datagram wakes it.
NextDatagramWakes ==
    \A s \in Socks, w \in Workers :
        LET b == BoxOf(s, w) IN
        recv[s][w] = "asleep" /\ sock[s].pc = "live" /\ Nonempty(b) /\ ~woken[s][w] =>
            waker[b] = s \/ \E v \in Workers : rx[v].box = b /\ rx[v].pc = "wake"
\* Without the reordering of stores, or on one worker, nobody sleeps over a
\* datagram at all.
NobodySleepsOverDatagram ==
    \A s \in Socks, w \in Workers :
        LET b == BoxOf(s, w) IN
        recv[s][w] = "asleep" /\ sock[s].pc = "live" /\ Nonempty(b) =>
            woken[s][w] \/ \E v \in Workers : rx[v].box = b /\ rx[v].pc \in {"gate", "wake"}

\* An ephemeral port is refused only when the worker has none left.
RefusedOnlyWhenFull ==
    \A s \in Socks : sock[s].pc = "new" /\ Kind[s] = "eph" /\ free[At[s]] # <<>> =>
        (free[At[s]][Len(free[At[s]])] >= EphMax => \A k \in 0 .. EphMax - 1 :
            \E t \in Socks : At[t] = At[s] /\ Kind[t] = "eph" /\ sock[t].slot = k /\ sock[t].pc \in {"publish", "ephBackend", "live"})

\* ("PerWorker::at before init", worker/src/lib.rs:245.)  A delivery never
\* reaches a port whose inboxes do not exist yet.
InboxReady == \A w \in Workers : rx[w].pc = "push" /\ rx[w].box[1] = "s" => table[rx[w].box[2]]
\* (UdpBindError::PortInUse.)  Two live sockets never have the same port.
OneSocketPerPort == \A s, t \in Socks : s # t /\ sock[s].pc = "live" /\ sock[t].pc = "live" => sock[s].port # sock[t].port

-----------------------------------------------------------------------------
(***************************************************************************)
(* Listening and connecting over the TCP backend                           *)
(* (crates/runtime/executor/src/reactor/tcp.rs): the registry of ports with*)
(* one parked accept task per worker, the accept loop run() starts on every*)
(* worker, the connect future, and the streams that own a connection until *)
(* they are dropped.  The backend (TcpPool, TcpConn) is what it looks like *)
(* from here: a connection belongs to one worker, which also runs its      *)
(* receive path, so accepting and arriving never overlap on a worker.      *)
(***************************************************************************)
CONSTANTS Listeners, PortOf, BindAt,  \* listeners the application opens, each once, and where
          Conns,                      \* connections that may exist
          Ports,
          SpawnFails,                 \* the task arena may be full
          BackendEarly                \* the backend is registered before anybody binds
NoOne == "nobody"   \* no listener
NoWorker == -1

VARIABLES backend,    \* TCP_BACKEND # null
          parked,     \* TcpState::wakers, per slot and worker
          lis,        \* per listener: pc, idx, released
          acc,        \* per listener and worker: its accept task
          listening,  \* ports the backend listens on
          conn        \* per connection: st, w, port, waker, held
tcpVars == <<backend, reg, parked, lis, acc, woken, listening, conn>>

NoConn == [st |-> "none", w |-> NoWorker, port |-> 0, held |-> FALSE, parked |-> FALSE, woken |-> FALSE]
TcpInit == /\ backend = BackendEarly
           /\ reg = [i \in 1 .. NReg |-> 0]
           /\ parked = [i \in 1 .. NReg |-> [w \in Workers |-> NoOne]]
           /\ lis = [l \in Listeners |-> [pc |-> "new", idx |-> 0, released |-> FALSE]]
           /\ acc = [l \in Listeners |-> [w \in Workers |-> "none"]]
           /\ woken = [l \in Listeners |-> [w \in Workers |-> FALSE]]
           /\ listening = {}
           /\ conn = [c \in Conns |-> NoConn]

RegisterBackend == /\ ~backend /\ backend' = TRUE
                   /\ UNCHANGED <<reg, parked, lis, acc, woken, listening, conn>>

(***************************************************************************)
(* TcpListener::bind, run and drop.                                        *)
(***************************************************************************)
\* A worker binds one listener at a time.
Binding(m) == lis[m].pc \in {"claim", "clear", "listen"}
TcpBindScan(l) ==
       /\ lis[l].pc = "new" /\ \A m \in Listeners : BindAt[m] = BindAt[l] => ~Binding(m)
       /\ lis' = [lis EXCEPT ![l].pc = IF \E i \in 1 .. NReg : reg[i] = PortOf[l] THEN "inUse" ELSE "claim"]
       /\ UNCHANGED <<backend, reg, parked, acc, woken, listening, conn>>
TcpBindClaim(l) ==
       LET frees == {i \in 1 .. NReg : reg[i] = 0}
           i == CHOOSE i \in frees : \A j \in frees : i <= j
       IN /\ lis[l].pc = "claim"
          /\ IF frees = {} THEN lis' = [lis EXCEPT ![l].pc = "busy"] /\ UNCHANGED reg
             ELSE /\ reg' = [reg EXCEPT ![i] = PortOf[l]]
                  /\ lis' = [lis EXCEPT ![l].pc = "clear", ![l].idx = i]
          /\ UNCHANGED <<backend, parked, acc, woken, listening, conn>>
\* The parked accept tasks of the slot's last listener are forgotten.
BindClear(l) ==
    /\ lis[l].pc = "clear"
    /\ parked' = [parked EXCEPT ![lis[l].idx] = [w \in Workers |-> NoOne]]
    /\ lis' = [lis EXCEPT ![l].pc = "listen"]
    /\ UNCHANGED <<backend, reg, acc, woken, listening, conn>>
\* Without a backend bind returns at once, the claimed port and all; when
\* the backend refuses, the port is given back.
Run(l) == acc' = [acc EXCEPT ![l] = [w \in Workers |-> "ready"]]  \* the loop, on every worker
BindListen(l) ==
    /\ lis[l].pc = "listen"
    /\ \/ /\ ~backend
          /\ lis' = [lis EXCEPT ![l].pc = "failed"] /\ UNCHANGED <<reg, acc, listening>>
       \/ /\ backend
          /\ reg' = [reg EXCEPT ![lis[l].idx] = 0]
          /\ lis' = [lis EXCEPT ![l].pc = "failed"] /\ UNCHANGED <<acc, listening>>
       \/ /\ backend
          /\ listening' = listening \cup {PortOf[l]}
          /\ lis' = [lis EXCEPT ![l].pc = "live"]
          /\ Run(l)
          /\ UNCHANGED reg
    /\ UNCHANGED <<backend, parked, woken, conn>>
\* TcpHandle::drop.  The backend goes on listening (unlisten is None).
TcpClose(l) ==
       /\ lis[l].pc = "live"
       /\ reg' = [reg EXCEPT ![lis[l].idx] = 0]
       /\ lis' = [lis EXCEPT ![l].pc = "closed", ![l].released = TRUE]
       /\ UNCHANGED <<backend, parked, acc, woken, listening, conn>>
\* The aborted task is dropped at its worker's next tick; its waker stays
\* parked (TcpAccept has no Drop).
TcpDropTask(l, w) ==
       /\ lis[l].pc = "closed" /\ acc[l][w] # "none"
       /\ acc' = [acc EXCEPT ![l][w] = "none"]
       /\ UNCHANGED <<backend, reg, parked, lis, woken, listening, conn>>
DropListener(l) ==
    /\ lis[l].pc = "closed" /\ \A w \in Workers : acc[l][w] = "none"
    /\ reg' = IF lis[l].released THEN reg ELSE [reg EXCEPT ![lis[l].idx] = 0]
    /\ lis' = [lis EXCEPT ![l].pc = "gone"]
    /\ UNCHANGED <<backend, parked, acc, woken, listening, conn>>

(***************************************************************************)
(* The accept loop: TcpAccept::poll, then the body's task.                 *)
(***************************************************************************)
Queued(w, p) == {c \in Conns : conn[c].st = "queued" /\ conn[c].w = w /\ conn[c].port = p}
\* The stream moves into the connection's task; a task that cannot be
\* spawned drops it, which closes the connection.
Accept(l, w) ==
    LET q == Queued(w, PortOf[l])
        i == lis[l].idx
    IN /\ lis[l].pc = "live"
       /\ acc[l][w] = "ready" \/ (acc[l][w] = "asleep" /\ woken[l][w])
       /\ IF q = {}
          THEN /\ parked' = [parked EXCEPT ![i][w] = l]
               /\ acc' = [acc EXCEPT ![l][w] = "asleep"]
               /\ UNCHANGED conn
          ELSE /\ \E c \in q : \/ conn' = [conn EXCEPT ![c].st = "open", ![c].held = TRUE]
                               \/ SpawnFails /\ conn' = [conn EXCEPT ![c] = NoConn]
               /\ acc' = [acc EXCEPT ![l][w] = "ready"]
               /\ UNCHANGED parked
       /\ woken' = [woken EXCEPT ![l][w] = FALSE]
       /\ UNCHANGED <<backend, reg, lis, listening>>

(***************************************************************************)
(* The backend: a connection is established and deliver_tcp_ready wakes    *)
(* the accept task parked on this worker for the port.                     *)
(***************************************************************************)
Ready(p) == LET hits == {i \in 1 .. NReg : reg[i] = p}
            IN IF hits = {} THEN 0 ELSE CHOOSE i \in hits : \A j \in hits : i <= j
Arrive(c, w, p) ==
    LET i == Ready(p)
        l == IF i = 0 THEN NoOne ELSE parked[i][w]
    IN /\ conn[c] = NoConn /\ p \in listening
       /\ conn' = [conn EXCEPT ![c] = [NoConn EXCEPT !.st = "queued", !.w = w, !.port = p]]
       /\ IF l = NoOne THEN UNCHANGED <<parked, woken>>
          ELSE parked' = [parked EXCEPT ![i][w] = NoOne] /\ woken' = [woken EXCEPT ![l][w] = TRUE]
       /\ UNCHANGED <<backend, reg, lis, acc, listening>>
\* The peer goes away before anybody accepted.
Reset(c) == /\ conn[c].st = "queued" /\ conn' = [conn EXCEPT ![c] = NoConn]
            /\ UNCHANGED <<backend, reg, parked, lis, acc, woken, listening>>

(***************************************************************************)
(* TcpConnect: the first poll opens, every poll looks, parks, looks again. *)
(***************************************************************************)
Connect(c, w) ==
    /\ backend /\ conn[c] = NoConn
    /\ conn' = [conn EXCEPT ![c] = [NoConn EXCEPT !.st = "connecting", !.w = w, !.held = TRUE, !.parked = TRUE]]
    /\ UNCHANGED <<backend, reg, parked, lis, acc, woken, listening>>
Decides(c, st) ==
    /\ conn[c].st = "connecting"
    /\ conn' = [conn EXCEPT ![c].st = st, ![c].woken = conn[c].parked, ![c].parked = FALSE]
    /\ UNCHANGED <<backend, reg, parked, lis, acc, woken, listening>>
\* Established hands the stream over; otherwise dropping it closes.
PollConnect(c) ==
    /\ conn[c].woken
    /\ conn' = [conn EXCEPT ![c] = CASE conn[c].st = "established" -> [@ EXCEPT !.st = "open", !.woken = FALSE]
                                     [] conn[c].st \in {"refused", "timedOut"} -> NoConn
                                     [] OTHER -> [@ EXCEPT !.parked = TRUE, !.woken = FALSE]]
    /\ UNCHANGED <<backend, reg, parked, lis, acc, woken, listening>>
CancelConnect(c) ==
    /\ conn[c].st \in {"connecting", "established", "refused", "timedOut"}
    /\ conn' = [conn EXCEPT ![c] = NoConn]
    /\ UNCHANGED <<backend, reg, parked, lis, acc, woken, listening>>
\* The task that owns the stream returns: TcpStream::drop.
DropStream(c) ==
    /\ conn[c].st = "open" /\ conn[c].held
    /\ conn' = [conn EXCEPT ![c] = NoConn]
    /\ UNCHANGED <<backend, reg, parked, lis, acc, woken, listening>>

TcpNext == \/ RegisterBackend
           \/ \E l \in Listeners : \/ TcpBindScan(l) \/ TcpBindClaim(l) \/ BindClear(l) \/ BindListen(l)
                                   \/ TcpClose(l) \/ DropListener(l)
                                   \/ \E w \in Workers : TcpDropTask(l, w) \/ Accept(l, w)
           \/ \E c \in Conns : \/ \E w \in Workers : Connect(c, w) \/ \E p \in Ports : Arrive(c, w, p)
                               \/ \E st \in {"established", "refused", "timedOut"} : Decides(c, st)
                               \/ Reset(c) \/ PollConnect(c) \/ CancelConnect(c) \/ DropStream(c)
Tasks == (\E l \in Listeners, w \in Workers : Accept(l, w)) \/ \E c \in Conns : PollConnect(c)
TcpSpec == TcpInit /\ [][TcpNext]_tcpVars /\ WF_tcpVars(Tasks)

-----------------------------------------------------------------------------
\* An accept task never sleeps over a connection of its worker, whatever
\* listeners of the port or the slot came before it.
AcceptorIsWoken ==
    \A l \in Listeners, w \in Workers :
        lis[l].pc = "live" /\ acc[l][w] = "asleep" /\ Queued(w, PortOf[l]) # {} => woken[l][w]
\* A live listener keeps its slot and its port, and a connect future whose
\* connection is decided has been woken.
ListenerKeepsPort ==
    /\ \A l \in Listeners : lis[l].pc = "live" => reg[lis[l].idx] = PortOf[l]
    /\ \A c \in Conns : conn[c].st \in {"established", "refused", "timedOut"} => conn[c].woken
\* No connection outlives its owner: what is neither queued for accept nor
\* held by a task or a future does not exist.
NoConnLeaks == \A c \in Conns : conn[c].st \notin {"none", "queued"} => conn[c].held
\* What a failed bind took it gives back.
FailedBindIsUndone ==
    \A l \in Listeners : lis[l].pc = "failed" =>
        \A i \in 1 .. NReg : reg[i] = PortOf[l] =>
            \E m \in Listeners : PortOf[m] = PortOf[l] /\ lis[m].idx = i /\ lis[m].pc \in {"clear", "listen", "live"}
=============================================================================
