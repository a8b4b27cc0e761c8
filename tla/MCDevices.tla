----------------------------- MODULE MCDevices -----------------------------
(***************************************************************************)
(* Below the sockets, each part on an instance of its own: the free list   *)
(* of buffer slots, the reactors of the sockets, the native backend, I/O   *)
(* buffers, the transmit and DQO receive rings of the drivers, the         *)
(* hypervisor host's TCP proxy, and the configuration of addresses.  A     *)
(* behaviour runs the part `part` names and leaves the others.             *)
(***************************************************************************)
EXTENDS TaggedTreiber, TLC

VARIABLES part,  \* the part that runs
  \* Reactors: udp, udp_two, tcp, tcp_late
  reg, table, ephPort, reactorsFree, reactorsNext, reactorsRing, waker, reactorsSock, recv, woken,
  reactorsGot, rx, cpu, reactorsCount, backend, parked, lis, acc, listening, conn,
  \* Native: native_udp, native_bind, native_tcp
  nativeSock, dispatch, sendfd, bindings, at, binds, came, nativeGot, sent, open, listeners, backlog, peer,
  conns, acceptor, task, unlistens,
  \* IoBuf: buffers, chains
  buf, ioBufMem, ioBufFree, ioBufCount, busy, view, ioBufChain, want, stash, frame, started, now,
  \* VirtioNet: virtio_tx
  q, inUse, virtioNetMem, virtioNetPc, slot, snap, mark, turn, lock, breaker, dev, virtioNetSeen, bell,
  frames, sub, virtioNetWire,
  \* Gve: dqo_tx, dqo_rx, dqo_rx_odd, gqi_tx
  fill, done, kicked, lastRe, gveRing, bounce, big, used, held, gveHead, gen, gveNext, compl, tail, dhead,
  pend, dcompl, gveWire, cons, post, gveChain, stale, drop, gveGot, arrived, gvePart, gveMem, counter, read,
  \* HvfProxy: proxy, proxy_in
  s, g, retx, ticks,
  \* Addresses: dhcp, slaac
  addressesPc, left, round, xid, lease, offerReady, ackReady, bound, handler, config, taken, net, reqs, acked,
  initialized, ll, globalSet, global, writer, reader

reactorsVars == <<reg, table, ephPort, reactorsFree, reactorsNext, reactorsRing, waker, reactorsSock, recv,
                  woken, reactorsGot, rx, cpu, reactorsCount, backend, parked, lis, acc, listening, conn>>
nativeVars == <<nativeSock, dispatch, sendfd, bindings, at, binds, came, nativeGot, sent, open, listeners,
                backlog, peer, conns, acceptor, task, unlistens>>
ioBufVars == <<buf, ioBufMem, ioBufFree, ioBufCount, busy, view, ioBufChain, want, stash, frame, started, now>>
virtioNetVars == <<q, inUse, virtioNetMem, virtioNetPc, slot, snap, mark, turn, lock, breaker, dev,
                   virtioNetSeen, bell, frames, sub, virtioNetWire>>
gveVars == <<fill, done, kicked, lastRe, gveRing, bounce, big, used, held, gveHead, gen, gveNext, compl, tail,
             dhead, pend, dcompl, gveWire, cons, post, gveChain, stale, drop, gveGot, arrived, gvePart,
             gveMem, counter, read>>
hvfProxyVars == <<s, g, retx, ticks>>
addressesVars == <<addressesPc, left, round, xid, lease, offerReady, ackReady, bound, handler, config, taken,
                   net, reqs, acked, initialized, ll, globalSet, global, writer, reader>>
MCVars == <<part, vars, reactorsVars, nativeVars, ioBufVars, virtioNetVars, gveVars, hvfProxyVars,
            addressesVars>>

\* The value of a variable that the running part does not use.
Off == "off"

\* The free list of a part that does not use it.
Order == CHOOSE o \in [1 .. Cardinality(Slots) -> Slots] : \A i, j \in DOMAIN o : i # j => o[i] # o[j]

Kinds == "a" :> "server" @@ "c" :> "eph" @@ "d" :> "eph"
Here == [x \in {"a", "b", "c", "d"} |-> 0]
SockPorts == "a" :> 1 @@ "c" :> 0 @@ "d" :> 0
OnePort == [x \in {"a", "b"} |-> 1]

\* One worker with sockets that are closed and reopened; two workers, on both
\* of which packets of one socket arrive while stores are delayed.
Udp == INSTANCE Reactors WITH
  free <- reactorsFree, next <- reactorsNext, ring <- reactorsRing, sock <- reactorsSock, got <- reactorsGot,
  count <- reactorsCount, N <- 1, Socks <- {"a", "c", "d"}, Kind <- Kinds, At <- Here, Port <- SockPorts,
  NReg <- 1, EphBase <- 10, EphMax <- 1, Cap <- 2, Arrivals <- {<<0, 1>>, <<0, 10>>}, MaxDgrams <- 2,
  Reorders <- FALSE, BindFails <- TRUE, Listeners <- Off, PortOf <- Off, BindAt <- Off, Conns <- Off,
  Ports <- Off, SpawnFails <- Off, BackendEarly <- Off
UdpTwo == INSTANCE Reactors WITH
  free <- reactorsFree, next <- reactorsNext, ring <- reactorsRing, sock <- reactorsSock, got <- reactorsGot,
  count <- reactorsCount, N <- 2, Socks <- {"a", "c"}, Kind <- Kinds, At <- Here, Port <- SockPorts,
  NReg <- 1, EphBase <- 10, EphMax <- 1, Cap <- 2, Arrivals <- {<<0, 1>>, <<1, 1>>, <<1, 10>>},
  MaxDgrams <- 2, Reorders <- TRUE, BindFails <- TRUE, Listeners <- Off, PortOf <- Off, BindAt <- Off,
  Conns <- Off, Ports <- Off, SpawnFails <- Off, BackendEarly <- Off
\* Two listeners of one port, one after the other; a backend that is registered
\* while they bind.
Tcp == INSTANCE Reactors WITH
  free <- reactorsFree, next <- reactorsNext, ring <- reactorsRing, sock <- reactorsSock, got <- reactorsGot,
  count <- reactorsCount, N <- 2, NReg <- 2, Listeners <- {"a", "b"}, PortOf <- OnePort, BindAt <- Here,
  Conns <- {1}, Ports <- {1}, SpawnFails <- TRUE, BackendEarly <- TRUE, Socks <- Off, Kind <- Off, At <- Off,
  Port <- Off, EphBase <- Off, EphMax <- Off, Cap <- Off, Arrivals <- Off, MaxDgrams <- Off, Reorders <- Off,
  BindFails <- Off
TcpLate == INSTANCE Reactors WITH
  free <- reactorsFree, next <- reactorsNext, ring <- reactorsRing, sock <- reactorsSock, got <- reactorsGot,
  count <- reactorsCount, N <- 2, NReg <- 1, Listeners <- {"a"}, PortOf <- OnePort, BindAt <- Here,
  Conns <- {1}, Ports <- {1}, SpawnFails <- FALSE, BackendEarly <- FALSE, Socks <- Off, Kind <- Off,
  At <- Off, Port <- Off, EphBase <- Off, EphMax <- Off, Cap <- Off, Arrivals <- Off, MaxDgrams <- Off,
  Reorders <- Off, BindFails <- Off
\* Two threads of the native backend with one port each and a shared one; a
\* thread that binds a server port itself; one connection each way.
NatUdp == INSTANCE Native WITH
  sock <- nativeSock, got <- nativeGot, Threads <- {0, 1}, Servers <- {1},
  Ephemeral <- [x \in {0, 1} |-> {10 + x}], Binders <- {}, Fds <- 1 .. 4, MaxBinds <- 2, MaxDgrams <- 2,
  MaxSends <- 1, Slots <- Off, In <- Off, Out <- Off, Bytes <- Off, SendCap <- Off, ListenCap <- Off,
  MaxUnlistens <- Off
NatBind == INSTANCE Native WITH
  sock <- nativeSock, got <- nativeGot, Threads <- {0, 1}, Servers <- {1},
  Ephemeral <- [x \in {0, 1} |-> {10 + x}], Binders <- {0}, Fds <- 1 .. 4, MaxBinds <- 2, MaxDgrams <- 1,
  MaxSends <- 1, Slots <- Off, In <- Off, Out <- Off, Bytes <- Off, SendCap <- Off, ListenCap <- Off,
  MaxUnlistens <- Off
NatTcp == INSTANCE Native WITH
  sock <- nativeSock, got <- nativeGot, Threads <- {0}, Fds <- 1 .. 4, Slots <- 1, In <- {"i"}, Out <- {"o"},
  Bytes <- 1, SendCap <- 1, ListenCap <- 2, MaxUnlistens <- 1, Servers <- Off, Ephemeral <- Off,
  Binders <- Off, MaxBinds <- Off, MaxDgrams <- Off, MaxSends <- Off
\* Two handles over one slab; chains of at most two parts.
Buf == INSTANCE IoBuf WITH
  mem <- ioBufMem, free <- ioBufFree, count <- ioBufCount, chain <- ioBufChain, Handles <- {"h1", "h2"},
  Slabs <- 1, SlabSize <- 1, Frames <- {<<1>>}, Pokes <- {<<2, 1>>}, StaticBytes <- <<3>>,
  Headroom <- 1, Tailroom <- 0, CountMod <- 8, Pieces <- {<< >>, <<1>>, <<2, 1>>}, PartHeadroom <- 1,
  MaxParts <- 2, Timeout <- 0, MaxTime <- 1
\* Two workers share a transmit queue of two.
Tx == INSTANCE VirtioNet WITH
  mem <- virtioNetMem, pc <- virtioNetPc, seen <- virtioNetSeen, wire <- virtioNetWire, QSize <- 2,
  IdxMod <- 4, MaxFrames <- 3, NumWorkers <- 2, Nqp <- 1, SmallSize <- 1, BigSize <- 0, dirty <- Off,
  cur <- Off, armed <- Off, irq <- Off, old <- Off, held <- Off, arrived <- Off, got <- Off, Bufs <- Off,
  Runts <- Off, EventIdx <- Off, IrqMasks <- Off, StoreBuffer <- Off, Bounded <- Off
\* A ring of eight that wraps.
Dqo == INSTANCE Gve WITH
  ring <- gveRing, head <- gveHead, next <- gveNext, wire <- gveWire, chain <- gveChain, got <- gveGot,
  part <- gvePart, mem <- gveMem, Ring <- 8, CountMod <- 16, DrainAt <- 6, NearFull <- 2, ReInterval <- 2,
  BigSlots <- 1, MaxBufs <- 2, Deferred <- TRUE, FetchAhead <- 1, MaxFrames <- 4, expected <- Off,
  page <- Off, dcons <- Off, dseq <- Off, dropped <- Off, masked <- Off, irq <- Off, core <- Off,
  MaxBatch <- Off, Droppers <- Off, MaxParts <- Off, MayBeEmpty <- Off, MayTimeOut <- Off, SmallSlots <- Off,
  ReportsHalf <- Off, MaxSeq <- Off, Slabs <- Off
\* Frames of at most two parts in a ring of four; a device that reports parts of
\* no length and a driver that gives up on a frame.
DqoRx == INSTANCE Gve WITH
  ring <- gveRing, head <- gveHead, next <- gveNext, wire <- gveWire, chain <- gveChain, got <- gveGot,
  part <- gvePart, mem <- gveMem, Ring <- 4, CountMod <- 8, MaxFrames <- 5, MaxBatch <- 2, Droppers <- {"c0"},
  MaxParts <- 2, MayBeEmpty <- FALSE, MayTimeOut <- FALSE, expected <- Off, page <- Off, dcons <- Off,
  dseq <- Off, dropped <- Off, masked <- Off, irq <- Off, core <- Off, DrainAt <- Off, NearFull <- Off,
  ReInterval <- Off, BigSlots <- Off, MaxBufs <- Off, Deferred <- Off, FetchAhead <- Off, SmallSlots <- Off,
  ReportsHalf <- Off, MaxSeq <- Off, Slabs <- Off
DqoRxOdd == INSTANCE Gve WITH
  ring <- gveRing, head <- gveHead, next <- gveNext, wire <- gveWire, chain <- gveChain, got <- gveGot,
  part <- gvePart, mem <- gveMem, Ring <- 4, CountMod <- 8, MaxFrames <- 3, MaxBatch <- 2, Droppers <- {"c0"},
  MaxParts <- 2, MayBeEmpty <- TRUE, MayTimeOut <- TRUE, expected <- Off, page <- Off, dcons <- Off,
  dseq <- Off, dropped <- Off, masked <- Off, irq <- Off, core <- Off, DrainAt <- Off, NearFull <- Off,
  ReInterval <- Off, BigSlots <- Off, MaxBufs <- Off, Deferred <- Off, FetchAhead <- Off, SmallSlots <- Off,
  ReportsHalf <- Off, MaxSeq <- Off, Slabs <- Off
GqiTx == INSTANCE Gve WITH
  ring <- gveRing, head <- gveHead, next <- gveNext, wire <- gveWire, chain <- gveChain, got <- gveGot,
  part <- gvePart, mem <- gveMem, Ring <- 4, CountMod <- 8, NearFull <- 1, BigSlots <- 2, Deferred <- TRUE,
  MaxFrames <- 5, SmallSlots <- 2, ReportsHalf <- FALSE, expected <- Off, page <- Off, dcons <- Off,
  dseq <- Off, dropped <- Off, masked <- Off, irq <- Off, core <- Off, DrainAt <- Off, ReInterval <- Off,
  MaxBufs <- Off, FetchAhead <- Off, MaxBatch <- Off, Droppers <- Off, MaxParts <- Off, MayBeEmpty <- Off,
  MayTimeOut <- Off, MaxSeq <- Off, Slabs <- Off
\* A connection the guest opens; one the host opens, with failures.
Proxy == INSTANCE HvfProxy WITH
  In <- {}, Out <- {"o"}, Mss <- 1, RingSize <- 1, MaxOutbound <- 1, WordMod <- 8, ProxyIsn <- 6,
  GuestIsn <- 5, HostLen <- 2, GuestLen <- 2, Coalesces <- FALSE, MaxRetx <- 0, MayAbort <- FALSE,
  MayFail <- FALSE, MaxTicks <- 0, StartsReady <- TRUE
ProxyIn == INSTANCE HvfProxy WITH
  In <- {"i"}, Out <- {}, Mss <- 1, RingSize <- 1, MaxOutbound <- 1, WordMod <- 8, ProxyIsn <- 6,
  GuestIsn <- 5, HostLen <- 1, GuestLen <- 1, Coalesces <- FALSE, MaxRetx <- 0, MayAbort <- TRUE,
  MayFail <- TRUE, MaxTicks <- 1, StartsReady <- TRUE
\* One server whose answers are repeated; two cores that hear two prefixes.
Dhcp == INSTANCE Addresses WITH
  pc <- addressesPc, Workers <- {"w1", "w2"}, Servers <- {"a"}, Attempts <- 2, Rounds <- 1, BareAcks <- TRUE,
  MayDup <- TRUE, NetCap <- 2, Cores <- Off, Prefixes <- Off, Frames <- Off
Slaac == INSTANCE Addresses WITH
  pc <- addressesPc, Cores <- {"c1", "c2"}, Prefixes <- {"p", "q"}, Frames <- 2, Workers <- Off,
  Servers <- Off, Attempts <- Off, Rounds <- Off, BareAcks <- Off, MayDup <- Off, NetCap <- Off

reactorsInit ==
  IF part = "udp" THEN Udp!UdpInit /\ backend = Off /\ parked = Off /\ lis = Off /\ acc = Off /\
        listening = Off /\ conn = Off
  ELSE IF part = "udp_two" THEN UdpTwo!UdpInit /\ backend = Off /\ parked = Off /\ lis = Off /\ acc = Off /\
        listening = Off /\ conn = Off
  ELSE IF part = "tcp" THEN Tcp!TcpInit /\ table = Off /\ ephPort = Off /\ reactorsFree = Off /\
        reactorsNext = Off /\ reactorsRing = Off /\ waker = Off /\ reactorsSock = Off /\ recv = Off /\
        reactorsGot = Off /\ rx = Off /\ cpu = Off /\ reactorsCount = Off
  ELSE IF part = "tcp_late" THEN TcpLate!TcpInit /\ table = Off /\ ephPort = Off /\ reactorsFree = Off /\
        reactorsNext = Off /\ reactorsRing = Off /\ waker = Off /\ reactorsSock = Off /\ recv = Off /\
        reactorsGot = Off /\ rx = Off /\ cpu = Off /\ reactorsCount = Off
  ELSE reg = Off /\ table = Off /\ ephPort = Off /\ reactorsFree = Off /\ reactorsNext = Off /\
       reactorsRing = Off /\ waker = Off /\ reactorsSock = Off /\ recv = Off /\ woken = Off /\
       reactorsGot = Off /\ rx = Off /\ cpu = Off /\ reactorsCount = Off /\ backend = Off /\ parked = Off /\
       lis = Off /\ acc = Off /\ listening = Off /\ conn = Off

nativeInit ==
  IF part = "native_udp" THEN NatUdp!UdpInit /\ open = Off /\ listeners = Off /\ backlog = Off /\
        peer = Off /\ conns = Off /\ acceptor = Off /\ task = Off /\ unlistens = Off
  ELSE IF part = "native_bind" THEN NatBind!UdpInit /\ open = Off /\ listeners = Off /\ backlog = Off /\
        peer = Off /\ conns = Off /\ acceptor = Off /\ task = Off /\ unlistens = Off
  ELSE IF part = "native_tcp" THEN NatTcp!TcpInit /\ nativeSock = Off /\ dispatch = Off /\ sendfd = Off /\
        bindings = Off /\ at = Off /\ binds = Off /\ came = Off /\ nativeGot = Off /\ sent = Off
  ELSE nativeSock = Off /\ dispatch = Off /\ sendfd = Off /\ bindings = Off /\ at = Off /\ binds = Off /\
       came = Off /\ nativeGot = Off /\ sent = Off /\ open = Off /\ listeners = Off /\ backlog = Off /\
       peer = Off /\ conns = Off /\ acceptor = Off /\ task = Off /\ unlistens = Off

ioBufInit ==
  IF part = "buffers" THEN Buf!Init /\ ioBufChain = Off /\ want = Off /\ stash = Off /\ frame = Off /\
        started = Off /\ now = Off
  ELSE IF part = "chains" THEN Buf!ChainInit /\ buf = Off /\ ioBufMem = Off /\ ioBufFree = Off /\
        ioBufCount = Off /\ busy = Off /\ view = Off
  ELSE buf = Off /\ ioBufMem = Off /\ ioBufFree = Off /\ ioBufCount = Off /\ busy = Off /\ view = Off /\
       ioBufChain = Off /\ want = Off /\ stash = Off /\ frame = Off /\ started = Off /\ now = Off

virtioNetInit ==
  IF part = "virtio_tx" THEN Tx!TxInit
  ELSE q = Off /\ inUse = Off /\ virtioNetMem = Off /\ virtioNetPc = Off /\ slot = Off /\ snap = Off /\
       mark = Off /\ turn = Off /\ lock = Off /\ breaker = Off /\ dev = Off /\ virtioNetSeen = Off /\
       bell = Off /\ frames = Off /\ sub = Off /\ virtioNetWire = Off

gveInit ==
  IF part = "dqo_tx" THEN Dqo!DqoTxInit /\ cons = Off /\ post = Off /\ gveChain = Off /\ stale = Off /\
        drop = Off /\ gveGot = Off /\ arrived = Off /\ gvePart = Off /\ gveMem = Off /\ counter = Off /\
        read = Off
  ELSE IF part = "dqo_rx" THEN DqoRx!DqoRxInit /\ done = Off /\ kicked = Off /\ lastRe = Off /\
        gveRing = Off /\ bounce = Off /\ big = Off /\ used = Off /\ gveHead = Off /\ gveNext = Off /\
        pend = Off /\ gveWire = Off /\ gveMem = Off /\ counter = Off /\ read = Off
  ELSE IF part = "dqo_rx_odd" THEN DqoRxOdd!DqoRxInit /\ done = Off /\ kicked = Off /\ lastRe = Off /\
        gveRing = Off /\ bounce = Off /\ big = Off /\ used = Off /\ gveHead = Off /\ gveNext = Off /\
        pend = Off /\ gveWire = Off /\ gveMem = Off /\ counter = Off /\ read = Off
  ELSE IF part = "gqi_tx" THEN GqiTx!GqiTxInit /\ lastRe = Off /\ bounce = Off /\ big = Off /\
        gveHead = Off /\ gen = Off /\ compl = Off /\ dhead = Off /\ pend = Off /\ dcompl = Off /\
        cons = Off /\ post = Off /\ gveChain = Off /\ stale = Off /\ drop = Off /\ gveGot = Off /\
        arrived = Off /\ gvePart = Off
  ELSE fill = Off /\ done = Off /\ kicked = Off /\ lastRe = Off /\ gveRing = Off /\ bounce = Off /\
       big = Off /\ used = Off /\ held = Off /\ gveHead = Off /\ gen = Off /\ gveNext = Off /\ compl = Off /\
       tail = Off /\ dhead = Off /\ pend = Off /\ dcompl = Off /\ gveWire = Off /\ cons = Off /\ post = Off /\
       gveChain = Off /\ stale = Off /\ drop = Off /\ gveGot = Off /\ arrived = Off /\ gvePart = Off /\
       gveMem = Off /\ counter = Off /\ read = Off

hvfProxyInit ==
  IF part = "proxy" THEN Proxy!Init
  ELSE IF part = "proxy_in" THEN ProxyIn!Init
  ELSE s = Off /\ g = Off /\ retx = Off /\ ticks = Off

addressesInit ==
  IF part = "dhcp" THEN Dhcp!DhcpInit /\ initialized = Off /\ ll = Off /\ globalSet = Off /\ global = Off /\
        writer = Off /\ reader = Off
  ELSE IF part = "slaac" THEN Slaac!SlaacInit /\ addressesPc = Off /\ round = Off /\ xid = Off /\
        lease = Off /\ offerReady = Off /\ ackReady = Off /\ bound = Off /\ handler = Off /\ config = Off /\
        taken = Off /\ net = Off /\ reqs = Off /\ acked = Off
  ELSE addressesPc = Off /\ left = Off /\ round = Off /\ xid = Off /\ lease = Off /\ offerReady = Off /\
       ackReady = Off /\ bound = Off /\ handler = Off /\ config = Off /\ taken = Off /\ net = Off /\
       reqs = Off /\ acked = Off /\ initialized = Off /\ ll = Off /\ globalSet = Off /\ global = Off /\
       writer = Off /\ reader = Off

MCInit ==
  /\ part \in {"free_list", "udp", "udp_two", "tcp", "tcp_late", "native_udp", "native_bind", "native_tcp",
               "buffers", "chains", "virtio_tx", "dqo_tx", "dqo_rx", "dqo_rx_odd", "gqi_tx", "proxy",
               "proxy_in", "dhcp", "slaac"}
  /\ Init /\ (part # "free_list" => stack = Order)
  /\ reactorsInit
  /\ nativeInit
  /\ ioBufInit
  /\ virtioNetInit
  /\ gveInit
  /\ hvfProxyInit
  /\ addressesInit

MCNext ==
  /\ part' = part
  /\ \/ /\ part = "free_list" /\ Next
        /\ UNCHANGED <<reactorsVars, nativeVars, ioBufVars, virtioNetVars, gveVars, hvfProxyVars,
                       addressesVars>>
     \/ /\ part = "udp" /\ Udp!UdpNext
        /\ UNCHANGED <<backend, parked, lis, acc, listening, conn, vars, nativeVars, ioBufVars, virtioNetVars,
                       gveVars, hvfProxyVars, addressesVars>>
     \/ /\ part = "udp_two" /\ UdpTwo!UdpNext
        /\ UNCHANGED <<backend, parked, lis, acc, listening, conn, vars, nativeVars, ioBufVars, virtioNetVars,
                       gveVars, hvfProxyVars, addressesVars>>
     \/ /\ part = "tcp" /\ Tcp!TcpNext
        /\ UNCHANGED <<table, ephPort, reactorsFree, reactorsNext, reactorsRing, waker, reactorsSock, recv,
                       reactorsGot, rx, cpu, reactorsCount, vars, nativeVars, ioBufVars, virtioNetVars,
                       gveVars, hvfProxyVars, addressesVars>>
     \/ /\ part = "tcp_late" /\ TcpLate!TcpNext
        /\ UNCHANGED <<table, ephPort, reactorsFree, reactorsNext, reactorsRing, waker, reactorsSock, recv,
                       reactorsGot, rx, cpu, reactorsCount, vars, nativeVars, ioBufVars, virtioNetVars,
                       gveVars, hvfProxyVars, addressesVars>>
     \/ /\ part = "native_udp" /\ NatUdp!UdpNext
        /\ UNCHANGED <<open, listeners, backlog, peer, conns, acceptor, task, unlistens, vars, reactorsVars,
                       ioBufVars, virtioNetVars, gveVars, hvfProxyVars, addressesVars>>
     \/ /\ part = "native_bind" /\ NatBind!UdpNext
        /\ UNCHANGED <<open, listeners, backlog, peer, conns, acceptor, task, unlistens, vars, reactorsVars,
                       ioBufVars, virtioNetVars, gveVars, hvfProxyVars, addressesVars>>
     \/ /\ part = "native_tcp" /\ NatTcp!TcpNext
        /\ UNCHANGED <<nativeSock, dispatch, sendfd, bindings, at, binds, came, nativeGot, sent, vars,
                       reactorsVars, ioBufVars, virtioNetVars, gveVars, hvfProxyVars, addressesVars>>
     \/ /\ part = "buffers" /\ Buf!Next
        /\ UNCHANGED <<ioBufChain, want, stash, frame, started, now, vars, reactorsVars, nativeVars,
                       virtioNetVars, gveVars, hvfProxyVars, addressesVars>>
     \/ /\ part = "chains" /\ Buf!ChainNext
        /\ UNCHANGED <<buf, ioBufMem, ioBufFree, ioBufCount, busy, view, vars, reactorsVars, nativeVars,
                       virtioNetVars, gveVars, hvfProxyVars, addressesVars>>
     \/ /\ part = "virtio_tx" /\ Tx!TxNext
        /\ UNCHANGED <<vars, reactorsVars, nativeVars, ioBufVars, gveVars, hvfProxyVars, addressesVars>>
     \/ /\ part = "dqo_tx" /\ Dqo!DqoTxNext
        /\ UNCHANGED <<cons, post, gveChain, stale, drop, gveGot, arrived, gvePart, gveMem, counter, read,
                       vars, reactorsVars, nativeVars, ioBufVars, virtioNetVars, hvfProxyVars, addressesVars>>
     \/ /\ part = "dqo_rx" /\ DqoRx!DqoRxNext
        /\ UNCHANGED <<done, kicked, lastRe, gveRing, bounce, big, used, gveHead, gveNext, pend, gveWire,
                       gveMem, counter, read, vars, reactorsVars, nativeVars, ioBufVars, virtioNetVars,
                       hvfProxyVars, addressesVars>>
     \/ /\ part = "dqo_rx_odd" /\ DqoRxOdd!DqoRxNext
        /\ UNCHANGED <<done, kicked, lastRe, gveRing, bounce, big, used, gveHead, gveNext, pend, gveWire,
                       gveMem, counter, read, vars, reactorsVars, nativeVars, ioBufVars, virtioNetVars,
                       hvfProxyVars, addressesVars>>
     \/ /\ part = "gqi_tx" /\ GqiTx!GqiTxNext
        /\ UNCHANGED <<lastRe, bounce, big, gveHead, gen, compl, dhead, pend, dcompl, cons, post, gveChain,
                       stale, drop, gveGot, arrived, gvePart, vars, reactorsVars, nativeVars, ioBufVars,
                       virtioNetVars, hvfProxyVars, addressesVars>>
     \/ /\ part = "proxy" /\ Proxy!Next
        /\ UNCHANGED <<vars, reactorsVars, nativeVars, ioBufVars, virtioNetVars, gveVars, addressesVars>>
     \/ /\ part = "proxy_in" /\ ProxyIn!Next
        /\ UNCHANGED <<vars, reactorsVars, nativeVars, ioBufVars, virtioNetVars, gveVars, addressesVars>>
     \/ /\ part = "dhcp" /\ Dhcp!DhcpNext
        /\ UNCHANGED <<initialized, ll, globalSet, global, writer, reader, vars, reactorsVars, nativeVars,
                       ioBufVars, virtioNetVars, gveVars, hvfProxyVars>>
     \/ /\ part = "slaac" /\ Slaac!SlaacNext
        /\ UNCHANGED <<addressesPc, round, xid, lease, offerReady, ackReady, bound, handler, config, taken,
                       net, reqs, acked, vars, reactorsVars, nativeVars, ioBufVars, virtioNetVars, gveVars,
                       hvfProxyVars>>

MCSpec == MCInit /\ [][MCNext]_MCVars

-----------------------------------------------------------------------------
\* Sockets: a UDP socket keeps its port and receives what came for it in order,
\* and its receiver does not sleep over a datagram; an accept task does not
\* sleep over a connection, a listener keeps its port, no connection is left
\* without an owner and a bind that fails leaves nothing behind; the native
\* backend's descriptors are its own and whoever waits is watched; an address
\* is one that a server acknowledged, and a SLAAC address is read whole.
SocketsExact ==
  /\ part = "udp" => /\ Udp!PortIsHeld /\ Udp!ReceivesInOrder /\ Udp!NobodySleepsOverDatagram
                     /\ Udp!RefusedOnlyWhenFull /\ Udp!InboxReady /\ Udp!OneSocketPerPort
  /\ part = "udp_two" => UdpTwo!PortIsHeld /\ UdpTwo!ReceivesInOrder /\ UdpTwo!NextDatagramWakes
  /\ part = "tcp" => Tcp!AcceptorIsWoken /\ Tcp!ListenerKeepsPort /\ Tcp!NoConnLeaks /\ Tcp!FailedBindIsUndone
  /\ part = "tcp_late" => TcpLate!AcceptorIsWoken /\ TcpLate!ListenerKeepsPort /\ TcpLate!NoConnLeaks
  /\ part = "native_udp" => NatUdp!UdpKeepsItsPort /\ NatUdp!UdpSocketsExact /\ NatUdp!DispatchIsOwn
  /\ part = "native_bind" => NatBind!UdpSocketsExact
  /\ part = "native_tcp" => NatTcp!NativeEofIsEnd /\ NatTcp!NativeWaiterIsWatched /\ NatTcp!NativeDescriptorsExact
  /\ part = "dhcp" => Dhcp!ConfigIsAcked
  /\ part = "slaac" => Slaac!AddressIsWhole

\* Buffers and rings: a buffer is a value whatever other handles do, slabs are
\* conserved and a chain is the string of its parts; what is sent goes onto the
\* wire once and as it was, ring and pool agree, and every buffer has one owner;
\* the proxy passes each byte on once, in order, and acknowledges no other.
DevicesExact ==
  /\ part = "buffers" => Buf!BufferIsAValue /\ Buf!SlabsConserved
  /\ part = "chains" => Buf!ChainIsItsString /\ Buf!PullIsContiguous
  /\ part = "virtio_tx" => Tx!WireExact /\ Tx!TxBooksBalance /\ Tx!NoFrameLeftBehind
  /\ part = "dqo_tx" => Dqo!GveWireExact /\ Dqo!GveTxUnsticks
  /\ part = "dqo_rx" => DqoRx!BufferHasOneOwner /\ DqoRx!GveRingIsFed /\ DqoRx!GveFramesWhole
  /\ part = "dqo_rx_odd" => DqoRxOdd!BufferHasOneOwner
  /\ part = "gqi_tx" => GqiTx!GqiWireExact /\ GqiTx!GqiSlotsExact
  /\ part = "proxy" => /\ Proxy!HostBytesKept /\ Proxy!EofIsLast /\ Proxy!HostStreamExact
                       /\ Proxy!AckedIsDelivered /\ Proxy!DescriptorsOwned
  /\ part = "proxy_in" => ProxyIn!HostBytesKept /\ ProxyIn!EofIsLast /\ ProxyIn!DescriptorsOwned
=============================================================================
