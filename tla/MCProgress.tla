---------------------------- MODULE MCProgress -----------------------------
(***************************************************************************)
(* The parts in which someone waits for an answer, each on an instance of  *)
(* its own: HTTP/3 exchanges, the hypervisor host's UDP relay and vCPU     *)
(* threads, the console, and the receive rings of virtio-net and gve       *)
(* (GQI).  A behaviour runs the part `part` names and leaves the others as *)
(* they start.                                                             *)
(***************************************************************************)
EXTENDS Integers, Sequences, FiniteSets, TLC

VARIABLES part,  \* the part that runs
  \* Http3: http3, http3_fail
  up, down, failed, goaway, opened, http3Srv, http3Cli,
  \* HvfHost: hvf_udp
  sent, sock, lis, known, fwd, pipe, kick, at, ring, replies, flow, relayGot, answered,
  \* HvfHost: hvf_vm
  running, info, handle, shutdown, cpu, vmAt, arg, vmKick, timer, vmMasked, pending, freed,
  \* Console: console, console_irq
  lock, todo, bol, early, pend, backend, log, tx, txmem, host, rx, rxmem, rxbuf, typed, consoleGot, reader,
  shut,
  \* VirtioNet: virtio_rx, virtio_rx_stores
  q, dirty, pc, cur, armed, virtioNetIrq, dev, seen, old, bell, mem, virtioNetHeld, virtioNetArrived,
  virtioNetGot,
  \* Gve: gqi_rx
  fill, cons, expected, compl, page, dcons, dseq, gveArrived, tail, gveHeld, dropped, gveGot, gveMasked,
  gveIrq, core

http3Vars == <<up, down, failed, goaway, opened, http3Srv, http3Cli>>
relayVars == <<sent, sock, lis, known, fwd, pipe, kick, at, ring, replies, flow, relayGot, answered>>
vmVars == <<running, info, handle, shutdown, cpu, vmAt, arg, vmKick, timer, vmMasked, pending, freed>>
consoleVars == <<lock, todo, bol, early, pend, backend, log, tx, txmem, host, rx, rxmem, rxbuf, typed,
                 consoleGot, reader, shut>>
virtioNetVars == <<q, dirty, pc, cur, armed, virtioNetIrq, dev, seen, old, bell, mem, virtioNetHeld,
                   virtioNetArrived, virtioNetGot>>
gveVars == <<fill, cons, expected, compl, page, dcons, dseq, gveArrived, tail, gveHeld, dropped, gveGot,
             gveMasked, gveIrq, core>>
MCVars == <<part, http3Vars, relayVars, vmVars, consoleVars, virtioNetVars, gveVars>>

\* The value of a variable that the running part does not use.
Off == "off"

Script == 0 :> << <<"a", "nl">>, <<"upgrade">>, <<"flush">>, <<"b">> >> @@ 1 :> << <<"x", "y", "nl">> >>
Typed == <<"k1", "k2", "k3", "ctrlc">>

\* The connection window is smaller than the two requests together.
H3 == INSTANCE Http3 WITH
  srv <- http3Srv, cli <- http3Cli, Requests <- 2, BodyLen <- 2, ReplyLens <- {0, 2}, Chunk <- 2,
  ConnWindow <- 3, SendCap <- 2, BodyCap <- 2, Plans <- {"read"}, HandlersFail <- TRUE, MayFail <- FALSE,
  MayGoAway <- TRUE
\* A connection that fails under the request.
H3Fail == INSTANCE Http3 WITH
  srv <- http3Srv, cli <- http3Cli, Requests <- 1, BodyLen <- 2, ReplyLens <- {0, 2}, Chunk <- 2,
  ConnWindow <- 3, SendCap <- 2, BodyCap <- 2, Plans <- {"read"}, HandlersFail <- TRUE, MayFail <- TRUE,
  MayGoAway <- TRUE
\* Two clients of one vCPU with a ring of one; a VM of two vCPUs of which one
\* starts the other.
Host == INSTANCE HvfHost WITH
  got <- relayGot, masked <- vmMasked, VCpus <- {"v0"}, Clients <- {"a", "c"}, PortOf <- "a" :> 1 @@ "c" :> 3,
  TargetOf <- "a" :> "v0" @@ "c" :> "v0", Services <- {"s"}, PerClient <- 1, MaxAsks <- 1, RingSize <- 1,
  Cpus <- 2, Callers <- {0}, MaxThreads <- 1, MayFail <- TRUE
\* Two cores print across the switch of back ends, while keys are typed.
Con == INSTANCE Console WITH
  got <- consoleGot, Cores <- {0, 1}, Script <- Script, LineCap <- 3, EarlyCap <- 9, TxChunk <- 2, ConQs <- 2,
  Qmax <- 2, Pci <- TRUE, IdxMod <- 4, Typed <- Typed, IrqReads <- FALSE
\* The interrupt handler reads keys as well.
ConIrq == INSTANCE Console WITH
  got <- consoleGot, Cores <- {0, 1}, Script <- [Script EXCEPT ![1] = << >>], LineCap <- 3, EarlyCap <- 9,
  TxChunk <- 2, ConQs <- 2, Qmax <- 2, Pci <- TRUE, IdxMod <- 4, Typed <- <<"k1", "ctrlc">>, IrqReads <- TRUE
\* A ring of two buffers whose indices wrap at four, and a runt frame.
Rx == INSTANCE VirtioNet WITH
  irq <- virtioNetIrq, held <- virtioNetHeld, arrived <- virtioNetArrived, got <- virtioNetGot, QSize <- 2,
  IdxMod <- 4, Bufs <- 2, MaxFrames <- 4, Runts <- {2}, EventIdx <- TRUE, IrqMasks <- FALSE,
  StoreBuffer <- FALSE, Bounded <- TRUE, inUse <- Off, slot <- Off, snap <- Off, mark <- Off, turn <- Off,
  lock <- Off, breaker <- Off, frames <- Off, sub <- Off, wire <- Off, NumWorkers <- Off, Nqp <- Off,
  SmallSize <- Off, BigSize <- Off
\* Stores that reach the device late.
RxStores == INSTANCE VirtioNet WITH
  irq <- virtioNetIrq, held <- virtioNetHeld, arrived <- virtioNetArrived, got <- virtioNetGot, QSize <- 2,
  IdxMod <- 4, Bufs <- 2, MaxFrames <- 2, Runts <- {}, EventIdx <- TRUE, IrqMasks <- FALSE,
  StoreBuffer <- TRUE, Bounded <- TRUE, inUse <- Off, slot <- Off, snap <- Off, mark <- Off, turn <- Off,
  lock <- Off, breaker <- Off, frames <- Off, sub <- Off, wire <- Off, NumWorkers <- Off, Nqp <- Off,
  SmallSize <- Off, BigSize <- Off
\* A ring of two and sequence numbers that wrap at three.
Gqi == INSTANCE Gve WITH
  arrived <- gveArrived, held <- gveHeld, got <- gveGot, masked <- gveMasked, irq <- gveIrq, Ring <- 2,
  CountMod <- 4, MaxFrames <- 6, MaxBatch <- 2, MaxSeq <- 3, Slabs <- 2, done <- Off, kicked <- Off,
  lastRe <- Off, ring <- Off, bounce <- Off, big <- Off, used <- Off, head <- Off, gen <- Off, next <- Off,
  dhead <- Off, pend <- Off, dcompl <- Off, wire <- Off, post <- Off, chain <- Off, stale <- Off, drop <- Off,
  part <- Off, mem <- Off, counter <- Off, read <- Off, DrainAt <- Off, NearFull <- Off, ReInterval <- Off,
  BigSlots <- Off, MaxBufs <- Off, Deferred <- Off, FetchAhead <- Off, Droppers <- Off, MaxParts <- Off,
  MayBeEmpty <- Off, MayTimeOut <- Off, SmallSlots <- Off, ReportsHalf <- Off

MCInit ==
  /\ part \in {"http3", "http3_fail", "hvf_udp", "hvf_vm", "console", "console_irq",
               "virtio_rx", "virtio_rx_stores", "gqi_rx"}
  /\ IF part = "http3_fail" THEN H3Fail!Init ELSE H3!Init
  /\ Host!UdpInit
  /\ Host!VmInit
  /\ IF part = "console_irq" THEN ConIrq!Init ELSE Con!Init
  /\ IF part = "virtio_rx_stores" THEN RxStores!RxInit ELSE Rx!RxInit
  /\ Gqi!GqiRxInit

MCNext ==
  /\ part' = part
  /\ \/ /\ part = "http3" /\ H3!Next
        /\ UNCHANGED <<relayVars, vmVars, consoleVars, virtioNetVars, gveVars>>
     \/ /\ part = "http3_fail" /\ H3Fail!Next
        /\ UNCHANGED <<relayVars, vmVars, consoleVars, virtioNetVars, gveVars>>
     \/ /\ part = "hvf_udp" /\ Host!UdpNext
        /\ UNCHANGED <<http3Vars, vmVars, consoleVars, virtioNetVars, gveVars>>
     \/ /\ part = "hvf_vm" /\ Host!VmNext
        /\ UNCHANGED <<http3Vars, relayVars, consoleVars, virtioNetVars, gveVars>>
     \/ /\ part = "console" /\ Con!Next
        /\ UNCHANGED <<http3Vars, relayVars, vmVars, virtioNetVars, gveVars>>
     \/ /\ part = "console_irq" /\ ConIrq!Next
        /\ UNCHANGED <<http3Vars, relayVars, vmVars, virtioNetVars, gveVars>>
     \/ /\ part = "virtio_rx" /\ Rx!RxNext
        /\ UNCHANGED <<http3Vars, relayVars, vmVars, consoleVars, gveVars>>
     \/ /\ part = "virtio_rx_stores" /\ RxStores!RxNext
        /\ UNCHANGED <<http3Vars, relayVars, vmVars, consoleVars, gveVars>>
     \/ /\ part = "gqi_rx" /\ Gqi!GqiRxNext
        /\ UNCHANGED <<http3Vars, relayVars, vmVars, consoleVars, virtioNetVars>>

\* The fairness of the parts, as their modules state it.
MCSpec ==
  /\ MCInit /\ [][MCNext]_MCVars
  /\ WF_http3Vars(part = "http3" /\ H3!Server) /\ WF_http3Vars(part = "http3" /\ H3!Client)
  /\ \A s \in H3!Sids : WF_http3Vars(part = "http3" /\ H3!ArriveUp(s)) /\ WF_http3Vars(part = "http3" /\ H3!ArriveDown(s))
  /\ WF_relayVars(part = "hvf_udp" /\ Host!Listener) /\ WF_relayVars(part = "hvf_udp" /\ Host!Thread("v0")) /\ WF_relayVars(part = "hvf_udp" /\ Host!GuestRecv("v0"))
  /\ \A t \in Host!Threads : WF_vmVars(part = "hvf_vm" /\ Host!Loop(t))
  /\ WF_consoleVars(part = "console" /\ Con!Writing) /\ WF_consoleVars(part = "console" /\ Con!Reading)
  /\ WF_consoleVars(part = "console_irq" /\ ConIrq!Writing) /\ WF_consoleVars(part = "console_irq" /\ ConIrq!Reading)
  /\ WF_virtioNetVars(part = "virtio_rx" /\ (Rx!Harvest \/ Rx!Runt \/ Rx!EndOfPoll \/ Rx!Arm \/ Rx!Check))
  /\ WF_virtioNetVars(part = "virtio_rx" /\ Rx!Drain) /\ WF_virtioNetVars(part = "virtio_rx" /\ Rx!Interrupt) /\ WF_virtioNetVars(part = "virtio_rx" /\ Rx!Timer)
  /\ WF_virtioNetVars(part = "virtio_rx" /\ (Rx!DevFill \/ Rx!DevSignal \/ Rx!RxDevStarve \/ Rx!RxDevRecheck))
  /\ WF_virtioNetVars(part = "virtio_rx" /\ Rx!RxDevBell)
  /\ WF_gveVars(part = "gqi_rx" /\ Gqi!gqi_poll_qp_inner) /\ WF_gveVars(part = "gqi_rx" /\ Gqi!gve_rx_isr)

-----------------------------------------------------------------------------
\* HTTP/3: a response that is reported complete is, a body arrives whole and
\* the connection's receive window comes back; with a connection that may
\* fail, a response that ends short was cut off by that.
ExchangeExact ==
  /\ part = "http3" => H3!OkIsComplete /\ H3!BodyIsWhole /\ H3!WindowRestored
  /\ part = "http3_fail" => failed \/ H3Fail!OkIsComplete

\* The host: a client's datagrams reach the guest in order, an answer reaches
\* who asked under the address it asked; nobody misses the shutdown, a vCPU
\* has one thread and no timer interrupt is swallowed.  The console's log is
\* what was printed, in order and each line whole, keys are read in order and
\* no receive descriptor is lost.
HostExact ==
  /\ part = "hvf_udp" => Host!FlowInOrder /\ Host!AnswerReachesAsker /\ Host!AnswerNamesItsService
  /\ part = "hvf_vm" => Host!NobodyMissesOff /\ Host!OneThreadPerVcpu /\ Host!TimerNotSwallowed
  /\ part = "console" => Con!LogInOrder /\ Con!KeysInOrder /\ Con!DescriptorsPosted
  /\ part = "console_irq" => ConIrq!LogInOrder

\* The receive rings: the books of ring and pool balance, frames come out once
\* and in order, and the driver does not sleep over one.
RxRingsExact ==
  /\ part = "virtio_rx" => Rx!RxBooksBalance /\ Rx!FramesInOrder /\ Rx!NoSleepOverFrame
  /\ part = "virtio_rx_stores" => RxStores!RxBooksBalance /\ RxStores!FramesInOrder
  /\ part = "gqi_rx" => Gqi!GqiFramesExact

\* Exchanges end, clients are answered, the VM stops when it is told to,
\* ctrl-C is seen, and a receive ring is refilled and its frames are taken.
AnswersCome ==
  /\ part = "http3" => H3!RequestsEnd
  /\ part = "hvf_udp" => Host!EveryoneAnswered
  /\ part = "hvf_vm" => Host!OffEnds
  /\ part = "console" => Con!CtrlCIsSeen
  /\ part = "virtio_rx" => Rx!RingIsFed
  /\ part = "gqi_rx" => Gqi!GqiFramesEnd
=============================================================================
