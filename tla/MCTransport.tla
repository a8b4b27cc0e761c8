---------------------------- MODULE MCTransport ----------------------------
(***************************************************************************)
(* The transport protocols, each part on an instance of its own: a TCP     *)
(* connection and the pool of TCP slots, a QUIC connection between two     *)
(* endpoints in its handshake and in its transfer, and the tables, egress  *)
(* scheduler and keys of the QUIC endpoint.  A behaviour runs the part     *)
(* `part` names and leaves the others as they start.                       *)
(***************************************************************************)
EXTENDS Integers, Sequences, FiniteSets

VARIABLES part, plan,  \* the part that runs, and the plan of a connection
  \* TcpConn: tcp, tcp_window, tcp_faults
  tcpConnConn, tcpConnWrote, tcpConnGot, eof, incs, tcpConnNet, tcpConnDups,
  \* TcpPool: tcp_pool
  pool, handles,
  \* QuicConn: quic, quic_reset, quic_handshake, quic_owner
  quicConnConn, watch, quicConnNet, quicConnDups, lost, quicConnWrote, quicConnGot, ended,
  \* QuicEndpoint: quic_egress
  active, deficit, scheduled, ring, ship, free, flow, out, data, open, drain,
  \* QuicEndpoint: quic_slots, quic_keys
  slots, freeHead, perIp, initialDcids, live, slotsConn, nextTask, recv, prev, send, peer, confirmed, sent,
  slotsNet, opened, ours

tcpConnVars == <<tcpConnConn, tcpConnWrote, tcpConnGot, eof, incs, tcpConnNet, tcpConnDups>>
tcpPoolVars == <<pool, handles>>
quicConnVars == <<quicConnConn, watch, quicConnNet, quicConnDups, lost, quicConnWrote, quicConnGot, ended>>
egressVars == <<active, deficit, scheduled, ring, ship, free, flow, out, data, open, drain>>
slotsVars == <<slots, freeHead, perIp, initialDcids, live, slotsConn, nextTask, recv, prev, send, peer,
               confirmed, sent, slotsNet, opened, ours>>
MCVars == <<part, plan, tcpConnVars, tcpPoolVars, quicConnVars, egressVars, slotsVars>>

\* The value of a variable that the running part does not use.
Off == "off"

CONSTANTS Flows, Ips, Dcids

\* The choices of the connection's surroundings: everything fits, the flight is
\* cut short, and timers that fire late.
Calm == [cut |-> 0, pace |-> 2, late |-> FALSE, gso |-> FALSE, over |-> FALSE]
Environments == {Calm, [Calm EXCEPT !.cut = 99], [Calm EXCEPT !.late = TRUE]}

\* A receive buffer of two segments; one of a single segment, so that the
\* window closes and the sender probes it, and a stack that is shut down; and a
\* driver that refuses frames, an allocator that fails, and receive futures
\* that are dropped.
Download == [ring |-> 2, parts |-> [client |-> <<1, 1>>, server |-> << >>], modes |-> {"recv"},
             cancels |-> FALSE, refuses |-> FALSE, oom |-> FALSE, shuts |-> FALSE]
TcpPlan ==
  [tcp |-> Download,
   tcp_window |-> [Download EXCEPT !.ring = 1, !.shuts = TRUE],
   tcp_faults |-> [Download EXCEPT !.parts["client"] = <<1>>, !.modes = {"recv", "chunk"}, !.cancels = TRUE,
                                   !.refuses = TRUE, !.oom = TRUE, !.shuts = TRUE]]
\* Sequence numbers wrap in the middle of the stream.
Tcp == INSTANCE TcpConn WITH
  conn <- tcpConnConn, wrote <- tcpConnWrote, got <- tcpConnGot, net <- tcpConnNet, dups <- tcpConnDups,
  Mod <- 32, ClientIsn <- 30, ServerIsns <- <<5, 13>>, Mss <- 1, OooMaxSegs <- 2, OooMaxBytes <- 3,
  InitialWindow <- 10, MaxWindow <- 20, SlowStartCap <- 2, U32Max <- 1000, RtxMaxRetries <- 1,
  FinRetxMax <- 0, PersistMaxProbes <- 1, SynRetxMax <- 0, TlpMaxProbes <- 0,
  Plans <- {TcpPlan[p] : p \in DOMAIN TcpPlan}, NetCap <- 2, MaxDups <- 0
\* Two flows in one bucket, the last one of the table.
Pool == INSTANCE TcpPool WITH
  Flows <- Flows, KeyOf <- [f \in Flows |-> f], BucketOf <- [f \in Flows |-> 3], HashSize <- 4,
  SegmentSize <- 1, MaxSegments <- 2, AcceptRingCapacity <- 1, MaxHandles <- 2, MaxGen <- 3, GivesUp <- FALSE
\* A stream of two units through a window of two, with loss; a stream that is
\* reset or stopped by either end; the handshake, with a server flight of two
\* units and loss; and a server whose egress owner builds its packets.
Transfer == [handshaken |-> TRUE, streams |-> {0}, len |-> 2, resets |-> FALSE, owner |-> FALSE, pto |-> TRUE, loses |-> TRUE]
QuicPlan ==
  [quic |-> Transfer,
   quic_reset |-> [Transfer EXCEPT !.len = 1, !.resets = TRUE, !.pto = FALSE, !.loses = FALSE],
   quic_handshake |-> [Transfer EXCEPT !.handshaken = FALSE, !.streams = {}],
   quic_owner |-> [Transfer EXCEPT !.owner = TRUE, !.len = 1, !.pto = FALSE, !.loses = FALSE]]
Quic == INSTANCE QuicConn WITH
  conn <- quicConnConn, net <- quicConnNet, dups <- quicConnDups, wrote <- quicConnWrote, got <- quicConnGot,
  StreamWindow <- 2, MaxRecvRanges <- 3, MaxAckRanges <- 2, PacketThreshold <- 3, FlightLen <- 2,
  HsBudget <- 1, TicketLen <- 1, AmpFactor <- 3, AckThreshold <- 2, Body <- 1, MaxFlushPackets <- 4,
  MaxGsoSegments <- 2, DataWindow <- 3, CreditWindow <- 2, CreditRefill <- 0, ReapedCap <- 2, ResetsCap <- 2,
  InitialWindow <- 4, MaxWindow <- 8, SlowStartCap <- 0, U32Max <- 100, MaxPto <- 1,
  Plans <- {QuicPlan[p] : p \in DOMAIN QuicPlan}, Replies <- FALSE,
  Environments <- Environments, NetCap <- 2, MaxDups <- 0, MaxPn <- 3
\* Segments of two slots of which the second is cut off at capacity, two
\* senders and a peer that updates its keys three times.
Ends == INSTANCE QuicEndpoint WITH
  conn <- slotsConn, net <- slotsNet, Ips <- Ips, Dcids <- Dcids, MaxCapacity <- 3, SegmentSize <- 2,
  NullSlot <- 5, PerIpSlotLimit <- 2, GenMod <- 4, InboxCap <- 1, BatchLimit <- 1, MaxTasks <- 2,
  MayFail <- TRUE, Conns <- {"c1", "c2"}, N <- 2, Quantum <- 3, U32Max <- 6, MaxDrainIters <- 2, Sizes <- {2},
  MaxQueue <- 2, MaxGen <- 3, MaxSent <- 4

tcpConnInit ==
  IF part \in DOMAIN TcpPlan THEN Tcp!Init /\ plan = TcpPlan[part]
  ELSE tcpConnConn = Off /\ tcpConnWrote = Off /\ tcpConnGot = Off /\ eof = Off /\ incs = Off /\
       tcpConnNet = Off /\ tcpConnDups = Off

tcpPoolInit ==
  IF part = "tcp_pool" THEN Pool!Init
  ELSE pool = Off /\ handles = Off

quicConnInit ==
  IF part \in DOMAIN QuicPlan THEN Quic!Init /\ plan = QuicPlan[part]
  ELSE quicConnConn = Off /\ watch = Off /\ quicConnNet = Off /\ quicConnDups = Off /\ lost = Off /\
       quicConnWrote = Off /\ quicConnGot = Off /\ ended = Off

slotsInit ==
  IF part = "quic_slots" THEN Ends!SlotsInit /\ recv = Off /\ prev = Off /\ send = Off /\ peer = Off /\
        confirmed = Off /\ sent = Off /\ slotsNet = Off /\ opened = Off /\ ours = Off
  ELSE IF part = "quic_keys" THEN Ends!KeysInit /\ slots = Off /\ freeHead = Off /\ perIp = Off /\
        initialDcids = Off /\ live = Off /\ slotsConn = Off /\ nextTask = Off
  ELSE slots = Off /\ freeHead = Off /\ perIp = Off /\ initialDcids = Off /\ live = Off /\ slotsConn = Off /\
       nextTask = Off /\ recv = Off /\ prev = Off /\ send = Off /\ peer = Off /\ confirmed = Off /\
       sent = Off /\ slotsNet = Off /\ opened = Off /\ ours = Off

MCInit ==
  /\ part \in {"tcp", "tcp_window", "tcp_faults", "tcp_pool", "quic", "quic_reset", "quic_handshake",
               "quic_owner", "quic_egress", "quic_slots", "quic_keys"}
  /\ tcpConnInit
  /\ tcpPoolInit
  /\ quicConnInit
  /\ part \notin DOMAIN TcpPlan \cup DOMAIN QuicPlan => plan = Off
  /\ Ends!EgressInit
  /\ slotsInit

MCNext ==
  /\ part' = part
  /\ \/ /\ part \in DOMAIN TcpPlan /\ Tcp!Next
        /\ UNCHANGED <<tcpPoolVars, quicConnVars, egressVars, slotsVars>>
     \/ /\ part = "tcp_pool" /\ Pool!Next
        /\ UNCHANGED <<plan, tcpConnVars, quicConnVars, egressVars, slotsVars>>
     \/ /\ part \in DOMAIN QuicPlan /\ Quic!Next
        /\ UNCHANGED <<tcpConnVars, tcpPoolVars, egressVars, slotsVars>>
     \/ /\ part = "quic_egress" /\ Ends!EgressNext
        /\ UNCHANGED <<plan, tcpConnVars, tcpPoolVars, quicConnVars, slotsVars>>
     \/ /\ part = "quic_slots" /\ Ends!SlotsNext
        /\ UNCHANGED <<plan, recv, prev, send, peer, confirmed, sent, slotsNet, opened, ours, tcpConnVars,
                       tcpPoolVars, quicConnVars, egressVars>>
     \/ /\ part = "quic_keys" /\ Ends!KeysNext
        /\ UNCHANGED <<plan, slots, freeHead, perIp, initialDcids, live, slotsConn, nextTask, tcpConnVars,
                       tcpPoolVars, quicConnVars, egressVars>>

MCSpec == MCInit /\ [][MCNext]_MCVars

-----------------------------------------------------------------------------
\* TCP: an application reads exactly what its peer wrote, in order; an end of
\* file is the end of the stream; nothing is acknowledged that was not taken;
\* what is not acknowledged will be sent again; no reader and no writer sleeps
\* over what it waits for, and a connection that closes has a timer.  In the
\* pool a slot is free once or in use, a segment finds the slot of its flow, an
\* armed deadline is on the tick list and a slot has one owner.
TcpExact ==
  /\ part \in DOMAIN TcpPlan => Tcp!AckedIsReceived /\ Tcp!UnackedIsQueued /\ Tcp!ClosingHasTimer
  /\ part \in {"tcp", "tcp_window"} => Tcp!StreamInOrder /\ Tcp!EofIsComplete /\ Tcp!NoLostWakeup
  /\ part = "tcp_pool" => Pool!FreeListExact /\ Pool!FlowFindsItsSlot /\ Pool!ArmedIsListed /\ Pool!OneOwner

\* QUIC: a stream is read as it was written, flow-control credit and bytes in
\* flight are counted exactly, what is not acknowledged is kept, no end accuses
\* an honest peer, and what is in flight has a timer.  The flights of the
\* handshake are kept until they are acknowledged, and keys are dropped only
\* when nothing needs them any more.
QuicExact ==
  /\ part \in {"quic", "quic_owner"} => /\ Quic!StreamIntegrity /\ Quic!CreditExact /\ Quic!FlightExact
                                       /\ Quic!StreamRetained /\ Quic!NoFalseAccusation /\ Quic!InFlightIsTimed
  /\ part = "quic_reset" => Quic!StreamIntegrity /\ Quic!FlightExact /\ Quic!NoFalseAccusation
  /\ part = "quic_handshake" => /\ Quic!FlightExact /\ Quic!CryptoRetained
                                /\ Quic!KeysOutliveHandshake /\ Quic!CreditExact

\* The QUIC endpoint: the books of the connection table agree, a connection
\* keeps its slot and its datagrams, the egress ring and its flows are exact
\* and both ends agree on the key they use.
EndpointExact ==
  /\ part = "quic_slots" => Ends!SlotBooks /\ Ends!SlotIsOurs /\ Ends!DcidsFollowSlots /\ Ends!InboxSignalled /\ Ends!SlotHasTask
  /\ part = "quic_egress" => Ends!RingExact /\ Ends!FlowsExact /\ Ends!ReadyIsActive
  /\ part = "quic_keys" => Ends!Lockstep /\ Ends!CurrentOpens

\* No waiting connection starves: its place in the egress ring only improves.
NobodyStarves == Ends!NobodyStarves
=============================================================================
