------------------------------ MODULE RxDispatch ------------------------------
(***************************************************************************)
(* net/stack sched.rs and rx.rs, Tier 2: one RX queue, several cores.      *)
(*                                                                         *)
(* In every pass of its loop a core first tries to become the distributor  *)
(* (poll_tier2) and then drains its own inbox (net_drain_cb).  The         *)
(* distributor empties the queue under RX_LOCK: a frame whose flow it owns *)
(* is delivered on the spot, any other goes to its owner's inbox, and      *)
(* after the lock is released the owners are sent IPIs according to        *)
(* WAKEUP.  Inboxes are the FIFO channels that RxInbox implements; how a   *)
(* core sleeps is EventLoop's.  A frame that names no flow (ARP, ICMP) is  *)
(* delivered inline and may make its core broadcast a control message.     *)
(*                                                                         *)
(* `arrived` and `unsignalled` are auxiliary.                              *)
(***************************************************************************)
EXTENDS Integers, FiniteSets, Sequences

CONSTANTS
  NumCores,   \* percpu::num_cores()
  CtrlNodes,  \* CTRL_NODE_POOL_CAP
  MaxFrames   \* bound on the frames of one behaviour

ASSUME CoresAssumption == NumCores \in Nat

VARIABLES
  queue,        \* frames on the RX queue
  rxLock,       \* RX_LOCK: its holder, or Free
  wakeup,       \* WAKEUP
  justDistributed,  \* JUST_DISTRIBUTED
  inbox,        \* inbox[c]: frames parked for core c
  ctrl,         \* ctrl[c]: control messages parked for core c
  ctrlFree,     \* nodes left in ctrl_node_pool
  delivered,    \* delivered[c]: frames core c handed to the transport stack
  pc,           \* where each core is in its pass
  count,        \* count[c]: frames the core distributed in this pass
  scan,         \* scan[c]: the core whose WAKEUP flag c reads next
  arrived,      \* auxiliary: arrived[f], the owner of frame f
  unsignalled   \* auxiliary: cores that got something parked after the last
                \* IPI to them

net == <<queue, rxLock, wakeup, justDistributed, inbox, ctrl, ctrlFree,
         delivered>>
locals == <<pc, count, scan>>
vars == <<net, locals, arrived, unsignalled>>

Cores == 0 .. NumCores - 1
Free == -1
NoOwner == -1
Frames == 1 .. Len(arrived)

Init ==
  /\ queue = <<>> /\ rxLock = Free
  /\ wakeup = [c \in Cores |-> FALSE]
  /\ justDistributed = [c \in Cores |-> FALSE]
  /\ inbox = [c \in Cores |-> <<>>]
  /\ ctrl = [c \in Cores |-> 0] /\ ctrlFree = CtrlNodes
  /\ delivered = [c \in Cores |-> <<>>]
  /\ pc = [c \in Cores |-> "poll"]
  /\ count = [c \in Cores |-> 0]
  /\ scan = [c \in Cores |-> 1]
  /\ arrived = <<>> /\ unsignalled = {}

Goto(c, p) == pc' = [pc EXCEPT ![c] = p]

\* The NIC receives a frame of a flow that `owner` hashes to c, or of none.
Arrive(c) ==
  /\ Len(arrived) < MaxFrames
  /\ arrived' = Append(arrived, c)
  /\ queue' = Append(queue, Len(arrived) + 1)
  /\ UNCHANGED <<rxLock, wakeup, justDistributed, inbox, ctrl, ctrlFree, delivered,
                 locals, unsignalled>>

-----------------------------------------------------------------------------
(* net_poll_cb and poll_tier2 *)

\* RX_LOCK is taken: on the first look, or by the time of the compare-exchange.
PollBusy(c) ==
  /\ pc[c] = "poll" /\ rxLock # Free
  /\ Goto(c, "drain")
  /\ UNCHANGED <<net, count, scan, arrived, unsignalled>>

\* Having distributed in its last turn, the core lets the others go first.
PollYield(c) ==
  /\ pc[c] = "poll" /\ rxLock = Free /\ justDistributed[c]
  /\ justDistributed' = [justDistributed EXCEPT ![c] = FALSE]
  /\ Goto(c, "drain")
  /\ UNCHANGED <<queue, rxLock, wakeup, inbox, ctrl, ctrlFree, delivered, count, scan,
                 arrived, unsignalled>>

\* (PollLockHeld takes the lock without looking.)
PollLockHeld(c) ==
  /\ pc[c] = "poll" /\ ~justDistributed[c]
  /\ rxLock' = c
  /\ wakeup' = [i \in Cores |-> FALSE]
  /\ Goto(c, "distribute")
  /\ UNCHANGED <<queue, justDistributed, inbox, ctrl, ctrlFree, delivered, count, scan,
                 arrived, unsignalled>>
\* The compare-exchange wins.  The flags are cleared and the queue is polled.
PollLock(c) ==
  /\ pc[c] = "poll" /\ rxLock = Free /\ ~justDistributed[c]
  /\ rxLock' = c
  /\ wakeup' = [i \in Cores |-> FALSE]
  /\ Goto(c, "distribute")
  /\ UNCHANGED <<queue, justDistributed, inbox, ctrl, ctrlFree, delivered, count, scan,
                 arrived, unsignalled>>

Owner(f) == arrived[f]

\* distribute_frame, for a frame the core owns: deliver it inline.
DistributeOwn(c) ==
  /\ pc[c] = "distribute" /\ queue # <<>> /\ Owner(Head(queue)) = c
  /\ queue' = Tail(queue)
  /\ delivered' = [delivered EXCEPT ![c] = Append(@, Head(queue))]
  /\ count' = [count EXCEPT ![c] = 1]
  /\ UNCHANGED <<rxLock, wakeup, justDistributed, inbox, ctrl, ctrlFree, pc, scan,
                 arrived, unsignalled>>

\* A frame another core owns is moved into its inbox.  (DistributeHere
\* keeps it on the distributor, DistributeBoth delivers it there as well.)
DistributeHere(c) ==
  /\ pc[c] = "distribute" /\ queue # <<>> /\ Owner(Head(queue)) \in Cores \ {c}
  /\ queue' = Tail(queue)
  /\ delivered' = [delivered EXCEPT ![c] = Append(@, Head(queue))]
  /\ count' = [count EXCEPT ![c] = 1]
  /\ UNCHANGED <<rxLock, wakeup, justDistributed, inbox, ctrl, ctrlFree, pc, scan,
                 arrived, unsignalled>>
DistributeBoth(c) ==
  /\ pc[c] = "distribute" /\ queue # <<>> /\ Owner(Head(queue)) \in Cores \ {c}
  /\ LET target == Owner(Head(queue)) IN
       /\ inbox' = [inbox EXCEPT ![target] = Append(@, Head(queue))]
       /\ wakeup' = [wakeup EXCEPT ![target] = TRUE]
       /\ unsignalled' = unsignalled \cup {target}
  /\ delivered' = [delivered EXCEPT ![c] = Append(@, Head(queue))]
  /\ queue' = Tail(queue)
  /\ count' = [count EXCEPT ![c] = 1]
  /\ UNCHANGED <<rxLock, justDistributed, ctrl, ctrlFree, pc, scan, arrived>>
DistributeOther(c) ==
  /\ pc[c] = "distribute" /\ queue # <<>> /\ Owner(Head(queue)) \in Cores \ {c}
  /\ LET target == Owner(Head(queue)) IN
       /\ inbox' = [inbox EXCEPT ![target] = Append(@, Head(queue))]
       /\ wakeup' = [wakeup EXCEPT ![target] = TRUE]
       /\ unsignalled' = unsignalled \cup {target}
  /\ queue' = Tail(queue)
  /\ count' = [count EXCEPT ![c] = 1]
  /\ UNCHANGED <<rxLock, justDistributed, ctrl, ctrlFree, delivered, pc, scan, arrived>>

\* A frame of no flow is handled on the spot.
DistributeInline(c) ==
  /\ pc[c] = "distribute" /\ queue # <<>> /\ Owner(Head(queue)) = NoOwner
  /\ queue' = Tail(queue)
  /\ delivered' = [delivered EXCEPT ![c] = Append(@, Head(queue))]
  /\ count' = [count EXCEPT ![c] = 1]
  /\ UNCHANGED <<rxLock, wakeup, justDistributed, inbox, ctrl, ctrlFree, pc,
                 scan, arrived, unsignalled>>

\* If it is a Fragmentation-Needed report for a connection the core does not
\* know, broadcast_path_mtu parks a copy for each other core in turn, until
\* the pool of control nodes is empty.
Reached(c) ==
  {i \in Cores \ {c} : Cardinality({j \in Cores \ {c} : j < i}) < ctrlFree}

DistributeReport(c) ==
  /\ pc[c] = "distribute" /\ queue # <<>> /\ Owner(Head(queue)) = NoOwner
  /\ queue' = Tail(queue)
  /\ delivered' = [delivered EXCEPT ![c] = Append(@, Head(queue))]
  /\ ctrl' = [i \in Cores |-> IF i \in Reached(c) THEN ctrl[i] + 1 ELSE ctrl[i]]
  /\ ctrlFree' = ctrlFree - Cardinality(Reached(c))
  /\ wakeup' = [i \in Cores |-> wakeup[i] \/ i \in Reached(c)]
  /\ unsignalled' = unsignalled \cup Reached(c)
  /\ count' = [count EXCEPT ![c] = 1]
  /\ UNCHANGED <<rxLock, justDistributed, inbox, pc, scan, arrived>>

\* The queue is empty: set the fairness flag and release the lock.
\* (ReleaseIfWorked forgets the lock when there was no frame.)
ReleaseIfWorked(c) ==
  /\ pc[c] = "distribute" /\ queue = <<>>
  /\ justDistributed' = [justDistributed EXCEPT ![c] = TRUE]
  /\ rxLock' = IF count[c] > 0 THEN Free ELSE rxLock
  /\ Goto(c, IF count[c] > 0 THEN "wake" ELSE "drain")
  /\ UNCHANGED <<queue, wakeup, inbox, ctrl, ctrlFree, delivered, count, scan, arrived,
                 unsignalled>>
Release(c) ==
  /\ pc[c] = "distribute" /\ queue = <<>>
  /\ justDistributed' = [justDistributed EXCEPT ![c] = TRUE]
  /\ rxLock' = Free
  /\ Goto(c, IF count[c] > 0 THEN "wake" ELSE "drain")
  /\ UNCHANGED <<queue, wakeup, inbox, ctrl, ctrlFree, delivered, count, scan, arrived,
                 unsignalled>>

\* The loop over 1 .. num_cores - 1 after the release: one flag at a time.
WakeOne(c) ==
  /\ pc[c] = "wake" /\ scan[c] < NumCores
  /\ unsignalled' = IF wakeup[scan[c]] THEN unsignalled \ {scan[c]}
                                       ELSE unsignalled
  /\ scan' = [scan EXCEPT ![c] = @ + 1]
  /\ UNCHANGED <<net, pc, count, arrived>>

WakeDone(c) ==
  /\ pc[c] = "wake" /\ scan[c] = NumCores
  /\ scan' = [scan EXCEPT ![c] = 1]
  /\ count' = [count EXCEPT ![c] = 0]
  /\ Goto(c, "drain")
  /\ UNCHANGED <<net, arrived, unsignalled>>

-----------------------------------------------------------------------------
\* net_drain_cb: everything on the core's inbox, in order, and its control
\* messages.
Drain(c) ==
  /\ pc[c] = "drain"
  /\ delivered' = [delivered EXCEPT ![c] = @ \o inbox[c]]
  /\ inbox' = [inbox EXCEPT ![c] = <<>>]
  /\ ctrl' = [ctrl EXCEPT ![c] = 0]
  /\ ctrlFree' = ctrlFree + ctrl[c]
  /\ unsignalled' = unsignalled \ {c}
  /\ Goto(c, "poll")
  /\ UNCHANGED <<queue, rxLock, wakeup, justDistributed, count, scan, arrived>>

Poll(c) ==
  \/ PollBusy(c) \/ PollYield(c) \/ PollLock(c)
  \/ DistributeOwn(c) \/ DistributeOther(c)
  \/ DistributeInline(c) \/ DistributeReport(c)
  \/ Release(c) \/ WakeOne(c) \/ WakeDone(c)

Next ==
  \/ \E c \in Cores \cup {NoOwner} : Arrive(c)
  \/ \E c \in Cores : Poll(c) \/ Drain(c)

Spec == Init /\ [][Next]_vars

\* Every core keeps going round its loop.
FairSpec == Spec /\ \A c \in Cores : WF_vars(Poll(c) \/ Drain(c))

-----------------------------------------------------------------------------
(* Properties *)

Elems(q) == {q[k] : k \in 1 .. Len(q)}

TypeOK ==
  /\ Elems(queue) \subseteq Frames
  /\ rxLock \in Cores \cup {Free}
  /\ wakeup \in [Cores -> BOOLEAN] /\ justDistributed \in [Cores -> BOOLEAN]
  /\ \A c \in Cores : Elems(inbox[c]) \subseteq Frames
                      /\ Elems(delivered[c]) \subseteq Frames
                      /\ ctrl[c] \in 0 .. CtrlNodes
  /\ ctrlFree \in 0 .. CtrlNodes
  /\ pc \in [Cores -> {"poll", "distribute", "wake", "drain"}]
  /\ count \in [Cores -> 0 .. 1] /\ scan \in [Cores -> 1 .. NumCores]
  /\ unsignalled \subseteq Cores

\* Only the lock's holder touches the queue and the flags.
OneDistributor ==
  \A c \in Cores : pc[c] = "distribute" => rxLock = c

\* A frame of a flow is handled by the core that owns the flow, and by that
\* core only (connection state is per core and unlocked).
OwnerDelivers ==
  \A c \in Cores : \A f \in Elems(delivered[c]) \cup Elems(inbox[c]) :
    Owner(f) \in {c, NoOwner}

At(f, q) == {k \in 1 .. Len(q) : q[k] = f}

\* Where frame f is, with its position there.
Places(f) ==
  {<<"queue", 0, k>> : k \in At(f, queue)}
  \cup UNION {{<<"inbox", c, k>> : k \in At(f, inbox[c])}
              \cup {<<"stack", c, k>> : k \in At(f, delivered[c])} : c \in Cores}

\* A frame moves from the queue to an inbox to the stack and is never lost or
\* duplicated on the way, whoever distributes: it is in exactly one place.
ExactlyOnce == \A f \in Frames : Cardinality(Places(f)) = 1

\* Every frame the NIC received reaches the transport stack, although the lock
\* is only tried and a core that distributed yields its next turn.
FramesDelivered ==
  \A f \in 1 .. MaxFrames :
    (f <= Len(arrived)) ~> (\E c \in Cores : f \in Elems(delivered[c]))

\* Every control message is processed.
ReportsProcessed == \A c \in Cores : (ctrl[c] > 0) ~> (ctrl[c] = 0)

\* Nothing that reaches the worker tier stays there: neither a frame nor a
\* control message.
NothingStuck == FramesDelivered /\ ReportsProcessed

\* "Wake only the specific cores that received inbox data" (poll_tier2), "The
\* caller must then wake that core" (distribute): when every distributor has
\* run its wake loop, an AP with something parked for it has been sent an IPI
\* after the parking.
TargetsSignalled ==
  (\A c \in Cores : pc[c] \notin {"distribute", "wake"})
    => unsignalled \subseteq {0}

\* "drain_each reverses it to arrival order so same-flow TCP segments are not
\* reordered" (rx_inbox.rs): frames of one flow reach the stack in the order in
\* which the NIC received them.
FlowOrder ==
  \A c \in Cores : \A j, k \in 1 .. Len(delivered[c]) :
    /\ j < k
    /\ Owner(delivered[c][j]) = c /\ Owner(delivered[c][k]) = c
    => delivered[c][j] < delivered[c][k]
=============================================================================
