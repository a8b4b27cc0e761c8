------------------------------- MODULE RxInbox -------------------------------
(***************************************************************************)
(* kernel/core rx_inbox.rs: the lists on which cores hand frames (and      *)
(* control messages) to each other.                                        *)
(*                                                                         *)
(* A producer takes a node off the shared pool, fills it and prepends it   *)
(* to the target's inbox; the target detaches its whole list, reverses it  *)
(* and hands the payloads on.  The pool is the FreeList that TaggedTreiber *)
(* is shown to implement.  A frame pins one of the NIC's RX buffers from   *)
(* its arrival until the stack is done with it.                            *)
(*                                                                         *)
(* `sent`, `got`, `chain` and `batch` are auxiliary.                       *)
(***************************************************************************)
EXTENDS Integers, FiniteSets, Sequences

CONSTANTS
  Producers,   \* cores that distribute
  Inboxes,     \* cores that own an inbox
  Nodes,       \* indices of the RxNodePool
  Null,        \* NULL
  NumBuffers,  \* what bounds the frames in flight: the NIC's RX buffers
  MaxFrames    \* bound on the frames of one behaviour

ASSUME InboxAssumption ==
  /\ IsFiniteSet(Nodes) /\ Null \notin Nodes
  /\ IsFiniteSet(Inboxes) /\ Inboxes # {}
  /\ NumBuffers \in Nat /\ MaxFrames \in Nat

VARIABLES
  free,     \* nodes on the pool's free list
  next,     \* next[n]: the node's link, shared by all lists
  payload,  \* payload[n]: the parked frame, or NoFrame
  head,     \* head[i]: head node of inbox i
  prod,     \* prod[p]: the producer's locals
  cons,     \* cons[i]: the locals of the owner of inbox i
  buffers,  \* RX buffers posted to the NIC
  frames,   \* frames received so far; a frame is named by its number
  refused,  \* frames that found the pool empty
  sent,     \* auxiliary: sent[i], frames linked into inbox i, in that order
  got,      \* auxiliary: got[i], frames handed to the stack on core i
  chain,    \* auxiliary: chain[i], nodes on inbox i, oldest first
  batch     \* auxiliary: batch[i], detached nodes, oldest first

pool == <<free, next, payload>>
nic == <<buffers, frames, refused>>
aux == <<sent, got, chain, batch>>
vars == <<pool, head, prod, cons, nic, aux>>

Links == Nodes \cup {Null}
NoFrame == 0
Frames == 1 .. MaxFrames
ProdOut == [at |-> "out", node |-> Null, inbox |-> CHOOSE i \in Inboxes : TRUE,
            seen |-> Null]
ConsOut == [at |-> "out", node |-> Null, fifo |-> Null, follow |-> Null,
            frame |-> NoFrame]

Init ==
  /\ free = Nodes
  /\ next = [n \in Nodes |-> Null]
  /\ payload = [n \in Nodes |-> NoFrame]
  /\ head = [i \in Inboxes |-> Null]
  /\ prod = [p \in Producers |-> ProdOut]
  /\ cons = [i \in Inboxes |-> ConsOut]
  /\ buffers = NumBuffers /\ frames = 0 /\ refused = 0
  /\ sent = [i \in Inboxes |-> <<>>]
  /\ got = [i \in Inboxes |-> <<>>]
  /\ chain = [i \in Inboxes |-> <<>>]
  /\ batch = [i \in Inboxes |-> <<>>]

-----------------------------------------------------------------------------
(* distribute, on a producer *)

\* A frame for i has come in: alloc a node and store the frame in it.
Distribute(p, i) ==
  /\ prod[p].at = "out" /\ buffers > 0 /\ frames < MaxFrames
  /\ frames' = frames + 1 /\ buffers' = buffers - 1
  /\ \E n \in free :
       /\ free' = free \ {n}
       /\ payload' = [payload EXCEPT ![n] = frames']
       /\ prod' = [prod EXCEPT ![p] = [at |-> "load", node |-> n, inbox |-> i,
                                       seen |-> Null]]
  /\ UNCHANGED <<next, head, cons, refused, aux>>

\* The pool is empty: Err, and the caller drops the frame, reposting its buffer.
DistributeErr(p) ==
  /\ prod[p].at = "out" /\ buffers > 0 /\ frames < MaxFrames
  /\ free = {}
  /\ frames' = frames + 1 /\ refused' = refused + 1
  /\ UNCHANGED <<pool, head, prod, cons, buffers, aux>>

\* RxInbox::push: load the head and link the node in front of it.
PushLoad(p) ==
  /\ prod[p].at = "load"
  /\ LET h == head[prod[p].inbox] IN
       /\ next' = [next EXCEPT ![prod[p].node] = h]
       /\ prod' = [prod EXCEPT ![p].at = "cas", ![p].seen = h]
  /\ UNCHANGED <<free, payload, head, cons, nic, aux>>

\* The compare-exchange succeeds.
PushCas(p) ==
  LET i == prod[p].inbox IN
  /\ prod[p].at = "cas" /\ head[i] = prod[p].seen
  /\ head' = [head EXCEPT ![i] = prod[p].node]
  /\ sent' = [sent EXCEPT ![i] = Append(@, payload[prod[p].node])]
  /\ chain' = [chain EXCEPT ![i] = Append(@, prod[p].node)]
  /\ prod' = [prod EXCEPT ![p] = ProdOut]
  /\ UNCHANGED <<pool, cons, nic, got, batch>>

\* compare_exchange_weak fails, for real or spuriously.
PushRetry(p) ==
  /\ prod[p].at = "cas"
  /\ prod' = [prod EXCEPT ![p].at = "load", ![p].seen = Null]
  /\ UNCHANGED <<pool, head, cons, nic, aux>>

-----------------------------------------------------------------------------
(* drain_each, on the owner of inbox i *)

\* swap(NULL): the list is the owner's.
DrainSwap(i) ==
  /\ cons[i].at = "out" /\ head[i] # Null
  /\ cons' = [cons EXCEPT ![i].at = "reverse", ![i].node = head[i]]
  /\ head' = [head EXCEPT ![i] = Null]
  /\ chain' = [chain EXCEPT ![i] = <<>>]
  /\ batch' = [batch EXCEPT ![i] = chain[i]]
  /\ UNCHANGED <<pool, prod, nic, sent, got>>

\* One round of the reversing loop.  (ReverseLate reads the link it has just
\* overwritten.)
ReverseLate(i) ==
  LET n == cons[i].node IN
  /\ cons[i].at = "reverse" /\ n # Null
  /\ next' = [next EXCEPT ![n] = cons[i].fifo]
  /\ cons' = [cons EXCEPT ![i].fifo = n, ![i].node = cons[i].fifo]
  /\ UNCHANGED <<free, payload, head, prod, nic, aux>>
Reverse(i) ==
  LET n == cons[i].node IN
  /\ cons[i].at = "reverse" /\ n # Null
  /\ next' = [next EXCEPT ![n] = cons[i].fifo]
  /\ cons' = [cons EXCEPT ![i].fifo = n, ![i].node = next[n]]
  /\ UNCHANGED <<free, payload, head, prod, nic, aux>>

\* (ReverseSkip starts the walk at the newest node.)
ReverseSkip(i) ==
  /\ cons[i].at = "reverse" /\ cons[i].fifo = Null
  /\ cons' = [cons EXCEPT ![i].at = "walk"]
  /\ UNCHANGED <<pool, head, prod, nic, aux>>
ReverseDone(i) ==
  /\ cons[i].at = "reverse" /\ cons[i].node = Null
  /\ cons' = [cons EXCEPT ![i].at = "walk", ![i].node = cons[i].fifo,
                          ![i].fifo = Null]
  /\ UNCHANGED <<pool, head, prod, nic, aux>>

\* Snapshot the link and take the payload out.
Take(i) ==
  LET n == cons[i].node IN
  /\ cons[i].at = "walk" /\ n # Null
  /\ cons' = [cons EXCEPT ![i].at = "free", ![i].follow = next[n],
                          ![i].frame = payload[n]]
  /\ payload' = [payload EXCEPT ![n] = NoFrame]
  /\ UNCHANGED <<free, next, head, prod, nic, aux>>

\* pool.free: the free list stores its own link in the node.  (FreeNodeLeak
\* takes the payload and forgets the node.)
FreeNodeLeak(i) ==
  /\ cons[i].at = "free"
  /\ cons' = [cons EXCEPT ![i].at = "run"]
  /\ batch' = [batch EXCEPT ![i] = Tail(@)]
  /\ UNCHANGED <<pool, head, prod, nic, sent, got, chain>>
FreeNode(i) ==
  LET n == cons[i].node IN
  /\ cons[i].at = "free"
  /\ free' = free \cup {n}
  /\ \E l \in free \cup {Null} : next' = [next EXCEPT ![n] = l]
  /\ cons' = [cons EXCEPT ![i].at = "run"]
  /\ batch' = [batch EXCEPT ![i] = Tail(@)]
  /\ UNCHANGED <<payload, head, prod, nic, sent, got, chain>>

\* f(payload): the stack handles the frame and its buffer is reposted.
Run(i) ==
  /\ cons[i].at = "run"
  /\ got' = [got EXCEPT ![i] = Append(@, cons[i].frame)]
  /\ buffers' = buffers + 1
  /\ cons' = [cons EXCEPT ![i] = [ConsOut EXCEPT !.at = "walk",
                                                 !.node = cons[i].follow]]
  /\ UNCHANGED <<pool, head, prod, frames, refused, sent, chain, batch>>

DrainDone(i) ==
  /\ cons[i].at = "walk" /\ cons[i].node = Null
  /\ cons' = [cons EXCEPT ![i] = ConsOut]
  /\ UNCHANGED <<pool, head, prod, nic, aux>>

-----------------------------------------------------------------------------
ProducerStep(p) == PushLoad(p) \/ PushCas(p) \/ PushRetry(p)
ConsumerStep(i) ==
  \/ DrainSwap(i) \/ Reverse(i) \/ ReverseDone(i)
  \/ Take(i) \/ FreeNode(i) \/ Run(i) \/ DrainDone(i)

Next ==
  \/ \E p \in Producers :
       \/ ProducerStep(p) \/ DistributeErr(p)
       \/ \E i \in Inboxes : Distribute(p, i)
  \/ \E i \in Inboxes : ConsumerStep(i)

Spec == Init /\ [][Next]_vars

\* The owner of an inbox drains it in every pass of its event loop.
FairSpec == Spec /\ \A i \in Inboxes : WF_vars(ConsumerStep(i))

-----------------------------------------------------------------------------
(* Properties *)

TypeOK ==
  /\ free \subseteq Nodes
  /\ next \in [Nodes -> Links]
  /\ payload \in [Nodes -> Frames \cup {NoFrame}]
  /\ head \in [Inboxes -> Links]
  /\ prod \in [Producers -> [at : {"out", "load", "cas"}, node : Links,
                             inbox : Inboxes, seen : Links]]
  /\ cons \in [Inboxes -> [at : {"out", "reverse", "walk", "free", "run"},
                           node : Links, fifo : Links, follow : Links,
                           frame : Frames \cup {NoFrame}]]
  /\ buffers \in 0 .. NumBuffers
  /\ frames \in 0 .. MaxFrames /\ refused \in 0 .. MaxFrames

At(n, q) == {k \in 1 .. Len(q) : q[k] = n}
Places(n) ==
  {<<"free", 0, 0>> : x \in free \cap {n}}
  \cup {<<"held", p, 0>> : p \in {q \in Producers : prod[q].node = n}}
  \cup UNION {{<<"inbox", i, k>> : k \in At(n, chain[i])}
              \cup {<<"batch", i, k>> : k \in At(n, batch[i])} : i \in Inboxes}

\* "An RxNode lives on exactly one intrusive list at a time": a node is free,
\* or held by one producer, or once on one inbox or one detached list.
NodesConserved == \A n \in Nodes : Cardinality(Places(n)) = 1

Carried(q) == [k \in 1 .. Len(q) |-> payload[q[k]]]

\* Nothing sent is lost or overtaken on its way: what core i has got, the frame
\* it has in hand, what it has detached and what is still on its inbox are,
\* in this order, what was sent to it.
NothingLost ==
  \A i \in Inboxes :
    LET inHand == IF cons[i].at \in {"free", "run"} THEN <<cons[i].frame>>
                                                    ELSE <<>>
        rest == IF cons[i].at = "free" THEN Tail(batch[i]) ELSE batch[i]
    IN sent[i] = got[i] \o inHand \o Carried(rest) \o Carried(chain[i])

\* "the node supply provably never runs dry": a node is back in the pool before
\* the buffer of its frame is reposted, so no more nodes are in use than buffers
\* are pinned, and a pool with a node per buffer (RX_NODE_POOL_CAP) has one for
\* every frame the NIC can receive.
NodesWithinBuffers == Cardinality(Nodes \ free) <= NumBuffers - buffers

\* A node is in one place, what was sent and not handed on is on its way in
\* order, and no more nodes are in use than buffers are pinned.
InboxExact == NodesConserved /\ NothingLost /\ NodesWithinBuffers

\* The inboxes implement FIFO channels.
Channel == INSTANCE FifoChannel WITH Payloads <- Frames
ImplementsFifoChannel == Channel!Spec

\* Every frame linked into an inbox is handed to the stack if the owner of the
\* inbox keeps draining it.
InboxDrained ==
  \A i \in Inboxes, f \in Frames :
    (\E k \in 1 .. Len(sent[i]) : sent[i][k] = f)
      ~> (\E k \in 1 .. Len(got[i]) : got[i][k] = f)
=============================================================================
