---------------------------- MODULE TaggedTreiber ----------------------------
(***************************************************************************)
(* util/tagged-treiber: the lock-free stack of free slot indices behind    *)
(* kernel/core's RxNodePool and util/iobuf's IOBufPool.                    *)
(*                                                                         *)
(* Each atomic access of `push` and `pop` is a step of its own, so threads *)
(* interleave as the hardware lets them.  A thread that popped a slot owns *)
(* it; it may hand it to another thread (an RX node travels to the core    *)
(* that drains it), may reuse its link (an inbox threads its list through  *)
(* the same field) and finally pushes it back.                             *)
(*                                                                         *)
(* `stack`, `pushes` and `seenAt` are auxiliary: the program reads none.   *)
(***************************************************************************)
EXTENDS Integers, FiniteSets, Sequences

CONSTANTS
  Threads,      \* the cores that allocate and free
  Slots,        \* the slot indices 0 .. capacity - 1
  NullIndex,    \* NULL_INDEX
  VersionMod,   \* number of version values, 2^32 in the code
  MaxPushes     \* bound on the pushes of one behaviour

\* Both pools assert capacity < NULL_INDEX when they are built.
ASSUME SlotsAssumption == NullIndex \notin Slots /\ IsFiniteSet(Slots)
ASSUME VersionAssumption == VersionMod \in Nat \ {0}
ASSUME MaxPushesAssumption == MaxPushes \in Nat

VARIABLES
  head,    \* the head word, [idx, version]
  next,    \* the pool's intrusive links
  pc,      \* where each thread is in `push` or `pop`
  seen,    \* the head word the thread loaded
  link,    \* the next link a popping thread loaded
  mine,    \* the slot a thread is pushing
  owned,   \* the slots a thread holds, the one it is pushing included
  stack,   \* auxiliary: the slots on the list, the top one last
  pushes,  \* auxiliary: completed pushes
  seenAt   \* auxiliary: `pushes` when the thread loaded the head word

vars == <<head, next, pc, seen, link, mine, owned, stack, pushes, seenAt>>
local == <<pc, seen, link, mine, seenAt>>

Links == Slots \cup {NullIndex}
Word == [idx : Links, version : 0 .. VersionMod - 1]

\* The link that the slot at position i of the stack must carry, and for
\* i = Len(stack) + 1 the index that the head word must carry.
Below(i) == IF i = 1 THEN NullIndex ELSE stack[i - 1]
DropTop(q) == [i \in 1 .. Len(q) - 1 |-> q[i]]
OnStack == {stack[i] : i \in 1 .. Len(stack)}

NoWord == [idx |-> NullIndex, version |-> 0]

\* `push` or `pop` of t returns, or `pop` starts over: its locals are dead.
Leave(t) ==
  /\ pc' = [pc EXCEPT ![t] = "idle"]
  /\ seen' = [seen EXCEPT ![t] = NoWord]
  /\ link' = [link EXCEPT ![t] = NullIndex]
  /\ mine' = [mine EXCEPT ![t] = NullIndex]
  /\ seenAt' = [seenAt EXCEPT ![t] = 0]

\* A pool links its slots into a chain and publishes it with `new(head)` or
\* `reset(head)` before a second thread exists.  Which slot sits where is
\* immaterial, so any order without repetition is an initial state.
Init ==
  /\ stack \in [1 .. Cardinality(Slots) -> Slots]
  /\ \A i, j \in 1 .. Len(stack) : i # j => stack[i] # stack[j]
  /\ Slots \subseteq OnStack
  /\ next \in [Slots -> Links]
  /\ \A i \in 1 .. Len(stack) : next[stack[i]] = Below(i)
  /\ head = [idx |-> Below(Len(stack) + 1), version |-> 0]
  /\ pc = [t \in Threads |-> "idle"]
  /\ seen = [t \in Threads |-> NoWord]
  /\ link = [t \in Threads |-> NullIndex]
  /\ mine = [t \in Threads |-> NullIndex]
  /\ owned = [t \in Threads |-> {}]
  /\ pushes = 0
  /\ seenAt = [t \in Threads |-> 0]

-----------------------------------------------------------------------------
(* pop *)

\* Load the head word; an empty stack makes `pop` return None at once.
PopLoad(t) ==
  /\ pc[t] = "idle"
  /\ head.idx # NullIndex
  /\ seen' = [seen EXCEPT ![t] = head]
  /\ seenAt' = [seenAt EXCEPT ![t] = pushes]
  /\ pc' = [pc EXCEPT ![t] = "pop_link"]
  /\ UNCHANGED <<head, next, link, mine, owned, stack, pushes>>

\* Load next[idx].  The slot may already be someone else's by now.
PopLink(t) ==
  /\ pc[t] = "pop_link"
  /\ link' = [link EXCEPT ![t] = next[seen[t].idx]]
  /\ pc' = [pc EXCEPT ![t] = "pop_cas"]
  /\ UNCHANGED <<head, next, seen, mine, owned, stack, pushes, seenAt>>

\* The compare-exchange succeeds: the version stays, the slot is the thread's.
PopCas(t) ==
  /\ pc[t] = "pop_cas"
  /\ head = seen[t]
  /\ head' = [idx |-> link[t], version |-> seen[t].version]
  /\ owned' = [owned EXCEPT ![t] = @ \cup {seen[t].idx}]
  /\ stack' = DropTop(stack)
  /\ Leave(t)
  /\ UNCHANGED <<next, pushes>>

\* compare_exchange_weak fails, for real or spuriously, and `pop` starts over.
PopRetry(t) ==
  /\ pc[t] = "pop_cas"
  /\ Leave(t)
  /\ UNCHANGED <<head, next, owned, stack, pushes>>

-----------------------------------------------------------------------------
(* push *)

\* The owner of a slot calls `push` (or its retry loop starts over) and loads
\* the head word.
PushLoad(t, s) ==
  /\ pc[t] = "idle" /\ s \in owned[t]
  /\ pushes < MaxPushes
  /\ mine' = [mine EXCEPT ![t] = s]
  /\ seen' = [seen EXCEPT ![t] = head]
  /\ seenAt' = [seenAt EXCEPT ![t] = pushes]
  /\ pc' = [pc EXCEPT ![t] = "push_store"]
  /\ UNCHANGED <<head, next, link, owned, stack, pushes>>

PushStore(t) ==
  /\ pc[t] = "push_store"
  /\ next' = [next EXCEPT ![mine[t]] = seen[t].idx]
  /\ pc' = [pc EXCEPT ![t] = "push_cas"]
  /\ UNCHANGED <<head, seen, link, mine, owned, stack, pushes, seenAt>>

\* version.wrapping_add(1), and what a missing tag or a missing wrap would be.
NextVersionStuck(v) == v
NextVersion(v) == (v + 1) % VersionMod

\* No thread stays between the load and the compare-exchange of one `pop` while
\* the others complete VersionMod (2^32) pushes.
NoVersionLap ==
  \A t \in Threads : pc[t] \in {"pop_link", "pop_cas"}
                       => pushes + 1 - seenAt[t] < VersionMod

PushCas(t) ==
  /\ pc[t] = "push_cas"
  /\ head = seen[t]
  /\ NoVersionLap
  /\ head' = [idx |-> mine[t], version |-> NextVersion(seen[t].version)]
  /\ owned' = [owned EXCEPT ![t] = @ \ {mine[t]}]
  /\ stack' = Append(stack, mine[t])
  /\ pushes' = pushes + 1
  /\ Leave(t)
  /\ UNCHANGED next

PushRetry(t) ==
  /\ pc[t] = "push_cas"
  /\ seen' = [seen EXCEPT ![t] = head]
  /\ seenAt' = [seenAt EXCEPT ![t] = pushes]
  /\ pc' = [pc EXCEPT ![t] = "push_store"]
  /\ UNCHANGED <<head, next, link, mine, owned, stack, pushes>>

-----------------------------------------------------------------------------
(* What the pools' users do with a slot they hold *)

\* RxInbox::push and the reversal in drain_each store to the `next` field of a
\* node that is off the free list.
Relink(t, s, n) ==
  /\ pc[t] = "idle" /\ s \in owned[t]
  /\ next' = [next EXCEPT ![s] = n]
  /\ UNCHANGED <<head, local, owned, stack, pushes>>

\* A node allocated by the distributor is drained, and freed, by another core.
HandOff(t, u, s) ==
  /\ t # u /\ pc[t] = "idle" /\ s \in owned[t]
  /\ owned' = [owned EXCEPT ![t] = @ \ {s}, ![u] = @ \cup {s}]
  /\ UNCHANGED <<head, next, local, stack, pushes>>

ThreadStep(t) ==
  \/ PopLoad(t) \/ PopLink(t) \/ PopCas(t) \/ PopRetry(t)
  \/ \E s \in Slots : PushLoad(t, s)
  \/ PushStore(t) \/ PushCas(t) \/ PushRetry(t)
  \/ \E s \in Slots, n \in Links : Relink(t, s, n)
  \/ \E u \in Threads, s \in Slots : HandOff(t, u, s)

Next == \E t \in Threads : ThreadStep(t)
Spec == Init /\ [][Next]_vars

-----------------------------------------------------------------------------
(* Properties *)

\* The variables of the stack hold what their Rust types allow.
TypeOK ==
  /\ head \in Word
  /\ next \in [Slots -> Links]
  /\ pc \in [Threads -> {"idle", "pop_link", "pop_cas", "push_store", "push_cas"}]
  /\ seen \in [Threads -> Word]
  /\ link \in [Threads -> Links]
  /\ mine \in [Threads -> Links]
  /\ owned \in [Threads -> SUBSET Slots]
  /\ stack \in Seq(Slots)
  /\ pushes \in Nat
  /\ seenAt \in [Threads -> Nat]

\* The chain that starts at the head word is exactly the list of the slots
\* pushed and not popped: no `pop` installs a stale link, whatever pops, pushes
\* and reuses of links happened between its load and its compare-exchange.
ChainIntact ==
  /\ head.idx = Below(Len(stack) + 1)
  /\ \A i \in 1 .. Len(stack) : next[stack[i]] = Below(i)

\* No slot is handed out twice and none is lost: a slot is on the list once and
\* held by nobody, or off the list and held by exactly one thread.
SlotsConserved ==
  /\ \A i, j \in 1 .. Len(stack) : i # j => stack[i] # stack[j]
  /\ \A s \in Slots : s \in OnStack <=> \A t \in Threads : s \notin owned[t]
  /\ \A t, u \in Threads : t # u => owned[t] \cap owned[u] = {}

\* The stack implements an atomic free list: every successful compare-exchange
\* of `pop` takes the most recently freed slot and that of `push` returns one,
\* and no other step changes what is free.
FreeListSpec == INSTANCE FreeList WITH free <- stack, held <- owned
ImplementsFreeList == FreeListSpec!Spec
=============================================================================
