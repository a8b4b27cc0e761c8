------------------------- MODULE TaggedTreiberProofs -------------------------
(***************************************************************************)
(* For any number of threads and slots, and any version width: the chain   *)
(* behind the head word stays intact, and no slot is lost or handed out    *)
(* twice.                                                                  *)
(*                                                                         *)
(* The argument is about the window between a pop's load of the head word  *)
(* and its compare-exchange.  The head's version is ahead of the version   *)
(* the pop saw by the number of pushes since, modulo VersionMod; fewer     *)
(* than VersionMod of them happened, so an unchanged version means none    *)
(* happened.  Without a push slots only leave the stack, so the slot the   *)
(* pop saw is on top still, with the link it had, or is off the stack.     *)
(***************************************************************************)
EXTENDS TaggedTreiber, FiniteSetTheorems, TLAPS

InPop(t) == pc[t] \in {"pop_link", "pop_cas"}
InPush(t) == pc[t] \in {"push_store", "push_cas"}

\* The head version counts the pushes since t's load, in its own width.
VersionCounts(t) ==
  /\ seenAt[t] <= pushes
  /\ pushes - seenAt[t] < VersionMod
  /\ \/ head.version = seen[t].version + (pushes - seenAt[t])
     \/ head.version = seen[t].version + (pushes - seenAt[t]) - VersionMod

\* As long as nobody pushed, the slot t saw is on top or gone.
TopOrGone(t) ==
  pushes = seenAt[t] =>
    \/ /\ head.idx = seen[t].idx
       /\ pc[t] = "pop_cas" => link[t] = Below(Len(stack))
    \/ seen[t].idx \notin OnStack

PopWindow ==
  \A t \in Threads : InPop(t) =>
    seen[t].idx # NullIndex /\ VersionCounts(t) /\ TopOrGone(t)

PushWindow ==
  \A t \in Threads : InPush(t) =>
    /\ mine[t] \in owned[t]
    /\ pc[t] = "push_cas" => next[mine[t]] = seen[t].idx

IInv == TypeOK /\ ChainIntact /\ SlotsConserved /\ PopWindow /\ PushWindow

-----------------------------------------------------------------------------
(* Sequences and the version counter *)

\* What `push` does to the abstract stack.
LEMMA AppendLemma ==
  ASSUME NEW S, NEW q \in Seq(S), NEW x \in S
  PROVE  /\ Append(q, x) \in Seq(S)
         /\ Len(Append(q, x)) = Len(q) + 1
         /\ \A i \in 1 .. Len(q) : Append(q, x)[i] = q[i]
         /\ Append(q, x)[Len(q) + 1] = x
  BY SMTT(60)

\* What `pop` does to it.
LEMMA DropTopLemma ==
  ASSUME NEW S, NEW q \in Seq(S), Len(q) > 0
  PROVE  /\ DropTop(q) \in Seq(S)
         /\ Len(DropTop(q)) = Len(q) - 1
         /\ \A i \in 1 .. Len(q) - 1 : DropTop(q)[i] = q[i]
  BY SMTT(60) DEF DropTop

\* version.wrapping_add(1) adds one or falls back to zero.
LEMMA NextVersionLemma ==
  ASSUME NEW v \in 0 .. VersionMod - 1
  PROVE  /\ NextVersion(v) \in 0 .. VersionMod - 1
         /\ NextVersion(v) = v + 1 \/ NextVersion(v) = v + 1 - VersionMod
<1>1. CASE v + 1 < VersionMod
  BY <1>1, VersionAssumption, SMTT(60) DEF NextVersion
<1>2. CASE v + 1 = VersionMod
  BY <1>2, VersionAssumption, SMTT(60) DEF NextVersion
<1>. QED
  BY <1>1, <1>2, VersionAssumption, SMTT(60)

\* The initial chain is intact and holds every slot.
LEMMA InitLemma == Init => IInv
<1>. SUFFICES ASSUME Init PROVE IInv
  BY Zenon
<1>1. Cardinality(Slots) \in Nat
  BY SlotsAssumption, FS_CardinalityType, Zenon
<1>2. stack \in Seq(Slots) /\ Len(stack) = Cardinality(Slots)
  BY <1>1, SMTT(60) DEF Init
<1>3. head \in Word
  BY <1>2, VersionAssumption, SMTT(60) DEF Init, Word, Links, Below
<1>4. TypeOK
  BY <1>2, <1>3, VersionAssumption, Zenon DEF Init, TypeOK, Word, Links, NoWord
<1>5. ChainIntact
  BY <1>2, Zenon DEF Init, ChainIntact, Below
<1>6. SlotsConserved
  BY <1>2, Zenon DEF Init, SlotsConserved, OnStack
<1>7. PopWindow /\ PushWindow
  BY Zenon DEF Init, PopWindow, PushWindow, InPop, InPush
<1>. QED
  BY <1>4, <1>5, <1>6, <1>7, Zenon DEF IInv

-----------------------------------------------------------------------------
(* Every step preserves the invariant *)

\* A thread's own bookkeeping: locals change, memory and ownership do not.
LEMMA PopLoadLemma ==
  ASSUME IInv, NEW t \in Threads, PopLoad(t) PROVE IInv'
<1>. USE DEF IInv, PopLoad
<1>1. TypeOK'
  BY Zenon DEF TypeOK
<1>2. ChainIntact' /\ SlotsConserved'
  BY SMTT(60) DEF ChainIntact, SlotsConserved, Below, OnStack
<1>3. PopWindow'
  BY VersionAssumption, SMTT(60)
  DEF PopWindow, InPop, VersionCounts, TopOrGone, TypeOK, Word, Below, OnStack
<1>4. PushWindow'
  BY Zenon DEF PushWindow, InPush, TypeOK
<1>. QED
  BY <1>1, <1>2, <1>3, <1>4, Zenon

\* The link read is the right one if the slot is still on top.
LEMMA PopLinkLemma ==
  ASSUME IInv, NEW t \in Threads, PopLink(t) PROVE IInv'
<1>. USE DEF IInv, PopLink
<1>0. seen[t].idx \in Slots
  BY Zenon DEF PopWindow, InPop, TypeOK, Word, Links
<1>1. TypeOK'
  BY <1>0, Zenon DEF TypeOK
<1>2. ChainIntact' /\ SlotsConserved'
  BY SMTT(60) DEF ChainIntact, SlotsConserved, Below, OnStack
<1>3. head.idx = seen[t].idx => next[seen[t].idx] = Below(Len(stack))
  <2>. SUFFICES ASSUME head.idx = seen[t].idx
                PROVE  next[head.idx] = Below(Len(stack))
    BY Zenon
  <2>1. Len(stack) \in Nat /\ Len(stack) # 0
    BY <1>0, SlotsAssumption, SMTT(60) DEF ChainIntact, Below, TypeOK
  <2>2. head.idx = stack[Len(stack)]
    BY <2>1, SMTT(60) DEF ChainIntact, Below
  <2>. QED
    BY <2>1, <2>2, SMTT(60) DEF ChainIntact
<1>4. PopWindow'
  <2>. SUFFICES ASSUME NEW u \in Threads, InPop(u)'
                PROVE  (seen[u].idx # NullIndex /\ VersionCounts(u) /\ TopOrGone(u))'
    BY Zenon DEF PopWindow
  <2>1. InPop(u)
    BY Zenon DEF InPop, TypeOK
  <2>2. (seen[u].idx # NullIndex /\ VersionCounts(u))'
    BY <2>1, Zenon DEF PopWindow, VersionCounts
  <2>3. TopOrGone(u)'
    BY <2>1, <1>3, ZenonT(60) DEF PopWindow, TopOrGone, TypeOK, Below, OnStack
  <2>. QED
    BY <2>2, <2>3, Zenon
<1>5. PushWindow'
  BY Zenon DEF PushWindow, InPush, TypeOK
<1>. QED
  BY <1>1, <1>2, <1>4, <1>5, Zenon

\* Giving up, or being overtaken, changes nothing but the thread's locals.
LEMMA PopRetryLemma ==
  ASSUME IInv, NEW t \in Threads, PopRetry(t) PROVE IInv'
<1>. USE DEF IInv, PopRetry, Leave
<1>1. TypeOK'
  BY VersionAssumption, SMTT(60) DEF TypeOK, NoWord, Word, Links
<1>2. ChainIntact' /\ SlotsConserved'
  BY SMTT(60) DEF ChainIntact, SlotsConserved, Below, OnStack
<1>3. PopWindow'
  BY SMTT(60) DEF PopWindow, InPop, VersionCounts, TopOrGone, TypeOK, Below, OnStack
<1>4. PushWindow'
  BY Zenon DEF PushWindow, InPush, TypeOK
<1>. QED
  BY <1>1, <1>2, <1>3, <1>4, Zenon

\* If the head word is the one t saw, nobody pushed since t's load, so the slot
\* is the top of the stack and the link t read is the one below it.
LEMMA PopSound ==
  ASSUME IInv, NEW t \in Threads, pc[t] = "pop_cas", head = seen[t]
  PROVE  /\ Len(stack) \in Nat /\ Len(stack) > 0
         /\ seen[t].idx = stack[Len(stack)]
         /\ link[t] = Below(Len(stack))
<1>. USE DEF IInv
<1>1. head.idx # NullIndex /\ VersionCounts(t) /\ TopOrGone(t)
  BY Zenon DEF PopWindow, InPop
<1>2. pushes = seenAt[t]
  BY <1>1, VersionAssumption, SMTT(60) DEF VersionCounts, TypeOK, Word
<1>3. Len(stack) \in Nat /\ Len(stack) > 0
  BY <1>1, SMTT(60) DEF ChainIntact, Below, TypeOK
<1>4. head.idx = stack[Len(stack)]
  BY <1>3, SMTT(60) DEF ChainIntact, Below
<1>5. head.idx \in OnStack
  BY <1>3, <1>4, SMTT(60) DEF OnStack
<1>. QED
  BY <1>1, <1>2, <1>3, <1>4, <1>5, Zenon DEF TopOrGone

\* A successful pop moves the top slot from the stack to t.
LEMMA PopCasLemma ==
  ASSUME IInv, NEW t \in Threads, PopCas(t) PROVE IInv'
<1>. USE DEF IInv
<1>. DEFINE n == Len(stack)
            top == seen[t].idx
<1>1. n \in Nat /\ n > 0 /\ top = stack[n] /\ link[t] = Below(n)
  BY PopSound, Zenon DEF PopCas
<1>2. /\ stack' \in Seq(Slots) /\ Len(stack') = n - 1
      /\ \A i \in 1 .. n - 1 : stack'[i] = stack[i]
  BY <1>1, DropTopLemma, Zenon DEF PopCas, TypeOK
<1>3. top \in Slots
  BY <1>1, SMTT(60) DEF TypeOK
<1>4. TypeOK'
  BY <1>2, <1>3, VersionAssumption, SMTT(60) DEF PopCas, Leave, TypeOK, NoWord, Word, Links
<1>5. ChainIntact'
  BY <1>1, <1>2, SMTT(60) DEF ChainIntact, Below, PopCas
<1>6. OnStack' = OnStack \ {top}
  <2>1. \A i \in 1 .. n - 1 : stack[i] # top
    BY <1>1, SMTT(60) DEF SlotsConserved
  <2>. QED
    BY <1>1, <1>2, <2>1, SMTT(60) DEF OnStack
<1>7. \A u \in Threads : top \notin owned[u]
  BY <1>1, <1>3, SMTT(60) DEF SlotsConserved, OnStack
<1>8. SlotsConserved'
  <2>1. (\A i, j \in 1 .. Len(stack) : i # j => stack[i] # stack[j])'
    BY <1>1, <1>2, SMTT(60) DEF SlotsConserved
  <2>2. ASSUME NEW x \in Slots
        PROVE  (x \in OnStack <=> \A u \in Threads : x \notin owned[u])'
    BY <1>6, <1>7, <2>2, Zenon DEF SlotsConserved, PopCas, TypeOK
  <2>3. (\A u, w \in Threads : u # w => owned[u] \cap owned[w] = {})'
    BY <1>7, SMTT(60) DEF SlotsConserved, PopCas, TypeOK
  <2>. QED
    BY <2>1, <2>2, <2>3, Zenon DEF SlotsConserved
<1>9. PopWindow'
  <2>. SUFFICES ASSUME NEW u \in Threads, InPop(u)'
                PROVE  (seen[u].idx # NullIndex /\ VersionCounts(u) /\ TopOrGone(u))'
    BY Zenon DEF PopWindow
  <2>1. u # t /\ InPop(u) /\ seen'[u] = seen[u] /\ seenAt'[u] = seenAt[u]
    BY Zenon DEF InPop, PopCas, Leave, TypeOK
  <2>2. (seen[u].idx # NullIndex /\ VersionCounts(u))'
    BY <2>1, Zenon DEF PopWindow, VersionCounts, PopCas
  <2>3. head.idx = top
    BY Zenon DEF PopCas
  <2>4. TopOrGone(u)'
    BY <1>6, <2>1, <2>3, Zenon DEF PopWindow, TopOrGone, PopCas
  <2>. QED
    BY <2>2, <2>4, Zenon
<1>10. PushWindow'
  BY Zenon DEF PushWindow, InPush, PopCas, Leave, TypeOK
<1>. QED
  BY <1>4, <1>5, <1>8, <1>9, <1>10, Zenon

\* Starting a push or restarting it only records the head word.
LEMMA PushLoadLemma ==
  ASSUME IInv, NEW t \in Threads,
         (\E s \in Slots : PushLoad(t, s)) \/ PushRetry(t)
  PROVE  IInv'
<1>. USE DEF IInv, PushLoad, PushRetry
<1>. DEFINE Loaded(m) ==
        /\ mine' = [mine EXCEPT ![t] = m] /\ m \in owned[t]
        /\ seen' = [seen EXCEPT ![t] = head]
        /\ seenAt' = [seenAt EXCEPT ![t] = pushes]
        /\ pc' = [pc EXCEPT ![t] = "push_store"]
        /\ UNCHANGED <<head, next, link, owned, stack, pushes>>
<1>0. PICK m \in Links : Loaded(m)
  <2>1. ASSUME NEW s \in Slots, PushLoad(t, s) PROVE Loaded(s) /\ s \in Links
    BY <2>1, Zenon DEF Links
  <2>2. ASSUME PushRetry(t) PROVE Loaded(mine[t]) /\ mine[t] \in Links
    <3>1. mine[t] \in owned[t] /\ mine[t] \in Links
      BY <2>2, Zenon DEF PushWindow, InPush, TypeOK
    <3>2. mine' = [mine EXCEPT ![t] = mine[t]]
      BY <2>2, Zenon DEF TypeOK
    <3>. QED
      BY <2>2, <3>1, <3>2, Zenon
  <2>. HIDE DEF Loaded
  <2>. QED
    BY <2>1, <2>2, Zenon
<1>. HIDE DEF PushLoad, PushRetry
<1>1. TypeOK'
  BY <1>0, Zenon DEF TypeOK
<1>2. ChainIntact' /\ SlotsConserved'
  BY <1>0, SMTT(60) DEF ChainIntact, SlotsConserved, Below, OnStack
<1>3. PopWindow'
  <2>. SUFFICES ASSUME NEW u \in Threads, InPop(u)'
                PROVE  (seen[u].idx # NullIndex /\ VersionCounts(u) /\ TopOrGone(u))'
    BY Zenon DEF PopWindow
  <2>1. u # t /\ InPop(u) /\ seen'[u] = seen[u] /\ seenAt'[u] = seenAt[u] /\ pc'[u] = pc[u]
    BY <1>0, Zenon DEF InPop, TypeOK
  <2>. QED
    BY <1>0, <2>1, ZenonT(60) DEF PopWindow, VersionCounts, TopOrGone, Below, OnStack
<1>4. PushWindow'
  BY <1>0, Zenon DEF PushWindow, InPush, TypeOK
<1>. QED
  BY <1>1, <1>2, <1>3, <1>4, Zenon

\* A store to the link of a slot that its owner holds is invisible to the list
\* and to every other thread's push.
LEMMA StoreOwned ==
  ASSUME IInv, NEW t \in Threads, NEW s \in owned[t], NEW n \in Links,
         next' = [next EXCEPT ![s] = n],
         UNCHANGED <<head, stack, owned, pushes, seen, mine, seenAt, link>>,
         \A u \in Threads : u # t => pc'[u] = pc[u],
         InPop(t)' => FALSE
  PROVE  /\ ChainIntact' /\ SlotsConserved' /\ PopWindow'
         /\ \A u \in Threads : u # t /\ pc[u] = "push_cas" => next'[mine[u]] = seen[u].idx
<1>. USE DEF IInv
<1>1. s \in Slots /\ \A i \in 1 .. Len(stack) : stack[i] # s
  BY ZenonT(60) DEF SlotsConserved, OnStack, TypeOK
<1>2. ChainIntact'
  BY <1>1, SMTT(60) DEF ChainIntact, Below, TypeOK
<1>3. SlotsConserved'
  BY SMTT(60) DEF SlotsConserved, OnStack
<1>4. PopWindow'
  BY ZenonT(60) DEF PopWindow, InPop, VersionCounts, TopOrGone, Below, OnStack
<1>5. \A u \in Threads : u # t /\ pc[u] = "push_cas" => next'[mine[u]] = seen[u].idx
  BY <1>1, SMTT(60) DEF PushWindow, InPush, SlotsConserved, TypeOK
<1>. QED
  BY <1>2, <1>3, <1>4, <1>5, Zenon

LEMMA PushStoreLemma ==
  ASSUME IInv, NEW t \in Threads, PushStore(t) PROVE IInv'
<1>. USE DEF IInv
<1>1. mine[t] \in owned[t] /\ seen[t].idx \in Links
  BY Zenon DEF PushWindow, InPush, PushStore, TypeOK, Word
<1>2. /\ \A u \in Threads : u # t => pc'[u] = pc[u]
      /\ ~ InPop(t)' /\ pc'[t] = "push_cas"
  BY Zenon DEF PushStore, InPop, TypeOK
<1>3. TypeOK'
  BY <1>1, Zenon DEF PushStore, TypeOK
<1>4. /\ ChainIntact' /\ SlotsConserved' /\ PopWindow'
      /\ \A u \in Threads : u # t /\ pc[u] = "push_cas" => next'[mine[u]] = seen[u].idx
  <2>. HIDE DEF IInv
  <2>. QED
    BY <1>1, <1>2, StoreOwned, Zenon DEF PushStore
<1>5. next'[mine[t]] = seen[t].idx
  BY <1>1, Zenon DEF PushStore, TypeOK
<1>6. PushWindow'
  BY <1>1, <1>2, <1>4, <1>5, ZenonT(60) DEF PushWindow, InPush, PushStore
<1>. QED
  BY <1>3, <1>4, <1>6, Zenon

LEMMA RelinkLemma ==
  ASSUME IInv, NEW t \in Threads, NEW s \in Slots, NEW n \in Links, Relink(t, s, n)
  PROVE  IInv'
<1>. USE DEF IInv
<1>1. s \in owned[t] /\ UNCHANGED pc /\ ~ InPop(t)'
  BY Zenon DEF Relink, local, InPop
<1>2. TypeOK'
  BY Zenon DEF Relink, local, TypeOK
<1>3. /\ ChainIntact' /\ SlotsConserved' /\ PopWindow'
      /\ \A u \in Threads : u # t /\ pc[u] = "push_cas" => next'[mine[u]] = seen[u].idx
  <2>. HIDE DEF IInv
  <2>. QED
    BY <1>1, StoreOwned, Zenon DEF Relink, local
<1>4. PushWindow'
  BY <1>3, ZenonT(60) DEF PushWindow, InPush, Relink, local
<1>. QED
  BY <1>2, <1>3, <1>4, Zenon

\* The slot enters the list at the top; the head version moves by one, so no
\* pop that is under way can take the head word for the one it saw.
LEMMA PushCasLemma ==
  ASSUME IInv, NEW t \in Threads, PushCas(t) PROVE IInv'
<1>. USE DEF IInv
<1>. DEFINE n == Len(stack)
            s == mine[t]
<1>1. s \in owned[t] /\ s \in Slots /\ next[s] = head.idx /\ n \in Nat
  BY SMTT(60) DEF PushCas, PushWindow, InPush, TypeOK
<1>2. /\ stack' \in Seq(Slots) /\ Len(stack') = n + 1
      /\ \A i \in 1 .. n : stack'[i] = stack[i]
      /\ stack'[n + 1] = s
  BY <1>1, AppendLemma, SMTT(60) DEF PushCas, TypeOK
<1>3. /\ head'.idx = s
      /\ head'.version \in 0 .. VersionMod - 1
      /\ \/ head'.version = head.version + 1
         \/ head'.version = head.version + 1 - VersionMod
  BY NextVersionLemma, Zenon DEF PushCas, TypeOK, Word
<1>4. head' \in Word
  BY <1>1, <1>3, Zenon DEF PushCas, Word, Links
<1>5. TypeOK'
  BY <1>1, <1>2, <1>4, VersionAssumption, SMTT(60) DEF PushCas, Leave, TypeOK, NoWord, Word, Links
<1>6. ChainIntact'
  BY <1>1, <1>2, <1>3, SMTT(60) DEF ChainIntact, Below, PushCas
<1>7. s \notin OnStack /\ OnStack' = OnStack \cup {s}
  BY <1>1, <1>2, SMTT(60) DEF OnStack, SlotsConserved
<1>8. SlotsConserved'
  <2>1. (\A i, j \in 1 .. Len(stack) : i # j => stack[i] # stack[j])'
    BY <1>1, <1>2, <1>7, SMTT(60) DEF SlotsConserved, OnStack
  <2>2. ASSUME NEW x \in Slots
        PROVE  (x \in OnStack <=> \A u \in Threads : x \notin owned[u])'
    BY <1>1, <1>7, SMTT(60) DEF SlotsConserved, PushCas, TypeOK
  <2>3. (\A u, w \in Threads : u # w => owned[u] \cap owned[w] = {})'
    BY <1>1, ZenonT(60) DEF SlotsConserved, PushCas, TypeOK
  <2>. QED
    BY <2>1, <2>2, <2>3, Zenon DEF SlotsConserved
<1>9. PopWindow'
  <2>. SUFFICES ASSUME NEW u \in Threads, InPop(u)'
                PROVE  (seen[u].idx # NullIndex /\ VersionCounts(u) /\ TopOrGone(u))'
    BY Zenon DEF PopWindow
  <2>1. u # t /\ InPop(u) /\ seen'[u] = seen[u] /\ seenAt'[u] = seenAt[u]
    BY Zenon DEF InPop, PushCas, Leave, TypeOK
  <2>2. seen[u].idx # NullIndex /\ VersionCounts(u)
    BY <2>1, Zenon DEF PopWindow
  <2>3. pushes + 1 - seenAt[u] < VersionMod /\ pushes' = pushes + 1
    BY <2>1, Zenon DEF PushCas, NoVersionLap, InPop
  <2>4. /\ pushes \in Nat /\ seenAt[u] \in Nat
        /\ head.version \in 0 .. VersionMod - 1 /\ seen[u].version \in 0 .. VersionMod - 1
    BY Zenon DEF TypeOK, Word
  <2>5. VersionCounts(u)'
    BY <1>3, <2>1, <2>2, <2>3, <2>4, VersionAssumption, SMTT(60) DEF VersionCounts
  <2>6. TopOrGone(u)'
    BY <2>1, <2>2, <2>3, <2>4, SMTT(60) DEF TopOrGone, VersionCounts
  <2>. QED
    BY <2>1, <2>2, <2>5, <2>6, Zenon
<1>10. PushWindow'
  BY <1>1, SMTT(60) DEF PushWindow, InPush, PushCas, Leave, SlotsConserved, TypeOK
<1>. QED
  BY <1>5, <1>6, <1>8, <1>9, <1>10, Zenon

LEMMA HandOffLemma ==
  ASSUME IInv, NEW t \in Threads, NEW u \in Threads, NEW s \in Slots, HandOff(t, u, s)
  PROVE  IInv'
<1>. USE DEF IInv, HandOff, local
<1>1. TypeOK'
  BY Zenon DEF TypeOK
<1>2. ChainIntact' /\ PopWindow'
  BY SMTT(60) DEF ChainIntact, PopWindow, InPop, VersionCounts, TopOrGone, Below, OnStack
<1>3. SlotsConserved'
  <2>1. \A x \in Slots, w \in Threads :
          x \in owned'[w] <=> IF x = s THEN w = u ELSE x \in owned[w]
    BY ZenonT(60) DEF SlotsConserved, TypeOK
  <2>2. OnStack' = OnStack /\ s \notin OnStack
    BY SMTT(60) DEF SlotsConserved, OnStack
  <2>3. (\A x \in Slots : x \in OnStack <=> \A w \in Threads : x \notin owned[w])'
    BY <2>1, <2>2, Zenon DEF SlotsConserved
  <2>4. (\A w, z \in Threads : w # z => owned[w] \cap owned[z] = {})'
    <3>. SUFFICES ASSUME NEW w \in Threads, NEW z \in Threads, w # z,
                         NEW x \in owned'[w], x \in owned'[z]
                  PROVE  FALSE
      BY Zenon
    <3>1. x \in Slots
      BY <1>1, Zenon DEF TypeOK
    <3>2. CASE x = s
      BY <2>1, <3>1, <3>2, Zenon
    <3>3. CASE x # s
      <4>1. x \in owned[w] /\ x \in owned[z]
        BY <2>1, <3>1, <3>3, Zenon
      <4>. QED
        BY <4>1, Zenon DEF SlotsConserved
    <3>. QED
      BY <3>2, <3>3, Zenon
  <2>. QED
    BY <2>3, <2>4, Zenon DEF SlotsConserved
<1>4. PushWindow'
  BY Zenon DEF PushWindow, InPush, TypeOK
<1>. QED
  BY <1>1, <1>2, <1>3, <1>4, Zenon

-----------------------------------------------------------------------------
(* The theorems *)

LEMMA StepLemma == IInv /\ [Next]_vars => IInv'
<1>. SUFFICES ASSUME IInv, [Next]_vars PROVE IInv'
  BY Zenon
<1>1. ASSUME NEW t \in Threads, ThreadStep(t) PROVE IInv'
  BY ZenonT(60), <1>1, PopLoadLemma, PopLinkLemma, PopCasLemma, PopRetryLemma, PushLoadLemma,
     PushStoreLemma, PushCasLemma, RelinkLemma, HandOffLemma DEF ThreadStep
<1>2. CASE UNCHANGED vars
  BY <1>2, SMTT(60) DEF vars, IInv, TypeOK, ChainIntact, SlotsConserved, PopWindow, PushWindow,
     InPop, InPush, VersionCounts, TopOrGone, Below, OnStack
<1>. QED
  BY <1>1, <1>2, Zenon DEF Next

\* The strengthening is an invariant of push, pop and the pools' use of slots.
THEOREM Invariance == Spec => []IInv
  BY InitLemma, StepLemma, PTL DEF Spec

\* No pop installs a stale link, however its load and its compare-exchange
\* interleave with the pops and pushes of other threads.
THEOREM ChainIsIntact == Spec => []ChainIntact
<1>1. IInv => ChainIntact
  BY Zenon DEF IInv
<1>. QED
  BY Invariance, <1>1, PTL

\* push and pop lose no slot and hand none out twice.
THEOREM SlotsAreConserved == Spec => []SlotsConserved
<1>1. IInv => SlotsConserved
  BY Zenon DEF IInv
<1>. QED
  BY Invariance, <1>1, PTL

\* push and pop implement the atomic free list: a successful compare-exchange
\* is its Alloc or Free, and every other step leaves it alone.
THEOREM Refinement == Spec => ImplementsFreeList
<1>1. Init => FreeListSpec!Init
  <2>. SUFFICES ASSUME Init PROVE FreeListSpec!Init
    BY Zenon
  <2>1. /\ stack \in Seq(Slots)
        /\ \A i, j \in 1 .. Len(stack) : i # j => stack[i] # stack[j]
        /\ Slots \subseteq {stack[i] : i \in 1 .. Len(stack)}
        /\ owned = [t \in Threads |-> {}]
    BY InitLemma, Zenon DEF Init, OnStack, IInv, TypeOK
  <2>. QED
    BY <2>1, Zenon DEF FreeListSpec!Init
<1>2. ASSUME IInv, NEW t \in Threads, PopCas(t) PROVE FreeListSpec!Alloc(t)
  <2>1. Len(stack) > 0 /\ seen[t].idx = stack[Len(stack)]
    BY <1>2, PopSound, Zenon DEF PopCas
  <2>. QED
    BY <1>2, <2>1, SMTT(60) DEF PopCas, FreeListSpec!Alloc, FreeListSpec!DropTop, DropTop
<1>3. ASSUME IInv, NEW t \in Threads, PushCas(t) PROVE FreeListSpec!Free(t, mine[t]) /\ mine[t] \in Slots
  BY <1>3, Zenon DEF PushCas, FreeListSpec!Free, IInv, PushWindow, InPush, TypeOK
<1>4. ASSUME NEW t \in Threads, NEW u \in Threads, NEW s \in Slots, HandOff(t, u, s)
      PROVE  FreeListSpec!Transfer(t, u, s)
  BY <1>4, Zenon DEF HandOff, FreeListSpec!Transfer
<1>5. ASSUME NEW t \in Threads, ThreadStep(t), ~ PopCas(t), ~ PushCas(t),
             \A u \in Threads, s \in Slots : ~ HandOff(t, u, s)
      PROVE  UNCHANGED <<stack, owned>>
  BY <1>5, Zenon DEF ThreadStep, PopLoad, PopLink, PopRetry, PushLoad, PushStore, PushRetry, Relink
<1>6. IInv /\ [Next]_vars => [FreeListSpec!Next]_<<stack, owned>>
  <2>. SUFFICES ASSUME IInv, [Next]_vars PROVE FreeListSpec!Next \/ UNCHANGED <<stack, owned>>
    BY Zenon
  <2>1. ASSUME NEW t \in Threads, ThreadStep(t)
        PROVE  FreeListSpec!Next \/ UNCHANGED <<stack, owned>>
    BY <1>2, <1>3, <1>4, <1>5, <2>1, Zenon DEF FreeListSpec!Next
  <2>2. CASE UNCHANGED vars
    BY <2>2, Zenon DEF vars
  <2>. QED
    BY <2>1, <2>2, Zenon DEF Next
<1>. QED
  BY <1>1, <1>6, Invariance, PTL DEF Spec, ImplementsFreeList, FreeListSpec!Spec
=============================================================================
