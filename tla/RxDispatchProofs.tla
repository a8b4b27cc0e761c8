-------------------------- MODULE RxDispatchProofs --------------------------
(***************************************************************************)
(* Proofs about the worker tier of the receive path, for any number of     *)
(* cores, frames and control nodes: one core distributes at a time, a      *)
(* frame is in exactly one place, and only the core that owns its flow     *)
(* handles it.                                                             *)
(***************************************************************************)
EXTENDS RxDispatch, FiniteSetTheorems, SequenceTheorems, TLAPS

-----------------------------------------------------------------------------
(* Sequences of frames *)

NoRepeat(q) == \A j, k \in 1 .. Len(q) : q[j] = q[k] => j = k

LEMMA ElemsEmpty == Elems(<<>>) = {} /\ NoRepeat(<<>>)
BY SMTT(60) DEF Elems, NoRepeat

LEMMA ElemsAppend ==
  ASSUME NEW q \in Seq(Nat), NEW f \in Nat
  PROVE  /\ Append(q, f) \in Seq(Nat)
         /\ Elems(Append(q, f)) = Elems(q) \cup {f}
         /\ NoRepeat(q) /\ f \notin Elems(q) => NoRepeat(Append(q, f))
<1>1. /\ Append(q, f) \in Seq(Nat) /\ Len(q) \in Nat /\ Len(Append(q, f)) = Len(q) + 1
      /\ \A k \in 1 .. Len(q) : Append(q, f)[k] = q[k]
      /\ Append(q, f)[Len(q) + 1] = f
  BY AppendProperties, LenProperties, SMTT(60)
<1>2. Elems(Append(q, f)) = Elems(q) \cup {f}
  <2>1. \A k \in 1 .. Len(q) + 1 : k \in 1 .. Len(q) \/ k = Len(q) + 1
    BY <1>1, SMTT(60)
  <2>2. \A k \in 1 .. Len(q) : k \in 1 .. Len(q) + 1
    BY <1>1, SMTT(60)
  <2>3. Len(q) + 1 \in 1 .. Len(q) + 1
    BY <1>1, SMTT(60)
  <2> QED BY <1>1, <2>1, <2>2, <2>3, Zenon DEF Elems
<1>3. ASSUME NoRepeat(q), f \notin Elems(q) PROVE NoRepeat(Append(q, f))
  BY <1>1, <1>3, SMTT(60) DEF NoRepeat, Elems
<1> QED BY <1>1, <1>2, <1>3, Zenon

LEMMA ElemsTail ==
  ASSUME NEW q \in Seq(Nat), q # <<>>
  PROVE  /\ Head(q) \in Elems(q) /\ Head(q) \in Nat /\ Tail(q) \in Seq(Nat)
         /\ Elems(q) = Elems(Tail(q)) \cup {Head(q)}
         /\ NoRepeat(q) => NoRepeat(Tail(q)) /\ Head(q) \notin Elems(Tail(q))
<1>1. /\ Head(q) = q[1] /\ Head(q) \in Nat /\ Tail(q) \in Seq(Nat)
      /\ Len(q) \in Nat /\ Len(q) # 0 /\ Len(Tail(q)) = Len(q) - 1
      /\ \A k \in 1 .. Len(q) - 1 : Tail(q)[k] = q[k + 1]
  BY HeadTailProperties, LenProperties, EmptySeq, SMTT(60)
<1>2. Head(q) \in Elems(q) /\ Elems(Tail(q)) \subseteq Elems(q)
  BY <1>1, SMTT(60) DEF Elems
<1>3. ASSUME NEW k \in 1 .. Len(q) PROVE q[k] \in Elems(Tail(q)) \cup {Head(q)}
  <2>1. k = 1 \/ (k - 1 \in 1 .. Len(q) - 1 /\ Tail(q)[k - 1] = q[k])
    BY <1>1, SMTT(60)
  <2> QED BY <1>1, <2>1, Zenon DEF Elems
<1>4. ASSUME NoRepeat(q) PROVE NoRepeat(Tail(q)) /\ Head(q) \notin Elems(Tail(q))
  BY <1>1, <1>4, SMTT(60) DEF NoRepeat, Elems
<1> QED BY <1>1, <1>2, <1>3, <1>4, Zenon DEF Elems

LEMMA ElemsConcat ==
  ASSUME NEW q \in Seq(Nat), NEW r \in Seq(Nat)
  PROVE  /\ q \o r \in Seq(Nat)
         /\ Elems(q \o r) = Elems(q) \cup Elems(r)
         /\ NoRepeat(q) /\ NoRepeat(r) /\ Elems(q) \cap Elems(r) = {} => NoRepeat(q \o r)
<1>1. /\ q \o r \in Seq(Nat) /\ Len(q) \in Nat /\ Len(r) \in Nat
      /\ Len(q \o r) = Len(q) + Len(r)
      /\ \A k \in 1 .. Len(q) + Len(r) :
           (q \o r)[k] = IF k <= Len(q) THEN q[k] ELSE r[k - Len(q)]
  BY ConcatProperties, LenProperties, ZenonT(60)
<1>2. \A k \in 1 .. Len(q) : k \in 1 .. Len(q \o r) /\ (q \o r)[k] = q[k]
  BY <1>1, SMTT(60)
<1>3. \A k \in 1 .. Len(r) : k + Len(q) \in 1 .. Len(q \o r) /\ (q \o r)[k + Len(q)] = r[k]
  BY <1>1, SMTT(60)
<1>4. \A k \in 1 .. Len(q \o r) : \/ k \in 1 .. Len(q) /\ (q \o r)[k] = q[k]
                                  \/ k - Len(q) \in 1 .. Len(r) /\ (q \o r)[k] = r[k - Len(q)]
  BY <1>1, SMTT(60)
<1>5. Elems(q \o r) = Elems(q) \cup Elems(r)
  <2>1. \A k \in 1 .. Len(q) : q[k] \in Elems(q \o r)
    BY <1>2, Zenon DEF Elems
  <2>2. \A k \in 1 .. Len(r) : r[k] \in Elems(q \o r)
    BY <1>3, Zenon DEF Elems
  <2>3. \A k \in 1 .. Len(q \o r) : (q \o r)[k] \in Elems(q) \cup Elems(r)
    BY <1>4, Zenon DEF Elems
  <2> QED BY <2>1, <2>2, <2>3, Zenon DEF Elems
<1>6. ASSUME NoRepeat(q), NoRepeat(r), Elems(q) \cap Elems(r) = {} PROVE NoRepeat(q \o r)
  <2> SUFFICES ASSUME NEW j \in 1 .. Len(q \o r), NEW k \in 1 .. Len(q \o r), (q \o r)[j] = (q \o r)[k]
               PROVE  j = k
    BY Zenon DEF NoRepeat
  <2>1. \/ j \in 1 .. Len(q) /\ k \in 1 .. Len(q)
        \/ j - Len(q) \in 1 .. Len(r) /\ k - Len(q) \in 1 .. Len(r) /\ r[j - Len(q)] = r[k - Len(q)]
    BY <1>4, <1>6, ZenonT(60) DEF Elems
  <2>2. CASE j \in 1 .. Len(q) /\ k \in 1 .. Len(q)
    BY <1>2, <1>6, <2>2, Zenon DEF NoRepeat
  <2>3. CASE j - Len(q) \in 1 .. Len(r) /\ k - Len(q) \in 1 .. Len(r) /\ r[j - Len(q)] = r[k - Len(q)]
    <3>1. j - Len(q) = k - Len(q)
      BY <1>6, <2>3, SMTT(60) DEF NoRepeat
    <3> QED BY <1>1, <3>1, SMTT(60)
  <2> QED BY <2>1, <2>2, <2>3, Zenon
<1> QED BY <1>1, <1>5, <1>6, Zenon

LEMMA Positions ==
  ASSUME NEW q, NoRepeat(q), NEW f
  PROVE  /\ f \in Elems(q) => \E k : At(f, q) = {k}
         /\ f \notin Elems(q) => At(f, q) = {}
<1>1. ASSUME f \in Elems(q) PROVE \E k : At(f, q) = {k}
  <2>1. PICK k \in 1 .. Len(q) : q[k] = f
    BY <1>1, Zenon DEF Elems
  <2>2. At(f, q) = {k}
    BY <2>1, Zenon DEF At, NoRepeat
  <2> QED BY <2>2, Zenon
<1>2. ASSUME f \notin Elems(q) PROVE At(f, q) = {}
  BY <1>2, Zenon DEF At, Elems
<1> QED BY <1>1, <1>2, Zenon

LEMMA MoveHead ==
  ASSUME NEW q \in Seq(Nat), q # <<>>, NEW r \in Seq(Nat), NEW h, h = Head(q),
         NoRepeat(q), NoRepeat(r), \A f \in Elems(q) : f \notin Elems(r)
  PROVE  /\ Tail(q) \in Seq(Nat) /\ NoRepeat(Tail(q))
         /\ h \in Elems(q) /\ Elems(Tail(q)) = Elems(q) \ {h}
         /\ Append(r, h) \in Seq(Nat) /\ NoRepeat(Append(r, h))
         /\ Elems(Append(r, h)) = Elems(r) \cup {h}
<1>1. /\ h \in Elems(q) /\ h \in Nat /\ Tail(q) \in Seq(Nat)
      /\ Elems(q) = Elems(Tail(q)) \cup {h} /\ NoRepeat(Tail(q)) /\ h \notin Elems(Tail(q))
  BY ElemsTail, Zenon
<1>2. /\ Append(r, h) \in Seq(Nat) /\ Elems(Append(r, h)) = Elems(r) \cup {h}
      /\ NoRepeat(Append(r, h))
  BY <1>1, ElemsAppend, Zenon
<1> QED BY <1>1, <1>2, Zenon

-----------------------------------------------------------------------------
(* The inductive invariant *)

RxType ==
  /\ arrived \in Seq(Cores \cup {NoOwner}) /\ queue \in Seq(Nat)
  /\ inbox \in [Cores -> Seq(Nat)] /\ delivered \in [Cores -> Seq(Nat)]
  /\ rxLock \in Cores \cup {Free}
  /\ pc \in [Cores -> {"poll", "distribute", "wake", "drain"}]

\* RX_LOCK is held by the core that distributes, and by nobody otherwise.
LockInv == \A c \in Cores : pc[c] = "distribute" <=> rxLock = c

\* What is anywhere has arrived, and what has arrived is somewhere.
Known ==
  /\ Elems(queue) \subseteq Frames
  /\ \A c \in Cores : Elems(inbox[c]) \cup Elems(delivered[c]) \subseteq Frames
Somewhere ==
  \A f \in Frames : f \in Elems(queue) \/ \E c \in Cores : f \in Elems(inbox[c]) \cup Elems(delivered[c])

\* Nothing is in one place twice, or in two places.
Once ==
  /\ NoRepeat(queue)
  /\ \A c \in Cores : NoRepeat(inbox[c]) /\ NoRepeat(delivered[c])
Apart ==
  /\ \A c \in Cores : \A f \in Elems(queue) : f \notin Elems(inbox[c]) /\ f \notin Elems(delivered[c])
  /\ \A c, d \in Cores : \A f \in Elems(inbox[c]) :
       f \notin Elems(delivered[d]) /\ (c # d => f \notin Elems(inbox[d]))
  /\ \A c, d \in Cores : \A f \in Elems(delivered[c]) : c # d => f \notin Elems(delivered[d])

RxInv == RxType /\ LockInv /\ Known /\ Somewhere /\ Once /\ Apart /\ OwnerDelivers

-----------------------------------------------------------------------------
(* Steps *)

LEMMA CoreNames == Free \notin Cores /\ NoOwner \notin Cores
BY CoresAssumption, SMTT(60) DEF Cores, Free, NoOwner

LEMMA ArriveStep ==
  ASSUME RxInv, NEW c \in Cores \cup {NoOwner}, Arrive(c) PROVE RxInv'
<1> DEFINE f == Len(arrived) + 1
<1>1. /\ queue' = Append(queue, f) /\ arrived' = Append(arrived, c)
      /\ inbox' = inbox /\ delivered' = delivered /\ rxLock' = rxLock /\ pc' = pc
  BY Zenon DEF Arrive, locals
<1>2. /\ Len(arrived) \in Nat /\ Len(arrived') = f /\ f \in Nat
      /\ arrived' \in Seq(Cores \cup {NoOwner})
      /\ \A g \in Frames : g \in Nat /\ arrived'[g] = arrived[g]
  BY <1>1, AppendProperties, LenProperties, SMTT(60) DEF RxInv, RxType, Frames
<1>3. Frames' = Frames \cup {f} /\ f \notin Frames
  BY <1>2, SMTT(60) DEF Frames
<1> HIDE DEF f
<1>4. /\ queue' \in Seq(Nat) /\ Elems(queue') = Elems(queue) \cup {f}
      /\ NoRepeat(queue) /\ f \notin Elems(queue) => NoRepeat(queue')
  BY <1>1, <1>2, ElemsAppend, Zenon DEF RxInv, RxType
<1>5. RxType' /\ LockInv'
  BY <1>1, <1>2, <1>4, Zenon DEF RxInv, RxType, LockInv
<1>6. Known' /\ Somewhere'
  BY <1>1, <1>3, <1>4, Zenon DEF RxInv, Known, Somewhere
<1>7. Once'
  BY <1>1, <1>3, <1>4, Zenon DEF RxInv, Known, Once
<1>9. Apart'
  <2>1. \A d \in Cores : f \notin Elems(inbox[d]) /\ f \notin Elems(delivered[d])
    BY <1>3, Zenon DEF RxInv, Known
  <2> QED BY <1>1, <1>4, <2>1, Zenon DEF RxInv, Apart
<1>8. OwnerDelivers'
  BY <1>1, <1>2, Zenon DEF RxInv, Known, OwnerDelivers, Owner
<1> QED BY <1>5, <1>6, <1>7, <1>8, <1>9, Zenon DEF RxInv

\* The steps of poll_tier2 that touch the lock, and no frame.
LEMMA LockStep ==
  ASSUME RxInv, NEW c \in Cores, UNCHANGED <<queue, inbox, delivered, arrived>>,
         \/ PollBusy(c) \/ PollYield(c) \/ PollLock(c)
         \/ Release(c) \/ WakeOne(c) \/ WakeDone(c)
  PROVE  RxInv'
<1>1. RxType' /\ LockInv'
  BY CoreNames, ZenonT(60) DEF RxInv, RxType, LockInv, PollBusy, PollYield, PollLock, Release, WakeOne, WakeDone,
     Goto, net
<1>2. Known' /\ Somewhere' /\ Once' /\ Apart' /\ OwnerDelivers'
  BY Zenon DEF RxInv, Known, Somewhere, Once, Apart, OwnerDelivers, Frames, Owner
<1> QED BY <1>1, <1>2, Zenon DEF RxInv

\* The head of the queue becomes the last frame of core c in `place`, the
\* inboxes or the stack.
Moved(place, c, h) ==
  /\ queue # <<>> /\ h = Head(queue) /\ queue' = Tail(queue)
  /\ place' = [place EXCEPT ![c] = Append(@, h)]

LEMMA InlineStep ==
  ASSUME RxInv, NEW c \in Cores, NEW h, Moved(delivered, c, h), Owner(h) \in {c, NoOwner},
         UNCHANGED <<inbox, arrived, rxLock, pc>>
  PROVE  RxInv'
<1>1. /\ queue \in Seq(Nat) /\ delivered \in [Cores -> Seq(Nat)]
      /\ NoRepeat(queue) /\ NoRepeat(delivered[c]) /\ \A f \in Elems(queue) : f \notin Elems(delivered[c])
  BY Zenon DEF RxInv, RxType, Once, Apart
<1>2. /\ Tail(queue) \in Seq(Nat) /\ NoRepeat(Tail(queue))
      /\ h \in Elems(queue) /\ Elems(Tail(queue)) = Elems(queue) \ {h}
      /\ Append(delivered[c], h) \in Seq(Nat) /\ NoRepeat(Append(delivered[c], h))
      /\ Elems(Append(delivered[c], h)) = Elems(delivered[c]) \cup {h}
  BY <1>1, MoveHead, SMTT(60) DEF Moved
<1>3. /\ queue' = Tail(queue) /\ delivered' \in [Cores -> Seq(Nat)]
      /\ delivered'[c] = Append(delivered[c], h) /\ \A d \in Cores : d # c => delivered'[d] = delivered[d]
  BY <1>1, <1>2, Zenon DEF Moved
<1>4. RxType' /\ LockInv'
  BY <1>2, <1>3, Zenon DEF RxInv, RxType, LockInv
<1>5. Known' /\ Somewhere'
  BY <1>2, <1>3, ZenonT(60) DEF RxInv, Known, Somewhere, Frames
<1>6. Once'
  BY <1>2, <1>3, Zenon DEF RxInv, Once
<1>7. Apart'
  <2>1. /\ \A d \in Cores : \A f \in Elems(queue) : f \notin Elems(inbox[d]) /\ f \notin Elems(delivered[d])
        /\ \A d, e \in Cores : \A f \in Elems(inbox[d]) :
             f \notin Elems(delivered[e]) /\ (d # e => f \notin Elems(inbox[e]))
        /\ \A d, e \in Cores : \A f \in Elems(delivered[d]) : d # e => f \notin Elems(delivered[e])
    BY Zenon DEF RxInv, Apart
  <2>2. \A d \in Cores : Elems(delivered'[d]) = IF d = c THEN Elems(delivered[c]) \cup {h}
                                                ELSE Elems(delivered[d])
    BY <1>2, <1>3, Zenon
  <2>3. Elems(queue') = Elems(queue) \ {h} /\ inbox' = inbox
    BY <1>2, <1>3, Zenon
  <2>4. \A d \in Cores : \A f \in Elems(queue') : f \notin Elems(inbox'[d]) /\ f \notin Elems(delivered'[d])
    BY <2>1, <2>2, <2>3, Zenon
  <2>5. ASSUME NEW d \in Cores, NEW e \in Cores, NEW f \in Elems(inbox'[d])
        PROVE  f \notin Elems(delivered'[e]) /\ (d # e => f \notin Elems(inbox'[e]))
    BY <1>2, <2>1, <2>2, <2>3, ZenonT(60)
  <2>6. ASSUME NEW d \in Cores, NEW e \in Cores, NEW f \in Elems(delivered'[d]), d # e
        PROVE  f \notin Elems(delivered'[e])
    <3>1. CASE f = h
      BY <1>2, <2>1, <2>2, <2>6, <3>1, Zenon
    <3>2. CASE f # h
      <4>1. f \in Elems(delivered[d])
        BY <2>2, <3>2, Zenon
      <4> QED BY <2>1, <2>2, <2>6, <3>2, <4>1, ZenonT(60)
    <3> QED BY <3>1, <3>2, Zenon
  <2> QED BY <2>4, <2>5, <2>6, Zenon DEF Apart
<1>8. OwnerDelivers'
  BY <1>2, <1>3, ZenonT(60) DEF RxInv, OwnerDelivers, Owner
<1> QED BY <1>4, <1>5, <1>6, <1>7, <1>8, Zenon DEF RxInv

LEMMA ParkStep ==
  ASSUME RxInv, NEW c \in Cores, NEW h, Moved(inbox, c, h), Owner(h) = c,
         UNCHANGED <<delivered, arrived, rxLock, pc>>
  PROVE  RxInv'
<1>1. /\ queue \in Seq(Nat) /\ inbox \in [Cores -> Seq(Nat)]
      /\ NoRepeat(queue) /\ NoRepeat(inbox[c]) /\ \A f \in Elems(queue) : f \notin Elems(inbox[c])
  BY Zenon DEF RxInv, RxType, Once, Apart
<1>2. /\ Tail(queue) \in Seq(Nat) /\ NoRepeat(Tail(queue))
      /\ h \in Elems(queue) /\ Elems(Tail(queue)) = Elems(queue) \ {h}
      /\ Append(inbox[c], h) \in Seq(Nat) /\ NoRepeat(Append(inbox[c], h))
      /\ Elems(Append(inbox[c], h)) = Elems(inbox[c]) \cup {h}
  BY <1>1, MoveHead, ZenonT(60) DEF Moved
<1>3. /\ queue' = Tail(queue) /\ inbox' \in [Cores -> Seq(Nat)]
      /\ inbox'[c] = Append(inbox[c], h) /\ \A d \in Cores : d # c => inbox'[d] = inbox[d]
  BY <1>1, <1>2, Zenon DEF Moved
<1>4. RxType' /\ LockInv'
  BY <1>2, <1>3, Zenon DEF RxInv, RxType, LockInv
<1>5. Known' /\ Somewhere'
  BY <1>2, <1>3, Zenon DEF RxInv, Known, Somewhere, Frames
<1>6. Once'
  BY <1>2, <1>3, Zenon DEF RxInv, Once
<1>7. Apart'
  <2>1. /\ \A d \in Cores : \A f \in Elems(queue) : f \notin Elems(inbox[d]) /\ f \notin Elems(delivered[d])
        /\ \A d, e \in Cores : \A f \in Elems(inbox[d]) :
              f \notin Elems(delivered[e]) /\ (d # e => f \notin Elems(inbox[e]))
        /\ \A d, e \in Cores : \A f \in Elems(delivered[d]) : d # e => f \notin Elems(delivered[e])
    BY Zenon DEF RxInv, Apart
  <2>2. \A d \in Cores : Elems(inbox'[d]) = IF d = c THEN Elems(inbox[c]) \cup {h} ELSE Elems(inbox[d])
    BY <1>2, <1>3, Zenon
  <2>3. Elems(queue') = Elems(queue) \ {h} /\ delivered' = delivered
    BY <1>2, <1>3, Zenon
  <2>4. \A d \in Cores : \A f \in Elems(queue') : f \notin Elems(inbox'[d]) /\ f \notin Elems(delivered'[d])
    BY <2>1, <2>2, <2>3, Zenon
  <2>5. ASSUME NEW d \in Cores, NEW e \in Cores, NEW f \in Elems(inbox'[d])
        PROVE  f \notin Elems(delivered'[e]) /\ (d # e => f \notin Elems(inbox'[e]))
    <3>1. CASE f = h
      BY <1>2, <2>1, <2>2, <2>3, <3>1, ZenonT(60)
    <3>2. CASE f # h
      <4>1. f \in Elems(inbox[d])
        BY <2>2, <3>2, Zenon
      <4> QED BY <2>1, <2>2, <2>3, <3>2, <4>1, SMTT(60)
    <3> QED BY <3>1, <3>2, Zenon
  <2> QED BY <2>1, <2>3, <2>4, <2>5, Zenon DEF Apart
<1>8. OwnerDelivers'
  <2>1. /\ \A d \in Cores : \A f \in Elems(delivered[d]) \cup Elems(inbox[d]) : arrived[f] \in {d, NoOwner}
        /\ arrived[h] = c
    BY Zenon DEF RxInv, OwnerDelivers, Owner
  <2>2. \A d \in Cores : \A f \in Elems(inbox'[d]) : f \in Elems(inbox[d]) \/ (f = h /\ d = c)
    BY <1>2, <1>3, Zenon
  <2>3. ASSUME NEW d \in Cores, NEW f \in Elems(delivered'[d]) \cup Elems(inbox'[d])
        PROVE  arrived'[f] \in {d, NoOwner}
    BY <2>1, <2>2, Zenon
  <2> QED BY <2>3, Zenon DEF OwnerDelivers, Owner
<1> QED BY <1>4, <1>5, <1>6, <1>7, <1>8, Zenon DEF RxInv

LEMMA DrainStep ==
  ASSUME RxInv, NEW c \in Cores, Drain(c) PROVE RxInv'
<1>1. /\ pc[c] = "drain" /\ pc' = [pc EXCEPT ![c] = "poll"]
      /\ queue' = queue /\ arrived' = arrived /\ rxLock' = rxLock
      /\ delivered' = [delivered EXCEPT ![c] = delivered[c] \o inbox[c]]
      /\ inbox' = [inbox EXCEPT ![c] = <<>>]
  BY Zenon DEF Drain, Goto, RxInv, RxType
<1>2. /\ delivered[c] \o inbox[c] \in Seq(Nat)
      /\ Elems(delivered[c] \o inbox[c]) = Elems(delivered[c]) \cup Elems(inbox[c])
      /\ NoRepeat(delivered[c] \o inbox[c])
  <2>1. /\ delivered[c] \in Seq(Nat) /\ inbox[c] \in Seq(Nat)
        /\ NoRepeat(delivered[c]) /\ NoRepeat(inbox[c])
    BY Zenon DEF RxInv, RxType, Once
  <2>2. Elems(delivered[c]) \cap Elems(inbox[c]) = {}
    BY Zenon DEF RxInv, Apart
  <2> QED BY <2>1, <2>2, ElemsConcat, Zenon
<1>3. /\ delivered' \in [Cores -> Seq(Nat)] /\ inbox' \in [Cores -> Seq(Nat)]
      /\ Elems(delivered'[c]) = Elems(delivered[c]) \cup Elems(inbox[c]) /\ NoRepeat(delivered'[c])
      /\ Elems(inbox'[c]) = {} /\ NoRepeat(inbox'[c])
      /\ \A d \in Cores : d # c => delivered'[d] = delivered[d] /\ inbox'[d] = inbox[d]
  BY <1>1, <1>2, ElemsEmpty, EmptySeq, Zenon DEF RxInv, RxType
<1>4. RxType' /\ LockInv'
  BY <1>1, <1>3, CoreNames, Zenon DEF RxInv, RxType, LockInv
<1>5. Known' /\ Somewhere'
  BY <1>1, <1>3, ZenonT(60) DEF RxInv, Known, Somewhere, Frames
<1>6. Once'
  BY <1>1, <1>3, Zenon DEF RxInv, Once
<1>8. Apart'
  <2>1. /\ \A d \in Cores : \A f \in Elems(queue) : f \notin Elems(inbox[d]) /\ f \notin Elems(delivered[d])
        /\ \A d, e \in Cores : \A f \in Elems(inbox[d]) :
              f \notin Elems(delivered[e]) /\ (d # e => f \notin Elems(inbox[e]))
        /\ \A d, e \in Cores : \A f \in Elems(delivered[d]) : d # e => f \notin Elems(delivered[e])
    BY Zenon DEF RxInv, Apart
  <2>2. \A d \in Cores : /\ Elems(inbox'[d]) = IF d = c THEN {} ELSE Elems(inbox[d])
                         /\ Elems(delivered'[d]) = IF d = c THEN Elems(delivered[c]) \cup Elems(inbox[c])
                                                   ELSE Elems(delivered[d])
    BY <1>3, Zenon
  <2>3. \A d \in Cores : \A f \in Elems(queue') : f \notin Elems(inbox'[d]) /\ f \notin Elems(delivered'[d])
    BY <1>1, <2>1, <2>2, SMTT(60)
  <2>4. ASSUME NEW d \in Cores, NEW e \in Cores, NEW f \in Elems(inbox'[d])
        PROVE  f \notin Elems(delivered'[e]) /\ (d # e => f \notin Elems(inbox'[e]))
    BY <2>1, <2>2, Zenon
  <2>5. ASSUME NEW d \in Cores, NEW e \in Cores, NEW f \in Elems(delivered'[d]), d # e
        PROVE  f \notin Elems(delivered'[e])
    BY <2>1, <2>2, <2>5, ZenonT(60)
  <2> QED BY <2>3, <2>4, <2>5, Zenon DEF Apart
<1>7. OwnerDelivers'
  BY <1>1, <1>3, Zenon DEF RxInv, OwnerDelivers, Owner
<1> QED BY <1>4, <1>5, <1>6, <1>7, <1>8, Zenon DEF RxInv

-----------------------------------------------------------------------------
(* The theorems *)

LEMMA RxInitial == Init => RxInv
<1> SUFFICES ASSUME Init PROVE RxInv BY Zenon
<1> USE DEF Init
<1>1. RxType /\ LockInv
  BY EmptySeq, CoreNames, Zenon DEF RxType, LockInv
<1>2. Len(<<>>) = 0 /\ Frames = {}
  BY LenProperties, EmptySeq, SMTT(60) DEF Frames
<1>3. Known /\ Somewhere /\ Once /\ Apart /\ OwnerDelivers
  BY <1>2, ElemsEmpty, Zenon DEF Known, Somewhere, Once, Apart, OwnerDelivers
<1> QED BY <1>1, <1>3, Zenon DEF RxInv

LEMMA RxInductive == RxInv /\ [Next]_vars => RxInv'
<1> SUFFICES ASSUME RxInv, [Next]_vars PROVE RxInv' BY Zenon
<1>1. ASSUME NEW c \in Cores \cup {NoOwner}, Arrive(c) PROVE RxInv'
  BY <1>1, ArriveStep, Zenon
<1>2. ASSUME NEW c \in Cores, PollBusy(c) \/ PollYield(c) \/ PollLock(c) \/ Release(c) \/ WakeOne(c) \/ WakeDone(c)
      PROVE RxInv'
  <2>1. UNCHANGED <<queue, inbox, delivered, arrived>>
    BY <1>2, Zenon DEF PollBusy, PollYield, PollLock, Release, WakeOne, WakeDone, net
  <2> QED BY <1>2, <2>1, LockStep, Zenon
<1>3. ASSUME NEW c \in Cores, DistributeOwn(c) \/ DistributeInline(c) \/ DistributeReport(c) PROVE RxInv'
  <2>1. /\ Owner(Head(queue)) \in {c, NoOwner} /\ Moved(delivered, c, Head(queue))
        /\ UNCHANGED <<inbox, arrived, rxLock, pc>>
    BY <1>3, Zenon DEF DistributeOwn, DistributeInline, DistributeReport, Moved
  <2> QED BY <2>1, InlineStep, Zenon
<1>4. ASSUME NEW c \in Cores, DistributeOther(c) PROVE RxInv'
  <2>1. PICK d \in Cores : /\ Owner(Head(queue)) = d /\ Moved(inbox, d, Head(queue))
                           /\ UNCHANGED <<delivered, arrived, rxLock, pc>>
    BY <1>4, Zenon DEF DistributeOther, Moved
  <2> QED BY <2>1, ParkStep, Zenon
<1>5. ASSUME NEW c \in Cores, Drain(c) PROVE RxInv'
  BY <1>5, DrainStep, Zenon
<1>6. CASE UNCHANGED vars
  BY <1>6, Zenon DEF vars, net, locals, RxInv, RxType, LockInv, Known, Somewhere, Once, Apart,
     OwnerDelivers, Frames, Owner
<1> QED BY <1>1, <1>2, <1>3, <1>4, <1>5, <1>6, ZenonT(60) DEF Next, Poll

\* The inductive invariant of the worker tier (poll_tier2, distribute_frame,
\* net_drain_cb): who holds the lock, and where the frames are.
THEOREM RxInvariance == Spec => []RxInv
<1> QED BY RxInitial, RxInductive, PTL DEF Spec

\* However the cores try RX_LOCK, at most one of them is inside the poll of the
\* queue, and it holds the lock.
THEOREM OnlyOneDistributes == Spec => []OneDistributor
<1>1. RxInv => OneDistributor
  BY Zenon DEF RxInv, LockInv, OneDistributor
<1> QED BY <1>1, RxInvariance, PTL

\* Whoever distributes it, a frame of a flow is handled by the core that owns
\* the flow and by no other (distribute_frame's two ways, and the drain).
THEOREM OwnersDeliver == Spec => []OwnerDelivers
<1>1. RxInv => OwnerDelivers
  BY Zenon DEF RxInv
<1> QED BY <1>1, RxInvariance, PTL

\* No frame is lost or duplicated between the queue, the inboxes and the stack.
THEOREM FramesAreInOnePlace == Spec => []ExactlyOnce
<1>1. ASSUME RxInv, NEW f \in Frames PROVE \E p : Places(f) = {p}
  <2>1. /\ f \in Elems(queue) => \E k : At(f, queue) = {k}
        /\ f \notin Elems(queue) => At(f, queue) = {}
    BY <1>1, Positions, Zenon DEF RxInv, Once
  <2>2. ASSUME NEW c \in Cores
        PROVE  /\ f \in Elems(inbox[c]) => \E k : At(f, inbox[c]) = {k}
               /\ f \notin Elems(inbox[c]) => At(f, inbox[c]) = {}
               /\ f \in Elems(delivered[c]) => \E k : At(f, delivered[c]) = {k}
               /\ f \notin Elems(delivered[c]) => At(f, delivered[c]) = {}
    <3>1. NoRepeat(inbox[c]) /\ NoRepeat(delivered[c])
      BY <1>1, Zenon DEF RxInv, Once
    <3> QED BY <3>1, Positions, Zenon
  <2>3. CASE f \in Elems(queue)
    <3>1. \A c \in Cores : f \notin Elems(inbox[c]) /\ f \notin Elems(delivered[c])
      BY <1>1, <2>3, Zenon DEF RxInv, Apart
    <3>2. PICK k : At(f, queue) = {k}
      BY <2>1, <2>3, Zenon
    <3>3. \A c \in Cores : At(f, inbox[c]) = {} /\ At(f, delivered[c]) = {}
      BY <2>2, <3>1, Zenon
    <3>4. Places(f) = {<<"queue", 0, k>>}
      BY <3>2, <3>3, ZenonT(60) DEF Places
    <3> QED BY <3>4, Zenon
  <2>4. ASSUME NEW c \in Cores, f \in Elems(inbox[c]) PROVE \E p : Places(f) = {p}
    <3>1. /\ f \notin Elems(queue)
          /\ \A d \in Cores : f \notin Elems(delivered[d]) /\ (d # c => f \notin Elems(inbox[d]))
      <4>1. Apart
        BY <1>1, Zenon DEF RxInv
      <4> QED BY <4>1, <2>4, Zenon DEF Apart
    <3>2. PICK k : At(f, inbox[c]) = {k}
      BY <2>2, <2>4, Zenon
    <3>3. /\ At(f, queue) = {}
          /\ \A d \in Cores : At(f, delivered[d]) = {} /\ (d # c => At(f, inbox[d]) = {})
      BY <2>1, <2>2, <3>1, Zenon
    <3>4. Places(f) = {<<"inbox", c, k>>}
      BY <3>2, <3>3, SMTT(60) DEF Places
    <3> QED BY <3>4, Zenon
  <2>5. ASSUME NEW c \in Cores, f \in Elems(delivered[c]) PROVE \E p : Places(f) = {p}
    <3>1. /\ f \notin Elems(queue)
          /\ \A d \in Cores : f \notin Elems(inbox[d]) /\ (d # c => f \notin Elems(delivered[d]))
      <4>1. Apart
        BY <1>1, Zenon DEF RxInv
      <4> QED BY <4>1, <2>5, Zenon DEF Apart
    <3>2. PICK k : At(f, delivered[c]) = {k}
      BY <2>2, <2>5, Zenon
    <3>3. /\ At(f, queue) = {}
          /\ \A d \in Cores : At(f, inbox[d]) = {} /\ (d # c => At(f, delivered[d]) = {})
      BY <2>1, <2>2, <3>1, Zenon
    <3>4. Places(f) = {<<"stack", c, k>>}
      BY <3>2, <3>3, SMTT(60) DEF Places
    <3> QED BY <3>4, Zenon
  <2> QED BY <1>1, <2>3, <2>4, <2>5, Zenon DEF RxInv, Somewhere
<1>2. RxInv => ExactlyOnce
  BY <1>1, FS_Singleton, Zenon DEF ExactlyOnce
<1> QED BY <1>2, RxInvariance, PTL
=============================================================================
