---------------------------- MODULE RxInboxProofs ----------------------------
(***************************************************************************)
(* Proofs about the inboxes, for any number of producers, inboxes, nodes   *)
(* and buffers: a node is on one list at a time, nothing sent is lost or   *)
(* overtaken, no more nodes are in use than buffers are pinned, and the    *)
(* inboxes implement FIFO channels.                                        *)
(***************************************************************************)
EXTENDS RxInbox, TLAPS

-----------------------------------------------------------------------------
(* The inductive invariant *)

Words == Frames \cup {NoFrame}
Elems(q) == {q[k] : k \in 1 .. Len(q)}
NoRepeat(q) == \A j, k \in 1 .. Len(q) : q[j] = q[k] => j = k

ProdType == [at : {"out", "load", "cas"}, node : Links, inbox : Inboxes, seen : Links]
ConsType == [at : {"out", "reverse", "walk", "free", "run"}, node : Links, fifo : Links,
             follow : Links, frame : Words]

InboxType ==
  /\ free \subseteq Nodes /\ next \in [Nodes -> Links] /\ payload \in [Nodes -> Words]
  /\ head \in [Inboxes -> Links] /\ prod \in [Producers -> ProdType] /\ cons \in [Inboxes -> ConsType]
  /\ buffers \in Nat /\ frames \in 0 .. MaxFrames /\ refused \in 0 .. MaxFrames /\ refused <= frames
  /\ sent \in [Inboxes -> Seq(Words)] /\ got \in [Inboxes -> Seq(Words)]
  /\ chain \in [Inboxes -> Seq(Nodes)] /\ batch \in [Inboxes -> Seq(Nodes)]

\* What a producer has in hand: a filled node, which at the compare-exchange
\* is linked to the head the producer saw.
HeldInv ==
  \A p \in Producers :
    IF prod[p].at = "out" THEN prod[p] = ProdOut
    ELSE /\ prod[p].node \in Nodes /\ payload[prod[p].node] \in Frames
         /\ prod[p].at = "cas" => next[prod[p].node] = prod[p].seen

\* No node is in two of the places F (the pool), H[p] (a producer's hand),
\* C[i] (an inbox) and B[i] (a detached list), and every node is in one.
Placement(F, H, C, B) ==
  /\ \A p \in Producers : H[p] \in Nodes => H[p] \notin F /\ \A q \in Producers : q # p => H[q] # H[p]
  /\ \A i \in Inboxes : \A n \in C[i] :
       /\ n \notin F /\ \A p \in Producers : H[p] # n
       /\ \A j \in Inboxes : n \notin B[j] /\ (j # i => n \notin C[j])
  /\ \A i \in Inboxes : \A n \in B[i] :
       /\ n \notin F /\ \A p \in Producers : H[p] # n
       /\ \A j \in Inboxes : j # i => n \notin B[j]
  /\ \A n \in Nodes : \/ n \in F \/ \E p \in Producers : H[p] = n
                      \/ \E i \in Inboxes : n \in C[i] \/ n \in B[i]

HeldBy == [p \in Producers |-> prod[p].node]
OnInbox == [i \in Inboxes |-> Elems(chain[i])]
Detached == [i \in Inboxes |-> Elems(batch[i])]
Placed ==
  /\ Placement(free, HeldBy, OnInbox, Detached)
  /\ \A i \in Inboxes : NoRepeat(chain[i]) /\ NoRepeat(batch[i])

\* The links nx of the list q: the first m nodes link back towards the oldest,
\* the others on towards the newest.
Nth(q, k) == IF k \in 1 .. Len(q) THEN q[k] ELSE Null
Back(nx, q, m) == \A k \in 1 .. m : nx[q[k]] = Nth(q, k - 1)
Forth(nx, q, m) == \A k \in m + 1 .. Len(q) : nx[q[k]] = Nth(q, k + 1)

ChainOf(h, q, nx) == h = Nth(q, Len(q)) /\ Back(nx, q, Len(q))
ChainInv == \A i \in Inboxes : ChainOf(head[i], chain[i], next)

\* drain_each with the locals c and the detached list b: the part it has not
\* reached links back, the part it has reversed links on.
DrainOf(c, b, nx) ==
  /\ c.at = "out" => c = ConsOut /\ b = <<>>
  /\ c.at = "reverse" => \E m \in 0 .. Len(b) : /\ c.node = Nth(b, m) /\ c.fifo = Nth(b, m + 1)
                                                /\ Back(nx, b, m) /\ Forth(nx, b, m)
  /\ c.at = "walk" => c.node = Nth(b, 1) /\ Forth(nx, b, 0)
  /\ c.at = "free" => b # <<>> /\ c.node = Nth(b, 1) /\ c.follow = Nth(b, 2) /\ Forth(nx, b, 0)
  /\ c.at = "run" => c.follow = Nth(b, 1) /\ Forth(nx, b, 0)
DrainInv == \A i \in Inboxes : DrainOf(cons[i], batch[i], next)

ListInv == InboxType /\ HeldInv /\ Placed /\ ChainInv /\ DrainInv /\ NothingLost

-----------------------------------------------------------------------------
(* Sequences *)

LEMMA SeqEmpty == ASSUME NEW S PROVE <<>> \in Seq(S) /\ Len(<<>>) = 0
BY SMTT(60)

LEMMA SeqType ==
  ASSUME NEW S, NEW q \in Seq(S)
  PROVE  Len(q) \in Nat /\ \A k \in 1 .. Len(q) : q[k] \in S
BY SMTT(60)

LEMMA SeqSame ==
  ASSUME NEW S, NEW q \in Seq(S), NEW r \in Seq(S), Len(q) = Len(r), \A k \in 1 .. Len(q) : q[k] = r[k]
  PROVE  q = r
BY SMTT(60)

LEMMA SeqAppend ==
  ASSUME NEW S, NEW q \in Seq(S), NEW e \in S
  PROVE  /\ Append(q, e) \in Seq(S) /\ Len(Append(q, e)) = Len(q) + 1
         /\ (\A k \in 1 .. Len(q) : Append(q, e)[k] = q[k]) /\ Append(q, e)[Len(q) + 1] = e
BY SMTT(60)

LEMMA SeqTail ==
  ASSUME NEW S, NEW q \in Seq(S), q # <<>>
  PROVE  /\ Tail(q) \in Seq(S) /\ Len(q) \in Nat \ {0} /\ Len(Tail(q)) = Len(q) - 1
         /\ \A k \in 1 .. Len(q) - 1 : Tail(q)[k] = q[k + 1]
BY SMTT(60)

LEMMA SeqConcat ==
  ASSUME NEW S, NEW q \in Seq(S), NEW r \in Seq(S)
  PROVE  /\ q \o r \in Seq(S) /\ Len(q \o r) = Len(q) + Len(r)
         /\ \A k \in 1 .. Len(q) + Len(r) : (q \o r)[k] = IF k <= Len(q) THEN q[k] ELSE r[k - Len(q)]
BY SMTT(60)

LEMMA ConcatNothing == ASSUME NEW S, NEW q \in Seq(S) PROVE q \o <<>> = q
BY SMTT(60)

LEMMA ConcatOne == ASSUME NEW S, NEW q \in Seq(S), NEW e \in S PROVE Append(q, e) = q \o <<e>>
BY SMTT(60)

LEMMA ConcatAgain ==
  ASSUME NEW S, NEW q \in Seq(S), NEW r \in Seq(S), NEW t \in Seq(S)
  PROVE  (q \o r) \o t = q \o (r \o t)
BY SMTT(60)

-----------------------------------------------------------------------------
(* Lists of nodes *)

LEMMA ListEmpty == Elems(<<>>) = {} /\ NoRepeat(<<>>) /\ \A k : Nth(<<>>, k) = Null
BY SMTT(60) DEF Elems, NoRepeat, Nth

LEMMA ListAppend ==
  ASSUME NEW q \in Seq(Nodes), NEW n \in Nodes
  PROVE  /\ Append(q, n) \in Seq(Nodes)
         /\ Elems(Append(q, n)) = Elems(q) \cup {n}
         /\ NoRepeat(q) /\ n \notin Elems(q) => NoRepeat(Append(q, n))
<1>1. /\ Append(q, n) \in Seq(Nodes) /\ Len(q) \in Nat /\ Len(Append(q, n)) = Len(q) + 1
      /\ \A k \in 1 .. Len(q) : Append(q, n)[k] = q[k]
      /\ Append(q, n)[Len(q) + 1] = n
  BY SeqAppend, SeqType, SMTT(60)
<1>2. Elems(Append(q, n)) = Elems(q) \cup {n}
  <2>1. \A k \in 1 .. Len(q) + 1 : k \in 1 .. Len(q) \/ k = Len(q) + 1
    BY <1>1, SMTT(60)
  <2>2. \A k \in 1 .. Len(q) : k \in 1 .. Len(q) + 1
    BY <1>1, SMTT(60)
  <2>3. Len(q) + 1 \in 1 .. Len(q) + 1
    BY <1>1, SMTT(60)
  <2> QED BY <1>1, <2>1, <2>2, <2>3, Zenon DEF Elems
<1>3. ASSUME NoRepeat(q), n \notin Elems(q) PROVE NoRepeat(Append(q, n))
  BY <1>1, <1>3, SMTT(60) DEF NoRepeat, Elems
<1> QED BY <1>1, <1>2, <1>3, Zenon

LEMMA ListTail ==
  ASSUME NEW q \in Seq(Nodes), q # <<>>
  PROVE  /\ Tail(q) \in Seq(Nodes) /\ Len(q) \in Nat \ {0} /\ Len(Tail(q)) = Len(q) - 1
         /\ \A k \in 1 .. Len(q) - 1 : Tail(q)[k] = q[k + 1]
         /\ q[1] \in Nodes /\ Nth(q, 1) = q[1] /\ q[1] \in Elems(q)
         /\ Elems(Tail(q)) \subseteq Elems(q)
         /\ NoRepeat(q) => NoRepeat(Tail(q)) /\ Elems(Tail(q)) = Elems(q) \ {q[1]}
<1>1. /\ Tail(q) \in Seq(Nodes)
      /\ Len(q) \in Nat \ {0} /\ Len(Tail(q)) = Len(q) - 1
      /\ \A k \in 1 .. Len(q) - 1 : Tail(q)[k] = q[k + 1]
  BY SeqTail, SeqType, SeqEmpty, Zenon
<1>2. q[1] \in Elems(q) /\ q[1] \in Nodes /\ Nth(q, 1) = q[1] /\ Elems(Tail(q)) \subseteq Elems(q)
  BY <1>1, SeqType, SMTT(60) DEF Elems, Nth
<1>3. ASSUME NoRepeat(q) PROVE NoRepeat(Tail(q)) /\ q[1] \notin Elems(Tail(q))
  BY <1>1, <1>3, SMTT(60) DEF NoRepeat, Elems
<1>4. ASSUME NEW k \in 1 .. Len(q) PROVE q[k] \in Elems(Tail(q)) \cup {q[1]}
  <2>1. k = 1 \/ (k - 1 \in 1 .. Len(q) - 1 /\ Tail(q)[k - 1] = q[k])
    BY <1>1, SMTT(60)
  <2> QED BY <1>1, <2>1, Zenon DEF Elems
<1>5. Elems(q) \subseteq Elems(Tail(q)) \cup {q[1]}
  BY <1>4, Zenon DEF Elems
<1> QED BY <1>1, <1>2, <1>3, <1>5, Zenon

LEMMA ListElems ==
  ASSUME NEW q \in Seq(Nodes)
  PROVE  /\ Len(q) \in Nat /\ Elems(q) \subseteq Nodes
         /\ \A k \in 1 .. Len(q) : q[k] \in Nodes /\ q[k] \in Elems(q)
BY SeqType, Zenon DEF Elems

\* Links of other nodes may change.
LEMMA LinksKept ==
  ASSUME NEW q \in Seq(Nodes), NEW nx, NEW ny, \A n \in Elems(q) : ny[n] = nx[n]
  PROVE  \A m \in 0 .. Len(q) : /\ Back(nx, q, m) => Back(ny, q, m)
                                /\ Forth(nx, q, m) => Forth(ny, q, m)
<1>1. Len(q) \in Nat /\ \A k \in 1 .. Len(q) : ny[q[k]] = nx[q[k]]
  BY ListElems, Zenon
<1>2. ASSUME NEW m \in 0 .. Len(q)
      PROVE  (\A k \in 1 .. m : k \in 1 .. Len(q)) /\ (\A k \in m + 1 .. Len(q) : k \in 1 .. Len(q))
  BY <1>1, SMTT(60)
<1> QED BY <1>1, <1>2, Zenon DEF Back, Forth

LEMMA ChainKept ==
  ASSUME NEW q \in Seq(Nodes), NEW h, NEW nx, NEW ny, \A n \in Elems(q) : ny[n] = nx[n], ChainOf(h, q, nx)
  PROVE  ChainOf(h, q, ny)
<1>1. Len(q) \in 0 .. Len(q)
  BY ListElems, SMTT(60)
<1> QED BY <1>1, LinksKept, Zenon DEF ChainOf

LEMMA DrainKept ==
  ASSUME NEW b \in Seq(Nodes), NEW c, NEW nx, NEW ny, \A n \in Elems(b) : ny[n] = nx[n], DrainOf(c, b, nx)
  PROVE  DrainOf(c, b, ny)
<1>1. 0 \in 0 .. Len(b)
  BY ListElems, SMTT(60)
<1>2. \A m \in 0 .. Len(b) : /\ Back(nx, b, m) => Back(ny, b, m)
                             /\ Forth(nx, b, m) => Forth(ny, b, m)
  BY LinksKept, Zenon
<1> QED BY <1>1, <1>2, Zenon DEF DrainOf

\* A node is prepended.
LEMMA ChainGrows ==
  ASSUME NEW q \in Seq(Nodes), NEW n \in Nodes, NEW h, NEW nx, ChainOf(h, q, nx), nx[n] = h
  PROVE  ChainOf(n, Append(q, n), nx)
<1>1. /\ Len(q) \in Nat /\ Len(Append(q, n)) = Len(q) + 1
      /\ \A k \in 1 .. Len(q) : Append(q, n)[k] = q[k]
      /\ Append(q, n)[Len(q) + 1] = n
  BY SeqAppend, SeqType, SMTT(60)
<1>2. Nth(Append(q, n), Len(q) + 1) = n
  BY <1>1, SMTT(60) DEF Nth
<1>3. \A k \in 1 .. Len(q) + 1 : Nth(Append(q, n), k - 1) = Nth(q, k - 1)
  BY <1>1, SMTT(60) DEF Nth
<1>4. ASSUME NEW k \in 1 .. Len(q) + 1 PROVE nx[Append(q, n)[k]] = Nth(q, k - 1)
  <2>1. CASE k = Len(q) + 1
    BY <1>1, <2>1, SMTT(60) DEF ChainOf
  <2>2. CASE k \in 1 .. Len(q)
    BY <1>1, <2>2, Zenon DEF ChainOf, Back
  <2> QED BY <1>1, <2>1, <2>2, SMTT(60)
<1> QED BY <1>1, <1>2, <1>3, <1>4, Zenon DEF ChainOf, Back

\* One round of the reversal.
LEMMA ReverseRound ==
  ASSUME NEW b \in Seq(Nodes), NoRepeat(b), NEW m \in 1 .. Len(b), NEW nx \in [Nodes -> Links],
         NEW ny, ny = [nx EXCEPT ![b[m]] = Nth(b, m + 1)],
         Back(nx, b, m), Forth(nx, b, m)
  PROVE  /\ nx[b[m]] = Nth(b, m - 1)
         /\ Back(ny, b, m - 1) /\ Forth(ny, b, m - 1)
<1>1. /\ Len(b) \in Nat /\ \A k \in 1 .. Len(b) : b[k] \in Nodes /\ (b[k] = b[m] => k = m)
      /\ m \in 1 .. Len(b)
  BY ListElems, Zenon DEF NoRepeat
<1>2. nx[b[m]] = Nth(b, m - 1)
  BY <1>1, SMTT(60) DEF Back
<1>3. \A k \in 1 .. Len(b) : ny[b[k]] = IF k = m THEN Nth(b, m + 1) ELSE nx[b[k]]
  BY <1>1, Zenon
<1>4. Back(ny, b, m - 1)
  BY <1>1, <1>3, SMTT(60) DEF Back
<1>5. Forth(ny, b, m - 1)
  BY <1>1, <1>3, SMTT(60) DEF Forth
<1> QED BY <1>2, <1>4, <1>5, Zenon

\* The oldest node is given back: the links of the others stay.
LEMMA ForthTail ==
  ASSUME NEW b \in Seq(Nodes), b # <<>>, NEW nx, NEW ny, Forth(nx, b, 0),
         \A n \in Elems(Tail(b)) : ny[n] = nx[n]
  PROVE  Forth(ny, Tail(b), 0) /\ Nth(Tail(b), 1) = Nth(b, 2)
<1>1. /\ Tail(b) \in Seq(Nodes) /\ Len(b) \in Nat \ {0} /\ Len(Tail(b)) = Len(b) - 1
      /\ \A k \in 1 .. Len(b) - 1 : Tail(b)[k] = b[k + 1]
  BY ListTail, Zenon
<1>2. \A k \in 1 .. Len(b) : Nth(Tail(b), k) = Nth(b, k + 1)
  BY <1>1, SMTT(60) DEF Nth
<1>3. \A k \in 1 .. Len(b) - 1 : ny[Tail(b)[k]] = nx[b[k + 1]]
  BY <1>1, ListElems, Zenon
<1>4. ASSUME NEW k \in 1 .. Len(b) - 1 PROVE ny[Tail(b)[k]] = Nth(Tail(b), k + 1)
  <2>1. k + 1 \in 0 + 1 .. Len(b) /\ k + 1 \in 1 .. Len(b)
    BY <1>1, SMTT(60)
  <2> QED BY <1>2, <1>3, <2>1, Zenon DEF Forth
<1>5. 0 + 1 .. Len(Tail(b)) = 1 .. Len(b) - 1 /\ 1 \in 1 .. Len(b) /\ 1 + 1 = 2
  BY <1>1, SMTT(60)
<1>6. Nth(Tail(b), 1) = Nth(b, 2)
  BY <1>2, <1>5, Zenon
<1> QED BY <1>4, <1>5, <1>6, Zenon DEF Forth

-----------------------------------------------------------------------------
(* What lists carry *)

Load(pl, q) == [k \in 1 .. Len(q) |-> pl[q[k]]]

LEMMA LoadType ==
  ASSUME NEW q \in Seq(Nodes), NEW pl \in [Nodes -> Words]
  PROVE  Load(pl, q) \in Seq(Words) /\ Len(Load(pl, q)) = Len(q)
<1>1. Len(q) \in Nat /\ \A k \in 1 .. Len(q) : pl[q[k]] \in Words
  BY ListElems, Zenon
<1>2. Load(pl, q) \in [1 .. Len(q) -> Words]
  BY <1>1, Zenon DEF Load
<1> QED BY <1>1, <1>2, SMTT(60)

LEMMA LoadKept ==
  ASSUME NEW q \in Seq(Nodes), NEW pl, NEW pm, \A n \in Elems(q) : pm[n] = pl[n]
  PROVE  Load(pm, q) = Load(pl, q)
<1>1. \A k \in 1 .. Len(q) : pm[q[k]] = pl[q[k]]
  BY ListElems, Zenon
<1> QED BY <1>1, Zenon DEF Load

LEMMA LoadEmpty == ASSUME NEW pl PROVE Load(pl, <<>>) = <<>>
BY SMTT(60) DEF Load

LEMMA LoadAppend ==
  ASSUME NEW q \in Seq(Nodes), NEW n \in Nodes, NEW pl \in [Nodes -> Words]
  PROVE  Load(pl, Append(q, n)) = Append(Load(pl, q), pl[n])
<1>1. /\ Append(q, n) \in Seq(Nodes) /\ Len(q) \in Nat /\ Len(Append(q, n)) = Len(q) + 1
      /\ \A k \in 1 .. Len(q) : Append(q, n)[k] = q[k]
      /\ Append(q, n)[Len(q) + 1] = n
  BY SeqAppend, SeqType, SMTT(60)
<1>2. /\ Load(pl, Append(q, n)) \in Seq(Words) /\ Len(Load(pl, Append(q, n))) = Len(q) + 1
      /\ Load(pl, q) \in Seq(Words) /\ Len(Load(pl, q)) = Len(q) /\ pl[n] \in Words
  BY <1>1, LoadType, Zenon
<1>3. /\ Append(Load(pl, q), pl[n]) \in Seq(Words) /\ Len(Append(Load(pl, q), pl[n])) = Len(q) + 1
      /\ \A k \in 1 .. Len(q) : Append(Load(pl, q), pl[n])[k] = Load(pl, q)[k]
      /\ Append(Load(pl, q), pl[n])[Len(q) + 1] = pl[n]
  BY <1>2, SeqAppend, SMTT(60)
<1>4. ASSUME NEW k \in 1 .. Len(q) + 1 PROVE Load(pl, Append(q, n))[k] = Append(Load(pl, q), pl[n])[k]
  <2>1. Load(pl, Append(q, n))[k] = pl[Append(q, n)[k]]
    BY <1>1, Zenon DEF Load
  <2>2. CASE k = Len(q) + 1
    BY <1>1, <1>3, <2>1, <2>2, Zenon
  <2>3. CASE k \in 1 .. Len(q)
    <3>1. Load(pl, q)[k] = pl[q[k]]
      BY <2>3, Zenon DEF Load
    <3> QED BY <1>1, <1>3, <2>1, <2>3, <3>1, Zenon
  <2>4. Len(q) \in Nat
    BY <1>1, Zenon
  <2>5. k \in 1 .. Len(q) \/ k = Len(q) + 1
    BY <2>4, SMTT(60)
  <2> QED BY <2>2, <2>3, <2>5, Zenon
<1> QED BY <1>2, <1>3, <1>4, SeqSame, ZenonT(60)

LEMMA LoadTail ==
  ASSUME NEW q \in Seq(Nodes), q # <<>>, NEW pl \in [Nodes -> Words]
  PROVE  Load(pl, q) = <<pl[q[1]]>> \o Load(pl, Tail(q))
<1>1. /\ Tail(q) \in Seq(Nodes) /\ Len(q) \in Nat \ {0} /\ Len(Tail(q)) = Len(q) - 1
      /\ \A k \in 1 .. Len(q) - 1 : Tail(q)[k] = q[k + 1]
      /\ q[1] \in Nodes
  BY ListTail, Zenon
<1>2. /\ Load(pl, q) \in Seq(Words) /\ Len(Load(pl, q)) = Len(q)
      /\ Load(pl, Tail(q)) \in Seq(Words) /\ Len(Load(pl, Tail(q))) = Len(q) - 1
  BY <1>1, LoadType, Zenon
<1>3. <<pl[q[1]]>> \in Seq(Words) /\ Len(<<pl[q[1]]>>) = 1 /\ <<pl[q[1]]>>[1] = pl[q[1]]
  BY <1>1, SMTT(60)
<1> DEFINE one == <<pl[q[1]]>>
           t == Load(pl, Tail(q))
<1>4. /\ one \in Seq(Words) /\ Len(one) = 1 /\ one[1] = pl[q[1]]
      /\ t \in Seq(Words) /\ Len(t) = Len(q) - 1
  BY <1>2, <1>3, Zenon
<1>5. \A k \in 1 .. Len(q) - 1 : t[k] = pl[q[k + 1]]
  BY <1>1, Zenon DEF Load
<1> HIDE DEF one, t
<1>6. /\ one \o t \in Seq(Words) /\ Len(one \o t) = Len(one) + Len(t)
      /\ \A k \in 1 .. Len(one) + Len(t) :
           (one \o t)[k] = IF k <= Len(one) THEN one[k] ELSE t[k - Len(one)]
  BY <1>4, SeqConcat, Zenon
<1>7. Len(q) \in Nat \ {0} /\ Len(one) = 1 /\ Len(t) = Len(q) - 1
  BY <1>1, <1>4, Zenon
<1>8. Len(one) + Len(t) = Len(q)
  BY <1>7, SMTT(60)
<1>9. ASSUME NEW k \in 1 .. Len(q) PROVE Load(pl, q)[k] = (one \o t)[k]
  <2>1. /\ Load(pl, q)[k] = pl[q[k]]
        /\ (one \o t)[k] = IF k <= 1 THEN one[k] ELSE t[k - 1]
    BY <1>6, <1>7, <1>8, Zenon DEF Load
  <2>2. CASE k = 1
    BY <1>4, <2>1, <2>2, SMTT(60)
  <2>3. CASE k # 1
    <3>1. k - 1 \in 1 .. Len(q) - 1 /\ (k - 1) + 1 = k /\ ~(k <= 1)
      BY <1>7, <2>3, SMTT(60)
    <3> QED BY <1>5, <2>1, <3>1, Zenon
  <2> QED BY <2>2, <2>3, Zenon
<1>10. Load(pl, q) = one \o t
  BY <1>2, <1>6, <1>8, <1>9, SeqSame, Zenon
<1> QED BY <1>10, Zenon DEF one, t

\* What was sent to an inbox, g handed on, in the hand of its owner, detached
\* and linked.
InHand(c) == IF c.at \in {"free", "run"} THEN <<c.frame>> ELSE <<>>
Rest(c, b) == IF c.at = "free" THEN Tail(b) ELSE b
Flow(s, g, c, b, q, pl) == s = g \o InHand(c) \o Load(pl, Rest(c, b)) \o Load(pl, q)

LEMMA FlowIsNothingLost ==
  NothingLost <=> \A i \in Inboxes : Flow(sent[i], got[i], cons[i], batch[i], chain[i], payload)
BY Zenon DEF NothingLost, Flow, InHand, Rest, Load, Carried

LEMMA FlowIsNothingLostNext ==
  ASSUME \A i \in Inboxes : Flow(sent'[i], got'[i], cons'[i], batch'[i], chain'[i], payload')
  PROVE  NothingLost'
BY Zenon DEF NothingLost, Flow, InHand, Rest, Load, Carried

LEMMA FlowKept ==
  ASSUME NEW b \in Seq(Nodes), NEW q \in Seq(Nodes), NEW s, NEW g, NEW c, NEW pl, NEW pm,
         \A n \in Elems(b) : pm[n] = pl[n], \A n \in Elems(q) : pm[n] = pl[n],
         c.at = "free" => b # <<>>, Flow(s, g, c, b, q, pl)
  PROVE  Flow(s, g, c, b, q, pm)
<1>1. Rest(c, b) \in Seq(Nodes) /\ \A n \in Elems(Rest(c, b)) : pm[n] = pl[n]
  BY ListTail, Zenon DEF Rest
<1>2. Load(pm, Rest(c, b)) = Load(pl, Rest(c, b)) /\ Load(pm, q) = Load(pl, q)
  BY <1>1, LoadKept, Zenon
<1> QED BY <1>2, Zenon DEF Flow

-----------------------------------------------------------------------------
(* Nodes change places *)

Shape(F, H, C, B) ==
  /\ F \subseteq Nodes /\ H \in [Producers -> Links]
  /\ C \in [Inboxes -> SUBSET Nodes] /\ B \in [Inboxes -> SUBSET Nodes]

LEMMA AllocMoves ==
  ASSUME NEW F, NEW H, NEW C, NEW B, Shape(F, H, C, B), Placement(F, H, C, B),
         NEW n \in F, NEW p \in Producers, H[p] = Null
  PROVE  Placement(F \ {n}, [H EXCEPT ![p] = n], C, B)
BY InboxAssumption, SMTT(60) DEF Shape, Placement

LEMMA PushMoves ==
  ASSUME NEW F, NEW H, NEW C, NEW B, Shape(F, H, C, B), Placement(F, H, C, B),
         NEW p \in Producers, NEW i \in Inboxes, H[p] \in Nodes
  PROVE  Placement(F, [H EXCEPT ![p] = Null], [C EXCEPT ![i] = C[i] \cup {H[p]}], B)
BY InboxAssumption, SMTT(60) DEF Shape, Placement

LEMMA SwapMoves ==
  ASSUME NEW F, NEW H, NEW C, NEW B, Shape(F, H, C, B), Placement(F, H, C, B),
         NEW i \in Inboxes, B[i] = {}
  PROVE  Placement(F, H, [C EXCEPT ![i] = {}], [B EXCEPT ![i] = C[i]])
BY InboxAssumption, SMTT(60) DEF Shape, Placement

LEMMA FreeMoves ==
  ASSUME NEW F, NEW H, NEW C, NEW B, Shape(F, H, C, B), Placement(F, H, C, B),
         NEW i \in Inboxes, NEW n \in B[i]
  PROVE  Placement(F \cup {n}, H, C, [B EXCEPT ![i] = B[i] \ {n}])
BY InboxAssumption, SMTT(60) DEF Shape, Placement

-----------------------------------------------------------------------------
(* Where nodes are *)

LEMMA Shapes ==
  ASSUME ListInv PROVE Shape(free, HeldBy, OnInbox, Detached)
<1>1. \A i \in Inboxes : Elems(chain[i]) \subseteq Nodes /\ Elems(batch[i]) \subseteq Nodes
  <2> TAKE i \in Inboxes
  <2>1. chain[i] \in Seq(Nodes) /\ batch[i] \in Seq(Nodes)
    BY Zenon DEF ListInv, InboxType
  <2> QED BY <2>1, ListElems, Zenon
<1>2. free \subseteq Nodes /\ \A p \in Producers : prod[p].node \in Links
  <2>1. free \subseteq Nodes /\ prod \in [Producers -> ProdType]
    BY Zenon DEF ListInv, InboxType
  <2> QED BY <2>1, Zenon DEF ProdType
<1> QED BY <1>1, <1>2, Zenon DEF Shape, HeldBy, OnInbox, Detached

\* Where a node is, it is nowhere else.
LEMMA OnePlace ==
  ASSUME ListInv
  PROVE  /\ \A n \in free : /\ \A p \in Producers : prod[p].node # n
                            /\ \A i \in Inboxes : n \notin Elems(chain[i]) /\ n \notin Elems(batch[i])
         /\ \A p \in Producers : prod[p].node \in Nodes =>
              /\ prod[p].node \notin free
              /\ \A q \in Producers : q # p => prod[q].node # prod[p].node
              /\ \A i \in Inboxes : prod[p].node \notin Elems(chain[i]) /\ prod[p].node \notin Elems(batch[i])
         /\ \A i \in Inboxes : \A n \in Elems(batch[i]) :
              /\ n \notin free /\ \A p \in Producers : prod[p].node # n
              /\ \A j \in Inboxes : n \notin Elems(chain[j]) /\ (j # i => n \notin Elems(batch[j]))
<1>1. /\ \A p \in Producers : HeldBy[p] = prod[p].node
      /\ \A i \in Inboxes : OnInbox[i] = Elems(chain[i]) /\ Detached[i] = Elems(batch[i])
  BY Zenon DEF HeldBy, OnInbox, Detached
<1>2. /\ Placement(free, HeldBy, OnInbox, Detached)
      /\ free \subseteq Nodes
  BY Zenon DEF ListInv, InboxType, Placed
<1>3. /\ \A p \in Producers : prod[p].node \in Nodes =>
           prod[p].node \notin free /\ \A q \in Producers : q # p => prod[q].node # prod[p].node
      /\ \A i \in Inboxes : \A n \in Elems(chain[i]) :
           /\ n \notin free /\ \A p \in Producers : prod[p].node # n
           /\ \A j \in Inboxes : n \notin Elems(batch[j]) /\ (j # i => n \notin Elems(chain[j]))
      /\ \A i \in Inboxes : \A n \in Elems(batch[i]) :
           /\ n \notin free /\ \A p \in Producers : prod[p].node # n
           /\ \A j \in Inboxes : j # i => n \notin Elems(batch[j])
  BY <1>1, <1>2, SMTT(60) DEF Placement
<1> HIDE DEF Elems
<1>4. \A n \in free : /\ \A p \in Producers : prod[p].node # n
                      /\ \A i \in Inboxes : n \notin Elems(chain[i]) /\ n \notin Elems(batch[i])
  BY <1>2, <1>3, Zenon
<1>5. \A p \in Producers : \A i \in Inboxes :
        prod[p].node \notin Elems(chain[i]) /\ prod[p].node \notin Elems(batch[i])
  BY <1>3, Zenon
<1>6. \A i \in Inboxes : \A n \in Elems(batch[i]) : \A j \in Inboxes : n \notin Elems(chain[j])
  BY <1>3, Zenon
<1> QED BY <1>3, <1>4, <1>5, <1>6, Zenon

-----------------------------------------------------------------------------
(* What the steps have in common *)

LEMMA Types ==
  ASSUME ListInv
  PROVE  /\ free \subseteq Nodes /\ next \in [Nodes -> Links] /\ payload \in [Nodes -> Words]
         /\ head \in [Inboxes -> Links] /\ prod \in [Producers -> ProdType]
         /\ cons \in [Inboxes -> ConsType]
         /\ buffers \in Nat /\ frames \in 0 .. MaxFrames /\ refused \in 0 .. MaxFrames
         /\ refused <= frames
         /\ sent \in [Inboxes -> Seq(Words)] /\ got \in [Inboxes -> Seq(Words)]
         /\ chain \in [Inboxes -> Seq(Nodes)] /\ batch \in [Inboxes -> Seq(Nodes)]
BY Zenon DEF ListInv, InboxType

LEMMA TypesNext ==
  ASSUME free' \subseteq Nodes, next' \in [Nodes -> Links], payload' \in [Nodes -> Words],
         head' \in [Inboxes -> Links], prod' \in [Producers -> ProdType],
         cons' \in [Inboxes -> ConsType],
         buffers' \in Nat, frames' \in 0 .. MaxFrames, refused' \in 0 .. MaxFrames,
         refused' <= frames',
         sent' \in [Inboxes -> Seq(Words)], got' \in [Inboxes -> Seq(Words)],
         chain' \in [Inboxes -> Seq(Nodes)], batch' \in [Inboxes -> Seq(Nodes)]
  PROVE  InboxType'
BY Zenon DEF InboxType, ProdType, ConsType, Words, Frames, NoFrame, Links

\* The hands of the producers stay as they are.
LEMMA HeldKept ==
  ASSUME ListInv, prod' = prod,
         \A p \in Producers : prod[p].node \in Nodes =>
           /\ next'[prod[p].node] = next[prod[p].node]
           /\ payload'[prod[p].node] = payload[prod[p].node]
  PROVE  HeldInv'
<1>1. \A p \in Producers :
        IF prod[p].at = "out" THEN prod[p] = ProdOut
        ELSE /\ prod[p].node \in Nodes /\ payload'[prod[p].node] \in Frames
             /\ prod[p].at = "cas" => next'[prod[p].node] = prod[p].seen
  BY Zenon DEF ListInv, HeldInv
<1> QED BY <1>1, Zenon DEF HeldInv, ProdOut, Frames

\* No node changes places.
LEMMA PlacesKept ==
  ASSUME ListInv, free' = free, \A p \in Producers : prod'[p].node = prod[p].node,
         chain' = chain, batch' = batch
  PROVE  Placed'
<1>1. HeldBy' = HeldBy /\ OnInbox' = OnInbox /\ Detached' = Detached
  BY Zenon DEF HeldBy, OnInbox, Detached
<1>2. Placement(free', HeldBy', OnInbox', Detached')
  BY <1>1, Zenon DEF ListInv, Placed
<1> QED BY <1>2, Zenon DEF ListInv, Placed

\* The inboxes and the links of their nodes stay.
LEMMA ChainsKept ==
  ASSUME ListInv, head' = head, chain' = chain,
         \A i \in Inboxes : \A n \in Elems(chain[i]) : next'[n] = next[n]
  PROVE  ChainInv'
<1>1. ASSUME NEW i \in Inboxes PROVE ChainOf(head[i], chain[i], next')
  <2>1. chain[i] \in Seq(Nodes) /\ ChainOf(head[i], chain[i], next)
    BY Types, Zenon DEF ListInv, ChainInv
  <2> QED BY <2>1, ChainKept, Zenon
<1> QED BY <1>1, Zenon DEF ChainInv

\* What drains and flows to the other cores is not disturbed.
DrainAside(j) ==
  cons'[j] = cons[j] /\ batch'[j] = batch[j] /\ \A n \in Elems(batch[j]) : next'[n] = next[n]
FlowAside(j) ==
  /\ sent'[j] = sent[j] /\ got'[j] = got[j] /\ cons'[j] = cons[j]
  /\ batch'[j] = batch[j] /\ chain'[j] = chain[j]
  /\ \A n \in Elems(batch[j]) : payload'[n] = payload[n]
  /\ \A n \in Elems(chain[j]) : payload'[n] = payload[n]

LEMMA DrainsKept ==
  ASSUME ListInv, NEW i \in Inboxes, DrainAside(i) \/ DrainOf(cons'[i], batch'[i], next'),
         \A j \in Inboxes : j # i => DrainAside(j)
  PROVE  DrainInv'
<1>1. ASSUME NEW j \in Inboxes, DrainAside(j) PROVE DrainOf(cons'[j], batch'[j], next')
  <2>1. batch[j] \in Seq(Nodes) /\ DrainOf(cons[j], batch[j], next)
    BY Types, Zenon DEF ListInv, DrainInv
  <2>2. /\ cons'[j] = cons[j] /\ batch'[j] = batch[j]
        /\ \A n \in Elems(batch[j]) : next'[n] = next[n]
    BY <1>1, Zenon DEF DrainAside
  <2>3. DrainOf(cons[j], batch[j], next')
    BY <2>1, <2>2, DrainKept, Zenon
  <2> QED BY <2>2, <2>3, Zenon
<1>2. \A j \in Inboxes : DrainOf(cons'[j], batch'[j], next')
  BY <1>1, Zenon
<1> QED BY <1>2, Zenon DEF DrainInv

LEMMA FlowsKept ==
  ASSUME ListInv, NEW i \in Inboxes,
         Flow(sent'[i], got'[i], cons'[i], batch'[i], chain'[i], payload'),
         \A j \in Inboxes : j # i => FlowAside(j)
  PROVE  NothingLost'
<1>1. ASSUME NEW j \in Inboxes, FlowAside(j)
      PROVE  Flow(sent'[j], got'[j], cons'[j], batch'[j], chain'[j], payload')
  <2>1. /\ Flow(sent[j], got[j], cons[j], batch[j], chain[j], payload)
        /\ batch[j] \in Seq(Nodes) /\ chain[j] \in Seq(Nodes) /\ (cons[j].at = "free" => batch[j] # <<>>)
    BY Types, FlowIsNothingLost, Zenon DEF ListInv, DrainInv, DrainOf
  <2>2. /\ sent'[j] = sent[j] /\ got'[j] = got[j] /\ cons'[j] = cons[j]
        /\ batch'[j] = batch[j] /\ chain'[j] = chain[j]
        /\ \A n \in Elems(batch[j]) : payload'[n] = payload[n]
        /\ \A n \in Elems(chain[j]) : payload'[n] = payload[n]
    BY <1>1, ZenonT(60) DEF FlowAside
  <2>3. Flow(sent[j], got[j], cons[j], batch[j], chain[j], payload')
    BY <2>1, <2>2, FlowKept, SMTT(60)
  <2> QED BY <2>2, <2>3, Zenon
<1>2. \A j \in Inboxes : Flow(sent'[j], got'[j], cons'[j], batch'[j], chain'[j], payload')
  BY <1>1, Zenon
<1> QED BY <1>2, FlowIsNothingLostNext, Zenon

-----------------------------------------------------------------------------
(* A producer's distribute: allocation and push *)

LEMMA DistributeStep ==
  ASSUME ListInv, NEW p \in Producers, NEW i \in Inboxes, Distribute(p, i) PROVE ListInv'
<1>1. PICK n \in free :
        /\ prod[p].at = "out" /\ buffers > 0 /\ frames < MaxFrames
        /\ frames' = frames + 1 /\ buffers' = buffers - 1 /\ refused' = refused
        /\ free' = free \ {n} /\ payload' = [payload EXCEPT ![n] = frames']
        /\ prod' = [prod EXCEPT ![p] = [at |-> "load", node |-> n, inbox |-> i, seen |-> Null]]
        /\ next' = next /\ head' = head /\ cons' = cons
        /\ sent' = sent /\ got' = got /\ chain' = chain /\ batch' = batch
  BY Zenon DEF Distribute, aux
<1>2. /\ n \in Nodes /\ free \subseteq Nodes
      /\ next \in [Nodes -> Links] /\ payload \in [Nodes -> Words] /\ head \in [Inboxes -> Links]
      /\ prod \in [Producers -> ProdType] /\ buffers \in Nat
      /\ frames \in 0 .. MaxFrames /\ refused \in 0 .. MaxFrames
      /\ refused <= frames /\ MaxFrames \in Nat
  BY InboxAssumption, Types, Zenon
<1>3. frames' \in Frames /\ frames' \in 0 .. MaxFrames /\ buffers' \in Nat /\ refused' <= frames'
  BY <1>1, <1>2, SMTT(60) DEF Frames
<1>4. prod[p].node = Null
  <2>1. prod[p] = ProdOut
    BY <1>1, Zenon DEF ListInv, HeldInv
  <2> QED BY <2>1, SMTT(60) DEF ProdOut
<1>5. /\ \A q \in Producers : prod[q].node # n
      /\ \A j \in Inboxes : n \notin Elems(chain[j]) /\ n \notin Elems(batch[j])
  BY OnePlace, Zenon
<1>6. InboxType'
  <2>1. payload' \in [Nodes -> Words] /\ free' \subseteq Nodes
    BY <1>1, <1>2, <1>3, Zenon DEF Words
  <2>2. prod' \in [Producers -> ProdType]
    BY <1>1, <1>2, Zenon DEF ProdType, Links
  <2>3. refused' \in 0 .. MaxFrames
    BY <1>1, <1>2, Zenon
  <2> QED BY <1>1, <1>3, <2>1, <2>2, <2>3, Types, TypesNext, Zenon
<1>7. HeldInv'
  <2> SUFFICES ASSUME NEW q \in Producers
               PROVE  IF prod'[q].at = "out" THEN prod'[q] = ProdOut
                      ELSE /\ prod'[q].node \in Nodes /\ payload'[prod'[q].node] \in Frames
                           /\ prod'[q].at = "cas" => next'[prod'[q].node] = prod'[q].seen
    BY Zenon DEF HeldInv, ProdOut, Frames
  <2>1. CASE q = p
    BY <1>1, <1>2, <1>3, <2>1, Zenon
  <2>2. CASE q # p
    <3>1. prod'[q] = prod[q] /\ next' = next
          /\ (prod[q].node \in Nodes => payload'[prod[q].node] = payload[prod[q].node])
      BY <1>1, <1>2, <1>5, <2>2, Zenon
    <3> QED BY <3>1, Zenon DEF ListInv, HeldInv
  <2> QED BY <2>1, <2>2, Zenon
<1>8. Placed'
  <2>1. HeldBy' = [HeldBy EXCEPT ![p] = n] /\ HeldBy[p] = Null
    BY <1>1, <1>2, <1>4, ZenonT(60) DEF HeldBy
  <2>2. OnInbox' = OnInbox /\ Detached' = Detached
    BY <1>1, Zenon DEF OnInbox, Detached
  <2>3. Placement(free \ {n}, [HeldBy EXCEPT ![p] = n], OnInbox, Detached)
    BY <2>1, Shapes, AllocMoves, Zenon DEF ListInv, Placed
  <2> QED BY <1>1, <2>1, <2>2, <2>3, Zenon DEF ListInv, Placed
<1>9. ChainInv' /\ DrainInv'
  BY <1>1, Zenon DEF ListInv, ChainInv, DrainInv
<1>10. NothingLost'
  <2>1. ASSUME NEW j \in Inboxes PROVE Flow(sent[j], got[j], cons[j], batch[j], chain[j], payload')
    <3>1. /\ Flow(sent[j], got[j], cons[j], batch[j], chain[j], payload)
          /\ batch[j] \in Seq(Nodes) /\ chain[j] \in Seq(Nodes) /\ (cons[j].at = "free" => batch[j] # <<>>)
      BY FlowIsNothingLost, Zenon DEF ListInv, InboxType, DrainInv, DrainOf
    <3>2. /\ \A m \in Elems(batch[j]) : payload'[m] = payload[m]
          /\ \A m \in Elems(chain[j]) : payload'[m] = payload[m]
      BY <1>1, <1>2, <1>5, <3>1, ListElems, Zenon
    <3> QED BY <3>1, <3>2, FlowKept, Zenon
  <2> QED BY <1>1, <2>1, FlowIsNothingLostNext, ZenonT(60)
<1> QED BY <1>6, <1>7, <1>8, <1>9, <1>10, Zenon DEF ListInv

LEMMA RefuseStep ==
  ASSUME ListInv, NEW p \in Producers, DistributeErr(p) PROVE ListInv'
<1>1. /\ frames < MaxFrames /\ frames' = frames + 1 /\ refused' = refused + 1
      /\ UNCHANGED <<free, next, payload, head, prod, cons, buffers, sent, got, chain, batch>>
  BY Zenon DEF DistributeErr, aux, pool
<1>2. InboxType'
  <2>1. frames' \in 0 .. MaxFrames /\ refused' \in 0 .. MaxFrames /\ refused' <= frames'
    BY <1>1, InboxAssumption, Types, SMTT(60)
  <2> QED BY <1>1, <2>1, Types, TypesNext, Zenon
<1>3. HeldInv' /\ Placed' /\ ChainInv' /\ DrainInv' /\ NothingLost'
  BY <1>1, ZenonT(60) DEF ListInv, HeldInv, Placed, HeldBy, OnInbox, Detached, ChainInv, DrainInv,
     NothingLost, Carried
<1> QED BY <1>2, <1>3, Zenon DEF ListInv

LEMMA PushLoadStep ==
  ASSUME ListInv, NEW p \in Producers, PushLoad(p) PROVE ListInv'
<1> DEFINE n == prod[p].node
           h == head[prod[p].inbox]
<1>1. /\ prod[p].at = "load" /\ next' = [next EXCEPT ![n] = h]
      /\ prod' = [prod EXCEPT ![p].at = "cas", ![p].seen = h]
      /\ UNCHANGED <<free, payload, head, cons, buffers, frames, refused, sent, got, chain, batch>>
  BY Zenon DEF PushLoad, nic, aux
<1>2. n \in Nodes /\ payload[n] \in Frames /\ h \in Links /\ prod[p] \in ProdType
  <2>1. prod[p] \in ProdType /\ head \in [Inboxes -> Links]
    BY Types, Zenon
  <2> QED BY <1>1, <2>1, Zenon DEF ListInv, HeldInv, ProdType
<1>3. /\ prod'[p] = [prod[p] EXCEPT !.at = "cas", !.seen = h]
      /\ \A q \in Producers : q # p => prod'[q] = prod[q]
      /\ next'[n] = h /\ \A m \in Nodes : m # n => next'[m] = next[m]
  BY <1>1, <1>2, Types, Zenon
<1>4. /\ \A q \in Producers : q # p => prod[q].node # n
      /\ \A i \in Inboxes : n \notin Elems(chain[i]) /\ n \notin Elems(batch[i])
  BY <1>2, OnePlace, Zenon
<1> HIDE DEF n, h
<1>5. prod'[p].at = "cas" /\ prod'[p].node = n /\ prod'[p].seen = h
  BY <1>2, <1>3, Zenon DEF ProdType, n
<1>6. InboxType'
  <2>1. prod' \in [Producers -> ProdType]
    BY <1>1, <1>2, Types, Zenon DEF ProdType
  <2>2. next' \in [Nodes -> Links]
    BY <1>1, <1>2, Types, Zenon
  <2> QED BY <1>1, <2>1, <2>2, Types, TypesNext, Zenon
<1>7. HeldInv'
  <2>1. ASSUME NEW q \in Producers
        PROVE  IF prod'[q].at = "out" THEN prod'[q] = ProdOut
               ELSE /\ prod'[q].node \in Nodes /\ payload'[prod'[q].node] \in Frames
                    /\ prod'[q].at = "cas" => next'[prod'[q].node] = prod'[q].seen
    <3>1. CASE q = p
      BY <1>1, <1>2, <1>3, <1>5, <3>1, ZenonT(60)
    <3>2. CASE q # p
      <4>1. prod'[q] = prod[q] /\ prod[q].node # n /\ payload' = payload
        BY <1>1, <1>3, <1>4, <3>2, Zenon
      <4>2. IF prod[q].at = "out" THEN prod[q] = ProdOut
            ELSE /\ prod[q].node \in Nodes /\ payload[prod[q].node] \in Frames
                 /\ prod[q].at = "cas" => next[prod[q].node] = prod[q].seen
        BY Zenon DEF ListInv, HeldInv
      <4>3. prod[q].node \in Nodes => next'[prod[q].node] = next[prod[q].node]
        BY <1>3, <4>1, Zenon
      <4> QED BY <4>1, <4>2, <4>3, Zenon
    <3> QED BY <3>1, <3>2, Zenon
  <2> QED BY <2>1, Zenon DEF HeldInv, ProdOut, Frames
<1>8. Placed'
  <2>1. \A q \in Producers : prod'[q].node = prod[q].node
    BY <1>3, <1>5, Zenon DEF n
  <2> QED BY <1>1, <2>1, PlacesKept, Zenon
<1>9. \A i \in Inboxes : /\ \A m \in Elems(chain[i]) : next'[m] = next[m]
                         /\ \A m \in Elems(batch[i]) : next'[m] = next[m]
  <2> TAKE i \in Inboxes
  <2>1. Elems(chain[i]) \subseteq Nodes /\ Elems(batch[i]) \subseteq Nodes
    BY Types, ListElems, Zenon
  <2> QED BY <1>3, <1>4, <2>1, ZenonT(60)
<1>10. ChainInv' /\ DrainInv'
  <2>1. ChainInv'
    BY <1>1, <1>9, ChainsKept, Zenon
  <2>2. DrainInv'
    <3>1. \A j \in Inboxes : DrainAside(j)
      BY <1>1, <1>9, Zenon DEF DrainAside
    <3>2. PICK i \in Inboxes : TRUE
      BY InboxAssumption, Zenon
    <3> QED BY <3>1, <3>2, DrainsKept, Zenon
  <2> QED BY <2>1, <2>2, Zenon
<1>11. NothingLost'
  BY <1>1, Zenon DEF ListInv, NothingLost, Carried
<1> QED BY <1>6, <1>7, <1>8, <1>10, <1>11, Zenon DEF ListInv

LEMMA PushRetryStep ==
  ASSUME ListInv, NEW p \in Producers, PushRetry(p) PROVE ListInv'
<1>1. /\ prod[p].at = "cas" /\ prod' = [prod EXCEPT ![p].at = "load", ![p].seen = Null]
      /\ UNCHANGED <<free, next, payload, head, cons, buffers, frames, refused, sent, got, chain, batch>>
  BY Zenon DEF PushRetry, pool, nic, aux
<1>2. prod[p] \in ProdType /\ prod[p].node \in Nodes /\ payload[prod[p].node] \in Frames
  <2>1. prod[p] \in ProdType
    BY Types, Zenon
  <2> QED BY <1>1, <2>1, Zenon DEF ListInv, HeldInv
<1>3. /\ prod'[p].at = "load" /\ prod'[p].node = prod[p].node
      /\ \A q \in Producers : q # p => prod'[q] = prod[q]
  BY <1>1, <1>2, Types, Zenon DEF ProdType
<1>4. InboxType'
  <2>1. prod' \in [Producers -> ProdType]
    BY <1>1, <1>2, Types, Zenon DEF ProdType, Links
  <2> QED BY <1>1, <2>1, Types, TypesNext, Zenon
<1>5. HeldInv'
  <2>1. ASSUME NEW q \in Producers
        PROVE  IF prod'[q].at = "out" THEN prod'[q] = ProdOut
               ELSE /\ prod'[q].node \in Nodes /\ payload'[prod'[q].node] \in Frames
                    /\ prod'[q].at = "cas" => next'[prod'[q].node] = prod'[q].seen
    <3>1. CASE q = p
      BY <1>1, <1>2, <1>3, <3>1, Zenon
    <3>2. CASE q # p
      BY <1>1, <1>3, <3>2, Zenon DEF ListInv, HeldInv
    <3> QED BY <3>1, <3>2, Zenon
  <2> QED BY <2>1, Zenon DEF HeldInv, ProdOut, Frames
<1>6. Placed'
  <2>1. \A q \in Producers : prod'[q].node = prod[q].node
    BY <1>3, Zenon
  <2> QED BY <1>1, <2>1, PlacesKept, Zenon
<1>7. ChainInv' /\ DrainInv' /\ NothingLost'
  BY <1>1, ZenonT(60) DEF ListInv, ChainInv, DrainInv, NothingLost, Carried
<1> QED BY <1>4, <1>5, <1>6, <1>7, Zenon DEF ListInv

LEMMA OwnedParts ==
  ASSUME ListInv, NEW i \in Inboxes
  PROVE  /\ Rest(cons[i], batch[i]) \in Seq(Nodes) /\ InHand(cons[i]) \in Seq(Words)
         /\ got[i] \in Seq(Words)
<1>1. /\ batch[i] \in Seq(Nodes) /\ got[i] \in Seq(Words) /\ cons[i].frame \in Words
      /\ (cons[i].at = "free" => batch[i] # <<>>)
  BY Types, Zenon DEF ListInv, DrainInv, DrainOf, ConsType
<1>2. Rest(cons[i], batch[i]) \in Seq(Nodes)
  BY <1>1, ListTail, Zenon DEF Rest
<1>3. InHand(cons[i]) \in Seq(Words)
  BY <1>1, SMTT(60) DEF InHand
<1> QED BY <1>1, <1>2, <1>3, Zenon

LEMMA AppendOfConcat ==
  ASSUME NEW a \in Seq(Words), NEW b \in Seq(Words), NEW w \in Words
  PROVE  Append(a \o b, w) = a \o Append(b, w)
<1>1. a \o b \in Seq(Words) /\ <<w>> \in Seq(Words)
  BY SeqConcat, SMTT(60)
<1>2. Append(a \o b, w) = (a \o b) \o <<w>> /\ Append(b, w) = b \o <<w>>
  BY <1>1, ConcatOne, Zenon
<1> QED BY <1>1, <1>2, ConcatAgain, SMTT(60)

LEMMA PushCasStep ==
  ASSUME ListInv, NEW p \in Producers, PushCas(p) PROVE ListInv'
<1> DEFINE i == prod[p].inbox
           n == prod[p].node
<1>1. /\ prod[p].at = "cas" /\ head[i] = prod[p].seen /\ head' = [head EXCEPT ![i] = n]
      /\ sent' = [sent EXCEPT ![i] = Append(@, payload[n])]
      /\ chain' = [chain EXCEPT ![i] = Append(@, n)]
      /\ prod' = [prod EXCEPT ![p] = ProdOut]
      /\ UNCHANGED <<free, next, payload, cons, buffers, frames, refused, got, batch>>
  BY Zenon DEF PushCas, pool, nic
<1>2. n \in Nodes /\ payload[n] \in Frames /\ next[n] = head[i] /\ i \in Inboxes
  <2>1. prod[p] \in ProdType
    BY Types, Zenon
  <2> QED BY <1>1, <2>1, Zenon DEF ListInv, HeldInv, ProdType
<1>3. /\ \A q \in Producers : q # p => prod[q].node # n
      /\ n \notin Elems(chain[i])
  BY <1>2, OnePlace, Zenon
<1> HIDE DEF n, i
<1>4. /\ head'[i] = n /\ sent'[i] = Append(sent[i], payload[n]) /\ chain'[i] = Append(chain[i], n)
      /\ \A j \in Inboxes : j # i => head'[j] = head[j] /\ sent'[j] = sent[j] /\ chain'[j] = chain[j]
      /\ prod'[p] = ProdOut /\ \A q \in Producers : q # p => prod'[q] = prod[q]
  BY <1>1, <1>2, Types, Zenon
<1>5. chain[i] \in Seq(Nodes) /\ sent[i] \in Seq(Words) /\ payload[n] \in Words
  BY <1>2, Types, Zenon
<1>6. /\ Append(chain[i], n) \in Seq(Nodes) /\ Elems(Append(chain[i], n)) = Elems(chain[i]) \cup {n}
      /\ NoRepeat(Append(chain[i], n))
  BY <1>2, <1>3, <1>5, ListAppend, Zenon DEF ListInv, Placed
<1>7. ProdOut \in ProdType /\ ProdOut.node = Null /\ ProdOut.at = "out"
  <2>1. (CHOOSE j \in Inboxes : TRUE) \in Inboxes
    BY InboxAssumption, Zenon
  <2> QED BY <2>1, Zenon DEF ProdOut, ProdType, Links
<1>8. InboxType'
  <2>1. Append(sent[i], payload[n]) \in Seq(Words)
    BY <1>5, SeqAppend, Zenon
  <2>2. sent' \in [Inboxes -> Seq(Words)]
    BY <1>1, <2>1, Types, Zenon
  <2>3. chain' \in [Inboxes -> Seq(Nodes)]
    BY <1>1, <1>6, Types, Zenon
  <2>4. prod' \in [Producers -> ProdType]
    BY <1>1, <1>7, Types, Zenon
  <2>5. head' \in [Inboxes -> Links]
    BY <1>1, <1>2, Types, Zenon DEF Links
  <2> QED BY <1>1, <2>2, <2>3, <2>4, <2>5, Types, TypesNext, Zenon
<1>9. HeldInv'
  <2>1. ASSUME NEW q \in Producers
        PROVE  IF prod'[q].at = "out" THEN prod'[q] = ProdOut
               ELSE /\ prod'[q].node \in Nodes /\ payload'[prod'[q].node] \in Frames
                    /\ prod'[q].at = "cas" => next'[prod'[q].node] = prod'[q].seen
    <3>1. CASE q = p
      BY <1>4, <1>7, <3>1, Zenon
    <3>2. CASE q # p
      BY <1>1, <1>4, <3>2, ZenonT(60) DEF ListInv, HeldInv
    <3> QED BY <3>1, <3>2, Zenon
  <2> QED BY <2>1, Zenon DEF HeldInv, ProdOut, Frames
<1>10. Placed'
  <2>1. HeldBy' = [HeldBy EXCEPT ![p] = Null] /\ HeldBy[p] = n
    <3>1. \A q \in Producers : prod'[q].node = IF q = p THEN Null ELSE prod[q].node
      BY <1>4, <1>7, Zenon
    <3> QED BY <3>1, ZenonT(60) DEF HeldBy, n
  <2>2. OnInbox' = [OnInbox EXCEPT ![i] = OnInbox[i] \cup {n}] /\ Detached' = Detached
    <3>1. \A j \in Inboxes : Elems(chain'[j]) = IF j = i THEN Elems(chain[i]) \cup {n} ELSE Elems(chain[j])
      BY <1>4, <1>6, ZenonT(60)
    <3> QED BY <1>1, <1>2, <3>1, Zenon DEF OnInbox, Detached
  <2>3. Placement(free, [HeldBy EXCEPT ![p] = Null], [OnInbox EXCEPT ![i] = OnInbox[i] \cup {HeldBy[p]}], Detached)
    BY <1>2, <2>1, Shapes, PushMoves, Zenon DEF ListInv, Placed
  <2>4. Placement(free', HeldBy', OnInbox', Detached')
    BY <1>1, <2>1, <2>2, <2>3, Zenon
  <2>5. \A j \in Inboxes : NoRepeat(chain'[j]) /\ NoRepeat(batch'[j])
    BY <1>1, <1>4, <1>6, Zenon DEF ListInv, Placed
  <2> QED BY <2>4, <2>5, Zenon DEF Placed
<1>11. ChainInv'
  <2>1. ChainOf(n, Append(chain[i], n), next)
    BY <1>2, <1>5, ChainGrows, Zenon DEF ListInv, ChainInv
  <2>2. \A j \in Inboxes : ChainOf(head'[j], chain'[j], next')
    BY <1>1, <1>4, <2>1, Zenon DEF ListInv, ChainInv
  <2> QED BY <2>2, ZenonT(60) DEF ChainInv
<1>12. DrainInv'
  BY <1>1, Zenon DEF ListInv, DrainInv
<1>13. NothingLost'
  <2> DEFINE a == got[i] \o InHand(cons[i]) \o Load(payload, Rest(cons[i], batch[i]))
             b == Load(payload, chain[i])
  <2>1. sent[i] = a \o b
    BY <1>2, FlowIsNothingLost, Zenon DEF ListInv, Flow
  <2>2. Load(payload, Append(chain[i], n)) = Append(b, payload[n])
    BY <1>2, <1>5, LoadAppend, Types, Zenon
  <2>3. a \in Seq(Words) /\ b \in Seq(Words)
    <3>1. Rest(cons[i], batch[i]) \in Seq(Nodes) /\ InHand(cons[i]) \in Seq(Words) /\ got[i] \in Seq(Words)
      BY <1>2, OwnedParts, Zenon
    <3>2. Load(payload, Rest(cons[i], batch[i])) \in Seq(Words) /\ b \in Seq(Words)
      BY <1>5, <3>1, LoadType, Types, Zenon
    <3> QED BY <3>1, <3>2, SeqConcat, Zenon
  <2> HIDE DEF a, b
  <2>4. Append(a \o b, payload[n]) = a \o Append(b, payload[n])
    BY <1>5, <2>3, AppendOfConcat, Zenon
  <2>5. Flow(sent'[i], got'[i], cons'[i], batch'[i], chain'[i], payload')
    BY <1>1, <1>4, <2>1, <2>2, <2>4, ZenonT(60) DEF Flow, a
  <2>9. \A j \in Inboxes : j # i => FlowAside(j)
    BY <1>1, <1>2, <1>4, <2>5, Zenon DEF FlowAside
  <2> QED BY <1>2, <2>5, <2>9, FlowsKept, Zenon
<1> QED BY <1>8, <1>9, <1>10, <1>11, <1>12, <1>13, Zenon DEF ListInv

-----------------------------------------------------------------------------
(* The owner's drain *)

LEMMA DrainSwapStep ==
  ASSUME ListInv, NEW i \in Inboxes, DrainSwap(i) PROVE ListInv'
<1>1. /\ cons[i].at = "out"
      /\ cons' = [cons EXCEPT ![i].at = "reverse", ![i].node = head[i]]
      /\ head' = [head EXCEPT ![i] = Null]
      /\ chain' = [chain EXCEPT ![i] = <<>>] /\ batch' = [batch EXCEPT ![i] = chain[i]]
      /\ UNCHANGED <<free, next, payload, prod, buffers, frames, refused, sent, got>>
  BY Zenon DEF DrainSwap, pool, nic
<1>2. cons[i] = ConsOut /\ batch[i] = <<>> /\ chain[i] \in Seq(Nodes) /\ head[i] \in Links
      /\ cons[i] \in ConsType
  BY <1>1, Types, Zenon DEF ListInv, DrainInv, DrainOf
<1>3. /\ head'[i] = Null /\ chain'[i] = <<>> /\ batch'[i] = chain[i]
      /\ cons'[i] = [cons[i] EXCEPT !.at = "reverse", !.node = head[i]]
      /\ \A j \in Inboxes : j # i => /\ head'[j] = head[j] /\ chain'[j] = chain[j]
                                     /\ batch'[j] = batch[j] /\ cons'[j] = cons[j]
  BY <1>1, Types, Zenon
<1>4. cons'[i].at = "reverse" /\ cons'[i].node = head[i] /\ cons'[i].fifo = Null
  BY <1>2, <1>3, SMTT(60) DEF ConsType, ConsOut
<1>5. InboxType'
  <2>1. cons' \in [Inboxes -> ConsType]
    BY <1>1, <1>2, Types, Zenon DEF ConsType
  <2>2. head' \in [Inboxes -> Links]
    BY <1>1, Types, Zenon DEF Links
  <2>3. <<>> \in Seq(Nodes)
    BY SeqEmpty, Zenon
  <2>4. chain' \in [Inboxes -> Seq(Nodes)] /\ batch' \in [Inboxes -> Seq(Nodes)]
    BY <1>1, <1>2, <2>3, Types, Zenon
  <2> QED BY <1>1, <2>1, <2>2, <2>4, Types, TypesNext, Zenon
<1>6. HeldInv'
  BY <1>1, HeldKept, Zenon
<1>7. Placed'
  <2>1. Detached[i] = {} /\ OnInbox[i] = Elems(chain[i])
    BY <1>2, ListEmpty, Zenon DEF Detached, OnInbox
  <2>2. HeldBy' = HeldBy /\ OnInbox' = [OnInbox EXCEPT ![i] = {}]
        /\ Detached' = [Detached EXCEPT ![i] = OnInbox[i]]
    <3>1. \A j \in Inboxes : /\ Elems(chain'[j]) = IF j = i THEN {} ELSE Elems(chain[j])
                             /\ Elems(batch'[j]) = IF j = i THEN Elems(chain[i]) ELSE Elems(batch[j])
      BY <1>3, ListEmpty, ZenonT(60)
    <3> QED BY <1>1, <2>1, <3>1, Zenon DEF HeldBy, OnInbox, Detached
  <2>3. Placement(free, HeldBy, [OnInbox EXCEPT ![i] = {}], [Detached EXCEPT ![i] = OnInbox[i]])
    BY <2>1, Shapes, SwapMoves, Zenon DEF ListInv, Placed
  <2>4. Placement(free', HeldBy', OnInbox', Detached')
    BY <1>1, <2>2, <2>3, Zenon
  <2>5. \A j \in Inboxes : NoRepeat(chain'[j]) /\ NoRepeat(batch'[j])
    BY <1>3, ListEmpty, Zenon DEF ListInv, Placed
  <2> QED BY <2>4, <2>5, Zenon DEF Placed
<1>8. ChainInv'
  <2>1. ChainOf(Null, <<>>, next)
    <3>1. Len(<<>>) = 0 /\ 1 .. 0 = {}
      BY SMTT(60)
    <3> QED BY <3>1, ListEmpty, Zenon DEF ChainOf, Back
  <2>2. \A j \in Inboxes : ChainOf(head'[j], chain'[j], next')
    BY <1>1, <1>3, <2>1, Zenon DEF ListInv, ChainInv
  <2> QED BY <2>2, Zenon DEF ChainInv
<1>9. DrainInv'
  <2> DEFINE q == chain[i]
  <2>1. Len(q) \in Nat /\ head[i] = Nth(q, Len(q)) /\ Back(next, q, Len(q))
    BY <1>2, ListElems, Zenon DEF ListInv, ChainInv, ChainOf
  <2> HIDE DEF q
  <2>2. Len(q) \in 0 .. Len(q) /\ Nth(q, Len(q) + 1) = Null /\ Forth(next, q, Len(q))
    BY <2>1, SMTT(60) DEF Nth, Forth
  <2>3. DrainOf(cons'[i], q, next)
    BY <1>4, <2>1, <2>2, Zenon DEF DrainOf
  <2>4. DrainOf(cons'[i], batch'[i], next')
    BY <1>1, <1>3, <2>3, Zenon DEF q
  <2>9. \A j \in Inboxes : j # i => DrainAside(j)
    BY <1>1, <1>3, <2>4, Zenon DEF DrainAside
  <2> QED BY <2>4, <2>9, DrainsKept, Zenon
<1>10. NothingLost'
  <2> DEFINE g == got[i]
             l == Load(payload, chain[i])
  <2>1. sent[i] = g \o <<>> \o <<>> \o l
    <3>1. InHand(cons[i]) = <<>> /\ Rest(cons[i], batch[i]) = <<>>
      BY <1>1, <1>2, Zenon DEF InHand, Rest
    <3> QED BY <3>1, FlowIsNothingLost, LoadEmpty, Zenon DEF ListInv, Flow
  <2>2. g \in Seq(Words) /\ l \in Seq(Words)
    BY <1>2, LoadType, Types, Zenon
  <2>3. InHand(cons'[i]) = <<>> /\ Rest(cons'[i], batch'[i]) = chain[i]
    BY <1>3, <1>4, Zenon DEF InHand, Rest
  <2> HIDE DEF g, l
  <2>4. g \o <<>> \o <<>> \o l = g \o <<>> \o l \o <<>>
    BY <2>2, ConcatNothing, SeqConcat, SMTT(60)
  <2>5. Flow(sent'[i], got'[i], cons'[i], batch'[i], chain'[i], payload')
    BY <1>1, <1>3, <2>1, <2>3, <2>4, LoadEmpty, ZenonT(60) DEF Flow, g, l
  <2>9. \A j \in Inboxes : j # i => FlowAside(j)
    BY <1>1, <1>3, <2>5, Zenon DEF FlowAside
  <2> QED BY <2>5, <2>9, FlowsKept, Zenon
<1> QED BY <1>5, <1>6, <1>7, <1>8, <1>9, <1>10, Zenon DEF ListInv


LEMMA ReverseStep ==
  ASSUME ListInv, NEW i \in Inboxes, Reverse(i) PROVE ListInv'
<1> DEFINE n == cons[i].node
           b == batch[i]
<1>1. /\ cons[i].at = "reverse" /\ n # Null /\ next' = [next EXCEPT ![n] = cons[i].fifo]
      /\ cons' = [cons EXCEPT ![i].fifo = n, ![i].node = next[n]]
      /\ UNCHANGED <<free, payload, head, prod, buffers, frames, refused, sent, got, chain, batch>>
  BY Zenon DEF Reverse, nic, aux
<1>2. b \in Seq(Nodes) /\ NoRepeat(b) /\ cons[i] \in ConsType
  BY Types, Zenon DEF ListInv, Placed
<1>3. PICK m \in 0 .. Len(b) : /\ n = Nth(b, m) /\ cons[i].fifo = Nth(b, m + 1)
                               /\ Back(next, b, m) /\ Forth(next, b, m)
  BY <1>1, Zenon DEF ListInv, DrainInv, DrainOf
<1> HIDE DEF n, b
<1>4. m \in 1 .. Len(b) /\ n = b[m]
  BY <1>1, <1>3, Zenon DEF Nth
<1>5. n \in Elems(b) /\ n \in Nodes
  BY <1>2, <1>4, ListElems, Zenon
<1>6. next' = [next EXCEPT ![b[m]] = Nth(b, m + 1)]
  BY <1>1, <1>3, <1>4, Zenon
<1>7. /\ next[n] = Nth(b, m - 1) /\ Back(next', b, m - 1) /\ Forth(next', b, m - 1)
  BY <1>2, <1>3, <1>4, <1>6, ReverseRound, Types, Zenon
<1>8. /\ cons'[i] = [cons[i] EXCEPT !.fifo = n, !.node = next[n]]
      /\ \A j \in Inboxes : j # i => cons'[j] = cons[j]
      /\ \A k \in Nodes : k # n => next'[k] = next[k]
  BY <1>1, <1>5, Types, Zenon
<1>9. cons'[i].at = "reverse" /\ cons'[i].node = next[n] /\ cons'[i].fifo = n
  <2>1. cons[i].at = "reverse" /\ cons'[i] = [cons[i] EXCEPT !.fifo = n, !.node = next[n]]
    BY <1>1, <1>8, Zenon
  <2> QED BY <1>2, <2>1, Zenon DEF ConsType
<1>10. /\ \A p \in Producers : prod[p].node # n
       /\ \A j \in Inboxes : n \notin Elems(chain[j]) /\ (j # i => n \notin Elems(batch[j]))
  BY <1>5, OnePlace, Zenon DEF b
<1>11. InboxType'
  <2>1. next[n] \in Links /\ n \in Links /\ cons[i].fifo \in Links
    BY <1>2, <1>5, Types, Zenon DEF Links, ConsType
  <2>2. next' \in [Nodes -> Links]
    BY <1>1, <2>1, Types, Zenon
  <2>3. cons' \in [Inboxes -> ConsType]
    BY <1>1, <1>2, <2>1, Types, Zenon DEF ConsType
  <2> QED BY <1>1, <2>2, <2>3, Types, TypesNext, Zenon
<1>12. HeldInv'
  BY <1>1, <1>8, <1>10, HeldKept, Zenon
<1>13. Placed'
  BY <1>1, PlacesKept, Zenon
<1>14. ChainInv'
  <2>1. \A j \in Inboxes : \A k \in Elems(chain[j]) : next'[k] = next[k]
    BY <1>8, <1>10, ListElems, Types, ZenonT(60)
  <2> QED BY <1>1, <2>1, ChainsKept, Zenon
<1>15. DrainInv'
  <2>1. m - 1 \in 0 .. Len(b) /\ (m - 1) + 1 = m /\ n = Nth(b, m)
    BY <1>3, <1>4, SMTT(60)
  <2>2. DrainOf(cons'[i], b, next')
    BY <1>7, <1>9, <2>1, Zenon DEF DrainOf
  <2>3. \A j \in Inboxes : j # i => \A k \in Elems(batch[j]) : next'[k] = next[k]
    BY <1>8, <1>10, ListElems, Types, Zenon
  <2>4. DrainOf(cons'[i], batch'[i], next')
    BY <1>1, <2>2, Zenon DEF b
  <2>9. \A j \in Inboxes : j # i => DrainAside(j)
    BY <1>1, <1>8, <2>3, <2>4, Zenon DEF DrainAside
  <2> QED BY <2>3, <2>4, <2>9, DrainsKept, Zenon
<1>16. NothingLost'
  <2>1. Flow(sent[i], got[i], cons[i], batch[i], chain[i], payload)
    BY FlowIsNothingLost, Zenon DEF ListInv
  <2>2. Flow(sent'[i], got'[i], cons'[i], batch'[i], chain'[i], payload')
    BY <1>1, <1>9, <2>1, Zenon DEF Flow, InHand, Rest
  <2>9. \A j \in Inboxes : j # i => FlowAside(j)
    BY <1>1, <1>8, <2>2, ZenonT(60) DEF FlowAside
  <2> QED BY <2>2, <2>9, FlowsKept, Zenon
<1> QED BY <1>11, <1>12, <1>13, <1>14, <1>15, <1>16, Zenon DEF ListInv

\* Steps that change the owner's locals only.
LEMMA OwnerSteps ==
  ASSUME ListInv, NEW i \in Inboxes,
         UNCHANGED <<free, next, payload, head, prod, buffers, frames, refused, sent, got, chain, batch>>,
         cons' \in [Inboxes -> ConsType], \A j \in Inboxes : j # i => cons'[j] = cons[j],
         cons[i].at \in {"out", "reverse", "walk"}, cons'[i].at \in {"out", "reverse", "walk"},
         DrainOf(cons'[i], batch[i], next)
  PROVE  ListInv'
<1>1. InboxType'
  BY Types, TypesNext, Zenon
<1>2. HeldInv' /\ Placed' /\ ChainInv'
  BY HeldKept, PlacesKept, ChainsKept, Zenon
<1>3. DrainInv'
  <2>1. \A j \in Inboxes : j # i => DrainAside(j)
    BY Zenon DEF DrainAside
  <2>2. DrainOf(cons'[i], batch'[i], next')
    BY Zenon
  <2> QED BY <2>1, <2>2, DrainsKept, Zenon
<1>4. NothingLost'
  <2>1. Flow(sent[i], got[i], cons[i], batch[i], chain[i], payload)
    BY FlowIsNothingLost, Zenon DEF ListInv
  <2>2. InHand(cons'[i]) = InHand(cons[i]) /\ Rest(cons'[i], batch[i]) = Rest(cons[i], batch[i])
    BY Zenon DEF InHand, Rest
  <2>3. Flow(sent'[i], got'[i], cons'[i], batch'[i], chain'[i], payload')
    BY <2>1, <2>2, ZenonT(60) DEF Flow
  <2>9. \A j \in Inboxes : j # i => FlowAside(j)
    BY <2>3, Zenon DEF FlowAside
  <2> QED BY <2>3, <2>9, FlowsKept, Zenon
<1> QED BY <1>1, <1>2, <1>3, <1>4, Zenon DEF ListInv

LEMMA ReverseDoneStep ==
  ASSUME ListInv, NEW i \in Inboxes, ReverseDone(i) PROVE ListInv'
<1> DEFINE b == batch[i]
<1>1. /\ cons[i].at = "reverse" /\ cons[i].node = Null
      /\ cons' = [cons EXCEPT ![i].at = "walk", ![i].node = cons[i].fifo, ![i].fifo = Null]
      /\ UNCHANGED <<free, next, payload, head, prod, buffers, frames, refused, sent, got, chain, batch>>
  BY Zenon DEF ReverseDone, pool, nic, aux
<1>2. b \in Seq(Nodes) /\ cons[i] \in ConsType
  BY Types, Zenon
<1>3. PICK m \in 0 .. Len(b) : Null = Nth(b, m) /\ cons[i].fifo = Nth(b, m + 1) /\ Forth(next, b, m)
  BY <1>1, Zenon DEF ListInv, DrainInv, DrainOf
<1> HIDE DEF b
<1>4. m = 0
  <2>1. Len(b) \in Nat /\ \A k \in 1 .. Len(b) : b[k] \in Nodes
    BY <1>2, ListElems, Zenon
  <2>2. ~(m \in 1 .. Len(b))
    BY <1>3, <2>1, InboxAssumption, Zenon DEF Nth
  <2> QED BY <2>1, <2>2, SMTT(60)
<1>5. cons' \in [Inboxes -> ConsType] /\ \A j \in Inboxes : j # i => cons'[j] = cons[j]
  BY <1>1, <1>2, Types, ZenonT(60) DEF ConsType, Links
<1>6. cons'[i].at = "walk" /\ cons'[i].node = cons[i].fifo
  BY <1>1, <1>2, Types, Zenon DEF ConsType
<1>7. DrainOf(cons'[i], b, next)
  <2>1. cons[i].fifo = Nth(b, 1) /\ Forth(next, b, 0)
    BY <1>3, <1>4, SMTT(60)
  <2> QED BY <1>6, <2>1, Zenon DEF DrainOf
<1>8. DrainOf(cons'[i], batch[i], next)
  BY <1>7, Zenon DEF b
<1> QED BY <1>1, <1>5, <1>6, <1>8, OwnerSteps, Zenon

LEMMA DrainDoneStep ==
  ASSUME ListInv, NEW i \in Inboxes, DrainDone(i) PROVE ListInv'
<1>1. /\ cons[i].at = "walk" /\ cons[i].node = Null /\ cons' = [cons EXCEPT ![i] = ConsOut]
      /\ UNCHANGED <<free, next, payload, head, prod, buffers, frames, refused, sent, got, chain, batch>>
  BY Zenon DEF DrainDone, pool, nic, aux
<1>2. batch[i] \in Seq(Nodes) /\ Null = Nth(batch[i], 1)
  BY <1>1, Types, ZenonT(60) DEF ListInv, DrainInv, DrainOf
<1>3. batch[i] = <<>>
  BY <1>2, ListTail, InboxAssumption, ZenonT(60)
<1>4. ConsOut \in ConsType /\ ConsOut.at = "out"
  BY Zenon DEF ConsOut, ConsType, Links, Words
<1>5. cons' \in [Inboxes -> ConsType] /\ cons'[i] = ConsOut /\ \A j \in Inboxes : j # i => cons'[j] = cons[j]
  BY <1>1, <1>4, Types, Zenon
<1>6. DrainOf(cons'[i], batch[i], next)
  BY <1>3, <1>4, <1>5, Zenon DEF DrainOf
<1> QED BY <1>1, <1>4, <1>5, <1>6, OwnerSteps, Zenon

LEMMA TakeStep ==
  ASSUME ListInv, NEW i \in Inboxes, Take(i) PROVE ListInv'
<1> DEFINE n == cons[i].node
           b == batch[i]
<1>1. /\ cons[i].at = "walk" /\ n # Null
      /\ cons' = [cons EXCEPT ![i].at = "free", ![i].follow = next[n], ![i].frame = payload[n]]
      /\ payload' = [payload EXCEPT ![n] = NoFrame]
      /\ UNCHANGED <<free, next, head, prod, buffers, frames, refused, sent, got, chain, batch>>
  BY Zenon DEF Take, nic, aux
<1>2. /\ b \in Seq(Nodes) /\ NoRepeat(b) /\ cons[i] \in ConsType
      /\ n = Nth(b, 1) /\ Forth(next, b, 0)
  BY <1>1, Types, Zenon DEF ListInv, Placed, DrainInv, DrainOf
<1> HIDE DEF n, b
<1>3. b # <<>>
  BY <1>1, <1>2, ListEmpty, Zenon
<1>4. /\ Len(b) \in Nat \ {0} /\ n = b[1] /\ n \in Nodes /\ n \in Elems(b) /\ Tail(b) \in Seq(Nodes)
      /\ Elems(Tail(b)) = Elems(b) \ {n}
  BY <1>2, <1>3, ListTail, ZenonT(60)
<1>5. next[n] = Nth(b, 2)
  BY <1>2, <1>4, SMTT(60) DEF Forth
<1>6. /\ \A p \in Producers : prod[p].node # n
      /\ \A j \in Inboxes : n \notin Elems(chain[j]) /\ (j # i => n \notin Elems(batch[j]))
  BY <1>4, OnePlace, Zenon DEF b
<1>7. /\ cons'[i] = [cons[i] EXCEPT !.at = "free", !.follow = next[n], !.frame = payload[n]]
      /\ \A j \in Inboxes : j # i => cons'[j] = cons[j]
      /\ \A k \in Nodes : k # n => payload'[k] = payload[k]
  BY <1>1, <1>4, Types, Zenon
<1>8. /\ cons'[i].at = "free" /\ cons'[i].node = n /\ cons'[i].follow = next[n]
      /\ cons'[i].frame = payload[n]
  BY <1>2, <1>7, Zenon DEF ConsType, n
<1>9. InboxType'
  <2>1. next[n] \in Links /\ payload[n] \in Words /\ NoFrame \in Words
    BY <1>4, Types, Zenon DEF Words
  <2>2. payload' \in [Nodes -> Words]
    BY <1>1, <2>1, Types, Zenon
  <2>3. cons' \in [Inboxes -> ConsType]
    BY <1>1, <1>2, <2>1, Types, Zenon DEF ConsType
  <2> QED BY <1>1, <2>2, <2>3, Types, TypesNext, Zenon
<1>10. HeldInv'
  BY <1>1, <1>6, <1>7, HeldKept, Zenon
<1>11. Placed' /\ ChainInv'
  BY <1>1, PlacesKept, ChainsKept, Zenon
<1>12. DrainInv'
  <2>1. DrainOf(cons'[i], b, next)
    BY <1>2, <1>3, <1>5, <1>8, Zenon DEF DrainOf
  <2>2. DrainOf(cons'[i], batch'[i], next')
    BY <1>1, <2>1, Zenon DEF b
  <2>9. \A j \in Inboxes : j # i => DrainAside(j)
    BY <1>1, <1>7, <2>2, Zenon DEF DrainAside
  <2> QED BY <2>2, <2>9, DrainsKept, Zenon
<1>13. \A j \in Inboxes : /\ \A k \in Elems(chain[j]) : payload'[k] = payload[k]
                          /\ j # i => \A k \in Elems(batch[j]) : payload'[k] = payload[k]
  BY <1>6, <1>7, ListElems, Types, ZenonT(60)
<1>14. NothingLost'
  <2> DEFINE g == got[i]
             t == Load(payload, Tail(b))
             c == Load(payload, chain[i])
             one == <<payload[n]>>
  <2>1. /\ Load(payload, b) = one \o t
        /\ Load(payload', Tail(b)) = t /\ Load(payload', chain[i]) = c
    <3>1. Load(payload, b) = one \o t
      BY <1>2, <1>3, <1>4, LoadTail, Types, Zenon
    <3>2. \A k \in Elems(Tail(b)) : payload'[k] = payload[k]
      BY <1>4, <1>7, ListElems, Zenon
    <3>3. chain[i] \in Seq(Nodes)
      BY Types, Zenon
    <3> QED BY <1>4, <1>13, <3>1, <3>2, <3>3, LoadKept, Zenon
  <2>2. sent[i] = g \o <<>> \o (one \o t) \o c
    <3>1. InHand(cons[i]) = <<>> /\ Rest(cons[i], batch[i]) = b
      BY <1>1, Zenon DEF InHand, Rest, b
    <3> QED BY <2>1, <3>1, FlowIsNothingLost, Zenon DEF ListInv, Flow
  <2>3. InHand(cons'[i]) = one /\ Rest(cons'[i], batch'[i]) = Tail(b)
    BY <1>1, <1>8, ZenonT(60) DEF InHand, Rest, b
  <2>4. g \in Seq(Words) /\ t \in Seq(Words) /\ c \in Seq(Words) /\ one \in Seq(Words)
    <3>1. payload[n] \in Words /\ chain[i] \in Seq(Nodes) /\ g \in Seq(Words) /\ payload \in [Nodes -> Words]
      BY <1>4, Types, Zenon
    <3>2. t \in Seq(Words) /\ c \in Seq(Words)
      BY <1>4, <3>1, LoadType, ZenonT(60)
    <3>3. one \in Seq(Words)
      BY <3>1, SMTT(60)
    <3> QED BY <3>1, <3>2, <3>3, Zenon
  <2> HIDE DEF g, t, c, one
  <2>5. g \o <<>> \o (one \o t) \o c = g \o one \o t \o c
    <3>1. g \o <<>> = g
      BY <2>4, ConcatNothing, Zenon
    <3>2. (g \o one) \o t = g \o (one \o t)
      BY <2>4, SMTT(60)
    <3> QED BY <3>1, <3>2, Zenon
  <2>6. Flow(sent'[i], got'[i], cons'[i], batch'[i], chain'[i], payload')
    BY <1>1, <2>1, <2>2, <2>3, <2>5, Zenon DEF Flow, g
  <2>9. \A j \in Inboxes : j # i => FlowAside(j)
    BY <1>1, <1>7, <1>13, <2>6, Zenon DEF FlowAside
  <2> QED BY <2>6, <2>9, FlowsKept, Zenon
<1> QED BY <1>9, <1>10, <1>11, <1>12, <1>14, Zenon DEF ListInv


LEMMA FreeNodeStep ==
  ASSUME ListInv, NEW i \in Inboxes, FreeNode(i) PROVE ListInv'
<1> DEFINE n == cons[i].node
           b == batch[i]
<1>1. PICK l \in free \cup {Null} :
      /\ cons[i].at = "free" /\ free' = free \cup {n} /\ next' = [next EXCEPT ![n] = l]
      /\ cons' = [cons EXCEPT ![i].at = "run"] /\ batch' = [batch EXCEPT ![i] = Tail(@)]
      /\ UNCHANGED <<payload, head, prod, buffers, frames, refused, sent, got, chain>>
  BY Zenon DEF FreeNode, nic
<1>2. /\ b \in Seq(Nodes) /\ NoRepeat(b) /\ cons[i] \in ConsType /\ b # <<>>
      /\ n = Nth(b, 1) /\ cons[i].follow = Nth(b, 2) /\ Forth(next, b, 0)
  BY <1>1, Types, Zenon DEF ListInv, Placed, DrainInv, DrainOf
<1> HIDE DEF n, b
<1>3. /\ n = b[1] /\ n \in Nodes /\ n \in Elems(b) /\ Tail(b) \in Seq(Nodes)
      /\ NoRepeat(Tail(b)) /\ Elems(Tail(b)) = Elems(b) \ {n}
  BY <1>2, ListTail, SMTT(60)
<1>4. /\ n \notin free /\ \A p \in Producers : prod[p].node # n
      /\ \A j \in Inboxes : n \notin Elems(chain[j]) /\ (j # i => n \notin Elems(batch[j]))
  BY <1>3, OnePlace, Zenon DEF b
<1>5. /\ cons'[i] = [cons[i] EXCEPT !.at = "run"] /\ batch'[i] = Tail(b)
      /\ \A j \in Inboxes : j # i => cons'[j] = cons[j] /\ batch'[j] = batch[j]
      /\ \A k \in Nodes : k # n => next'[k] = next[k]
  BY <1>1, <1>3, Types, Zenon DEF b
<1>6. cons'[i].at = "run" /\ cons'[i].follow = cons[i].follow /\ cons'[i].frame = cons[i].frame
  BY <1>2, <1>5, Zenon DEF ConsType
<1>7. InboxType'
  <2>1. free' \subseteq Nodes /\ l \in Links
    BY <1>1, <1>3, Types, Zenon DEF Links
  <2>2. next' \in [Nodes -> Links]
    BY <1>1, <2>1, Types, Zenon
  <2>3. cons' \in [Inboxes -> ConsType]
    BY <1>1, <1>2, Types, Zenon DEF ConsType
  <2>4. batch' \in [Inboxes -> Seq(Nodes)]
    BY <1>1, <1>3, Types, Zenon DEF b
  <2> QED BY <1>1, <2>1, <2>2, <2>3, <2>4, Types, TypesNext, Zenon
<1>8. HeldInv'
  BY <1>1, <1>4, <1>5, HeldKept, Zenon
<1>9. Placed'
  <2>1. OnInbox' = OnInbox /\ HeldBy' = HeldBy /\ Detached[i] = Elems(b)
    BY <1>1, Zenon DEF OnInbox, HeldBy, Detached, b
  <2>2. Detached' = [Detached EXCEPT ![i] = Detached[i] \ {n}]
    <3>1. \A j \in Inboxes : Elems(batch'[j]) = IF j = i THEN Elems(b) \ {n} ELSE Elems(batch[j])
      BY <1>3, <1>5, ZenonT(60)
    <3> QED BY <2>1, <3>1, Zenon DEF Detached
  <2>3. Placement(free \cup {n}, HeldBy, OnInbox, [Detached EXCEPT ![i] = Detached[i] \ {n}])
    <3>1. n \in Detached[i] /\ Placement(free, HeldBy, OnInbox, Detached)
      BY <1>3, <2>1, Zenon DEF ListInv, Placed
    <3> QED BY <3>1, Shapes, FreeMoves, Zenon
  <2>4. Placement(free', HeldBy', OnInbox', Detached')
    BY <1>1, <2>1, <2>2, <2>3, Zenon
  <2>5. \A j \in Inboxes : NoRepeat(chain'[j]) /\ NoRepeat(batch'[j])
    BY <1>1, <1>3, <1>5, ZenonT(60) DEF ListInv, Placed
  <2> QED BY <2>4, <2>5, Zenon DEF Placed
<1>10. ChainInv'
  <2>1. \A j \in Inboxes : \A k \in Elems(chain[j]) : next'[k] = next[k]
    BY <1>4, <1>5, ListElems, Types, ZenonT(60)
  <2> QED BY <1>1, <2>1, ChainsKept, Zenon
<1>11. DrainInv'
  <2>1. \A k \in Elems(Tail(b)) : next'[k] = next[k]
    BY <1>3, <1>5, ListElems, Zenon
  <2>2. Forth(next', Tail(b), 0) /\ Nth(Tail(b), 1) = Nth(b, 2)
    BY <1>2, <2>1, ForthTail, Zenon
  <2>3. DrainOf(cons'[i], batch'[i], next')
    BY <1>2, <1>5, <1>6, <2>2, Zenon DEF DrainOf
  <2>4. \A j \in Inboxes : j # i => \A k \in Elems(batch[j]) : next'[k] = next[k]
    BY <1>4, <1>5, ListElems, Types, ZenonT(60)
  <2>9. \A j \in Inboxes : j # i => DrainAside(j)
    BY <1>1, <1>5, <2>3, <2>4, Zenon DEF DrainAside
  <2> QED BY <2>3, <2>4, <2>9, DrainsKept, Zenon
<1>12. NothingLost'
  <2>1. Flow(sent[i], got[i], cons[i], b, chain[i], payload)
    BY FlowIsNothingLost, Zenon DEF ListInv, b
  <2>2. InHand(cons'[i]) = InHand(cons[i]) /\ Rest(cons'[i], Tail(b)) = Rest(cons[i], b)
    BY <1>1, <1>6, SMTT(60) DEF InHand, Rest
  <2>3. Flow(sent'[i], got'[i], cons'[i], batch'[i], chain'[i], payload')
    BY <1>1, <1>5, <2>1, <2>2, Zenon DEF Flow
  <2>9. \A j \in Inboxes : j # i => FlowAside(j)
    BY <1>1, <1>5, <2>3, Zenon DEF FlowAside
  <2> QED BY <2>3, <2>9, FlowsKept, Zenon
<1> QED BY <1>7, <1>8, <1>9, <1>10, <1>11, <1>12, Zenon DEF ListInv

LEMMA RunStep ==
  ASSUME ListInv, NEW i \in Inboxes, Run(i) PROVE ListInv'
<1> DEFINE w == cons[i].frame
<1>1. /\ cons[i].at = "run" /\ got' = [got EXCEPT ![i] = Append(@, w)] /\ buffers' = buffers + 1
      /\ cons' = [cons EXCEPT ![i] = [ConsOut EXCEPT !.at = "walk", !.node = cons[i].follow]]
      /\ UNCHANGED <<free, next, payload, head, prod, frames, refused, sent, chain, batch>>
  BY Zenon DEF Run, pool
<1>2. /\ batch[i] \in Seq(Nodes) /\ cons[i] \in ConsType
      /\ cons[i].follow = Nth(batch[i], 1) /\ Forth(next, batch[i], 0)
  BY <1>1, Types, Zenon DEF ListInv, DrainInv, DrainOf
<1>3. w \in Words /\ cons[i].follow \in Links
  BY <1>2, Zenon DEF ConsType
<1> HIDE DEF w
<1> DEFINE c == [ConsOut EXCEPT !.at = "walk", !.node = cons[i].follow]
<1>4. c \in ConsType /\ c.at = "walk" /\ c.node = cons[i].follow
  BY <1>3, Zenon DEF ConsOut, ConsType, Links, Words
<1> HIDE DEF c
<1>5. /\ cons'[i] = c /\ got'[i] = Append(got[i], w)
      /\ \A j \in Inboxes : j # i => cons'[j] = cons[j] /\ got'[j] = got[j]
  BY <1>1, Types, Zenon DEF c
<1>6. InboxType'
  <2>1. Append(got[i], w) \in Seq(Words)
    BY <1>3, Types, SeqAppend, Zenon
  <2>2. got' \in [Inboxes -> Seq(Words)]
    BY <1>1, <2>1, Types, Zenon
  <2>3. cons' \in [Inboxes -> ConsType]
    BY <1>1, <1>4, Types, Zenon DEF c
  <2>4. buffers' \in Nat
    BY <1>1, Types, SMTT(60)
  <2> QED BY <1>1, <2>2, <2>3, <2>4, Types, TypesNext, Zenon
<1>7. HeldInv' /\ Placed' /\ ChainInv'
  BY <1>1, HeldKept, PlacesKept, ChainsKept, Zenon
<1>8. DrainInv'
  <2>1. DrainOf(cons'[i], batch'[i], next')
    BY <1>1, <1>2, <1>4, <1>5, Zenon DEF DrainOf
  <2>9. \A j \in Inboxes : j # i => DrainAside(j)
    BY <1>1, <1>5, <2>1, Zenon DEF DrainAside
  <2> QED BY <2>1, <2>9, DrainsKept, Zenon
<1>9. NothingLost'
  <2> DEFINE g == got[i]
             r == Load(payload, batch[i])
             q == Load(payload, chain[i])
  <2>1. sent[i] = g \o <<w>> \o r \o q
    <3>1. InHand(cons[i]) = <<w>> /\ Rest(cons[i], batch[i]) = batch[i]
      BY <1>1, Zenon DEF InHand, Rest, w
    <3> QED BY <3>1, FlowIsNothingLost, Zenon DEF ListInv, Flow
  <2>2. InHand(cons'[i]) = <<>> /\ Rest(cons'[i], batch'[i]) = batch[i]
    BY <1>1, <1>4, <1>5, Zenon DEF InHand, Rest
  <2>3. g \in Seq(Words) /\ r \in Seq(Words) /\ q \in Seq(Words)
    <3>1. chain[i] \in Seq(Nodes)
      BY Types, Zenon
    <3> QED BY <1>2, <3>1, LoadType, Types, Zenon
  <2> HIDE DEF g, r, q
  <2>4. Append(g, w) = g \o <<w>> /\ Append(g, w) \o <<>> = Append(g, w)
    BY <1>3, <2>3, ConcatOne, SeqAppend, ConcatNothing, Zenon
  <2>5. Flow(sent'[i], got'[i], cons'[i], batch'[i], chain'[i], payload')
    BY <1>1, <1>5, <2>1, <2>2, <2>4, Zenon DEF Flow, g, r, q
  <2>9. \A j \in Inboxes : j # i => FlowAside(j)
    BY <1>1, <1>5, <2>5, Zenon DEF FlowAside
  <2> QED BY <2>5, <2>9, FlowsKept, Zenon
<1> QED BY <1>6, <1>7, <1>8, <1>9, Zenon DEF ListInv


-----------------------------------------------------------------------------
(* The invariant holds *)

LEMMA ListInitial == Init => ListInv
<1> SUFFICES ASSUME Init PROVE ListInv
  BY Zenon
<1>1. /\ free = Nodes /\ next = [n \in Nodes |-> Null] /\ payload = [n \in Nodes |-> NoFrame]
      /\ head = [i \in Inboxes |-> Null] /\ prod = [p \in Producers |-> ProdOut]
      /\ cons = [i \in Inboxes |-> ConsOut] /\ buffers = NumBuffers /\ frames = 0 /\ refused = 0
      /\ sent = [i \in Inboxes |-> <<>>] /\ got = [i \in Inboxes |-> <<>>]
      /\ chain = [i \in Inboxes |-> <<>>] /\ batch = [i \in Inboxes |-> <<>>]
  BY Zenon DEF Init
<1>2. ProdOut \in ProdType /\ ProdOut.node = Null /\ ProdOut.at = "out"
  <2>1. (CHOOSE j \in Inboxes : TRUE) \in Inboxes
    BY InboxAssumption, ZenonT(60)
  <2> QED BY <2>1, Zenon DEF ProdOut, ProdType, Links
<1>3. ConsOut \in ConsType /\ ConsOut.at = "out"
  BY Zenon DEF ConsOut, ConsType, Links, Words
<1>4. NumBuffers \in Nat /\ MaxFrames \in Nat /\ Null \notin Nodes
  BY InboxAssumption, Zenon
<1>5. InboxType
  <2>1. /\ next \in [Nodes -> Links] /\ payload \in [Nodes -> Words] /\ head \in [Inboxes -> Links]
        /\ prod \in [Producers -> ProdType] /\ cons \in [Inboxes -> ConsType]
    BY <1>1, <1>2, <1>3, Zenon DEF Links, Words
  <2>2. /\ buffers \in Nat /\ frames \in 0 .. MaxFrames /\ refused \in 0 .. MaxFrames
        /\ refused <= frames /\ free \subseteq Nodes
    BY <1>1, <1>4, SMTT(60)
  <2>3. <<>> \in Seq(Nodes) /\ <<>> \in Seq(Words)
    BY SeqEmpty, Zenon
  <2>4. /\ sent \in [Inboxes -> Seq(Words)] /\ got \in [Inboxes -> Seq(Words)]
        /\ chain \in [Inboxes -> Seq(Nodes)] /\ batch \in [Inboxes -> Seq(Nodes)]
    BY <1>1, <2>3, Zenon
  <2> QED BY <2>1, <2>2, <2>4, Zenon DEF InboxType, ProdType, ConsType, Words
<1>6. HeldInv
  <2>1. \A p \in Producers : prod[p] = ProdOut
    BY <1>1, Zenon
  <2>2. \A p \in Producers : prod[p].at = "out"
    BY <1>2, <2>1, Zenon
  <2> QED BY <2>1, <2>2, Zenon DEF HeldInv
<1>7. \A i \in Inboxes : /\ chain[i] = <<>> /\ batch[i] = <<>> /\ head[i] = Null /\ cons[i] = ConsOut
                         /\ sent[i] = <<>> /\ got[i] = <<>>
  BY <1>1, Zenon
<1>8. Placed
  <2>1. /\ \A p \in Producers : HeldBy[p] = Null
        /\ \A i \in Inboxes : OnInbox[i] = {} /\ Detached[i] = {}
    BY <1>1, <1>2, <1>7, ListEmpty, Zenon DEF HeldBy, OnInbox, Detached
  <2>2. Placement(free, HeldBy, OnInbox, Detached)
    BY <1>1, <1>4, <2>1, Zenon DEF Placement
  <2> QED BY <1>7, <2>2, ListEmpty, Zenon DEF Placed
<1>9. ChainInv
  <2>1. ChainOf(Null, <<>>, next)
    <3>1. Len(<<>>) = 0 /\ 1 .. 0 = {}
      BY SMTT(60)
    <3> QED BY <3>1, ListEmpty, Zenon DEF ChainOf, Back
  <2> QED BY <1>7, <2>1, Zenon DEF ChainInv
<1>10. DrainInv
  <2>1. DrainOf(ConsOut, <<>>, next)
    BY <1>3, Zenon DEF DrainOf
  <2> QED BY <1>7, <2>1, ZenonT(60) DEF DrainInv
<1>11. NothingLost
  <2>1. Flow(<<>>, <<>>, ConsOut, <<>>, <<>>, payload)
    <3>1. InHand(ConsOut) = <<>> /\ Rest(ConsOut, <<>>) = <<>> /\ Load(payload, <<>>) = <<>>
      BY <1>3, LoadEmpty, Zenon DEF InHand, Rest
    <3>2. <<>> \o <<>> = <<>>
      BY SMTT(60)
    <3> QED BY <3>1, <3>2, Zenon DEF Flow
  <2> QED BY <1>7, <2>1, FlowIsNothingLost, Zenon
<1> QED BY <1>5, <1>6, <1>8, <1>9, <1>10, <1>11, Zenon DEF ListInv

LEMMA ListUnchanged == ListInv /\ UNCHANGED vars => ListInv'
<1> SUFFICES ASSUME ListInv, UNCHANGED vars PROVE ListInv'
  BY Zenon
<1>1. UNCHANGED <<free, next, payload, head, prod, cons, buffers, frames, refused, sent, got, chain, batch>>
  BY Zenon DEF vars, pool, nic, aux
<1>2. InboxType'
  BY <1>1, Types, TypesNext, Zenon
<1>3. HeldInv' /\ Placed' /\ ChainInv' /\ DrainInv' /\ NothingLost'
  BY <1>1, ZenonT(60) DEF ListInv, HeldInv, Placed, HeldBy, OnInbox, Detached, ChainInv, DrainInv,
     NothingLost, Carried
<1> QED BY <1>2, <1>3, Zenon DEF ListInv

LEMMA ListInductive == ListInv /\ [Next]_vars => ListInv'
<1> SUFFICES ASSUME ListInv, [Next]_vars PROVE ListInv'
  BY Zenon
<1>1. ASSUME NEW p \in Producers, ProducerStep(p) PROVE ListInv'
  BY <1>1, PushLoadStep, PushCasStep, PushRetryStep, Zenon DEF ProducerStep
<1>2. ASSUME NEW p \in Producers, DistributeErr(p) PROVE ListInv'
  BY <1>2, RefuseStep, Zenon
<1>3. ASSUME NEW p \in Producers, NEW i \in Inboxes, Distribute(p, i) PROVE ListInv'
  BY <1>3, DistributeStep, Zenon
<1>4. ASSUME NEW i \in Inboxes, ConsumerStep(i) PROVE ListInv'
  BY <1>4, DrainSwapStep, ReverseStep, ReverseDoneStep, TakeStep, FreeNodeStep, RunStep, DrainDoneStep, Zenon
     DEF ConsumerStep
<1>5. CASE UNCHANGED vars
  BY <1>5, ListUnchanged, Zenon
<1> QED BY <1>1, <1>2, <1>3, <1>4, <1>5, Zenon DEF Next

LEMMA ListInvariance == Spec => []ListInv
<1>1. ListInv /\ [Next]_vars => ListInv'
  BY ListInductive, Zenon
<1> QED BY <1>1, ListInitial, PTL DEF Spec

-----------------------------------------------------------------------------
(* The inboxes are FIFO channels *)

\* The frame handed on is the oldest that was sent and not handed on.
LEMMA OldestIsHandedOn ==
  ASSUME ListInv, NEW i \in Inboxes, cons[i].at = "run"
  PROVE  Len(got[i]) < Len(sent[i]) /\ sent[i][Len(got[i]) + 1] = cons[i].frame
<1> DEFINE g == got[i]
           w == cons[i].frame
           r == Load(payload, batch[i])
           q == Load(payload, chain[i])
           t == r \o q
<1>1. g \in Seq(Words) /\ w \in Words /\ r \in Seq(Words) /\ q \in Seq(Words)
  <2>1. chain[i] \in Seq(Nodes) /\ batch[i] \in Seq(Nodes) /\ w \in Words
    BY Types, Zenon DEF ConsType
  <2> QED BY <2>1, LoadType, Types, Zenon
<1>2. sent[i] = ((g \o <<w>>) \o r) \o q
  <2>1. InHand(cons[i]) = <<w>> /\ Rest(cons[i], batch[i]) = batch[i]
    BY Zenon DEF InHand, Rest
  <2> QED BY <2>1, FlowIsNothingLost, Zenon DEF ListInv, Flow
<1> HIDE DEF g, r, q, w
<1>3. <<w>> \in Seq(Words) /\ g \o <<w>> \in Seq(Words) /\ t \in Seq(Words)
  BY <1>1, SeqConcat, SMTT(60)
<1>4. sent[i] = (g \o <<w>>) \o t
  BY <1>1, <1>2, <1>3, ConcatAgain, SMTT(60)
<1> HIDE DEF t
<1>5. g \o <<w>> = Append(g, w) /\ Len(g) \in Nat
  BY <1>1, ConcatOne, SeqType, Zenon
<1>6. Len(Append(g, w)) = Len(g) + 1 /\ Append(g, w)[Len(g) + 1] = w /\ Append(g, w) \in Seq(Words)
  BY <1>1, SeqAppend, ZenonT(60)
<1>7. /\ Len(sent[i]) = (Len(g) + 1) + Len(t) /\ Len(t) \in Nat
      /\ \A k \in 1 .. (Len(g) + 1) + Len(t) : k <= Len(g) + 1 => sent[i][k] = Append(g, w)[k]
  BY <1>3, <1>4, <1>5, <1>6, SeqConcat, SeqType, SMTT(60)
<1>8. Len(g) + 1 \in 1 .. (Len(g) + 1) + Len(t) /\ Len(g) + 1 <= Len(g) + 1 /\ Len(g) < (Len(g) + 1) + Len(t)
  BY <1>5, <1>7, SMTT(60)
<1>9. sent[i][Len(g) + 1] = w /\ Len(g) < Len(sent[i])
  BY <1>6, <1>7, <1>8, Zenon
<1> QED BY <1>9, Zenon DEF g, w

\* The inboxes are FIFO channels: distribute's compare-exchange is the send, the
\* call of the stack in drain_each the receipt, and no other step is visible.
THEOREM InboxesAreFifoChannels == Spec => ImplementsFifoChannel
<1>1. Init => Channel!Init
  BY Zenon DEF Init, Channel!Init
<1>2. ListInv /\ [Next]_vars => [Channel!Next]_<<sent, got>>
  <2> SUFFICES ASSUME ListInv, [Next]_vars PROVE [Channel!Next]_<<sent, got>>
    BY Zenon
  <2>1. ASSUME NEW p \in Producers, PushCas(p) PROVE Channel!Next
    <3>1. /\ prod[p].at = "cas" /\ got' = got
          /\ sent' = [sent EXCEPT ![prod[p].inbox] = Append(@, payload[prod[p].node])]
      BY <2>1, Zenon DEF PushCas
    <3>2. prod[p].inbox \in Inboxes /\ payload[prod[p].node] \in Frames
      <4>1. prod[p] \in ProdType
        BY Types, Zenon
      <4> QED BY <3>1, <4>1, Zenon DEF ListInv, HeldInv, ProdType
    <3>3. Channel!Send(prod[p].inbox, payload[prod[p].node])
      BY <3>1, Zenon DEF Channel!Send
    <3> QED BY <3>2, <3>3, ZenonT(60) DEF Channel!Next
  <2>2. ASSUME NEW i \in Inboxes, Run(i) PROVE Channel!Next
    <3>1. /\ cons[i].at = "run" /\ sent' = sent
          /\ got' = [got EXCEPT ![i] = Append(@, cons[i].frame)]
      BY <2>2, Zenon DEF Run
    <3>2. Len(got[i]) < Len(sent[i]) /\ sent[i][Len(got[i]) + 1] = cons[i].frame
      BY <3>1, OldestIsHandedOn, Zenon
    <3>3. Channel!Receive(i)
      BY <3>1, <3>2, Zenon DEF Channel!Receive
    <3> QED BY <3>3, Zenon DEF Channel!Next
  <2>3. CASE /\ \A p \in Producers : ~PushCas(p)
             /\ \A i \in Inboxes : ~Run(i)
    <3>1. UNCHANGED <<sent, got>>
      BY <2>3, ZenonT(60) DEF Next, ProducerStep, ConsumerStep, Distribute, DistributeErr, PushLoad,
         PushRetry, DrainSwap,
         Reverse, ReverseDone, Take, FreeNode, DrainDone, vars, aux
    <3> QED BY <3>1, Zenon
  <2> QED BY <2>1, <2>2, <2>3, Zenon
<1> QED BY <1>1, <1>2, ListInvariance, PTL DEF Spec, ImplementsFifoChannel, Channel!Spec

-----------------------------------------------------------------------------
(* A node is in one place *)

LEMMA Positions ==
  ASSUME NEW q \in Seq(Nodes), NEW n
  PROVE  /\ n \in Elems(q) <=> At(n, q) # {}
         /\ NoRepeat(q) => \A j, k \in At(n, q) : j = k
BY Zenon DEF Elems, At, NoRepeat

LEMMA NodesInOnePlace ==
  ASSUME ListInv, NEW n \in Nodes PROVE \E x : Places(n) = {x}
<1> DEFINE H == {q \in Producers : prod[q].node = n}
           C(i) == At(n, chain[i])
           B(i) == At(n, batch[i])
<1>1. /\ \A i \in Inboxes : /\ n \in Elems(chain[i]) <=> C(i) # {}
                            /\ n \in Elems(batch[i]) <=> B(i) # {}
                            /\ \A j, k \in C(i) : j = k
                            /\ \A j, k \in B(i) : j = k
  <2>1. ASSUME NEW i \in Inboxes
        PROVE  /\ n \in Elems(chain[i]) <=> At(n, chain[i]) # {}
               /\ n \in Elems(batch[i]) <=> At(n, batch[i]) # {}
               /\ \A j, k \in At(n, chain[i]) : j = k
               /\ \A j, k \in At(n, batch[i]) : j = k
    <3>1. chain[i] \in Seq(Nodes) /\ batch[i] \in Seq(Nodes) /\ NoRepeat(chain[i]) /\ NoRepeat(batch[i])
      BY Types, Zenon DEF ListInv, Placed
    <3> QED BY <3>1, Positions, Zenon
  <2> QED BY <2>1, ZenonT(60)
<1>2. /\ n \in free \/ H # {} \/ \E i \in Inboxes : n \in Elems(chain[i]) \/ n \in Elems(batch[i])
      /\ \A i \in Inboxes : n \in Elems(chain[i]) =>
           /\ n \notin free /\ H = {}
           /\ \A j \in Inboxes : n \notin Elems(batch[j]) /\ (j # i => n \notin Elems(chain[j]))
      /\ \A i \in Inboxes : n \in Elems(batch[i]) =>
           /\ n \notin free /\ H = {}
           /\ \A j \in Inboxes : n \notin Elems(chain[j]) /\ (j # i => n \notin Elems(batch[j]))
      /\ n \in free => H = {}
      /\ \A p, q \in H : p = q
  <2>1. /\ \A p \in Producers : HeldBy[p] = prod[p].node
        /\ \A i \in Inboxes : OnInbox[i] = Elems(chain[i]) /\ Detached[i] = Elems(batch[i])
    BY Zenon DEF HeldBy, OnInbox, Detached
  <2>2. Placement(free, HeldBy, OnInbox, Detached)
    BY ZenonT(60) DEF ListInv, Placed
  <2> HIDE DEF Elems
  <2> QED BY <2>1, <2>2, OnePlace, SMTT(60) DEF Placement
<1>3. \E x : Places(n) = {x}
  <2> HIDE DEF C, B, H
  <2> DEFINE S(i) == {<<"inbox", i, k>> : k \in C(i)} \cup {<<"batch", i, k>> : k \in B(i)}
             A == {<<"free", 0, 0>> : x \in free \cap {n}}
             K == {<<"held", p, 0>> : p \in H}
             U == UNION {S(i) : i \in Inboxes}
  <2>1. Places(n) = A \cup K \cup U
    BY Zenon DEF Places, C, B, H
  <2>2. CASE n \in free
    <3>1. H = {} /\ \A i \in Inboxes : C(i) = {} /\ B(i) = {}
      BY <1>1, <1>2, <2>2, Zenon
    <3>2. \A i \in Inboxes : S(i) = {}
      BY <3>1, Zenon
    <3> HIDE DEF S
    <3>3. A = {<<"free", 0, 0>>} /\ K = {} /\ U = {}
      BY <2>2, <3>1, <3>2, Zenon
    <3> QED BY <2>1, <3>3, Zenon
  <2>3. CASE H # {}
    <3>1. PICK p \in H : H = {p}
      BY <1>2, <2>3, Zenon
    <3>2. n \notin free /\ \A i \in Inboxes : C(i) = {} /\ B(i) = {}
      BY <1>1, <1>2, <2>3, Zenon
    <3>3. \A i \in Inboxes : S(i) = {}
      BY <3>2, Zenon
    <3> HIDE DEF S
    <3>4. A = {} /\ K = {<<"held", p, 0>>} /\ U = {}
      BY <3>1, <3>2, <3>3, Zenon
    <3> QED BY <2>1, <3>4, Zenon
  <2>4. ASSUME NEW i \in Inboxes, C(i) # {} PROVE \E x : Places(n) = {x}
    <3>1. PICK k \in C(i) : C(i) = {k}
      <4>1. PICK k \in C(i) : TRUE
        BY <2>4, Zenon
      <4>2. \A j \in C(i) : j = k
        BY <1>1, <4>1, Zenon
      <4> QED BY <4>1, <4>2, Zenon
    <3>2. n \notin free /\ H = {} /\ \A j \in Inboxes : B(j) = {} /\ (j # i => C(j) = {})
      BY <1>1, <1>2, <2>4, Zenon
    <3>3. S(i) = {<<"inbox", i, k>>} /\ \A j \in Inboxes : j # i => S(j) = {}
      BY <3>1, <3>2, Zenon
    <3> HIDE DEF S
    <3>4. U = {<<"inbox", i, k>>}
      BY <3>3, Zenon
    <3>5. A = {} /\ K = {}
      BY <3>2, Zenon
    <3> QED BY <2>1, <3>4, <3>5, Zenon
  <2>5. ASSUME NEW i \in Inboxes, B(i) # {} PROVE \E x : Places(n) = {x}
    <3>1. PICK k \in B(i) : B(i) = {k}
      <4>1. PICK k \in B(i) : TRUE
        BY <2>5, Zenon
      <4>2. \A j \in B(i) : j = k
        BY <1>1, <4>1, Zenon
      <4> QED BY <4>1, <4>2, Zenon
    <3>2. n \notin free /\ H = {} /\ \A j \in Inboxes : C(j) = {} /\ (j # i => B(j) = {})
      BY <1>1, <1>2, <2>5, Zenon
    <3>3. S(i) = {<<"batch", i, k>>} /\ \A j \in Inboxes : j # i => S(j) = {}
      BY <3>1, <3>2, Zenon
    <3> HIDE DEF S
    <3>4. U = {<<"batch", i, k>>}
      BY <3>3, Zenon
    <3>5. A = {} /\ K = {}
      BY <3>2, Zenon
    <3> QED BY <2>1, <3>4, <3>5, ZenonT(60)
  <2> QED BY <1>1, <1>2, <2>2, <2>3, <2>4, <2>5, Zenon
<1> QED BY <1>3, Zenon

-----------------------------------------------------------------------------
(* Counting nodes *)

INSTANCE FiniteSetTheorems

\* A pinned buffer is that of a node in use or of a frame the stack handles.
Running == {i \in Inboxes : cons[i].at = "run"}
Supply == Cardinality(Nodes \ free) + Cardinality(Running) = NumBuffers - buffers

InboxInv == ListInv /\ Supply

LEMMA Counts ==
  /\ IsFiniteSet(Running) /\ Cardinality(Running) \in Nat
  /\ IsFiniteSet(Nodes \ free) /\ Cardinality(Nodes \ free) \in Nat
<1>1. Running \in SUBSET Inboxes /\ IsFiniteSet(Inboxes)
  BY InboxAssumption, Zenon DEF Running
<1>2. IsFiniteSet(Running) /\ IsFiniteSet(Nodes \ free)
  BY <1>1, InboxAssumption, FS_Subset, FS_Difference, ZenonT(60)
<1> QED BY <1>2, FS_CardinalityType, ZenonT(60)

LEMMA SupplyInitial == Init => Supply
<1> SUFFICES ASSUME Init PROVE Supply
  BY Zenon
<1>1. Nodes \ free = {} /\ Running = {}
  BY Zenon DEF Init, Running, ConsOut
<1>2. Cardinality(Nodes \ free) = 0 /\ Cardinality(Running) = 0
  BY <1>1, FS_EmptySet, ZenonT(60)
<1>3. NumBuffers - buffers = 0
  BY InboxAssumption, SMTT(60) DEF Init
<1> QED BY <1>2, <1>3, SMTT(60) DEF Supply

LEMMA SupplyKept ==
  ASSUME ListInv, Supply, free' = free, buffers' = buffers,
         \A i \in Inboxes : cons'[i].at = "run" <=> cons[i].at = "run"
  PROVE  Supply'
<1>1. Running' = Running
  BY Zenon DEF Running
<1> QED BY <1>1, Zenon DEF Supply

LEMMA SupplyInductive == InboxInv /\ [Next]_vars => Supply'
<1> SUFFICES ASSUME ListInv, Supply, [Next]_vars PROVE Supply'
  BY Zenon DEF InboxInv
<1> DEFINE used == Cardinality(Nodes \ free)
           used1 == Cardinality(Nodes \ free')
           run == Cardinality(Running)
           run1 == Cardinality(Running')
<1>1. used + run = NumBuffers - buffers /\ (used1 + run1 = NumBuffers - buffers' => Supply')
  BY Zenon DEF Supply
<1>2. used \in Nat /\ run \in Nat /\ buffers \in Int /\ NumBuffers \in Int
  BY Counts, Types, InboxAssumption, SMTT(60)
<1>3. ASSUME \/ used1 = used + 1 /\ run1 = run /\ buffers' = buffers - 1
             \/ used1 = used - 1 /\ run1 = run + 1 /\ buffers' = buffers
             \/ used1 = used /\ run1 = run - 1 /\ buffers' = buffers + 1
      PROVE  Supply'
  <2> HIDE DEF used, used1, run, run1
  <2>1. used1 + run1 = NumBuffers - buffers'
    BY <1>1, <1>2, <1>3, SMTT(60)
  <2> QED BY <1>1, <2>1, ZenonT(60)
<1> HIDE DEF used, used1, run, run1
<1>4. ASSUME NEW p \in Producers, NEW i \in Inboxes, Distribute(p, i) PROVE Supply'
  <2>1. PICK n \in free : free' = free \ {n} /\ buffers' = buffers - 1 /\ cons' = cons
    BY <1>4, ZenonT(60) DEF Distribute
  <2>2. Nodes \ free' = (Nodes \ free) \cup {n} /\ n \notin Nodes \ free /\ Running' = Running
    BY <2>1, Types, ZenonT(60) DEF Running
  <2>3. used1 = used + 1 /\ run1 = run
    BY <2>2, Counts, FS_AddElement, ZenonT(60) DEF used, used1, run, run1
  <2> QED BY <1>3, <2>1, <2>3, ZenonT(60)
<1>5. ASSUME NEW i \in Inboxes, FreeNode(i) PROVE Supply'
  <2> DEFINE n == cons[i].node
  <2>1. /\ cons[i].at = "free" /\ free' = free \cup {n} /\ buffers' = buffers
        /\ cons' = [cons EXCEPT ![i].at = "run"]
    BY <1>5, Zenon DEF FreeNode, nic
  <2>2. n \in Nodes \ free
    <3>1. batch[i] \in Seq(Nodes) /\ batch[i] # <<>> /\ n = Nth(batch[i], 1)
      BY <2>1, Types, ZenonT(60) DEF ListInv, DrainInv, DrainOf
    <3>2. n \in Nodes /\ n \in Elems(batch[i])
      BY <3>1, ListTail, ZenonT(60)
    <3> QED BY <3>2, OnePlace, ZenonT(60)
  <2> HIDE DEF n
  <2>3. Nodes \ free' = (Nodes \ free) \ {n}
    BY <2>1, <2>2, ZenonT(60)
  <2>4. used1 = used - 1
    BY <2>2, <2>3, Counts, FS_RemoveElement, ZenonT(60) DEF used, used1
  <2>5. /\ cons[i] \in ConsType /\ cons'[i] = [cons[i] EXCEPT !.at = "run"]
        /\ \A j \in Inboxes : j # i => cons'[j] = cons[j]
    BY <2>1, Types, Zenon
  <2>6. cons'[i].at = "run"
    BY <2>5, ZenonT(60) DEF ConsType
  <2>7. Running' = Running \cup {i} /\ i \notin Running
    BY <2>1, <2>5, <2>6, ZenonT(60) DEF Running
  <2>8. run1 = run + 1
    BY <2>7, Counts, FS_AddElement, ZenonT(60) DEF run, run1
  <2> QED BY <1>3, <2>1, <2>4, <2>8, ZenonT(60)
<1>6. ASSUME NEW i \in Inboxes, Run(i) PROVE Supply'
  <2> DEFINE c == [ConsOut EXCEPT !.at = "walk", !.node = cons[i].follow]
  <2>1. cons[i].at = "run" /\ buffers' = buffers + 1 /\ free' = free /\ cons' = [cons EXCEPT ![i] = c]
    BY <1>6, Zenon DEF Run, pool
  <2>2. c.at = "walk"
    BY Zenon DEF ConsOut
  <2>3. cons'[i].at = "walk" /\ \A j \in Inboxes : j # i => cons'[j] = cons[j]
    BY <2>1, <2>2, Types, ZenonT(60)
  <2>4. Running' = Running \ {i} /\ i \in Running
    BY <2>1, <2>3, ZenonT(60) DEF Running
  <2>5. run1 = run - 1 /\ used1 = used
    BY <2>1, <2>4, Counts, FS_RemoveElement, ZenonT(60) DEF run, run1, used, used1
  <2> QED BY <1>3, <2>1, <2>5, ZenonT(60)
<1>7. ASSUME NEW p \in Producers, ProducerStep(p) \/ DistributeErr(p) PROVE Supply'
  <2>1. free' = free /\ buffers' = buffers /\ cons' = cons
    BY <1>7, ZenonT(60) DEF ProducerStep, PushLoad, PushCas, PushRetry, DistributeErr, pool, nic, aux
  <2> QED BY <2>1, SupplyKept, ZenonT(60)
<1>8. ASSUME NEW i \in Inboxes,
             DrainSwap(i) \/ Reverse(i) \/ ReverseDone(i) \/ Take(i) \/ DrainDone(i)
      PROVE  Supply'
  <2>1. PICK c : /\ free' = free /\ buffers' = buffers /\ cons[i].at # "run" /\ c.at # "run"
                 /\ cons' = [cons EXCEPT ![i] = c]
    <3>1. cons \in [Inboxes -> ConsType] /\ cons[i] \in ConsType
      BY Types, Zenon
    <3>2. CASE DrainSwap(i)
      BY <3>1, <3>2, ZenonT(60) DEF DrainSwap, pool, nic, ConsType
    <3>3. CASE Reverse(i)
      BY <3>1, <3>3, ZenonT(60) DEF Reverse, pool, nic, ConsType
    <3>4. CASE ReverseDone(i)
      BY <3>1, <3>4, ZenonT(60) DEF ReverseDone, pool, nic, ConsType
    <3>5. CASE Take(i)
      BY <3>1, <3>5, ZenonT(60) DEF Take, pool, nic, ConsType
    <3>6. CASE DrainDone(i)
      BY <3>1, <3>6, ZenonT(60) DEF DrainDone, pool, nic, ConsOut
    <3> QED BY <1>8, <3>2, <3>3, <3>4, <3>5, <3>6, ZenonT(60)
  <2>2. cons'[i] = c /\ \A j \in Inboxes : j # i => cons'[j] = cons[j]
    BY <2>1, Types, ZenonT(60)
  <2> QED BY <2>1, <2>2, SupplyKept, ZenonT(60)
<1>9. CASE UNCHANGED vars
  <2>1. free' = free /\ buffers' = buffers /\ cons' = cons
    BY <1>9, Zenon DEF vars, pool, nic
  <2> QED BY <2>1, SupplyKept, ZenonT(60)
<1> QED BY <1>4, <1>5, <1>6, <1>7, <1>8, <1>9, ZenonT(60) DEF Next, ConsumerStep

\* Every state the inboxes reach satisfies the inductive invariant.
THEOREM InboxInvariance == Spec => []InboxInv
<1>1. Init => InboxInv
  BY ListInitial, SupplyInitial, Zenon DEF InboxInv
<1>2. InboxInv /\ [Next]_vars => InboxInv'
  BY ListInductive, SupplyInductive, ZenonT(60) DEF InboxInv
<1> QED BY <1>1, <1>2, PTL DEF Spec

\* An RxNode is on exactly one intrusive list at a time; what was sent to an
\* inbox and not yet handed on is on its way, in order; and no more nodes are in
\* use than buffers are pinned: for any producers, inboxes, nodes and buffers.
THEOREM InboxIsExact == Spec => []InboxExact
<1>1. InboxInv => InboxExact
  <2> SUFFICES ASSUME ListInv, Supply PROVE InboxExact
    BY Zenon DEF InboxInv
  <2>1. NodesWithinBuffers
    <3>1. buffers \in Int /\ NumBuffers \in Int
      BY Types, InboxAssumption, SMTT(60)
    <3> QED BY <3>1, Counts, SMTT(60) DEF Supply, NodesWithinBuffers
  <2>2. NodesConserved
    BY NodesInOnePlace, FS_Singleton, ZenonT(60) DEF NodesConserved
  <2>3. NothingLost
    BY Zenon DEF ListInv
  <2> QED BY <2>1, <2>2, <2>3, ZenonT(60) DEF InboxExact
<1> QED BY <1>1, InboxInvariance, PTL
=============================================================================
