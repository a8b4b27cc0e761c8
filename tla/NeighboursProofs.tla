-------------------------- MODULE NeighboursProofs --------------------------
(***************************************************************************)
(* Proof that neighbour resolution loses no reply, leaks no pending slot   *)
(* and returns only addresses a host had, for any cores, tasks and hosts   *)
(* and any sizes of the cache and of the pending table.                    *)
(***************************************************************************)
EXTENDS Neighbours, TLAPS

Dests == Hosts \cup Remotes
Entry == [ip : Hosts, mac : Nat]
Pcs == {"idle", "scan", "claim", "done", "timeout", "overflow", "cancelled"} \cup Waiting
TaskRec == [pc : Pcs, ip : Hosts \cup {NoIp}, slot : 0 .. PendingSlots, owner : BOOLEAN,
            left : Int, woken : BOOLEAN, got : Nat]

ArpType ==
  /\ cache \in Seq(Entry) /\ Len(cache) <= CacheSize
  /\ gwMac \in Nat
  /\ fast \in [Cores -> [ip : Dests \cup {NoIp}, mac : Nat]]
  /\ pend \in [1 .. PendingSlots -> Hosts \cup {NoIp}]
  /\ waker \in [1 .. PendingSlots -> Tasks \cup {NoTask}]
  /\ rx \in [Cores -> [ip : Hosts \cup {NoIp}, next : 0 .. PendingSlots]]
  /\ task \in [Tasks -> TaskRec]
  /\ spin \in [Cores -> [dest : Dests \cup {NoIp}, target : Hosts \cup {NoIp}, left : Int]]
  /\ asked \in SUBSET Hosts
  /\ wire \in SUBSET Entry
  /\ mac \in [Hosts -> Nat \ {0}]

\* A core that walks the pending table walks it for an address, from a slot.
WalkInv == \A c \in Cores : rx[c] # Quiet => rx[c].ip \in Hosts /\ rx[c].next \in 1 .. PendingSlots

\* A core that spins spins for the next hop of a destination.
SpinInv ==
  \A c \in Cores : spin[c] # NotSpinning => spin[c].dest \in Dests /\ spin[c].target = NextHop(spin[c].dest)

\* A resolution that has started is for an address of the link, and a resolver
\* that waits has a slot of its own that is marked with that address.
ClaimInv ==
  \A t \in Tasks :
    /\ task[t].pc # "idle" => task[t].ip \in Hosts
    /\ task[t].pc \in Waiting =>
         /\ task[t].slot \in 1 .. PendingSlots
         /\ pend[task[t].slot] = task[t].ip
         /\ \A u \in Tasks : task[u].pc \in Waiting /\ task[u].slot = task[t].slot => u = t

\* A marked slot has a resolver that waits in it, and so has a parked waker.
HolderInv ==
  \A s \in 1 .. PendingSlots :
    /\ pend[s] # NoIp => \E t \in Tasks : task[t].pc \in Waiting /\ task[t].slot = s
    /\ waker[s] # NoTask => task[waker[s]].pc \in Waiting /\ task[waker[s]].slot = s

\* From its park on a resolver's waker stays in its slot until it is called.
ParkInv ==
  \A t \in Tasks :
    task[t].pc \in {"recheck", "wait"} /\ ~task[t].woken => waker[task[t].slot] = t

\* Every address that is on the wire, cached or returned was the host's.
LinkReal ==
  /\ \A i \in DOMAIN cache : cache[i].mac \in 1 .. mac[cache[i].ip]
  /\ gwMac # NoMac => gwMac \in 1 .. mac[Gw]
  /\ \A m \in wire : m.mac \in 1 .. mac[m.ip]
FastReal == \A c \in Cores : fast[c].ip # NoIp => fast[c].mac \in 1 .. mac[NextHop(fast[c].ip)]
GotReal == \A t \in Tasks : task[t].pc = "done" => task[t].got \in 1 .. mac[task[t].ip]

\* No address has two entries.
CacheKeys == \A i, j \in DOMAIN cache : cache[i].ip = cache[j].ip => i = j

\* The cache has an entry for the address.
Cached(ip) == \E i \in DOMAIN cache : cache[i].ip = ip

\* A resolver that sleeps on a cached address is in front of a walk for it.
WakeInv ==
  \A t \in Tasks :
    task[t].pc = "wait" /\ ~task[t].woken /\ Cached(task[t].ip) =>
      \E c \in Cores : rx[c].ip = task[t].ip /\ rx[c].next <= task[t].slot

SlotInv == ClaimInv /\ HolderInv /\ ParkInv /\ WakeInv

ArpInv == ArpType /\ WalkInv /\ SpinInv /\ SlotInv /\ LinkReal /\ FastReal /\ GotReal /\ CacheKeys
-----------------------------------------------------------------------------
(* The caches. *)

\* The next hop of a destination is a host of the link, and a host's is itself.
LEMMA NextHopIsHost ==
  /\ \A d \in Dests : NextHop(d) \in Hosts
  /\ \A h \in Hosts : NextHop(h) = h
  BY NeighboursAssumption, Zenon DEF NextHop, Dests

\* A lookup hits when there is an entry, and what it returns was the host's.
LEMMA LookupFinds ==
  ASSUME ArpType, LinkReal, NEW ip \in Hosts
  PROVE  /\ Lookup(cache, ip) # NoMac <=> Cached(ip)
         /\ Lookup(cache, ip) # NoMac => Lookup(cache, ip) \in 1 .. mac[ip]
<1>1. CASE SlotOf(cache, ip) = {}
  <2>1. Lookup(cache, ip) = NoMac
    BY <1>1, Zenon DEF Lookup
  <2>2. ~ Cached(ip)
    BY <1>1, Zenon DEF SlotOf, Cached
  <2> QED BY <2>1, <2>2, Zenon
<1>2. CASE SlotOf(cache, ip) # {}
  <2> DEFINE k == CHOOSE i \in SlotOf(cache, ip) : TRUE
  <2>1. k \in SlotOf(cache, ip)
    BY <1>2, Zenon
  <2> HIDE DEF k
  <2>2. k \in DOMAIN cache /\ cache[k].ip = ip
    BY <2>1, Zenon DEF SlotOf
  <2>3. Lookup(cache, ip) = cache[k].mac
    BY <1>2, Zenon DEF Lookup, k
  <2>4. cache[k].mac \in 1 .. mac[ip]
    BY <2>2, Zenon DEF LinkReal
  <2>5. mac[ip] \in Nat
    BY Zenon DEF ArpType
  <2>6. Lookup(cache, ip) # NoMac
    BY <2>3, <2>4, <2>5, SMTT(60) DEF NoMac
  <2>7. Cached(ip)
    BY <2>2, Zenon DEF Cached
  <2> QED BY <2>3, <2>4, <2>6, <2>7, Zenon
<1> QED BY <1>1, <1>2, Zenon

\* An update puts the entry in the place of the address's old one, of none, or
\* of the first, and leaves the others.
LEMMA UpdateStores ==
  ASSUME NEW q \in Seq(Entry), Len(q) <= CacheSize, NEW ip \in Hosts, NEW m \in Nat,
         \A i, j \in DOMAIN q : q[i].ip = q[j].ip => i = j
  PROVE  LET u == Update(q, ip, m) IN
         /\ u \in Seq(Entry) /\ Len(u) <= CacheSize
         /\ \A i, j \in DOMAIN u : u[i].ip = u[j].ip => i = j
         /\ \A i \in DOMAIN u : u[i] = [ip |-> ip, mac |-> m] \/ (i \in DOMAIN q /\ u[i] = q[i])
<1> DEFINE e == [ip |-> ip, mac |-> m]
           u == Update(q, ip, m)
<1>0. e \in Entry /\ e.ip = ip
  BY Zenon DEF Entry
<1>00. CacheSize \in Nat /\ CacheSize >= 1 /\ Len(q) \in Nat /\ DOMAIN q = 1 .. Len(q)
       /\ \A i \in DOMAIN q : q[i] \in Entry
  BY NeighboursAssumption, SMTT(60)
<1> HIDE DEF e
<1>1. CASE SlotOf(q, ip) # {}
  <2>1. u = [i \in DOMAIN q |-> IF q[i].ip = ip THEN e ELSE q[i]]
    BY <1>1, Zenon DEF Update, e
  <2> HIDE DEF u
  <2>2. \A i \in 1 .. Len(q) : u[i] = e \/ u[i] = q[i]
    BY <1>00, <2>1, Zenon
  <2>3. u \in Seq(Entry) /\ Len(u) = Len(q) /\ DOMAIN u = DOMAIN q
    BY <1>0, <1>00, <2>1, SMTT(60)
  <2>4. \A i \in DOMAIN q : u[i].ip = q[i].ip
    BY <1>0, <2>1, Zenon
  <2> QED BY <2>2, <2>3, <2>4, <1>00, Zenon DEF e, u
<1>2. CASE SlotOf(q, ip) = {} /\ Len(q) < CacheSize
  <2>1. u = Append(q, e)
    BY <1>2, Zenon DEF Update, e
  <2> HIDE DEF u
  <2>2. u \in Seq(Entry) /\ Len(u) = Len(q) + 1 /\ u[Len(q) + 1] = e /\ \A i \in 1 .. Len(q) : u[i] = q[i]
    BY <1>0, <2>1, SMTT(60)
  <2>3. \A i \in DOMAIN q : q[i].ip # ip
    BY <1>2, Zenon DEF SlotOf
  <2>4. DOMAIN u = 1 .. Len(q) + 1
    BY <2>2, SMTT(60)
  <2>5. \A i \in DOMAIN u : u[i] = e \/ (i \in DOMAIN q /\ u[i] = q[i])
    BY <2>2, <2>4, <1>00, SMTT(60)
  <2>6. \A i, j \in DOMAIN u : u[i].ip = u[j].ip => i = j
    BY <2>2, <2>3, <2>4, <1>0, <1>00, SMTT(60)
  <2> QED BY <2>2, <2>5, <2>6, <1>2, <1>00, SMTT(60) DEF e, u
<1>3. CASE SlotOf(q, ip) = {} /\ ~ (Len(q) < CacheSize)
  <2>1. u = [q EXCEPT ![1] = e]
    BY <1>3, Zenon DEF Update, e
  <2> HIDE DEF u
  <2>2. u \in Seq(Entry) /\ Len(u) = Len(q) /\ u[1] = e /\ \A i \in 2 .. Len(q) : u[i] = q[i]
    BY <1>0, <1>00, <1>3, <2>1, SMTT(60)
  <2>3. \A i \in DOMAIN q : q[i].ip # ip
    BY <1>3, Zenon DEF SlotOf
  <2>4. DOMAIN u = 1 .. Len(q)
    BY <2>2, SMTT(60)
  <2>5. \A i \in DOMAIN u : u[i] = e \/ (i \in DOMAIN q /\ u[i] = q[i])
    BY <2>2, <2>4, <1>00, SMTT(60)
  <2>6. \A i, j \in DOMAIN u : u[i].ip = u[j].ip => i = j
    BY <2>2, <2>3, <2>4, <1>0, <1>00, SMTT(60)
  <2> QED BY <2>2, <2>5, <2>6, <1>00, Zenon DEF e, u
<1> QED BY <1>1, <1>2, <1>3, Zenon

-----------------------------------------------------------------------------
(* Initially. *)

LEMMA ArpInitial == ArpInit => ArpInv
<1> SUFFICES ASSUME ArpInit PROVE ArpInv
  BY Zenon
<1>1. ArpType
  BY NeighboursAssumption, SMTT(60) DEF ArpInit, ArpType, Entry, TaskRec, Pcs, Idle, Quiet, NotSpinning, NoMac
<1>2. WalkInv /\ SpinInv
  BY Zenon DEF ArpInit, WalkInv, SpinInv
<1>3. ClaimInv /\ HolderInv /\ ParkInv /\ WakeInv
  BY Zenon DEF ArpInit, ClaimInv, HolderInv, ParkInv, WakeInv, Idle, Waiting
<1>4. LinkReal /\ FastReal /\ GotReal /\ CacheKeys
  BY SMTT(60) DEF ArpInit, LinkReal, FastReal, GotReal, CacheKeys, Idle
<1> QED BY <1>1, <1>2, <1>3, <1>4, Zenon DEF ArpInv, SlotInv
-----------------------------------------------------------------------------
(* The steps of a resolver. *)

\* A task with its new locals in place is typed.
LEMMA TasksTyped ==
  ASSUME ArpType, NEW t \in Tasks, NEW r \in TaskRec, Becomes(t, r)
  PROVE  task' \in [Tasks -> TaskRec] /\ task'[t] = r /\ \A u \in Tasks \ {t} : task'[u] = task[u]
  BY Zenon DEF ArpType, Becomes

\* A resolver that ends gives its slot back.
LEMMA LeavingReleases ==
  ASSUME ArpType, SlotInv, NEW t \in Tasks, task[t].pc \in Waiting,
         NEW r \in TaskRec, r.pc \in {"done", "timeout", "cancelled"}, r.ip = task[t].ip,
         Becomes(t, r), Release(t), UNCHANGED <<cache, rx>>
  PROVE  /\ SlotInv'
         /\ pend' \in [1 .. PendingSlots -> Hosts \cup {NoIp}]
         /\ waker' \in [1 .. PendingSlots -> Tasks \cup {NoTask}]
<1> DEFINE s == task[t].slot
<1>1. task' \in [Tasks -> TaskRec] /\ task'[t] = r /\ \A u \in Tasks \ {t} : task'[u] = task[u]
  BY TasksTyped, Zenon
<1>2. s \in 1 .. PendingSlots /\ pend[s] = task[t].ip /\ task[t].ip \in Hosts
      /\ \A u \in Tasks : task[u].pc \in Waiting /\ task[u].slot = s => u = t
  BY Zenon DEF SlotInv, ClaimInv, Waiting
<1>3. waker[s] \in {t, NoTask}
  <2>1. waker[s] \in Tasks \cup {NoTask}
    BY <1>2, Zenon DEF ArpType
  <2>2. waker[s] # NoTask => task[waker[s]].pc \in Waiting /\ task[waker[s]].slot = s
    BY <1>2, Zenon DEF SlotInv, HolderInv
  <2> QED BY <2>1, <2>2, <1>2, Zenon
<1>4. waker' = [waker EXCEPT ![s] = NoTask] /\ pend' = [pend EXCEPT ![s] = NoIp]
  BY <1>3, NeighboursAssumption, Zenon DEF Release, ArpType
<1>5. r.pc \notin Waiting /\ r.pc # "idle"
  BY Zenon DEF Waiting
<1> HIDE DEF s
<1>6. /\ pend' \in [1 .. PendingSlots -> Hosts \cup {NoIp}]
      /\ waker' \in [1 .. PendingSlots -> Tasks \cup {NoTask}]
  BY <1>2, <1>4, Zenon DEF ArpType
<1>7. \A k \in 1 .. PendingSlots : k # s => pend'[k] = pend[k] /\ waker'[k] = waker[k]
  BY <1>4, Zenon DEF ArpType
<1>8. pend'[s] = NoIp /\ waker'[s] = NoTask
  BY <1>2, <1>4, Zenon DEF ArpType
<1>9. ClaimInv'
  <2> SUFFICES ASSUME NEW u \in Tasks
               PROVE  /\ task'[u].pc # "idle" => task'[u].ip \in Hosts
                      /\ task'[u].pc \in Waiting =>
                           /\ task'[u].slot \in 1 .. PendingSlots
                           /\ pend'[task'[u].slot] = task'[u].ip
                           /\ \A v \in Tasks : task'[v].pc \in Waiting /\ task'[v].slot = task'[u].slot => v = u
    BY Zenon DEF ClaimInv
  <2>1. CASE u = t
    BY <2>1, <1>1, <1>2, <1>5, Zenon
  <2>2. CASE u # t
    <3>1. task'[u] = task[u]
      BY <2>2, <1>1, Zenon
    <3>2. task[u].pc \in Waiting => task[u].slot # s
      BY <2>2, <1>2, Zenon
    <3> QED BY <3>1, <3>2, <1>1, <1>5, <1>7, SMTT(60) DEF SlotInv, ClaimInv
  <2> QED BY <2>1, <2>2, Zenon
<1>10. HolderInv'
  <2> SUFFICES ASSUME NEW k \in 1 .. PendingSlots
               PROVE  /\ pend'[k] # NoIp => \E u \in Tasks : task'[u].pc \in Waiting /\ task'[u].slot = k
                      /\ waker'[k] # NoTask => task'[waker'[k]].pc \in Waiting /\ task'[waker'[k]].slot = k
    BY Zenon DEF HolderInv
  <2>1. CASE k = s
    BY <2>1, <1>8, Zenon
  <2>2. CASE k # s
    <3>1. pend'[k] = pend[k] /\ waker'[k] = waker[k]
      BY <2>2, <1>7, Zenon
    <3>2. \A u \in Tasks : task[u].slot = k => u # t
      BY <2>2, Zenon DEF s
    <3>3. waker[k] # NoTask => waker[k] \in Tasks
      BY Zenon DEF ArpType
    <3> QED BY <3>1, <3>2, <3>3, <1>1, SMTT(60) DEF SlotInv, HolderInv
  <2> QED BY <2>1, <2>2, Zenon
<1>11. ParkInv'
  <2> SUFFICES ASSUME NEW u \in Tasks, task'[u].pc \in {"recheck", "wait"}, ~ task'[u].woken
               PROVE  waker'[task'[u].slot] = u
    BY Zenon DEF ParkInv
  <2>1. u # t /\ task'[u] = task[u]
    BY <1>1, Zenon
  <2>2. task[u].pc \in Waiting
    BY <2>1, Zenon DEF Waiting
  <2>3. task[u].slot \in 1 .. PendingSlots /\ task[u].slot # s
    BY <2>1, <2>2, <1>2, Zenon DEF SlotInv, ClaimInv
  <2> QED BY <2>1, <2>3, <1>7, ZenonT(60) DEF SlotInv, ParkInv
<1>12. WakeInv'
  BY <1>1, ZenonT(60) DEF SlotInv, WakeInv, Cached
<1> QED BY <1>6, <1>9, <1>10, <1>11, <1>12, Zenon DEF SlotInv

\* What a resolver does between its claim and its sleep, the park apart,
\* leaves the slots alone.
LEMMA MovingKeeps ==
  ASSUME ArpType, SlotInv, NEW t \in Tasks, NEW r \in TaskRec, Becomes(t, r),
         r.ip \in Hosts, task[t].pc \in Waiting <=> r.pc \in Waiting,
         r.pc \in Waiting => r.slot = task[t].slot /\ r.ip = task[t].ip,
         r.pc \in {"recheck", "wait"} => r.woken \/ waker[r.slot] = t,
         r.pc = "wait" => r.woken \/ ~ Cached(r.ip),
         UNCHANGED <<cache, rx, pend, waker>>
  PROVE  SlotInv'
<1>1. task' \in [Tasks -> TaskRec] /\ task'[t] = r /\ \A u \in Tasks \ {t} : task'[u] = task[u]
  BY TasksTyped, Zenon
<1>2. \A u \in Tasks : /\ task'[u].pc \in Waiting <=> task[u].pc \in Waiting
                       /\ task'[u].pc \in Waiting => task'[u].slot = task[u].slot /\ task'[u].ip = task[u].ip
  BY <1>1, Zenon
<1>3. ClaimInv'
  BY <1>1, <1>2, SMTT(60) DEF SlotInv, ClaimInv
<1>4. HolderInv'
  <2>1. \A k \in 1 .. PendingSlots : waker[k] # NoTask => waker[k] \in Tasks
    BY Zenon DEF ArpType
  <2> QED BY <2>1, <1>2, SMTT(60) DEF SlotInv, HolderInv
<1>5. ParkInv'
  BY <1>1, Zenon DEF SlotInv, ParkInv
<1>6. WakeInv'
  BY <1>1, SMTT(60) DEF SlotInv, WakeInv, Cached
<1> QED BY <1>3, <1>4, <1>5, <1>6, Zenon DEF SlotInv
\* What a fast slot is filled with was the host's.
LEMMA FastStored ==
  ASSUME ArpType, FastReal, NEW c \in Cores, NEW ip \in Dests, NEW m \in 1 .. mac[NextHop(ip)],
         FastStore(c, ip, m), mac' = mac
  PROVE  fast' \in [Cores -> [ip : Dests \cup {NoIp}, mac : Nat]] /\ FastReal'
<1>1. m \in Nat
  BY NextHopIsHost, SMTT(60) DEF ArpType
<1>2. fast' = [fast EXCEPT ![c] = [ip |-> ip, mac |-> m]]
  BY Zenon DEF FastStore
<1>3. fast' \in [Cores -> [ip : Dests \cup {NoIp}, mac : Nat]]
  BY <1>1, <1>2, Zenon DEF ArpType
<1>4. \A d \in Cores : fast'[d] = IF d = c THEN [ip |-> ip, mac |-> m] ELSE fast[d]
  BY <1>2, Zenon DEF ArpType
<1>5. FastReal'
  BY <1>4, SMTT(60) DEF FastReal, NextHop
<1> QED BY <1>3, <1>5, Zenon

\* A fast slot that has the address has a MAC of its host.
LEMMA FastHits ==
  ASSUME ArpType, FastReal, NEW c \in Cores, NEW ip \in Dests, FastLookup(c, ip) # NoMac
  PROVE  FastLookup(c, ip) \in 1 .. mac[NextHop(ip)]
<1>1. fast[c].ip = ip /\ FastLookup(c, ip) = fast[c].mac
  BY Zenon DEF FastLookup
<1>2. ip # NoIp
  BY NeighboursAssumption, Zenon DEF Dests
<1> QED BY <1>1, <1>2, Zenon DEF FastReal

\* A resolver whose answer came ends with it.
LEMMA AnsweringEnds ==
  ASSUME ArpInv, NEW t \in Tasks, task[t].pc \in Waiting, Home[t] \in Cores,
         LET m == Lookup(cache, task[t].ip) IN m # NoMac /\ Answered(t, m),
         UNCHANGED <<cache, gwMac, rx, spin, asked, wire, mac>>
  PROVE  ArpInv'
<1> DEFINE m == Lookup(cache, task[t].ip)
           ip == task[t].ip
           r == [task[t] EXCEPT !.pc = "done", !.got = m]
<1>0. m # NoMac /\ Answered(t, m)
  BY Zenon
<1>1. ip \in Hosts /\ ip \in Dests /\ NextHop(ip) = ip
  BY NextHopIsHost, Zenon DEF ArpInv, SlotInv, ClaimInv, Waiting, Dests
<1>2. m \in 1 .. mac[ip] /\ mac[ip] \in Nat
  <2>1. ArpType /\ LinkReal
    BY Zenon DEF ArpInv
  <2> HIDE DEF m, ip
  <2> QED BY <1>0, <1>1, <2>1, LookupFinds, Zenon DEF m, ip, ArpType
<1>3. task[t] \in TaskRec
  BY Zenon DEF ArpInv, ArpType
<1>4. r \in TaskRec /\ r.pc = "done" /\ r.ip = ip /\ r.got = m
  <2>1. m \in Nat
    BY <1>2, SMTT(60)
  <2> HIDE DEF m
  <2> QED BY <2>1, <1>3, Zenon DEF TaskRec, Pcs
<1>5. Becomes(t, r) /\ Release(t) /\ FastStore(Home[t], ip, m)
  BY <1>0, Zenon DEF Answered
<1> HIDE DEF m, ip, r
<1>6. /\ SlotInv' /\ pend' \in [1 .. PendingSlots -> Hosts \cup {NoIp}]
      /\ waker' \in [1 .. PendingSlots -> Tasks \cup {NoTask}]
  <2>1. r.ip = task[t].ip
    BY <1>4, Zenon DEF ip
  <2> QED BY <1>4, <1>5, <2>1, LeavingReleases, Zenon DEF ArpInv
<1>7. fast' \in [Cores -> [ip : Dests \cup {NoIp}, mac : Nat]] /\ FastReal'
  BY <1>1, <1>2, <1>5, FastStored, Zenon DEF ArpInv
<1>8. task' \in [Tasks -> TaskRec] /\ task'[t] = r /\ \A u \in Tasks \ {t} : task'[u] = task[u]
  BY <1>4, <1>5, TasksTyped, Zenon DEF ArpInv
<1>9. ArpType'
  BY <1>6, <1>7, <1>8, Zenon DEF ArpInv, ArpType
<1>10. WalkInv' /\ SpinInv' /\ LinkReal' /\ CacheKeys'
  BY Zenon DEF ArpInv, WalkInv, SpinInv, LinkReal, CacheKeys, NextHop
<1>11. GotReal'
  BY <1>2, <1>4, <1>8, Zenon DEF ArpInv, GotReal
<1> QED BY <1>6, <1>7, <1>9, <1>10, <1>11, Zenon DEF ArpInv

\* A resolver that ends without an answer.
LEMMA GivingUpEnds ==
  ASSUME ArpInv, NEW t \in Tasks, task[t].pc \in Waiting, NEW p \in {"timeout", "cancelled"},
         Moves(t, p), Release(t), UNCHANGED <<cache, gwMac, fast, rx, spin, asked, wire, mac>>
  PROVE  ArpInv'
<1> DEFINE r == [task[t] EXCEPT !.pc = p]
<1>1. task[t] \in TaskRec
  BY Zenon DEF ArpInv, ArpType
<1>2. r \in TaskRec /\ r.pc = p /\ r.ip = task[t].ip
  BY <1>1, Zenon DEF TaskRec, Pcs
<1>3. Becomes(t, r)
  BY Zenon DEF Moves
<1> HIDE DEF r
<1>4. /\ SlotInv' /\ pend' \in [1 .. PendingSlots -> Hosts \cup {NoIp}]
      /\ waker' \in [1 .. PendingSlots -> Tasks \cup {NoTask}]
  BY <1>2, <1>3, LeavingReleases, Zenon DEF ArpInv
<1>5. task' \in [Tasks -> TaskRec] /\ task'[t] = r /\ \A u \in Tasks \ {t} : task'[u] = task[u]
  BY <1>2, <1>3, TasksTyped, Zenon DEF ArpInv
<1>6. ArpType'
  BY <1>4, <1>5, Zenon DEF ArpInv, ArpType
<1>7. WalkInv' /\ SpinInv' /\ LinkReal' /\ FastReal' /\ CacheKeys'
  BY Zenon DEF ArpInv, WalkInv, SpinInv, LinkReal, FastReal, CacheKeys, NextHop
<1>8. GotReal'
  BY <1>2, <1>5, Zenon DEF ArpInv, GotReal
<1> QED BY <1>4, <1>6, <1>7, <1>8, Zenon DEF ArpInv
\* A resolver moves on and touches neither slots nor caches.
LEMMA MovingOn ==
  ASSUME ArpInv, NEW t \in Tasks, NEW r \in TaskRec, Becomes(t, r),
         r.ip \in Hosts, task[t].pc \in Waiting <=> r.pc \in Waiting,
         r.pc \in Waiting => r.slot = task[t].slot /\ r.ip = task[t].ip,
         r.pc \in {"recheck", "wait"} => r.woken \/ waker[r.slot] = t,
         r.pc = "wait" => r.woken \/ ~ Cached(r.ip), r.pc # "done",
         asked' \in SUBSET Hosts,
         UNCHANGED <<cache, gwMac, fast, pend, waker, rx, spin, wire, mac>>
  PROVE  ArpInv'
<1>1. SlotInv'
  BY MovingKeeps, Zenon DEF ArpInv
<1>2. task' \in [Tasks -> TaskRec] /\ task'[t] = r /\ \A u \in Tasks \ {t} : task'[u] = task[u]
  BY TasksTyped, Zenon DEF ArpInv
<1>3. ArpType'
  BY <1>2, Zenon DEF ArpInv, ArpType
<1>4. WalkInv' /\ SpinInv' /\ LinkReal' /\ FastReal' /\ CacheKeys'
  BY Zenon DEF ArpInv, WalkInv, SpinInv, LinkReal, FastReal, CacheKeys, NextHop
<1>5. GotReal'
  BY <1>2, Zenon DEF ArpInv, GotReal
<1> QED BY <1>1, <1>3, <1>4, <1>5, Zenon DEF ArpInv

\* What a task's locals are, and where they may point.
LEMMA TaskFacts ==
  ASSUME ArpInv, NEW t \in Tasks
  PROVE  /\ task[t] \in TaskRec
         /\ task[t].pc # "idle" => task[t].ip \in Hosts
         /\ Home[t] \in Cores
  BY NeighboursAssumption, Zenon DEF ArpInv, ArpType, SlotInv, ClaimInv

LEMMA IdleTyped == Idle \in TaskRec
  BY NeighboursAssumption, SMTT(60) DEF TaskRec, Pcs, Idle, NoMac

LEMMA StartKeeps ==
  ASSUME ArpInv, NEW t \in Tasks, NEW dest \in Dests, Start(t, dest)
  PROVE  ArpInv'
<1> DEFINE ip == NextHop(dest)
           c == Home[t]
           f == FastLookup(c, ip)
           m == IF f # NoMac THEN f ELSE Lookup(cache, ip)
<1>0. ArpType /\ LinkReal /\ FastReal /\ task[t].pc = "idle"
      /\ UNCHANGED <<cache, gwMac, pend, waker, rx, spin, asked, wire, mac>>
  BY Zenon DEF ArpInv, Start, Runs
<1>1. ip \in Hosts /\ ip \in Dests /\ NextHop(ip) = ip /\ c \in Cores
  BY NextHopIsHost, TaskFacts, Zenon DEF Dests
<1> HIDE DEF ip, c
<1>2. f # NoMac => f \in 1 .. mac[ip]
  BY <1>0, <1>1, FastHits, Zenon
<1>3. Lookup(cache, ip) # NoMac => Lookup(cache, ip) \in 1 .. mac[ip]
  BY <1>0, <1>1, LookupFinds, Zenon
<1>4. mac[ip] \in Nat
  BY <1>0, <1>1, Zenon DEF ArpType
<1>5. CASE m # NoMac
  <2>1. m \in 1 .. mac[ip] /\ m \in Nat
    BY <1>2, <1>3, <1>4, <1>5, SMTT(60)
  <2> DEFINE r == [Idle EXCEPT !.pc = "done", !.ip = ip, !.got = m]
  <2>2. Becomes(t, r) /\ IF f = NoMac THEN FastStore(c, ip, m) ELSE UNCHANGED fast
    BY <1>5, Zenon DEF Start, ip, c
  <2> HIDE DEF m, f
  <2>3. r \in TaskRec /\ r.pc = "done" /\ r.ip = ip /\ r.got = m
    BY <2>1, <1>1, IdleTyped, Zenon DEF TaskRec, Pcs
  <2> HIDE DEF r
  <2>4. fast' \in [Cores -> [ip : Dests \cup {NoIp}, mac : Nat]] /\ FastReal'
    <3>1. CASE f = NoMac
      BY <3>1, <2>1, <2>2, <1>0, <1>1, FastStored, Zenon
    <3>2. CASE f # NoMac
      BY <3>2, <2>2, <1>0, Zenon DEF ArpType, FastReal, NextHop
    <3> QED BY <3>1, <3>2, Zenon
  <2>5. task' \in [Tasks -> TaskRec] /\ task'[t] = r /\ \A u \in Tasks \ {t} : task'[u] = task[u]
    BY <2>2, <2>3, <1>0, TasksTyped, Zenon
  <2>6. SlotInv'
    <3>1. task[t].pc \notin Waiting /\ r.pc \notin Waiting /\ r.pc \notin {"recheck", "wait"}
      BY <1>0, <2>3, Zenon DEF Waiting
    <3> QED BY <2>2, <2>3, <3>1, <1>0, <1>1, MovingKeeps, Zenon DEF ArpInv
  <2>7. ArpType'
    BY <2>4, <2>5, <1>0, Zenon DEF ArpType
  <2>8. WalkInv' /\ SpinInv' /\ LinkReal' /\ CacheKeys'
    BY <1>0, Zenon DEF ArpInv, WalkInv, SpinInv, LinkReal, CacheKeys, NextHop
  <2>9. GotReal'
    BY <2>1, <2>3, <2>5, <1>0, Zenon DEF ArpInv, GotReal
  <2> QED BY <2>4, <2>6, <2>7, <2>8, <2>9, Zenon DEF ArpInv
<1>6. CASE m = NoMac
  <2> DEFINE r == [Idle EXCEPT !.pc = "scan", !.ip = ip, !.left = Attempts]
  <2>1. Becomes(t, r) /\ UNCHANGED fast
    BY <1>6, Zenon DEF Start, ip, c
  <2>2. r \in TaskRec /\ r.pc = "scan" /\ r.ip = ip
    <3>1. Attempts \in Int
      BY NeighboursAssumption, SMTT(60)
    <3> QED BY <3>1, <1>1, IdleTyped, Zenon DEF TaskRec, Pcs
  <2>3. task[t].pc \notin Waiting /\ r.pc \notin Waiting /\ r.pc \notin {"recheck", "wait", "done"}
    BY <1>0, <2>2, Zenon DEF Waiting
  <2>4. asked' \in SUBSET Hosts
    BY <1>0, Zenon DEF ArpType
  <2> HIDE DEF r
  <2> QED BY <2>1, <2>2, <2>3, <2>4, <1>0, <1>1, MovingOn, Zenon
<1> QED BY <1>5, <1>6, Zenon

LEMMA ScanKeeps ==
  ASSUME ArpInv, NEW t \in Tasks, Scan(t)
  PROVE  ArpInv'
<1> DEFINE r == [task[t] EXCEPT !.pc = "claim", !.owner = \A s \in DOMAIN pend : pend[s] # task[t].ip]
<1>1. task[t] \in TaskRec /\ task[t].pc = "scan" /\ task[t].ip \in Hosts
  BY TaskFacts, Zenon DEF Scan, Runs
<1>2. Becomes(t, r) /\ UNCHANGED <<cache, gwMac, fast, pend, waker, rx, spin, asked, wire, mac>>
  BY Zenon DEF Scan
<1>3. r \in TaskRec /\ r.pc = "claim" /\ r.ip = task[t].ip
  BY <1>1, Zenon DEF TaskRec, Pcs
<1> HIDE DEF r
<1>4. task[t].pc \notin Waiting /\ r.pc \notin Waiting /\ r.pc \notin {"recheck", "wait", "done"}
  BY <1>1, <1>3, Zenon DEF Waiting
<1>5. asked' \in SUBSET Hosts
  BY <1>2, Zenon DEF ArpInv, ArpType
<1> QED BY <1>1, <1>2, <1>3, <1>4, <1>5, MovingOn, Zenon

LEMMA SendKeeps ==
  ASSUME ArpInv, NEW t \in Tasks, Send(t)
  PROVE  ArpInv'
<1> DEFINE r == [task[t] EXCEPT !.pc = "poll"]
<1>1. task[t] \in TaskRec /\ task[t].pc = "send" /\ task[t].ip \in Hosts
  BY TaskFacts, Zenon DEF Send, Runs
<1>2. Becomes(t, r) /\ UNCHANGED <<cache, gwMac, fast, pend, waker, rx, spin, wire, mac>>
  BY Zenon DEF Send, Moves
<1>3. r \in TaskRec /\ r.pc = "poll" /\ r.ip = task[t].ip /\ r.slot = task[t].slot
  BY <1>1, Zenon DEF TaskRec, Pcs, Waiting
<1> HIDE DEF r
<1>4. task[t].pc \in Waiting /\ r.pc \in Waiting /\ r.pc \notin {"recheck", "wait", "done"}
  BY <1>1, <1>3, Zenon DEF Waiting
<1>5. asked' \in SUBSET Hosts
  BY <1>1, Zenon DEF ArpInv, ArpType, Send
<1> QED BY <1>1, <1>2, <1>3, <1>4, <1>5, MovingOn, Zenon

LEMMA PollKeeps ==
  ASSUME ArpInv, NEW t \in Tasks, Poll(t)
  PROVE  ArpInv'
<1>1. task[t] \in TaskRec /\ task[t].pc = "poll" /\ task[t].ip \in Hosts /\ Home[t] \in Cores
      /\ task[t].pc \in Waiting
  BY TaskFacts, Zenon DEF Poll, Runs, Waiting
<1>2. CASE Lookup(cache, task[t].ip) # NoMac
  BY <1>1, <1>2, AnsweringEnds, Zenon DEF Poll
<1>3. CASE Lookup(cache, task[t].ip) = NoMac
  <2> DEFINE r == [task[t] EXCEPT !.pc = "park", !.woken = FALSE]
  <2>1. Becomes(t, r) /\ UNCHANGED <<cache, gwMac, fast, pend, waker, rx, spin, asked, wire, mac>>
    BY <1>3, Zenon DEF Poll
  <2>2. r \in TaskRec /\ r.pc = "park" /\ r.ip = task[t].ip /\ r.slot = task[t].slot
    BY <1>1, Zenon DEF TaskRec, Pcs, Waiting
  <2> HIDE DEF r
  <2>3. r.pc \in Waiting /\ r.pc \notin {"recheck", "wait", "done"}
    BY <2>2, Zenon DEF Waiting
  <2>4. asked' \in SUBSET Hosts
    BY <2>1, Zenon DEF ArpInv, ArpType
  <2> QED BY <1>1, <2>1, <2>2, <2>3, <2>4, MovingOn, Zenon
<1> QED BY <1>2, <1>3, Zenon

LEMMA RecheckKeeps ==
  ASSUME ArpInv, NEW t \in Tasks, Recheck(t)
  PROVE  ArpInv'
<1>1. task[t] \in TaskRec /\ task[t].pc = "recheck" /\ task[t].ip \in Hosts /\ Home[t] \in Cores
      /\ task[t].pc \in Waiting
  BY TaskFacts, Zenon DEF Recheck, Runs, Waiting
<1>2. CASE Lookup(cache, task[t].ip) # NoMac
  BY <1>1, <1>2, AnsweringEnds, Zenon DEF Recheck
<1>3. CASE Lookup(cache, task[t].ip) = NoMac
  <2> DEFINE r == [task[t] EXCEPT !.pc = "wait"]
  <2>1. Becomes(t, r) /\ UNCHANGED <<cache, gwMac, fast, pend, waker, rx, spin, asked, wire, mac>>
    BY <1>3, Zenon DEF Recheck, Moves
  <2>2. r \in TaskRec /\ r.pc = "wait" /\ r.ip = task[t].ip /\ r.slot = task[t].slot /\ r.woken = task[t].woken
    BY <1>1, Zenon DEF TaskRec, Pcs, Waiting
  <2> HIDE DEF r
  <2>3. r.pc \in Waiting /\ r.pc # "done"
    BY <2>2, Zenon DEF Waiting
  <2>4. asked' \in SUBSET Hosts
    BY <2>1, Zenon DEF ArpInv, ArpType
  <2>5. r.woken \/ waker[r.slot] = t
    BY <1>1, <2>2, Zenon DEF ArpInv, SlotInv, ParkInv
  <2>6. ~ Cached(r.ip)
    BY <1>1, <1>3, <2>2, LookupFinds, Zenon DEF ArpInv
  <2> QED BY <1>1, <2>1, <2>2, <2>3, <2>4, <2>5, <2>6, MovingOn, Zenon
<1> QED BY <1>2, <1>3, Zenon

LEMMA WokenKeeps ==
  ASSUME ArpInv, NEW t \in Tasks, Woken(t)
  PROVE  ArpInv'
<1> DEFINE r == [task[t] EXCEPT !.pc = "poll"]
<1>1. task[t] \in TaskRec /\ task[t].pc = "wait" /\ task[t].ip \in Hosts
  BY TaskFacts, Zenon DEF Woken, Runs
<1>2. Becomes(t, r) /\ UNCHANGED <<cache, gwMac, fast, pend, waker, rx, spin, asked, wire, mac>>
  BY Zenon DEF Woken, Moves
<1>3. r \in TaskRec /\ r.pc = "poll" /\ r.ip = task[t].ip /\ r.slot = task[t].slot
  BY <1>1, Zenon DEF TaskRec, Pcs, Waiting
<1> HIDE DEF r
<1>4. task[t].pc \in Waiting /\ r.pc \in Waiting /\ r.pc \notin {"recheck", "wait", "done"}
  BY <1>1, <1>3, Zenon DEF Waiting
<1>5. asked' \in SUBSET Hosts
  BY <1>2, Zenon DEF ArpInv, ArpType
<1> QED BY <1>1, <1>2, <1>3, <1>4, <1>5, MovingOn, Zenon

LEMMA CancelKeeps ==
  ASSUME ArpInv, NEW t \in Tasks, Cancel(t)
  PROVE  ArpInv'
<1>1. task[t].pc \in Waiting
  BY Zenon DEF Cancel, Runs, Waiting
<1> QED BY <1>1, GivingUpEnds, Zenon DEF Cancel
LEMMA ParkKeeps ==
  ASSUME ArpInv, NEW t \in Tasks, Park(t)
  PROVE  ArpInv'
<1> DEFINE r == [task[t] EXCEPT !.pc = "recheck"]
           s == task[t].slot
<1>0. ArpType /\ UNCHANGED <<cache, gwMac, fast, pend, rx, spin, asked, wire, mac>>
  BY Zenon DEF ArpInv, Park
<1>1. task[t] \in TaskRec /\ task[t].pc = "park" /\ task[t].ip \in Hosts /\ task[t].pc \in Waiting
  BY TaskFacts, Zenon DEF Park, Runs, Waiting
<1>2. Becomes(t, r) /\ waker' = [waker EXCEPT ![s] = t]
  BY Zenon DEF Park, Moves
<1>3. r \in TaskRec /\ r.pc = "recheck" /\ r.ip = task[t].ip /\ r.slot = s /\ r.pc \in Waiting
  BY <1>1, Zenon DEF TaskRec, Pcs, Waiting
<1>4. s \in 1 .. PendingSlots /\ \A u \in Tasks : task[u].pc \in Waiting /\ task[u].slot = s => u = t
  BY <1>1, Zenon DEF ArpInv, SlotInv, ClaimInv
<1> HIDE DEF r, s
<1>5. task' \in [Tasks -> TaskRec] /\ task'[t] = r /\ \A u \in Tasks \ {t} : task'[u] = task[u]
  BY <1>0, <1>2, <1>3, TasksTyped, Zenon
<1>6. /\ waker' \in [1 .. PendingSlots -> Tasks \cup {NoTask}] /\ waker'[s] = t
      /\ \A k \in 1 .. PendingSlots : k # s => waker'[k] = waker[k]
  BY <1>0, <1>2, <1>4, Zenon DEF ArpType
<1>7. \A u \in Tasks : /\ task'[u].pc \in Waiting <=> task[u].pc \in Waiting
                       /\ task'[u].slot = task[u].slot /\ task'[u].ip = task[u].ip
                       /\ task[u].pc = "idle" => task'[u].pc = "idle"
  BY <1>1, <1>3, <1>5, Zenon DEF s
<1>8. ClaimInv'
  BY <1>0, <1>7, Zenon DEF ArpInv, SlotInv, ClaimInv
<1>9. HolderInv'
  <2> SUFFICES ASSUME NEW k \in 1 .. PendingSlots
               PROVE  /\ pend'[k] # NoIp => \E u \in Tasks : task'[u].pc \in Waiting /\ task'[u].slot = k
                      /\ waker'[k] # NoTask => task'[waker'[k]].pc \in Waiting /\ task'[waker'[k]].slot = k
    BY Zenon DEF HolderInv
  <2>1. pend'[k] # NoIp => \E u \in Tasks : task'[u].pc \in Waiting /\ task'[u].slot = k
    BY <1>0, <1>7, ZenonT(60) DEF ArpInv, SlotInv, HolderInv
  <2>2. CASE k = s
    BY <2>1, <2>2, <1>3, <1>5, <1>6, Zenon
  <2>3. CASE k # s
    <3>1. waker[k] # NoTask => waker[k] \in Tasks
      BY <1>0, Zenon DEF ArpType
    <3> QED BY <2>1, <2>3, <3>1, <1>6, <1>7, SMTT(60) DEF ArpInv, SlotInv, HolderInv
  <2> QED BY <2>2, <2>3, Zenon
<1>10. ParkInv'
  <2> SUFFICES ASSUME NEW u \in Tasks, task'[u].pc \in {"recheck", "wait"}, ~ task'[u].woken
               PROVE  waker'[task'[u].slot] = u
    BY Zenon DEF ParkInv
  <2>1. CASE u = t
    BY <2>1, <1>3, <1>5, <1>6, Zenon
  <2>2. CASE u # t
    <3>1. task'[u] = task[u] /\ task[u].pc \in Waiting
      BY <2>2, <1>5, Zenon DEF Waiting
    <3>2. task[u].slot \in 1 .. PendingSlots /\ task[u].slot # s
      BY <2>2, <3>1, <1>4, Zenon DEF ArpInv, SlotInv, ClaimInv
    <3> QED BY <3>1, <3>2, <1>6, Zenon DEF ArpInv, SlotInv, ParkInv
  <2> QED BY <2>1, <2>2, Zenon
<1>11. WakeInv'
  BY <1>0, <1>3, <1>5, ZenonT(60) DEF ArpInv, SlotInv, WakeInv, Cached
<1>12. ArpType'
  BY <1>0, <1>5, <1>6, Zenon DEF ArpType
<1>13. WalkInv' /\ SpinInv' /\ LinkReal' /\ FastReal' /\ CacheKeys'
  BY <1>0, Zenon DEF ArpInv, WalkInv, SpinInv, LinkReal, FastReal, CacheKeys, NextHop
<1>14. GotReal'
  BY <1>0, <1>3, <1>5, Zenon DEF ArpInv, GotReal
<1> QED BY <1>8, <1>9, <1>10, <1>11, <1>12, <1>13, <1>14, Zenon DEF ArpInv, SlotInv
LEMMA TimeoutKeeps ==
  ASSUME ArpInv, NEW t \in Tasks, Timeout(t)
  PROVE  ArpInv'
<1> DEFINE s == task[t].slot
<1>0. ArpType /\ UNCHANGED <<cache, gwMac, rx, spin, asked, wire, mac>>
  BY Zenon DEF ArpInv, Timeout
<1>1. task[t] \in TaskRec /\ task[t].pc = "wait" /\ task[t].ip \in Hosts /\ Home[t] \in Cores
      /\ task[t].pc \in Waiting
  BY TaskFacts, Zenon DEF Timeout, Runs, Waiting
<1>2. CASE Lookup(cache, task[t].ip) # NoMac
  BY <1>0, <1>1, <1>2, AnsweringEnds, Zenon DEF Timeout
<1>3. CASE Lookup(cache, task[t].ip) = NoMac /\ ~ (task[t].left > 1)
  BY <1>0, <1>1, <1>3, GivingUpEnds, Zenon DEF Timeout
<1>4. CASE Lookup(cache, task[t].ip) = NoMac /\ task[t].left > 1
  <2> DEFINE r == [task[t] EXCEPT !.pc = "send", !.left = @ - 1]
  <2>1. /\ Becomes(t, r) /\ UNCHANGED <<fast, pend>>
        /\ waker' = IF waker[s] = t THEN [waker EXCEPT ![s] = NoTask] ELSE waker
    BY <1>4, Zenon DEF Timeout
  <2>2. r \in TaskRec /\ r.pc = "send" /\ r.ip = task[t].ip /\ r.slot = s /\ r.pc \in Waiting
    <3>1. task[t].left - 1 \in Int
      BY <1>1, SMTT(60) DEF TaskRec
    <3> QED BY <3>1, <1>1, Zenon DEF TaskRec, Pcs, Waiting
  <2>3. s \in 1 .. PendingSlots /\ \A u \in Tasks : task[u].pc \in Waiting /\ task[u].slot = s => u = t
    BY <1>1, Zenon DEF ArpInv, SlotInv, ClaimInv
  <2> HIDE DEF r, s
  <2>4. task' \in [Tasks -> TaskRec] /\ task'[t] = r /\ \A u \in Tasks \ {t} : task'[u] = task[u]
    BY <1>0, <2>1, <2>2, TasksTyped, Zenon
  <2>5. /\ waker' \in [1 .. PendingSlots -> Tasks \cup {NoTask}]
        /\ \A k \in 1 .. PendingSlots : waker'[k] = IF k = s /\ waker[s] = t THEN NoTask ELSE waker[k]
    BY <1>0, <2>1, <2>3, Zenon DEF ArpType
  <2>6. \A u \in Tasks : /\ task'[u].pc \in Waiting <=> task[u].pc \in Waiting
                         /\ task'[u].slot = task[u].slot /\ task'[u].ip = task[u].ip
                         /\ task[u].pc = "idle" => task'[u].pc = "idle"
    BY <1>1, <2>2, <2>4, Zenon DEF s
  <2>7. ClaimInv'
    BY <2>1, <2>6, ZenonT(60) DEF ArpInv, SlotInv, ClaimInv
  <2>8. HolderInv'
    <3> SUFFICES ASSUME NEW k \in 1 .. PendingSlots
                 PROVE  /\ pend'[k] # NoIp => \E u \in Tasks : task'[u].pc \in Waiting /\ task'[u].slot = k
                        /\ waker'[k] # NoTask => task'[waker'[k]].pc \in Waiting /\ task'[waker'[k]].slot = k
      BY Zenon DEF HolderInv
    <3>1. pend'[k] # NoIp => \E u \in Tasks : task'[u].pc \in Waiting /\ task'[u].slot = k
      BY <2>1, <2>6, ZenonT(60) DEF ArpInv, SlotInv, HolderInv
    <3>2. waker[k] # NoTask => waker[k] \in Tasks
      BY <1>0, Zenon DEF ArpType
    <3> QED BY <3>1, <3>2, <2>5, <2>6, SMTT(60) DEF ArpInv, SlotInv, HolderInv
  <2>9. ParkInv'
    <3> SUFFICES ASSUME NEW u \in Tasks, task'[u].pc \in {"recheck", "wait"}, ~ task'[u].woken
                 PROVE  waker'[task'[u].slot] = u
      BY Zenon DEF ParkInv
    <3>1. u # t /\ task'[u] = task[u] /\ task[u].pc \in Waiting
      BY <2>2, <2>4, Zenon DEF Waiting
    <3>2. task[u].slot \in 1 .. PendingSlots /\ task[u].slot # s
      BY <3>1, <2>3, Zenon DEF ArpInv, SlotInv, ClaimInv
    <3> QED BY <3>1, <3>2, <2>5, Zenon DEF ArpInv, SlotInv, ParkInv
  <2>10. WakeInv'
    BY <1>0, <2>2, <2>4, ZenonT(60) DEF ArpInv, SlotInv, WakeInv, Cached
  <2>11. ArpType'
    BY <1>0, <2>1, <2>4, <2>5, Zenon DEF ArpType
  <2>12. WalkInv' /\ SpinInv' /\ LinkReal' /\ FastReal' /\ CacheKeys'
    BY <1>0, <2>1, Zenon DEF ArpInv, WalkInv, SpinInv, LinkReal, FastReal, CacheKeys, NextHop
  <2>13. GotReal'
    BY <1>0, <2>2, <2>4, Zenon DEF ArpInv, GotReal
  <2> QED BY <2>7, <2>8, <2>9, <2>10, <2>11, <2>12, <2>13, Zenon DEF ArpInv, SlotInv
<1> QED BY <1>2, <1>3, <1>4, Zenon

-----------------------------------------------------------------------------
(* The steps of a core and of the link. *)

LEMMA ReceiveKeeps ==
  ASSUME ArpInv, NEW c \in Cores, NEW m \in wire, Receive(c, m)
  PROVE  ArpInv'
<1>0. ArpType /\ LinkReal /\ FastReal /\ UNCHANGED <<pend, waker, task, spin, asked, mac>>
  BY Zenon DEF ArpInv, Receive
<1>1. m \in Entry /\ m.ip \in Hosts /\ m.mac \in Nat /\ m.mac \in 1 .. mac[m.ip]
  BY <1>0, Zenon DEF ArpType, LinkReal, Entry
<1>2. /\ cache' = Update(cache, m.ip, m.mac) /\ FastStore(c, m.ip, m.mac) /\ wire' = wire \ {m}
      /\ gwMac' = (IF m.ip = Gw THEN m.mac ELSE gwMac) /\ rx' = [rx EXCEPT ![c] = [ip |-> m.ip, next |-> 1]]
      /\ rx[c] = Quiet
  BY Zenon DEF Receive
<1>3. /\ cache' \in Seq(Entry) /\ Len(cache') <= CacheSize
      /\ \A i, j \in DOMAIN cache' : cache'[i].ip = cache'[j].ip => i = j
      /\ \A i \in DOMAIN cache' :
            cache'[i] = [ip |-> m.ip, mac |-> m.mac] \/ (i \in DOMAIN cache /\ cache'[i] = cache[i])
  <2>1. cache \in Seq(Entry) /\ Len(cache) <= CacheSize
        /\ \A i, j \in DOMAIN cache : cache[i].ip = cache[j].ip => i = j
    BY <1>0, Zenon DEF ArpInv, ArpType, CacheKeys
  <2> QED BY <1>1, <1>2, <2>1, UpdateStores, SMTT(60)
<1>4. /\ rx' \in [Cores -> [ip : Hosts \cup {NoIp}, next : 0 .. PendingSlots]]
      /\ rx'[c] = [ip |-> m.ip, next |-> 1] /\ \A d \in Cores \ {c} : rx'[d] = rx[d]
  <2>1. 1 \in 0 .. PendingSlots
    BY NeighboursAssumption, SMTT(60)
  <2> QED BY <2>1, <1>0, <1>1, <1>2, Zenon DEF ArpType
<1>5. fast' \in [Cores -> [ip : Dests \cup {NoIp}, mac : Nat]] /\ FastReal'
  <2>1. m.ip \in Dests /\ NextHop(m.ip) = m.ip
    BY <1>1, NextHopIsHost, Zenon DEF Dests
  <2> QED BY <1>0, <1>1, <1>2, <2>1, FastStored, Zenon
<1>6. ArpType'
  BY <1>0, <1>1, <1>2, <1>3, <1>4, <1>5, Zenon DEF ArpType
<1>7. WalkInv'
  <2>1. 1 \in 1 .. PendingSlots
    BY NeighboursAssumption, SMTT(60)
  <2> QED BY <2>1, <1>1, <1>4, SMTT(60) DEF ArpInv, WalkInv
<1>8. SpinInv' /\ GotReal' /\ ClaimInv' /\ HolderInv' /\ ParkInv'
  BY <1>0, Zenon DEF ArpInv, SpinInv, GotReal, SlotInv, ClaimInv, HolderInv, ParkInv, NextHop
<1>9. WakeInv'
  <2> SUFFICES ASSUME NEW t \in Tasks, task[t].pc = "wait", ~ task[t].woken, Cached(task[t].ip)'
               PROVE  \E d \in Cores : rx'[d].ip = task[t].ip /\ rx'[d].next <= task[t].slot
    BY <1>0, Zenon DEF WakeInv
  <2>1. CASE task[t].ip = m.ip
    <3>1. task[t].slot \in 1 .. PendingSlots
      BY Zenon DEF ArpInv, SlotInv, ClaimInv, Waiting
    <3>2. 1 <= task[t].slot
      BY <3>1, NeighboursAssumption, SMTT(60)
    <3> QED BY <2>1, <3>2, <1>4, SMTT(60)
  <2>2. CASE task[t].ip # m.ip
    <3>1. Cached(task[t].ip)
      BY <2>2, <1>0, <1>3, SMTT(60) DEF Cached
    <3>2. PICK d \in Cores : rx[d].ip = task[t].ip /\ rx[d].next <= task[t].slot
      BY <3>1, Zenon DEF ArpInv, SlotInv, WakeInv
    <3>3. task[t].ip # NoIp
      BY NeighboursAssumption, Zenon DEF ArpInv, SlotInv, ClaimInv
    <3>4. d # c
      BY <3>2, <3>3, <1>2, SMTT(60) DEF Quiet
    <3> QED BY <3>2, <3>4, <1>4, Zenon
  <2> QED BY <2>1, <2>2, Zenon
<1>10. LinkReal'
  <2>1. \A i \in DOMAIN cache' : cache'[i].mac \in 1 .. mac[cache'[i].ip]
    BY <1>0, <1>1, <1>3, SMTT(60) DEF LinkReal
  <2> QED BY <2>1, <1>0, <1>1, <1>2, Zenon DEF LinkReal
<1>11. CacheKeys'
  BY <1>3, Zenon DEF CacheKeys
<1> QED BY <1>5, <1>6, <1>7, <1>8, <1>9, <1>10, <1>11, Zenon DEF ArpInv, SlotInv

LEMMA PendingWakeKeeps ==
  ASSUME ArpInv, NEW c \in Cores, PendingWake(c)
  PROVE  ArpInv'
<1> DEFINE s == rx[c].next
           w == waker[s]
<1>0. ArpType /\ UNCHANGED <<cache, gwMac, fast, pend, spin, asked, wire, mac>>
  BY Zenon DEF ArpInv, PendingWake
<1>1. rx[c] # Quiet /\ rx[c].ip \in Hosts /\ s \in 1 .. PendingSlots /\ PendingSlots \in Nat
  BY NeighboursAssumption, Zenon DEF ArpInv, WalkInv, PendingWake
<1>2. rx' = [rx EXCEPT ![c] = IF s = PendingSlots THEN Quiet ELSE [@ EXCEPT !.next = s + 1]]
  BY Zenon DEF PendingWake
<1>3. /\ s = PendingSlots => rx'[c] = Quiet
      /\ s # PendingSlots => rx'[c] = [ip |-> rx[c].ip, next |-> s + 1]
      /\ \A d \in Cores \ {c} : rx'[d] = rx[d]
  BY <1>0, <1>2, ZenonT(60) DEF ArpType
<1>4. rx' \in [Cores -> [ip : Hosts \cup {NoIp}, next : 0 .. PendingSlots]]
  <2>1. Quiet \in [ip : Hosts \cup {NoIp}, next : 0 .. PendingSlots]
    BY <1>1, SMTT(60) DEF Quiet
  <2>2. s # PendingSlots => s + 1 \in 0 .. PendingSlots
    BY <1>1, SMTT(60)
  <2>3. rx'[c] \in [ip : Hosts \cup {NoIp}, next : 0 .. PendingSlots]
    BY <2>1, <2>2, <1>1, <1>3, SMTT(60)
  <2> QED BY <2>3, <1>0, <1>2, <1>3, Zenon DEF ArpType
<1>5. WalkInv'
  <2>1. s # PendingSlots => s + 1 \in 1 .. PendingSlots
    BY <1>1, SMTT(60)
  <2> QED BY <2>1, <1>1, <1>3, SMTT(60) DEF ArpInv, WalkInv
<1>6. SpinInv' /\ LinkReal' /\ FastReal' /\ CacheKeys'
  BY <1>0, Zenon DEF ArpInv, SpinInv, LinkReal, FastReal, CacheKeys, NextHop
\* The resolvers keep their places; the one in the slot is called, if it waits
\* for this address and has parked.
<1> DEFINE hit == pend[s] = rx[c].ip /\ w # NoTask
<1>7. CASE hit
  <2>1. w \in Tasks /\ task[w] \in TaskRec /\ task[w].pc \in Waiting /\ task[w].slot = s
    BY <1>0, <1>1, <1>7, ZenonT(60) DEF ArpInv, ArpType, SlotInv, HolderInv
  <2> DEFINE r == [task[w] EXCEPT !.woken = TRUE]
  <2>2. waker' = [waker EXCEPT ![s] = NoTask] /\ Becomes(w, r)
    BY <1>7, Zenon DEF PendingWake
  <2>3. /\ r \in TaskRec /\ r.woken /\ r.pc = task[w].pc /\ r.ip = task[w].ip /\ r.slot = task[w].slot
        /\ r.got = task[w].got
    BY <2>1, Zenon DEF TaskRec
  <2> HIDE DEF r, s, w
  <2>4. task' \in [Tasks -> TaskRec] /\ task'[w] = r /\ \A u \in Tasks \ {w} : task'[u] = task[u]
    BY <1>0, <2>1, <2>2, <2>3, TasksTyped, Zenon
  <2>5. \A u \in Tasks : /\ task'[u].pc = task[u].pc /\ task'[u].slot = task[u].slot /\ task'[u].ip = task[u].ip
                         /\ task'[u].got = task[u].got
    BY <2>3, <2>4, Zenon
  <2>6. /\ waker' \in [1 .. PendingSlots -> Tasks \cup {NoTask}] /\ waker'[s] = NoTask
        /\ \A k \in 1 .. PendingSlots : k # s => waker'[k] = waker[k]
    BY <1>0, <1>1, <2>2, Zenon DEF ArpType
  <2>7. ClaimInv' /\ GotReal'
    BY <1>0, <2>5, ZenonT(60) DEF ArpInv, SlotInv, ClaimInv, GotReal
  <2>8. HolderInv'
    <3>1. \A k \in 1 .. PendingSlots : waker[k] # NoTask => waker[k] \in Tasks
      BY <1>0, Zenon DEF ArpType
    <3> QED BY <3>1, <1>0, <2>5, <2>6, SMTT(60) DEF ArpInv, SlotInv, HolderInv
  <2>9. ParkInv'
    <3> SUFFICES ASSUME NEW u \in Tasks, task'[u].pc \in {"recheck", "wait"}, ~ task'[u].woken
                 PROVE  waker'[task'[u].slot] = u
      BY Zenon DEF ParkInv
    <3>1. u # w /\ task'[u] = task[u] /\ task[u].pc \in Waiting
      BY <2>3, <2>4, Zenon DEF Waiting
    <3>2. task[u].slot \in 1 .. PendingSlots /\ task[u].slot # s
      BY <3>1, <2>1, Zenon DEF ArpInv, SlotInv, ClaimInv
    <3> QED BY <3>1, <3>2, <2>6, Zenon DEF ArpInv, SlotInv, ParkInv
  <2>10. WakeInv'
    <3> SUFFICES ASSUME NEW u \in Tasks, task'[u].pc = "wait", ~ task'[u].woken, Cached(task[u].ip)
                 PROVE  \E d \in Cores : rx'[d].ip = task'[u].ip /\ rx'[d].next <= task'[u].slot
      BY <1>0, <2>5, ZenonT(60) DEF WakeInv, Cached
    <3>1. u # w /\ task'[u] = task[u] /\ task[u].pc \in Waiting
      BY <2>3, <2>4, Zenon DEF Waiting
    <3>3. PICK d \in Cores : rx[d].ip = task[u].ip /\ rx[d].next <= task[u].slot
      BY <3>1, Zenon DEF ArpInv, SlotInv, WakeInv
    <3>4. task[u].slot \in 1 .. PendingSlots /\ task[u].slot # s
      BY <3>1, <2>1, Zenon DEF ArpInv, SlotInv, ClaimInv
    <3>5. CASE d # c
      BY <3>1, <3>3, <3>5, <1>3, Zenon
    <3>6. CASE d = c
      <4>1. s <= task[u].slot
        BY <3>3, <3>6, Zenon DEF s
      <4>2. s # PendingSlots /\ s + 1 <= task[u].slot
        BY <4>1, <3>4, <1>1, SMTT(60)
      <4>3. rx'[c].ip = rx[c].ip /\ rx'[c].next = s + 1
        BY <4>2, <1>3, SMTT(60)
      <4> QED BY <4>2, <4>3, <3>1, <3>3, <3>6, Zenon
    <3> QED BY <3>5, <3>6, Zenon
  <2>11. ArpType'
    BY <1>0, <1>4, <2>4, <2>6, Zenon DEF ArpType
  <2> QED BY <1>5, <1>6, <2>7, <2>8, <2>9, <2>10, <2>11, Zenon DEF ArpInv, SlotInv
<1>8. CASE ~ hit
  <2>1. UNCHANGED <<waker, task>>
    BY <1>8, Zenon DEF PendingWake
  <2>2. ClaimInv' /\ HolderInv' /\ ParkInv' /\ GotReal'
    BY <1>0, <2>1, Zenon DEF ArpInv, SlotInv, ClaimInv, HolderInv, ParkInv, GotReal
  <2>3. ArpType'
    BY <1>0, <1>4, <2>1, Zenon DEF ArpType
  <2>4. WakeInv'
    <3> SUFFICES ASSUME NEW u \in Tasks, task[u].pc = "wait", ~ task[u].woken, Cached(task[u].ip)
                 PROVE  \E d \in Cores : rx'[d].ip = task[u].ip /\ rx'[d].next <= task[u].slot
      BY <1>0, <2>1, Zenon DEF WakeInv, Cached
    <3>1. task[u].slot \in 1 .. PendingSlots /\ pend[task[u].slot] = task[u].ip /\ waker[task[u].slot] = u
      BY Zenon DEF ArpInv, SlotInv, ClaimInv, ParkInv, Waiting
    <3>2. PICK d \in Cores : rx[d].ip = task[u].ip /\ rx[d].next <= task[u].slot
      BY Zenon DEF ArpInv, SlotInv, WakeInv
    <3>3. CASE d # c
      BY <3>2, <3>3, <1>3, Zenon
    <3>4. CASE d = c
      <4>1. s # task[u].slot
        BY <1>8, <3>1, <3>2, <3>4, NeighboursAssumption, Zenon
      <4> HIDE DEF s
      <4>2. s <= task[u].slot
        BY <3>2, <3>4, Zenon DEF s
      <4>3. s # PendingSlots /\ s + 1 <= task[u].slot
        BY <4>1, <4>2, <3>1, <1>1, SMTT(60)
      <4>4. rx'[c].ip = rx[c].ip /\ rx'[c].next = s + 1
        BY <4>3, <1>3, SMTT(60)
      <4> QED BY <4>3, <4>4, <3>2, <3>4, Zenon
    <3> QED BY <3>3, <3>4, Zenon
  <2> QED BY <1>5, <1>6, <2>2, <2>3, <2>4, Zenon DEF ArpInv, SlotInv
<1> QED BY <1>7, <1>8, Zenon
\* What leaves the tasks, the slots, the walks and the shared cache alone
\* cannot hurt a resolver.
LEMMA SlotsAside ==
  ASSUME SlotInv, UNCHANGED <<cache, pend, waker, rx, task>>
  PROVE  SlotInv'
  BY ZenonT(60) DEF SlotInv, ClaimInv, HolderInv, ParkInv, WakeInv, Cached

LEMMA ResolveKeeps ==
  ASSUME ArpInv, NEW c \in Cores, NEW dest \in Dests, Resolve(c, dest)
  PROVE  ArpInv'
<1> DEFINE target == NextHop(dest)
           m == IF target # dest /\ gwMac # NoMac THEN gwMac ELSE Lookup(cache, target)
<1>0. ArpType /\ LinkReal /\ FastReal /\ UNCHANGED <<cache, gwMac, pend, waker, rx, task, wire, mac>>
  BY Zenon DEF ArpInv, Resolve
<1>1. target \in Hosts /\ mac[target] \in Nat
  BY <1>0, NextHopIsHost, Zenon DEF ArpType
<1>2. target # dest => target = Gw
  BY Zenon DEF NextHop
<1>3. SlotInv' /\ WalkInv' /\ LinkReal' /\ CacheKeys' /\ GotReal'
  BY <1>0, SlotsAside, Zenon DEF ArpInv, WalkInv, LinkReal, CacheKeys, GotReal
<1>4. CASE m # NoMac
  <2>1. FastStore(c, dest, m) /\ UNCHANGED <<spin, asked>>
    BY <1>4, Zenon DEF Resolve
  <2>2. m \in 1 .. mac[target]
    <3>1. CASE target # dest /\ gwMac # NoMac
      BY <3>1, <1>0, <1>2, Zenon DEF LinkReal
    <3>2. CASE ~ (target # dest /\ gwMac # NoMac)
      <4> HIDE DEF target
      <4> QED BY <3>2, <1>0, <1>1, <1>4, LookupFinds, Zenon
    <3> QED BY <3>1, <3>2, Zenon
  <2> HIDE DEF m
  <2>3. fast' \in [Cores -> [ip : Dests \cup {NoIp}, mac : Nat]] /\ FastReal'
    BY <2>1, <2>2, <1>0, FastStored, Zenon
  <2>4. ArpType' /\ SpinInv'
    BY <2>1, <2>3, <1>0, Zenon DEF ArpType, ArpInv, SpinInv, NextHop
  <2> QED BY <2>3, <2>4, <1>3, Zenon DEF ArpInv
<1>5. CASE m = NoMac
  <2>1. /\ spin' = [spin EXCEPT ![c] = [dest |-> dest, target |-> target, left |-> SpinRetries]]
        /\ asked' = asked \cup {target} /\ UNCHANGED fast
    BY <1>5, Zenon DEF Resolve
  <2>2. SpinRetries \in Int
    BY NeighboursAssumption, SMTT(60)
  <2>3. \A d \in Cores :
          spin'[d] = IF d = c THEN [dest |-> dest, target |-> target, left |-> SpinRetries] ELSE spin[d]
    BY <2>1, <1>0, Zenon DEF ArpType
  <2>4. SpinInv'
    BY <2>3, SMTT(60) DEF ArpInv, SpinInv, NextHop
  <2> HIDE DEF target, m
  <2>5. ArpType'
    BY <2>1, <2>2, <1>0, <1>1, Zenon DEF ArpType
  <2>6. FastReal'
    BY <2>1, <1>0, Zenon DEF FastReal, NextHop
  <2> QED BY <2>4, <2>5, <2>6, <1>3, Zenon DEF ArpInv
<1> QED BY <1>4, <1>5, Zenon

LEMMA NotSpinningTyped == NotSpinning \in [dest : Dests \cup {NoIp}, target : Hosts \cup {NoIp}, left : Int]
  BY SMTT(60) DEF NotSpinning

LEMMA SpinHitKeeps ==
  ASSUME ArpInv, NEW c \in Cores, SpinHit(c)
  PROVE  ArpInv'
<1> DEFINE d == spin[c].dest
           m == Lookup(cache, spin[c].target)
<1>0. ArpType /\ LinkReal /\ FastReal /\ UNCHANGED <<cache, gwMac, pend, waker, rx, task, asked, wire, mac>>
  BY Zenon DEF ArpInv, SpinHit
<1>1. d \in Dests /\ spin[c].target = NextHop(d) /\ NextHop(d) \in Hosts
  BY NextHopIsHost, Zenon DEF ArpInv, SpinInv, SpinHit
<1>2. m # NoMac /\ FastStore(c, d, m) /\ spin' = [spin EXCEPT ![c] = NotSpinning]
  BY Zenon DEF SpinHit
<1> HIDE DEF d
<1>3. m \in 1 .. mac[NextHop(d)]
  BY <1>0, <1>1, <1>2, LookupFinds, Zenon
<1> HIDE DEF m
<1>4. fast' \in [Cores -> [ip : Dests \cup {NoIp}, mac : Nat]] /\ FastReal'
  BY <1>0, <1>1, <1>2, <1>3, FastStored, Zenon
<1>5. spin' \in [Cores -> [dest : Dests \cup {NoIp}, target : Hosts \cup {NoIp}, left : Int]]
      /\ \A e \in Cores : spin'[e] = IF e = c THEN NotSpinning ELSE spin[e]
  BY <1>0, <1>2, NotSpinningTyped, Zenon DEF ArpType
<1>6. ArpType'
  BY <1>0, <1>4, <1>5, Zenon DEF ArpType
<1>7. SpinInv'
  BY <1>5, Zenon DEF ArpInv, SpinInv, NextHop
<1>8. SlotInv' /\ WalkInv' /\ LinkReal' /\ CacheKeys' /\ GotReal'
  BY <1>0, SlotsAside, Zenon DEF ArpInv, WalkInv, LinkReal, CacheKeys, GotReal
<1> QED BY <1>4, <1>6, <1>7, <1>8, Zenon DEF ArpInv

LEMMA SpinRetryKeeps ==
  ASSUME ArpInv, NEW c \in Cores, SpinRetry(c)
  PROVE  ArpInv'
<1>0. ArpType /\ FastReal /\ UNCHANGED <<cache, gwMac, fast, pend, waker, rx, task, wire, mac>>
  BY Zenon DEF ArpInv, SpinRetry
<1>1. spin[c].dest \in Dests /\ spin[c].target = NextHop(spin[c].dest) /\ spin[c].target \in Hosts
  BY NextHopIsHost, Zenon DEF ArpInv, SpinInv, SpinRetry
<1>2. SlotInv' /\ WalkInv' /\ LinkReal' /\ FastReal' /\ CacheKeys' /\ GotReal'
  BY <1>0, SlotsAside, Zenon DEF ArpInv, WalkInv, LinkReal, FastReal, CacheKeys, GotReal, NextHop
<1>3. CASE spin[c].left > 1
  <2> DEFINE e == [spin[c] EXCEPT !.left = @ - 1]
  <2>1. spin' = [spin EXCEPT ![c] = e] /\ asked' = asked \cup {spin[c].target}
    BY <1>3, Zenon DEF SpinRetry
  <2>2. spin[c] \in [dest : Dests \cup {NoIp}, target : Hosts \cup {NoIp}, left : Int]
    BY <1>0, Zenon DEF ArpType
  <2>3. /\ e \in [dest : Dests \cup {NoIp}, target : Hosts \cup {NoIp}, left : Int]
        /\ e.dest = spin[c].dest /\ e.target = spin[c].target
    BY <2>2, SMTT(60)
  <2> HIDE DEF e
  <2>4. \A k \in Cores : spin'[k] = IF k = c THEN e ELSE spin[k]
    BY <2>1, <1>0, Zenon DEF ArpType
  <2>5. ArpType'
    BY <2>1, <2>3, <1>0, <1>1, Zenon DEF ArpType
  <2>6. SpinInv'
    BY <2>3, <2>4, <1>1, Zenon DEF ArpInv, SpinInv, NextHop
  <2> QED BY <2>5, <2>6, <1>2, Zenon DEF ArpInv
<1>4. CASE ~ (spin[c].left > 1)
  <2>1. spin' = [spin EXCEPT ![c] = NotSpinning] /\ UNCHANGED asked
    BY <1>4, Zenon DEF SpinRetry
  <2>2. \A k \in Cores : spin'[k] = IF k = c THEN NotSpinning ELSE spin[k]
    BY <2>1, <1>0, Zenon DEF ArpType
  <2>3. ArpType'
    BY <2>1, <1>0, NotSpinningTyped, Zenon DEF ArpType
  <2>4. SpinInv'
    BY <2>2, Zenon DEF ArpInv, SpinInv, NextHop
  <2> QED BY <2>3, <2>4, <1>2, Zenon DEF ArpInv
<1> QED BY <1>3, <1>4, Zenon

LEMMA SnoopKeeps ==
  ASSUME ArpInv, NEW c \in Cores, NEW h \in Hosts, Snoop(c, h)
  PROVE  ArpInv'
<1>0. /\ ArpType /\ FastReal /\ FastStore(c, h, mac[h])
      /\ UNCHANGED <<cache, gwMac, pend, waker, rx, task, spin, asked, wire, mac>>
  BY Zenon DEF ArpInv, Snoop
<1>1. h \in Dests /\ NextHop(h) = h
  BY NextHopIsHost, Zenon DEF Dests
<1>2. mac[h] \in 1 .. mac[NextHop(h)]
  BY <1>0, <1>1, SMTT(60) DEF ArpType
<1>3. fast' \in [Cores -> [ip : Dests \cup {NoIp}, mac : Nat]] /\ FastReal'
  BY <1>0, <1>1, <1>2, FastStored, Zenon
<1>4. ArpType'
  BY <1>0, <1>3, Zenon DEF ArpType
<1>5. SlotInv' /\ WalkInv' /\ SpinInv' /\ LinkReal' /\ CacheKeys' /\ GotReal'
  BY <1>0, SlotsAside, Zenon DEF ArpInv, WalkInv, SpinInv, LinkReal, CacheKeys, GotReal, NextHop
<1> QED BY <1>3, <1>4, <1>5, Zenon DEF ArpInv

LEMMA LinkKeeps ==
  ASSUME ArpInv, NEW h \in Hosts, Reply(h) \/ Lose(h)
  PROVE  ArpInv'
<1>0. ArpType /\ UNCHANGED <<cache, gwMac, fast, pend, waker, rx, task, spin, mac>>
  BY Zenon DEF ArpInv, Reply, Lose
<1>1. wire' \subseteq wire \cup {[ip |-> h, mac |-> mac[h]]} /\ asked' \subseteq asked
  BY Zenon DEF Reply, Lose
<1>2. [ip |-> h, mac |-> mac[h]] \in Entry /\ mac[h] \in 1 .. mac[h]
  BY <1>0, SMTT(60) DEF ArpType, Entry
<1>3. ArpType'
  BY <1>0, <1>1, <1>2, ZenonT(60) DEF ArpType
<1>4. LinkReal'
  BY <1>0, <1>1, <1>2, SMTT(60) DEF ArpInv, LinkReal
<1>5. SlotInv' /\ WalkInv' /\ SpinInv' /\ FastReal' /\ CacheKeys' /\ GotReal'
  BY <1>0, SlotsAside, Zenon DEF ArpInv, WalkInv, SpinInv, FastReal, CacheKeys, GotReal, NextHop
<1> QED BY <1>3, <1>4, <1>5, Zenon DEF ArpInv

LEMMA RehomeKeeps ==
  ASSUME ArpInv, NEW h \in Hosts, Rehome(h)
  PROVE  ArpInv'
<1> DEFINE e == [ip |-> h, mac |-> mac[h] + 1]
<1>0. ArpType /\ UNCHANGED <<cache, gwMac, fast, pend, waker, rx, task, spin, asked>>
  BY Zenon DEF ArpInv, Rehome
<1>1. wire' \subseteq wire \cup {e} /\ mac' = [mac EXCEPT ![h] = @ + 1]
  BY Zenon DEF Rehome
<1>2. mac' \in [Hosts -> Nat \ {0}] /\ mac'[h] = mac[h] + 1
      /\ \A k \in Hosts : mac'[k] \in Nat /\ mac[k] \in Nat /\ mac'[k] >= mac[k]
  BY <1>0, <1>1, SMTT(60) DEF ArpType
<1>3. e \in Entry /\ e.ip = h /\ e.mac \in 1 .. mac'[h]
  BY <1>0, <1>2, SMTT(60) DEF ArpType, Entry
<1> HIDE DEF e
<1>4. ArpType'
  BY <1>0, <1>1, <1>2, <1>3, Zenon DEF ArpType
<1>5. \A k \in Hosts : 1 .. mac[k] \subseteq 1 .. mac'[k]
  BY <1>2, SMTT(60)
<1>6. LinkReal'
  <2>1. \A i \in DOMAIN cache : cache[i].ip \in Hosts
    <3>1. \A i \in DOMAIN cache : cache[i] \in Entry
      BY <1>0, SMTT(60) DEF ArpType
    <3> QED BY <3>1, Zenon DEF Entry
  <2>2. \A m \in wire : m.ip \in Hosts
    BY <1>0, Zenon DEF ArpType, Entry
  <2>3. \A i \in DOMAIN cache' : cache'[i].mac \in 1 .. mac'[cache'[i].ip]
    BY <2>1, <1>0, <1>5, Zenon DEF ArpInv, LinkReal
  <2>4. gwMac' # NoMac => gwMac' \in 1 .. mac'[Gw]
    BY <1>0, <1>5, NeighboursAssumption, Zenon DEF ArpInv, LinkReal
  <2>5. \A m \in wire' : m.mac \in 1 .. mac'[m.ip]
    BY <2>2, <1>1, <1>3, <1>5, Zenon DEF ArpInv, LinkReal
  <2> QED BY <2>3, <2>4, <2>5, Zenon DEF LinkReal
<1>7. FastReal'
  <2>1. \A c \in Cores : fast[c].ip # NoIp => NextHop(fast[c].ip) \in Hosts
    BY <1>0, NextHopIsHost, Zenon DEF ArpType
  <2>2. FastReal
    BY Zenon DEF ArpInv
  <2> QED BY <2>1, <2>2, <1>0, <1>5, Zenon DEF FastReal, NextHop
<1>8. GotReal'
  BY <1>0, <1>5, Zenon DEF ArpInv, SlotInv, ClaimInv, GotReal
<1>9. SlotInv' /\ WalkInv' /\ SpinInv' /\ CacheKeys'
  BY <1>0, SlotsAside, Zenon DEF ArpInv, WalkInv, SpinInv, CacheKeys, NextHop
<1> QED BY <1>4, <1>6, <1>7, <1>8, <1>9, Zenon DEF ArpInv

-----------------------------------------------------------------------------
(* The claim of a slot, which is the first free one. *)
INSTANCE WellFoundedInduction

\* The first free slot is a free slot.
LEMMA LeastExists ==
  ASSUME NEW D \in SUBSET Nat, D # {}
  PROVE  \E m \in D : \A d \in D : m <= d
<1> DEFINE Less == {p \in Nat \X Nat : p[1] < p[2]}
<1>1. IsWellFoundedOn(Less, Nat)
  BY NatLessThanWellFounded, Zenon DEF OpToRel
<1>2. PICK m \in D : \A d \in D : ~ (<<d, m>> \in Less)
  <2> HIDE DEF Less
  <2> QED BY <1>1, WFMin, Zenon
<1>3. ASSUME NEW d \in D PROVE m <= d
  <2>1. d \in Nat /\ m \in Nat
    BY Zenon
  <2>2. d < m => <<d, m>> \in Less
    BY <2>1, Zenon
  <2>3. ~ (d < m)
    <3> HIDE DEF Less
    <3> QED BY <1>2, <2>2, Zenon
  <2> QED BY <2>1, <2>3, SMTT(60)
<1> QED BY <1>3, Zenon

LEMMA ClaimKeeps ==
  ASSUME ArpInv, NEW t \in Tasks, Claim(t)
  PROVE  ArpInv'
<1> DEFINE free == {s \in DOMAIN pend : pend[s] = NoIp}
<1>1. task[t] \in TaskRec /\ task[t].pc = "claim" /\ task[t].ip \in Hosts /\ task[t].pc \notin Waiting
  BY TaskFacts, Zenon DEF Claim, Runs, Waiting
<1>0. ArpType /\ UNCHANGED <<cache, gwMac, fast, waker, rx, spin, asked, wire, mac>>
  BY Zenon DEF ArpInv, Claim
<1>2. CASE free = {}
  <2> DEFINE r == [task[t] EXCEPT !.pc = "overflow"]
  <2>1. Becomes(t, r) /\ UNCHANGED pend
    BY <1>2, Zenon DEF Claim, Moves
  <2>2. r \in TaskRec /\ r.pc = "overflow" /\ r.ip = task[t].ip
    BY <1>1, Zenon DEF TaskRec, Pcs
  <2> HIDE DEF r
  <2>3. r.pc \notin Waiting /\ r.pc \notin {"recheck", "wait", "done"}
    BY <2>2, Zenon DEF Waiting
  <2>4. asked' \in SUBSET Hosts
    BY <1>0, Zenon DEF ArpType
  <2> QED BY <1>0, <1>1, <2>1, <2>2, <2>3, <2>4, MovingOn, Zenon
<1>3. CASE free # {}
  <2> DEFINE s == CHOOSE s \in free : \A o \in free : s <= o
             r == [task[t] EXCEPT !.pc = "send", !.slot = s]
  <2>1. free \in SUBSET Nat
    BY <1>0, NeighboursAssumption, SMTT(60) DEF ArpType
  <2>2. s \in free
    <3>1. \E m \in free : \A d \in free : m <= d
      BY <1>3, <2>1, LeastExists, Zenon
    <3> QED BY <3>1, Zenon
  <2>3. pend' = [pend EXCEPT ![s] = task[t].ip] /\ Becomes(t, r)
    BY <1>3, Zenon DEF Claim
  <2> HIDE DEF s
  <2>4. s \in 1 .. PendingSlots /\ pend[s] = NoIp
    BY <2>2, <1>0, Zenon DEF ArpType
  <2> HIDE DEF free
  <2>5. r \in TaskRec /\ r.pc = "send" /\ r.ip = task[t].ip /\ r.slot = s
    <3>1. s \in 0 .. PendingSlots
      BY <2>4, NeighboursAssumption, SMTT(60)
    <3> QED BY <1>1, <3>1, Zenon DEF TaskRec, Pcs, Waiting
  <2> HIDE DEF r
  <2>6. task' \in [Tasks -> TaskRec] /\ task'[t] = r /\ \A u \in Tasks \ {t} : task'[u] = task[u]
    BY <2>3, <2>5, <1>0, TasksTyped, Zenon
  <2>7. /\ pend' \in [1 .. PendingSlots -> Hosts \cup {NoIp}] /\ pend'[s] = task[t].ip
        /\ \A k \in 1 .. PendingSlots : k # s => pend'[k] = pend[k]
    BY <2>3, <2>4, <1>0, <1>1, Zenon DEF ArpType
  <2>8. \A u \in Tasks : task[u].pc \in Waiting => task[u].slot # s
    <3> SUFFICES ASSUME NEW u \in Tasks, task[u].pc \in Waiting, task[u].slot = s PROVE FALSE
      BY Zenon
    <3>1. pend[s] = task[u].ip /\ task[u].ip \in Hosts
      BY Zenon DEF ArpInv, SlotInv, ClaimInv, Waiting
    <3> QED BY <3>1, <2>4, NeighboursAssumption, Zenon
  <2>9. waker[s] = NoTask
    BY <2>4, <2>8, <1>0, ZenonT(60) DEF ArpInv, SlotInv, HolderInv, ArpType
  <2>10. ClaimInv'
    <3> SUFFICES ASSUME NEW u \in Tasks
                 PROVE  /\ task'[u].pc # "idle" => task'[u].ip \in Hosts
                        /\ task'[u].pc \in Waiting =>
                             /\ task'[u].slot \in 1 .. PendingSlots
                             /\ pend'[task'[u].slot] = task'[u].ip
                             /\ \A v \in Tasks : task'[v].pc \in Waiting /\ task'[v].slot = task'[u].slot => v = u
      BY Zenon DEF ClaimInv
    <3>1. CASE u = t
      BY <3>1, <2>4, <2>5, <2>6, <2>7, <2>8, <1>1, ZenonT(60)
    <3>2. CASE u # t
      <4>1. task'[u] = task[u]
        BY <3>2, <2>6, Zenon
      <4> QED BY <4>1, <2>5, <2>6, <2>7, <2>8, SMTT(60) DEF ArpInv, SlotInv, ClaimInv
    <3> QED BY <3>1, <3>2, Zenon
  <2>11. HolderInv'
    <3> SUFFICES ASSUME NEW k \in 1 .. PendingSlots
                 PROVE  /\ pend'[k] # NoIp => \E u \in Tasks : task'[u].pc \in Waiting /\ task'[u].slot = k
                        /\ waker'[k] # NoTask => task'[waker'[k]].pc \in Waiting /\ task'[waker'[k]].slot = k
      BY Zenon DEF HolderInv
    <3>1. CASE k = s
      BY <3>1, <2>5, <2>6, <2>9, <1>0, ZenonT(60) DEF Waiting
    <3>2. CASE k # s
      <4>1. waker[k] # NoTask => waker[k] \in Tasks
        BY <1>0, Zenon DEF ArpType
      <4>2. \A u \in Tasks : task[u].pc \in Waiting => u # t
        BY <1>1, Zenon
      <4> QED BY <3>2, <4>1, <4>2, <2>6, <2>7, <1>0, SMTT(60) DEF ArpInv, SlotInv, HolderInv
    <3> QED BY <3>1, <3>2, Zenon
  <2>12. ParkInv' /\ WakeInv'
    BY <2>5, <2>6, <1>0, SMTT(60) DEF ArpInv, SlotInv, ParkInv, WakeInv, Cached
  <2>13. ArpType'
    BY <2>6, <2>7, <1>0, Zenon DEF ArpType
  <2>14. WalkInv' /\ SpinInv' /\ LinkReal' /\ FastReal' /\ CacheKeys'
    BY <1>0, Zenon DEF ArpInv, WalkInv, SpinInv, LinkReal, FastReal, CacheKeys, NextHop
  <2>15. GotReal'
    BY <2>5, <2>6, <1>0, Zenon DEF ArpInv, GotReal
  <2> QED BY <2>10, <2>11, <2>12, <2>13, <2>14, <2>15, Zenon DEF ArpInv, SlotInv
<1> QED BY <1>2, <1>3, Zenon

-----------------------------------------------------------------------------
LEMMA ArpInductive == ArpInv /\ [ArpNext]_arpVars => ArpInv'
<1> SUFFICES ASSUME ArpInv, [ArpNext]_arpVars PROVE ArpInv'
  BY Zenon
<1>1. CASE UNCHANGED arpVars
  <2>1. UNCHANGED <<cache, gwMac, fast, pend, waker, rx, task, spin, asked, wire, mac>>
    BY <1>1, Zenon DEF arpVars
  <2>2. ArpType' /\ WalkInv' /\ SpinInv' /\ LinkReal' /\ FastReal' /\ GotReal' /\ CacheKeys'
    BY <2>1, Zenon DEF ArpInv, ArpType, WalkInv, SpinInv, LinkReal, FastReal, GotReal, CacheKeys, NextHop
  <2> QED BY <2>1, <2>2, SlotsAside, Zenon DEF ArpInv
<1>2. ASSUME NEW t \in Tasks, NEW d \in Dests, Start(t, d) PROVE ArpInv'
  BY <1>2, StartKeeps, Zenon
<1>3. ASSUME NEW t \in Tasks,
             \/ Scan(t) \/ Claim(t) \/ Send(t) \/ Poll(t) \/ Park(t) \/ Recheck(t)
             \/ Woken(t) \/ Timeout(t) \/ Cancel(t)
      PROVE  ArpInv'
  BY <1>3, ScanKeeps, ClaimKeeps, SendKeeps, PollKeeps, ParkKeeps, RecheckKeeps, WokenKeeps, TimeoutKeeps,
     CancelKeeps, Zenon
<1>4. ASSUME NEW c \in Cores, NEW m \in wire, Receive(c, m) PROVE ArpInv'
  BY <1>4, ReceiveKeeps, Zenon
<1>5. ASSUME NEW c \in Cores, PendingWake(c) \/ SpinHit(c) \/ SpinRetry(c) PROVE ArpInv'
  BY <1>5, PendingWakeKeeps, SpinHitKeeps, SpinRetryKeeps, Zenon
<1>6. ASSUME NEW c \in Cores, NEW d \in Dests, Resolve(c, d) PROVE ArpInv'
  BY <1>6, ResolveKeeps, Zenon
<1>7. ASSUME NEW c \in Cores, NEW h \in Hosts, Snoop(c, h) PROVE ArpInv'
  BY <1>7, SnoopKeeps, Zenon
<1>8. ASSUME NEW h \in Hosts, Reply(h) \/ Lose(h) \/ Rehome(h) PROVE ArpInv'
  BY <1>8, LinkKeeps, RehomeKeeps, Zenon
<1> QED BY <1>1, <1>2, <1>3, <1>4, <1>5, <1>6, <1>7, <1>8, Zenon DEF ArpNext, Dests

\* What the inductive invariant says of a resolution.
LEMMA ArpInvIsExact == ArpInv => ResolverExact
<1> SUFFICES ASSUME ArpInv PROVE ResolverExact
  BY Zenon
<1>1. NoLostReply
  <2> SUFFICES ASSUME NEW t \in Tasks, task[t].pc = "wait", ~ task[t].woken, Lookup(cache, task[t].ip) # NoMac
               PROVE  \E c \in Cores : rx[c].ip = task[t].ip /\ rx[c].next <= task[t].slot
    BY Zenon DEF NoLostReply
  <2>1. task[t].ip \in Hosts
    BY Zenon DEF ArpInv, SlotInv, ClaimInv
  <2>2. Cached(task[t].ip)
    BY <2>1, LookupFinds, Zenon DEF ArpInv
  <2> QED BY <2>2, Zenon DEF ArpInv, SlotInv, WakeInv
<1>2. SlotsAreClaims
  <2> SUFFICES ASSUME NEW s \in DOMAIN pend
               PROVE  LET holders == {t \in Tasks : task[t].pc \in Waiting /\ task[t].slot = s} IN
                      /\ IF pend[s] = NoIp THEN holders = {} ELSE \E t \in Tasks : holders = {t} /\ pend[s] = task[t].ip
                      /\ waker[s] \in holders \cup {NoTask}
    BY Zenon DEF SlotsAreClaims
  <2> DEFINE holders == {t \in Tasks : task[t].pc \in Waiting /\ task[t].slot = s}
  <2>1. s \in 1 .. PendingSlots
    BY Zenon DEF ArpInv, ArpType
  <2>2. \A t \in holders : pend[s] = task[t].ip /\ task[t].ip \in Hosts /\ \A u \in holders : u = t
    BY SMTT(60) DEF ArpInv, SlotInv, ClaimInv, Waiting
  <2>3. CASE pend[s] = NoIp
    <3>1. holders = {}
      BY <2>2, <2>3, NeighboursAssumption, Zenon
    <3>2. waker[s] \in holders \cup {NoTask}
      BY <2>1, Zenon DEF ArpInv, ArpType, SlotInv, HolderInv
    <3> QED BY <2>3, <3>1, <3>2, Zenon
  <2>4. CASE pend[s] # NoIp
    <3>1. PICK t \in Tasks : t \in holders
      BY <2>1, <2>4, Zenon DEF ArpInv, SlotInv, HolderInv
    <3>2. holders = {t} /\ pend[s] = task[t].ip
      BY <3>1, <2>2, Zenon
    <3>3. waker[s] \in holders \cup {NoTask}
      BY <2>1, Zenon DEF ArpInv, ArpType, SlotInv, HolderInv
    <3> QED BY <2>4, <3>2, <3>3, Zenon
  <2> QED BY <2>3, <2>4, Zenon
<1>3. AnswersAreReal
  BY Zenon DEF ArpInv, GotReal, FastReal, CacheKeys, AnswersAreReal
<1> QED BY <1>1, <1>2, <1>3, Zenon DEF ResolverExact

\* The invariant of neighbour resolution: caches and replies hold what a host
\* had, every marked slot has its resolver and every resolver its slot, and a
\* parked resolver is in its slot or was called (arp.rs: ArpCache::update,
\* PendingClaim, WaitMac::poll, pending_wake).
THEOREM ArpInvariance == ArpSpec => []ArpInv
  BY ArpInitial, ArpInductive, PTL DEF ArpSpec

\* However replies, timeouts, cancels and evictions interleave with the two
\* lookups and the park of WaitMac::poll, no reply is lost, no pending slot
\* leaks or is shared, and what resolve_mac returns was the host's.
THEOREM ResolverIsExact == ArpSpec => []ResolverExact
  BY ArpInvariance, ArpInvIsExact, PTL
=============================================================================
