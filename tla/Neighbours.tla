----------------------------- MODULE Neighbours -----------------------------
(***************************************************************************)
(* IPv4 neighbour resolution (src/crates/net/src/arp.rs): the shared ARP   *)
(* cache with the gateway's MAC, the one-entry fast cache of every core,   *)
(* the asynchronous resolvers that share a table of pending addresses, and *)
(* the synchronous path of a sender.                                       *)
(*                                                                         *)
(* A core runs one thing at a time: while it spins in arp_resolve none of  *)
(* its tasks is polled.  The cache is behind a lock, so each lookup or     *)
(* update is one step; the steps between two of them interleave.  Hosts    *)
(* outside may answer, stay silent, or change their address.               *)
(***************************************************************************)
EXTENDS Integers, Sequences

CONSTANTS Cores, Tasks,
          Home,            \* [Tasks -> Cores]
          Hosts,           \* IPv4 addresses of the link; Gw is one of them
          Gw,
          Remotes,         \* addresses behind the gateway
          Macs,            \* a host's successive MACs: 1 .. n
          CacheSize, PendingSlots, Attempts, SpinRetries,
          MayCancel

NoIp == "none"
NoTask == "nobody"
NoMac == 0

ASSUME NeighboursAssumption ==
    /\ Home \in [Tasks -> Cores] /\ NoTask \notin Tasks
    /\ Gw \in Hosts /\ Hosts \cap Remotes = {} /\ NoIp \notin Hosts \cup Remotes
    /\ Macs \subseteq Nat \ {0}
    /\ CacheSize \in Nat \ {0} /\ PendingSlots \in Nat \ {0} /\ Attempts \in Nat \ {0} /\ SpinRetries \in Nat \ {0}

VARIABLES cache,     \* ARP_CACHE.entries in slot order
          gwMac,     \* gateway_mac, NoMac while not gateway_mac_valid
          fast,      \* ARP_FAST: [Cores -> [ip, mac]]
          pend,      \* PENDING: the address each slot is claimed for
          waker,     \*   and the task parked in it
          rx,        \* per core: the address it is waking resolvers of, and the next slot
          task,      \* resolve_mac per task
          spin,      \* per core: arp_resolve's destination, target and the retries left
          asked,     \* addresses a request is on the wire for
          wire,      \* replies and announcements on the wire
          mac        \* the MAC each host has now

arpVars == <<cache, gwMac, fast, pend, waker, rx, task, spin, asked, wire, mac>>

Idle == [pc |-> "idle", ip |-> NoIp, slot |-> 0, owner |-> FALSE, left |-> 0, woken |-> FALSE, got |-> NoMac]
NotSpinning == [dest |-> NoIp, target |-> NoIp, left |-> 0]
Quiet == [ip |-> NoIp, next |-> 0]

ArpInit == /\ cache = <<>> /\ gwMac = NoMac
        /\ fast = [c \in Cores |-> [ip |-> NoIp, mac |-> NoMac]]
        /\ pend = [s \in 1 .. PendingSlots |-> NoIp]
        /\ waker = [s \in 1 .. PendingSlots |-> NoTask]
        /\ rx = [c \in Cores |-> Quiet]
        /\ task = [t \in Tasks |-> Idle]
        /\ spin = [c \in Cores |-> NotSpinning]
        /\ asked = {} /\ wire = {}
        /\ mac = [h \in Hosts |-> 1]

(***************************************************************************)
(* The caches.                                                             *)
(***************************************************************************)
SlotOf(entries, ip) == {i \in DOMAIN entries : entries[i].ip = ip}
Lookup(entries, ip) == IF SlotOf(entries, ip) = {} THEN NoMac
                       ELSE entries[CHOOSE i \in SlotOf(entries, ip) : TRUE].mac
\* ArpCache::update: a full cache gives up its first entry.
Update(entries, ip, m) ==
    LET e == [ip |-> ip, mac |-> m] IN
    IF SlotOf(entries, ip) # {} THEN [i \in DOMAIN entries |-> IF entries[i].ip = ip THEN e ELSE entries[i]]
    ELSE IF Len(entries) < CacheSize THEN Append(entries, e)
    ELSE [entries EXCEPT ![1] = e]

NextHop(dest) == IF dest \in Remotes THEN Gw ELSE dest

FastStore(c, ip, m) == fast' = [fast EXCEPT ![c] = [ip |-> ip, mac |-> m]]
FastLookup(c, ip) == IF fast[c].ip = ip THEN fast[c].mac ELSE NoMac

\* The core is free to run a task or take a frame.
Free(c) == spin[c] = NotSpinning /\ rx[c] = Quiet

(***************************************************************************)
(* resolve_mac.                                                            *)
(***************************************************************************)
Becomes(t, r) == task' = [task EXCEPT ![t] = r]
Moves(t, pc) == Becomes(t, [task[t] EXCEPT !.pc = pc])
Runs(t, pc) == Free(Home[t]) /\ task[t].pc = pc

\* Dropping the claim: the waker first, if it is still this task's.
Release(t) ==
    LET s == task[t].slot IN
    /\ waker' = IF waker[s] = t THEN [waker EXCEPT ![s] = NoTask] ELSE waker
    /\ pend' = [pend EXCEPT ![s] = NoIp]
Answered(t, m) ==
    /\ FastStore(Home[t], task[t].ip, m)
    /\ Becomes(t, [task[t] EXCEPT !.pc = "done", !.got = m])
    /\ Release(t)

\* resolve_route and the two cache lookups.
Start(t, dest) ==
    LET ip == NextHop(dest)
        c == Home[t]
        f == FastLookup(c, ip)
        m == IF f # NoMac THEN f ELSE Lookup(cache, ip)
    IN /\ Runs(t, "idle")
       /\ IF m # NoMac
          THEN /\ Becomes(t, [Idle EXCEPT !.pc = "done", !.ip = ip, !.got = m])
               /\ IF f = NoMac THEN FastStore(c, ip, m) ELSE UNCHANGED fast
          ELSE Becomes(t, [Idle EXCEPT !.pc = "scan", !.ip = ip, !.left = Attempts]) /\ UNCHANGED fast
       /\ UNCHANGED <<cache, gwMac, pend, waker, rx, spin, asked, wire, mac>>

\* PendingClaim::claim: whether somebody else waits for the address, then a
\* free slot.  Another core may claim in between.
Scan(t) ==
    /\ Runs(t, "scan")
    /\ Becomes(t, [task[t] EXCEPT !.pc = "claim", !.owner = \A s \in DOMAIN pend : pend[s] # task[t].ip])
    /\ UNCHANGED <<cache, gwMac, fast, pend, waker, rx, spin, asked, wire, mac>>
Claim(t) ==
    LET free == {s \in DOMAIN pend : pend[s] = NoIp} IN
    /\ Runs(t, "claim")
    /\ IF free = {}
       THEN Moves(t, "overflow") /\ UNCHANGED pend
       ELSE LET s == CHOOSE s \in free : \A o \in free : s <= o
            IN pend' = [pend EXCEPT ![s] = task[t].ip] /\ Becomes(t, [task[t] EXCEPT !.pc = "send", !.slot = s])
    /\ UNCHANGED <<cache, gwMac, fast, waker, rx, spin, asked, wire, mac>>

\* Only the owner solicits.
Send(t) ==
    /\ Runs(t, "send")
    /\ asked' = IF task[t].owner THEN asked \cup {task[t].ip} ELSE asked
    /\ Moves(t, "poll")
    /\ UNCHANGED <<cache, gwMac, fast, pend, waker, rx, spin, wire, mac>>

\* WaitMac::poll: look, park, look again.
Poll(t) ==
    LET m == Lookup(cache, task[t].ip) IN
    /\ Runs(t, "poll")
    /\ IF m # NoMac THEN Answered(t, m)
       ELSE /\ Becomes(t, [task[t] EXCEPT !.pc = "park", !.woken = FALSE])
            /\ UNCHANGED <<fast, pend, waker>>
    /\ UNCHANGED <<cache, gwMac, rx, spin, asked, wire, mac>>
Park(t) ==
    /\ Runs(t, "park")
    /\ waker' = [waker EXCEPT ![task[t].slot] = t]
    /\ Moves(t, "recheck")
    /\ UNCHANGED <<cache, gwMac, fast, pend, rx, spin, asked, wire, mac>>
\* No second look after parking.
RecheckNot(t) ==
    /\ Runs(t, "recheck")
    /\ Moves(t, "wait")
    /\ UNCHANGED <<cache, gwMac, fast, pend, waker, rx, spin, asked, wire, mac>>

Recheck(t) ==
    LET m == Lookup(cache, task[t].ip) IN
    /\ Runs(t, "recheck")
    /\ IF m # NoMac THEN Answered(t, m)
       ELSE Moves(t, "wait") /\ UNCHANGED <<fast, pend, waker>>
    /\ UNCHANGED <<cache, gwMac, rx, spin, asked, wire, mac>>
\* The waker was called: the task is polled again.
Woken(t) ==
    /\ Runs(t, "wait") /\ task[t].woken
    /\ Moves(t, "poll")
    /\ UNCHANGED <<cache, gwMac, fast, pend, waker, rx, spin, asked, wire, mac>>

\* timeout_us: the timer wakes the task, which looks once more before the
\* window is over; the guard deregisters the waker.
Timeout(t) ==
    LET m == Lookup(cache, task[t].ip)
        s == task[t].slot
    IN /\ Runs(t, "wait")
       /\ IF m # NoMac THEN Answered(t, m)
          ELSE IF task[t].left > 1
          THEN /\ Becomes(t, [task[t] EXCEPT !.pc = "send", !.left = @ - 1])
               /\ waker' = IF waker[s] = t THEN [waker EXCEPT ![s] = NoTask] ELSE waker
               /\ UNCHANGED <<fast, pend>>
          ELSE Moves(t, "timeout") /\ Release(t) /\ UNCHANGED fast
       /\ UNCHANGED <<cache, gwMac, rx, spin, asked, wire, mac>>
\* The caller drops the future.
Cancel(t) ==
    /\ MayCancel /\ Runs(t, "wait")
    /\ Moves(t, "cancelled") /\ Release(t)
    /\ UNCHANGED <<cache, gwMac, fast, rx, spin, asked, wire, mac>>

(***************************************************************************)
(* arp_receive, on whichever core the frame lands: learn, then walk the    *)
(* pending table.  A core that spins takes ARP frames too.                 *)
(***************************************************************************)
Receive(c, m) ==
    /\ rx[c] = Quiet /\ m \in wire
    /\ wire' = wire \ {m}
    /\ cache' = Update(cache, m.ip, m.mac)
    /\ gwMac' = IF m.ip = Gw THEN m.mac ELSE gwMac
    /\ FastStore(c, m.ip, m.mac)
    /\ rx' = [rx EXCEPT ![c] = [ip |-> m.ip, next |-> 1]]
    /\ UNCHANGED <<pend, waker, task, spin, asked, mac>>
\* pending_wake, slot by slot.
PendingWake(c) ==
    LET s == rx[c].next
        t == waker[s]
    IN /\ rx[c] # Quiet
       /\ IF pend[s] = rx[c].ip /\ t # NoTask
          THEN waker' = [waker EXCEPT ![s] = NoTask] /\ Becomes(t, [task[t] EXCEPT !.woken = TRUE])
          ELSE UNCHANGED <<waker, task>>
       /\ rx' = [rx EXCEPT ![c] = IF s = PendingSlots THEN Quiet ELSE [@ EXCEPT !.next = s + 1]]
       /\ UNCHANGED <<cache, gwMac, fast, pend, spin, asked, wire, mac>>

(***************************************************************************)
(* arp_resolve, in front of every packet sent.                             *)
(***************************************************************************)
Resolve(c, dest) ==
    LET target == NextHop(dest)
        m == IF target # dest /\ gwMac # NoMac THEN gwMac ELSE Lookup(cache, target)
    IN /\ Free(c) /\ FastLookup(c, dest) = NoMac
       /\ IF m # NoMac
          THEN FastStore(c, dest, m) /\ UNCHANGED <<spin, asked>>
          ELSE /\ spin' = [spin EXCEPT ![c] = [dest |-> dest, target |-> target, left |-> SpinRetries]]
               /\ asked' = asked \cup {target}
               /\ UNCHANGED fast
       /\ UNCHANGED <<cache, gwMac, pend, waker, rx, task, wire, mac>>
SpinHit(c) ==
    LET m == Lookup(cache, spin[c].target) IN
    /\ spin[c] # NotSpinning /\ rx[c] = Quiet /\ m # NoMac
    /\ FastStore(c, spin[c].dest, m)
    /\ spin' = [spin EXCEPT ![c] = NotSpinning]
    /\ UNCHANGED <<cache, gwMac, pend, waker, rx, task, asked, wire, mac>>
SpinRetry(c) ==
    /\ spin[c] # NotSpinning /\ rx[c] = Quiet /\ Lookup(cache, spin[c].target) = NoMac
    /\ IF spin[c].left > 1
       THEN /\ spin' = [spin EXCEPT ![c].left = @ - 1]
            /\ asked' = asked \cup {spin[c].target}
       ELSE spin' = [spin EXCEPT ![c] = NotSpinning] /\ UNCHANGED asked
    /\ UNCHANGED <<cache, gwMac, fast, pend, waker, rx, task, wire, mac>>

(***************************************************************************)
(* A received IPv4 packet of the link teaches its sender's MAC to the fast *)
(* slot of the core it lands on (arp_learn).                               *)
(***************************************************************************)
Snoop(c, h) ==
    /\ Free(c)
    /\ FastStore(c, h, mac[h])
    /\ UNCHANGED <<cache, gwMac, pend, waker, rx, task, spin, asked, wire, mac>>

(***************************************************************************)
(* The link: a request is lost or answered, a host may change its MAC and  *)
(* announce it.                                                            *)
(***************************************************************************)
Reply(h) ==
    /\ h \in asked /\ asked' = asked \ {h}
    /\ wire' = wire \cup {[ip |-> h, mac |-> mac[h]]}
    /\ UNCHANGED <<cache, gwMac, fast, pend, waker, rx, task, spin, mac>>
Lose(h) ==
    /\ h \in asked /\ asked' = asked \ {h}
    /\ UNCHANGED <<cache, gwMac, fast, pend, waker, rx, task, spin, wire, mac>>
Rehome(h) ==
    /\ mac[h] + 1 \in Macs
    /\ mac' = [mac EXCEPT ![h] = @ + 1]
    /\ wire' = {m \in wire : m.ip # h} \cup {[ip |-> h, mac |-> mac[h] + 1]}
    /\ UNCHANGED <<cache, gwMac, fast, pend, waker, rx, task, spin, asked>>

ArpNext == \/ \E t \in Tasks : \/ \E d \in Hosts \cup Remotes : Start(t, d)
                            \/ Scan(t) \/ Claim(t) \/ Send(t) \/ Poll(t) \/ Park(t) \/ Recheck(t)
                            \/ Woken(t) \/ Timeout(t) \/ Cancel(t)
        \/ \E c \in Cores : \/ \E m \in wire : Receive(c, m)
                            \/ PendingWake(c) \/ SpinHit(c) \/ SpinRetry(c)
                            \/ \E d \in Hosts \cup Remotes : Resolve(c, d)
                            \/ \E h \in Hosts : Snoop(c, h)
        \/ \E h \in Hosts : Reply(h) \/ Lose(h) \/ Rehome(h)

\* The executor polls every ready task in turn and the timer wheel fires, so
\* a task is not passed over for ever by others of its core.
Runnable(t) == Scan(t) \/ Claim(t) \/ Send(t) \/ Poll(t) \/ Park(t) \/ Recheck(t) \/ Woken(t) \/ Timeout(t)
Fairness == /\ \A t \in Tasks : SF_arpVars(Runnable(t))
            /\ \A c \in Cores : WF_arpVars(PendingWake(c)) /\ WF_arpVars(SpinHit(c) \/ SpinRetry(c))
ArpSpec == ArpInit /\ [][ArpNext]_arpVars /\ Fairness

-----------------------------------------------------------------------------
Waiting == {"send", "poll", "park", "recheck", "wait"}

\* A resolver that sleeps while the cache has its answer has been woken or
\* is about to be: a reply that lands between its two lookups and its park,
\* on any core, is not lost (WaitMac::poll, pending_wake).
NoLostReply ==
    \A t \in Tasks :
        task[t].pc = "wait" /\ ~task[t].woken /\ Lookup(cache, task[t].ip) # NoMac =>
            \E c \in Cores : rx[c].ip = task[t].ip /\ rx[c].next <= task[t].slot

\* A slot of the pending table is claimed by exactly the resolver that waits
\* in it, for its address, and holds no other task's waker: cancelling,
\* timing out and finishing all give it back.
SlotsAreClaims ==
    \A s \in DOMAIN pend :
        LET holders == {t \in Tasks : task[t].pc \in Waiting /\ task[t].slot = s} IN
        /\ IF pend[s] = NoIp THEN holders = {} ELSE \E t \in Tasks : holders = {t} /\ pend[s] = task[t].ip
        /\ waker[s] \in holders \cup {NoTask}

\* "all waiters wake on the reply" and "a torn write produces a miss, never a
\* wrong MAC": what a resolution returns is a MAC the host has had.
AnswersAreReal ==
    /\ \A t \in Tasks : task[t].pc = "done" => task[t].got \in 1 .. mac[task[t].ip]
    /\ \A c \in Cores : fast[c].ip # NoIp => fast[c].mac \in 1 .. mac[NextHop(fast[c].ip)]
    /\ \A i, j \in DOMAIN cache : cache[i].ip = cache[j].ip => i = j

\* A reply that lands between a resolver's lookups and its park is not lost,
\* a pending slot is claimed by someone who waits, and an answer is an
\* address the host had.
ResolverExact == NoLostReply /\ SlotsAreClaims /\ AnswersAreReal

\* Every resolution ends, with an answer or an error.
ResolutionEnds ==
    \A t \in Tasks : task[t].pc # "idle" ~> task[t].pc \in {"done", "timeout", "overflow", "cancelled"}
=============================================================================
