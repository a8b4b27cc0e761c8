----------------------------- MODULE Addresses ------------------------------
(***************************************************************************)
(* How an interface gets its addresses: the DHCP client, and SLAAC with its*)
(* router advertisements.  The two machines are independent.               *)
(***************************************************************************)
EXTENDS Integers, FiniteSets, Sequences

(***************************************************************************)
(* Bringing the network up over DHCP (src/crates/net/src/dhcp.rs,          *)
(* types.rs ConfigStore): discover() on one core, handle_reply on whichever*)
(* worker a reply lands on, the lease they share behind a lock, the two    *)
(* events between them, and the configuration that every core reads field  *)
(* by field.  Servers, which are outside, may answer, refuse or stay       *)
(* silent; replies are lost, delayed, reordered and may come twice.        *)
(*                                                                         *)
(* A server's lease is its name: ip, mask and gateway of one configuration *)
(* are right together when they name one server.                           *)
(***************************************************************************)
CONSTANTS Workers, Servers,
          Attempts,          \* sends per phase (5)
          Rounds,            \* calls of discover()
          BareAcks,          \* whether a server's ACK may leave out the options
          MayDup, NetCap     \* replies in flight

Any == "any"          \* an address not set
VARIABLES pc, left, round,
          xid,                   \* DHCP_STATE
          lease,                 \*   offered_ip, offered_subnet and gateway, server_ip
          offerReady, ackReady,
          bound,                 \* port 68 is ours
          handler,               \* per worker: the reply in handle_reply and how far it is
          config,                \* CONFIG: ip, mask and gateway words
          taken,                 \* net_config, read by discover()
          net,                   \* replies in flight
          reqs,                  \* broadcasts in flight
          acked                  \* the servers that acknowledged, per transaction

dhcpVars == <<pc, left, round, xid, lease, offerReady, ackReady, bound, handler, config, taken, net, reqs, acked>>

NoLease == [ip |-> Any, opts |-> Any, server |-> Any]
NoConfig == [ip |-> Any, mask |-> Any, gateway |-> Any]
Nothing == [at |-> "idle", m |-> [type |-> "none", xid |-> 0, server |-> Any, opts |-> Any]]

DhcpInit == /\ pc = "start" /\ left = 0 /\ round = 0 /\ xid = 0 /\ lease = NoLease
            /\ offerReady = FALSE /\ ackReady = FALSE /\ bound = FALSE
            /\ handler = [w \in Workers |-> Nothing]
            /\ config = NoConfig /\ taken = NoLease /\ net = {} /\ reqs = {} /\ acked = {}

(***************************************************************************)
(* discover().                                                             *)
(***************************************************************************)
\* Bind port 68, start the receive tasks, take a new transaction id and
\* clear the events.  A worker may be in the middle of an older reply.
Discover == /\ pc = "start" /\ round < Rounds
            /\ round' = round + 1 /\ bound' = TRUE /\ xid' = xid + 1 /\ pc' = "reset"
            /\ UNCHANGED <<left, lease, offerReady, ackReady, handler, config, taken, net, reqs, acked>>
Reset == /\ pc = "reset"
         /\ offerReady' = FALSE /\ ackReady' = FALSE /\ left' = Attempts /\ pc' = "discover"
         /\ UNCHANGED <<round, xid, lease, bound, handler, config, taken, net, reqs, acked>>
SendDiscover == /\ pc = "discover"
                /\ reqs' = reqs \cup {[type |-> "DISCOVER", xid |-> xid, server |-> Any]}
                /\ pc' = "offer" /\ left' = left - 1
                /\ UNCHANGED <<round, xid, lease, offerReady, ackReady, bound, handler, config, taken, net, acked>>
\* build_request reads the lease as it is now.
SendRequest == /\ pc = "request"
               /\ reqs' = reqs \cup {[type |-> "REQUEST", xid |-> xid, server |-> lease.server]}
               /\ pc' = "ack" /\ left' = left - 1
               /\ UNCHANGED <<round, xid, lease, offerReady, ackReady, bound, handler, config, taken, net, acked>>
\* The event, or two seconds.
Offered == /\ pc = "offer" /\ offerReady
           /\ pc' = "request" /\ left' = Attempts
           /\ UNCHANGED <<round, xid, lease, offerReady, ackReady, bound, handler, config, taken, net, reqs, acked>>
Acknowledged == /\ pc = "ack" /\ ackReady
                /\ pc' = "read"
                /\ UNCHANGED <<left, round, xid, lease, offerReady, ackReady, bound, handler, config, taken, net, reqs, acked>>
Expires == /\ \/ pc = "offer" /\ ~offerReady /\ pc' = (IF left > 0 THEN "discover" ELSE "failed")
              \/ pc = "ack" /\ ~ackReady /\ pc' = (IF left > 0 THEN "request" ELSE "failed")
           /\ UNCHANGED <<left, round, xid, lease, offerReady, ackReady, bound, handler, config, taken, net, reqs, acked>>
\* net_config, under the lock; then CONFIG.store, word by word.
ReadLease == /\ pc = "read" /\ taken' = lease /\ pc' = "ip"
             /\ UNCHANGED <<left, round, xid, lease, offerReady, ackReady, bound, handler, config, net, reqs, acked>>
StoreIp == /\ pc = "ip" /\ config' = [config EXCEPT !.ip = taken.ip] /\ pc' = "mask"
           /\ UNCHANGED <<left, round, xid, lease, offerReady, ackReady, bound, handler, taken, net, reqs, acked>>
StoreMask == /\ pc = "mask" /\ config' = [config EXCEPT !.mask = taken.opts] /\ pc' = "gateway"
             /\ UNCHANGED <<left, round, xid, lease, offerReady, ackReady, bound, handler, taken, net, reqs, acked>>
StoreGateway == /\ pc = "gateway" /\ config' = [config EXCEPT !.gateway = taken.opts] /\ pc' = "ok"
                /\ UNCHANGED <<left, round, xid, lease, offerReady, ackReady, bound, handler, taken, net, reqs, acked>>
\* Returning drops the socket: the receive tasks are aborted, the port freed.
\* After a failure the caller may try again.
Return == /\ pc \in {"ok", "failed"} /\ bound
          /\ bound' = FALSE /\ pc' = IF pc = "failed" THEN "start" ELSE "ok"
          /\ UNCHANGED <<left, round, xid, lease, offerReady, ackReady, handler, config, taken, net, reqs, acked>>

(***************************************************************************)
(* handle_reply: check the id, parse, update the lease, signal.            *)
(***************************************************************************)
Receive(w, m) ==
    /\ bound /\ handler[w].at = "idle" /\ m \in net
    /\ \/ net' = net \ {m}
       \/ MayDup /\ net' = net
    /\ handler' = IF m.xid = xid THEN [handler EXCEPT ![w] = [at |-> "update", m |-> m]] ELSE handler
    /\ UNCHANGED <<pc, left, round, xid, lease, offerReady, ackReady, bound, config, taken, reqs, acked>>
UpdateLease(w) ==
    LET m == handler[w].m IN
    /\ handler[w].at = "update"
    /\ lease' = CASE m.type = "OFFER" -> [ip |-> m.server, opts |-> m.opts, server |-> m.server]
                  [] m.type = "ACK" -> [lease EXCEPT !.ip = m.server, !.opts = IF m.opts = Any THEN @ ELSE m.opts]
                  [] OTHER -> lease
    /\ handler' = [handler EXCEPT ![w].at = "signal"]
    /\ UNCHANGED <<pc, left, round, xid, offerReady, ackReady, bound, config, taken, net, reqs, acked>>
Signal(w) ==
    LET m == handler[w].m IN
    /\ handler[w].at = "signal"
    /\ offerReady' = (offerReady \/ m.type = "OFFER")
    /\ ackReady' = (ackReady \/ m.type = "ACK")
    /\ handler' = [handler EXCEPT ![w] = Nothing]
    /\ UNCHANGED <<pc, left, round, xid, lease, bound, config, taken, net, reqs, acked>>

(***************************************************************************)
(* Servers (external) and the network.                                     *)
(***************************************************************************)
Say(m) == net' = net \cup {m} /\ Cardinality(net') <= NetCap
Answer(s, r) ==
    LET Reply(type, opts) == [type |-> type, xid |-> r.xid, server |-> s, opts |-> opts] IN
    /\ r \in reqs
    /\ \/ r.type = "DISCOVER" /\ Say(Reply("OFFER", s)) /\ UNCHANGED acked
       \/ /\ r.type = "REQUEST" /\ r.server = s
          /\ Say(Reply("ACK", s)) /\ acked' = acked \cup {<<r.xid, s>>}
       \/ /\ BareAcks /\ r.type = "REQUEST" /\ r.server = s
          /\ Say(Reply("ACK", Any)) /\ acked' = acked \cup {<<r.xid, s>>}
       \/ r.type = "REQUEST" /\ r.server = s /\ Say(Reply("NAK", Any)) /\ UNCHANGED acked
    /\ UNCHANGED <<pc, left, round, xid, lease, offerReady, ackReady, bound, handler, config, taken, reqs>>
Lose == /\ \/ \E m \in net : net' = net \ {m} /\ UNCHANGED reqs
           \/ \E r \in reqs : reqs' = reqs \ {r} /\ UNCHANGED net
        /\ UNCHANGED <<pc, left, round, xid, lease, offerReady, ackReady, bound, handler, config, taken, acked>>

DhcpNext == \/ Discover \/ Reset \/ SendDiscover \/ SendRequest \/ Offered \/ Acknowledged \/ Expires
            \/ ReadLease \/ StoreIp \/ StoreMask \/ StoreGateway \/ Return
            \/ \E w \in Workers : UpdateLease(w) \/ Signal(w) \/ \E m \in net : Receive(w, m)
            \/ \E s \in Servers, r \in reqs : Answer(s, r)
            \/ Lose

-----------------------------------------------------------------------------
\* When discover() succeeds the configuration is one a server acknowledged
\* in this transaction, its mask and gateway included.
ConfigIsAcked ==
    pc = "ok" => /\ <<xid, config.ip>> \in acked
                 /\ config.mask = config.ip /\ config.gateway = config.ip

\* "all reads happen long after that init completes" (types.rs:282-286):
\* a core that routes while the configuration is being stored uses none of
\* it or all of it.
ConfigWhole == Cardinality({config.ip, config.mask, config.gateway}) = 1

-----------------------------------------------------------------------------
(***************************************************************************)
(* The IPv6 addresses of the machine (src/crates/net/stack/src/ipv6_nd.rs):*)
(* two arrays of bytes that every core reads and one flag for each.  The   *)
(* link-local address is written once by init(), the global address by the *)
(* first Router Advertisement that carries a usable prefix, on whichever   *)
(* core that advertisement was delivered.  Both flags are set BEFORE the   *)
(* bytes are stored, so a core may read an address half written.           *)
(*                                                                         *)
(* An address is <<prefix, interface>>: the sixteen bytes are two words,   *)
(* stored and loaded one at a time in the order of the code's loops.       *)
(***************************************************************************)
CONSTANTS Cores,
          Prefixes,  \* the prefixes routers of the link advertise
          Frames     \* Router Advertisements that arrive

LinkPrefix == "fe80"
Iid == "iid"             \* our interface identifier, from the MAC
Zero == "0"              \* bytes not written yet
Unspecified == <<Zero, Zero>>

VARIABLES initialized,  \* IPV6_INITIALIZED
          ll,           \* IPV6_LL_OCTETS
          globalSet,    \* IPV6_GLOBAL_SET
          global,       \* IPV6_GLOBAL_OCTETS
          writer,       \* per core: the address it is storing and the word it is at
          reader        \* per core: v6_addr_is_ours(want) in progress
slaacVars == <<initialized, ll, globalSet, global, writer, reader, left>>

NotWriting == [what |-> "none", addr |-> Unspecified, at |-> 1]
NotReading == [want |-> Unspecified, pc |-> "idle", seen |-> Unspecified]

SlaacInit == /\ initialized = FALSE /\ ll = Unspecified /\ globalSet = FALSE /\ global = Unspecified
             /\ writer = [c \in Cores |-> NotWriting]
             /\ reader = [c \in Cores |-> NotReading] /\ left = Frames

Free(c) == writer[c].what = "none" /\ reader[c].pc = "idle"

\* init(): one core wins the flag, computes the link-local address and
\* stores it.
InitAddr(c) == /\ Free(c) /\ ~initialized
               /\ initialized' = TRUE
               /\ writer' = [writer EXCEPT ![c] = [what |-> "ll", addr |-> <<LinkPrefix, Iid>>, at |-> 1]]
               /\ UNCHANGED <<ll, globalSet, global, reader, left>>

\* handle_router_advertisement with a /64 prefix that is autonomous: the
\* first one takes the flag, the others return.
HandleRouterAdvertisement(c, p) ==
    /\ Free(c) /\ left > 0 /\ left' = left - 1
    /\ globalSet' = TRUE
    /\ writer' = IF globalSet THEN writer
                 ELSE [writer EXCEPT ![c] = [what |-> "global", addr |-> <<p, Iid>>, at |-> 1]]
    /\ UNCHANGED <<initialized, ll, global, reader>>

\* One word of the store loop.
StoreWord(c) ==
    LET w == writer[c] IN
    /\ w.what # "none"
    /\ IF w.what = "ll" THEN ll' = [ll EXCEPT ![w.at] = w.addr[w.at]] /\ UNCHANGED global
                        ELSE global' = [global EXCEPT ![w.at] = w.addr[w.at]] /\ UNCHANGED ll
    /\ writer' = [writer EXCEPT ![c] = IF w.at = 2 THEN NotWriting ELSE [w EXCEPT !.at = 2]]
    /\ UNCHANGED <<initialized, globalSet, reader, left>>

\* v6_addr_is_ours: ipv6_ll(), then ipv6_global() when the flag is set, a
\* word at a time.  A frame for one of our addresses arrives.
Ask(c, a) == /\ Free(c)
             /\ reader' = [reader EXCEPT ![c] = [want |-> a, pc |-> "ll1", seen |-> Unspecified]]
             /\ UNCHANGED <<initialized, ll, globalSet, global, writer, left>>
ReadWord(c) ==
    LET r == reader[c]
        Word(a, i, to) == [r EXCEPT !.seen[i] = a[i], !.pc = to]
    IN
    /\ reader' = [reader EXCEPT ![c] =
         CASE r.pc = "ll1" -> Word(ll, 1, "ll2")
           [] r.pc = "ll2" -> LET q == Word(ll, 2, "flag") IN IF q.seen = r.want THEN [q EXCEPT !.pc = "yes"] ELSE q
           [] r.pc = "flag" -> [r EXCEPT !.pc = IF globalSet THEN "g1" ELSE "no"]
           [] r.pc = "g1" -> Word(global, 1, "g2")
           [] r.pc = "g2" -> LET q == Word(global, 2, "no") IN IF q.seen = r.want THEN [q EXCEPT !.pc = "yes"] ELSE q
           [] OTHER -> NotReading]
    /\ r.pc # "idle"
    /\ UNCHANGED <<initialized, ll, globalSet, global, writer, left>>

Addresses == {<<LinkPrefix, Iid>>, <<LinkPrefix, Zero>>} \cup (Prefixes \X {Iid, Zero})
SlaacNext == \E c \in Cores : \/ InitAddr(c) \/ StoreWord(c) \/ ReadWord(c)
                              \/ \E p \in Prefixes : HandleRouterAdvertisement(c, p)
                              \/ \E a \in Addresses : Ask(c, a)
SlaacSpec == SlaacInit /\ [][SlaacNext]_slaacVars

----------------------------------------------------------------------------
\* An address that is not being stored is whole: never the prefix of one
\* router with the bytes of another's, and never written a second time, with
\* advertisements of several routers handled on several cores at once.
AddressIsWhole ==
    /\ (\A c \in Cores : writer[c].what # "global") => global \in {Unspecified} \cup (Prefixes \X {Iid})
    /\ (\A c \in Cores : writer[c].what # "ll") => ll \in {Unspecified, <<LinkPrefix, Iid>>}
    /\ \A c, d \in Cores : writer[c].what = writer[d].what /\ c # d => writer[c].what = "none"
\* Once an address has been stored it stays: a frame addressed to it is ours
\* on every core from then on, whatever routers advertise later.
AddressIsKept == [][(global \in Prefixes \X {Iid}) => global' = global]_slaacVars

\* v6_addr_is_ours accepts "(once SLAAC has completed) the global unicast"
\* (ipv6_nd.rs:180-185), never an address that is neither the old nor the new
\* one.  Violated while an address is being stored word by word.
AcceptsOnlyOurs == \A c \in Cores : reader[c].pc = "yes" => reader[c].want[2] = Iid
=============================================================================
