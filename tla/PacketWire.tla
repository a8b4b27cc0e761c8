---------------------------- MODULE PacketWire ------------------------------
(***************************************************************************)
(* The packets of the network stack and of the userspace network of        *)
(* hvf-runner: building them, parsing them, and their checksums.           *)
(***************************************************************************)
EXTENDS Integers, Sequences, SequencesExt, FiniteSetsExt

(***************************************************************************)
(* The packet formats below the transports (src/crates/net/src): Ethernet, *)
(* IPv4, IPv6, UDP, ICMPv6 and DHCP options, the Internet checksum, the    *)
(* frame layout of the UDP send paths and the classification of a received *)
(* frame.                                                                  *)
(*                                                                         *)
(* A frame is a sequence of cells, each a word below WordMod; a header has *)
(* one cell per field; lengths count cells.  An IPv4 address is one cell,  *)
(* an IPv6 address two: the network half and the interface half.  cfg is   *)
(* CONFIG: a mask is given by the size of the host part, 0 when unset.     *)
(***************************************************************************)
CONSTANTS WordMod,  \* words are below WordMod; the sums fold modulo WordMod
          Mtu,      \* cells of an IP packet (1500 bytes)
          OurMac

Any4 == 0
Broadcast4 == WordMod - 1
Any6 == <<0, 0>>
MacBroadcast == WordMod - 1
MacZero == 0

EthLen == 3
Ipv4Len == 7
Ipv6Len == 8
UdpLen == 4
MaxL2Headroom == EthLen + Ipv6Len + UdpLen
EtherArp == 1
EtherV4 == 2
EtherV6 == 3
IcmpV4 == 1
Tcp == 6
Udp == 17
IcmpV6 == 58

Cells(s, from, n) == SubSeq(s, from + 1, from + n)
Put(s, at, v) == [i \in DOMAIN s |-> IF i > at /\ i <= at + Len(v) THEN v[i - at] ELSE s[i]]

(***************************************************************************)
(* Checksums.                                                              *)
(***************************************************************************)
SumWords(s) == FoldLeft(+, 0, s)

RECURSIVE Fold(_)
Fold(n) == IF n < WordMod THEN n ELSE Fold((n % WordMod) + (n \div WordMod))

Complement(n) == WordMod - 1 - n
InternetChecksum(s) == Complement(Fold(SumWords(s)))

\* sum_words over octets of base r: little-endian pairs, a last odd octet alone.
RECURSIVE SumOctets(_, _)
SumOctets(s, r) == IF s = <<>> THEN 0
                   ELSE IF Len(s) = 1 THEN s[1]
                   ELSE s[1] + r * s[2] + SumOctets(Tail(Tail(s)), r)

\* l4_pseudo_partial: the pseudo header, folded and not complemented.
AddrCells(a) == IF a.v = 4 THEN <<a.ip>> ELSE a.ip
L4PseudoPartial(src, dst, proto, len) ==
    IF src.v # dst.v THEN 0
    ELSE Fold(SumWords(AddrCells(src) \o AddrCells(dst)) + proto + len)

L4ChecksumV6(src, dst, proto, s) ==
    Complement(Fold(SumWords(src \o dst) + Len(s) + proto + SumWords(s)))
(***************************************************************************)
(* Addresses and routing.                                                  *)
(***************************************************************************)
OnLink(ip, cfg) == cfg.mask = 0 \/ ip \div cfg.mask = cfg.ip \div cfg.mask
SameSubnet(ip, cfg) == cfg.mask # 0 /\ OnLink(ip, cfg)

\* next_hop_v4; Any4 stands for NoRoute.
NextHop(dest, cfg) == IF dest = Broadcast4 \/ OnLink(dest, cfg) THEN dest ELSE cfg.gateway

\* The network halves fe80:: and ff02::, and the interface half of a MAC.
LinkLocal == 8
Multicast == 9
AllNodes == <<Multicast, 1>>
AllRouters == <<Multicast, 2>>
Eui64(mac) == mac + 3
LinkLocalFromMac(mac) == <<LinkLocal, Eui64(mac)>>
IsMulticast(a) == a[1] = Multicast
\* Only the low octets of the address are kept: two interfaces may share a group.
SolicitedNode(a) == <<Multicast, 16 + (a[2] % 8)>>
MulticastMac(a) == 64 + a[2]

\* v6_addr_is_ours, with the addresses it reads (global is Any6 before SLAAC).
V6AddrIsOurs(a, ll, global) ==
    \/ a \in {ll, AllNodes, SolicitedNode(ll)}
    \/ global # Any6 /\ a \in {global, SolicitedNode(global)}

(***************************************************************************)
(* Headers.                                                                *)
(***************************************************************************)
EthFillHeader(dst, src, ethertype) == <<dst, src, ethertype>>
EthParse(f) == IF Len(f) < EthLen THEN [ok |-> FALSE]
               ELSE [ok |-> TRUE, src |-> f[2], type |-> f[3], l3 |-> Cells(f, EthLen, Len(f) - EthLen)]

\* version, header cells, total length, protocol, checksum, source, destination
Ipv4FillHeader(src, dst, proto, total) ==
    LET h == <<4, Ipv4Len, total, proto, 0, src, dst>>
    IN [h EXCEPT ![5] = InternetChecksum(h)]
Ipv4Parse(d, cfg) ==
    LET hl == d[2]
        end == Min({d[3], Len(d)})
        dst == d[7]
    IN IF \/ Len(d) < Ipv4Len \/ d[1] # 4 \/ hl < Ipv4Len \/ d[3] < hl \/ hl > Len(d)
          \/ /\ dst # cfg.ip /\ dst # Broadcast4 /\ cfg.ip # Any4
             /\ cfg.mask # 0 /\ dst % cfg.mask # cfg.mask - 1
       THEN [ok |-> FALSE]
       ELSE [ok |-> TRUE, src |-> d[6], dst |-> dst, proto |-> d[4], off |-> hl, len |-> end - hl]

\* version, payload length, next header, hop limit, source, destination
Ipv6FillHeader(src, dst, nh, hop, len) == <<6, len, nh, hop>> \o src \o dst
Ipv6Build(src, dst, nh, hop, payload) ==
    IF Len(payload) > Mtu - Ipv6Len THEN [ok |-> FALSE]
    ELSE [ok |-> TRUE, d |-> Ipv6FillHeader(src, dst, nh, hop, Len(payload)) \o payload]
Ipv6Parse(d) ==
    IF Len(d) < Ipv6Len \/ d[1] # 6 THEN [ok |-> FALSE]
    ELSE [ok |-> TRUE, src |-> Cells(d, 4, 2), dst |-> Cells(d, 6, 2), proto |-> d[3], hop |-> d[4],
          off |-> Ipv6Len, len |-> Min({Ipv6Len + d[2], Len(d)}) - Ipv6Len]

(***************************************************************************)
(* classify: one parse per received frame; the payload is an offset and a  *)
(* length into the frame, and the source MAC is kept only when it is the   *)
(* MAC of the source address.                                              *)
(***************************************************************************)
Parsed(p, v, src, dst, snoop) ==
    [k |-> "ip", proto |-> p.proto, src |-> [v |-> v, ip |-> src], dst |-> [v |-> v, ip |-> dst],
     off |-> EthLen + p.off, len |-> p.len, snoop |-> snoop]
SummarizeIpv4(e, cfg) ==
    LET p == Ipv4Parse(e.l3, cfg)
    IN IF ~p.ok THEN [k |-> "drop"]
       ELSE Parsed(p, 4, p.src, p.dst, IF SameSubnet(p.src, cfg) THEN e.src ELSE MacZero)
SummarizeIpv6(e, ll, global) ==
    LET p == Ipv6Parse(e.l3)
    IN IF ~p.ok THEN [k |-> "drop"]
       ELSE IF ~V6AddrIsOurs(p.dst, ll, global) THEN [k |-> "drop"]
       ELSE Parsed(p, 6, p.src, p.dst, e.src)
Classify(f, cfg, ll, global) ==
    LET e == EthParse(f)
    IN IF ~e.ok THEN [k |-> "drop"]
       ELSE IF e.type = EtherArp THEN [k |-> "arp", off |-> EthLen]
       ELSE IF e.type = EtherV4 THEN SummarizeIpv4(e, cfg)
       ELSE IF e.type = EtherV6 THEN SummarizeIpv6(e, ll, global)
       ELSE [k |-> "drop"]

\* ParsedL3::l4 and the ports owner() hashes; flow_owner is any function of
\* the four, Hash, modulo the cores.
L4(p, f) == Cells(f, p.off, p.len)
Owner(p, f, Hash(_, _, _, _), cores) ==
    LET l4 == L4(p, f)
        ports == IF Len(l4) >= 2 THEN <<l4[1], l4[2]>> ELSE <<0, 0>>
    IN IF p.src.v # p.dst.v THEN 0
       ELSE Hash(AddrCells(p.src), AddrCells(p.dst), ports[1], ports[2]) % cores

(***************************************************************************)
(* UDP: the three send paths.  All fill the headers in place around a      *)
(* payload that was written at MaxL2Headroom; "junk" is what the buffer    *)
(* held before.                                                            *)
(***************************************************************************)
IpHdrLen(dst) == IF dst.v = 4 THEN Ipv4Len ELSE Ipv6Len

FillUdpFrameHeaders(frame, ethOff, dst, dstMac, sport, dport, udpLen, cfg) ==
    LET ihl == IpHdrLen(dst)
        src == IF dst.v = 4 THEN [v |-> 4, ip |-> cfg.ip] ELSE [v |-> 6, ip |-> Any6]
        ipOff == ethOff + EthLen
        udp == <<sport, dport, udpLen, L4PseudoPartial(src, dst, Udp, udpLen)>>
        ip == IF dst.v = 4 THEN Ipv4FillHeader(cfg.ip, dst.ip, Udp, ihl + udpLen)
              ELSE Ipv6FillHeader(Any6, dst.ip, Udp, 64, udpLen)
        eth == EthFillHeader(dstMac, OurMac, IF dst.v = 4 THEN EtherV4 ELSE EtherV6)
    IN Put(Put(Put(frame, ipOff + ihl, udp), ipOff, ip), ethOff, eth)

UdpPayloadFits(n) == n > 0 /\ n <= Mtu - Ipv4Len - UdpLen

\* send_with_l2_headroom: the headers end where the payload starts, and the
\* frame is sent from the first header cell.
SendWithL2Headroom(dst, dstMac, sport, dport, frame, cfg) ==
    LET n == Len(frame) - MaxL2Headroom
        skip == MaxL2Headroom - (EthLen + IpHdrLen(dst) + UdpLen)
        full == FillUdpFrameHeaders(frame, skip, dst, dstMac, sport, dport, UdpLen + n, cfg)
    IN IF ~UdpPayloadFits(n) THEN [ok |-> FALSE]
       ELSE [ok |-> TRUE, f |-> Cells(full, skip, Len(frame) - skip), start |-> EthLen + IpHdrLen(dst)]

\* write_udp_tx_headers: the frame must start at 0, so an IPv4 payload moves down.
WriteUdpTxHeaders(frame, dst, dstMac, sport, dport, n, cfg) ==
    LET room == EthLen + IpHdrLen(dst) + UdpLen
        moved == IF dst.v = 4 THEN Put(frame, room, Cells(frame, MaxL2Headroom, n)) ELSE frame
    IN [f |-> FillUdpFrameHeaders(moved, 0, dst, dstMac, sport, dport, UdpLen + n, cfg),
        len |-> room + n, hdr |-> room, start |-> EthLen + IpHdrLen(dst)]
SendViaTxHandle(dst, dstMac, sport, dport, handle, frameLen, cfg) ==
    LET n == frameLen - MaxL2Headroom
        w == WriteUdpTxHeaders(handle, dst, dstMac, sport, dport, n, cfg)
    IN IF ~UdpPayloadFits(n) THEN [ok |-> FALSE]
       ELSE [ok |-> TRUE, f |-> Cells(w.f, 0, w.len), start |-> w.start]
\* send_udp_gso_via_tx_handle: a burst of segments; the checksum field is
\* zeroed, the device computes every segment's.
SendUdpGso(dst, dstMac, sport, dport, handle, frameLen, gso, cfg) ==
    LET n == frameLen - MaxL2Headroom
        w == WriteUdpTxHeaders(handle, dst, dstMac, sport, dport, n, cfg)
    IN IF n = 0 \/ gso = 0 THEN [ok |-> FALSE]
       ELSE [ok |-> TRUE, f |-> Cells(Put(w.f, w.start + 3, <<0>>), 0, w.len), hdr |-> w.hdr,
             start |-> w.start, gso |-> gso]

\* send_to_addr: copies the data behind the headroom of a stack buffer of
\* FrameBufLen cells.
FrameBufLen == MaxL2Headroom + (Mtu - Ipv6Len - UdpLen)
SendToAddr(dst, dstMac, sport, dport, data, cfg) ==
    IF Len(data) > Mtu - Ipv4Len - UdpLen THEN [ok |-> FALSE]
    ELSE SendWithL2Headroom(dst, dstMac, sport, dport, [i \in 1 .. MaxL2Headroom |-> WordMod - 2] \o data, cfg)
SendToAddrBytes(data) == MaxL2Headroom + Len(data)

\* The device finishing a checksum: it folds from start to the end of the
\* frame and stores the complement at start + offset.
DeviceChecksum(f, start, off) ==
    Put(f, start + off, <<InternetChecksum(Cells(f, start, Len(f) - start))>>)

\* The device's segmentation of a burst: every segment repeats the headers
\* with its own lengths and checksum.
RECURSIVE DeviceSegments(_, _, _, _)
DeviceSegments(s, dst, payload, cfg) ==
    IF payload = <<>> THEN <<>>
    ELSE LET n == Min({s.gso, Len(payload)})
             head == Cells(s.f, 0, s.hdr)
             one == FillUdpFrameHeaders(head \o Cells(payload, 0, n), 0, dst, head[1],
                                        head[s.start + 1], head[s.start + 2], UdpLen + n, cfg)
         IN <<DeviceChecksum(one, s.start, 3)>>
            \o DeviceSegments(s, dst, Cells(payload, n, Len(payload) - n), cfg)

\* udp_receive: the datagram is cut at the header's length.
UdpReceive(seg) ==
    IF Len(seg) < UdpLen THEN [ok |-> FALSE]
    ELSE IF seg[3] < UdpLen \/ seg[3] > Len(seg) THEN [ok |-> FALSE]
    ELSE [ok |-> TRUE, sport |-> seg[1], dport |-> seg[2], body |-> Cells(seg, UdpLen, seg[3] - UdpLen)]

(***************************************************************************)
(* ICMPv6 and neighbour discovery.  A message is a type, a code and a      *)
(* checksum cell, then its body; an option is a whole number of units of   *)
(* OptUnit cells, of which the first two are its type and its units.       *)
(***************************************************************************)
OptUnit == 3
PacketTooBig == 2
EchoRequest == 28
EchoReply == 29
RouterSolicitation == 33
RouterAdvertisement == 34
NeighborSolicitation == 35
NeighborAdvertisement == 36
SourceLla == 1
TargetLla == 2
PrefixInformation == 3
NdHead == 6        \* type, code, checksum, flags, target

Stamped(src, dst, m) == Put(m, 2, <<L4ChecksumV6(src, dst, IcmpV6, m)>>)
BuildEchoReply(src, dst, request) ==
    IF Len(request) < 4 THEN [ok |-> FALSE]
    ELSE [ok |-> TRUE, m |-> Stamped(src, dst, <<EchoReply, 0, 0>> \o Cells(request, 3, Len(request) - 3))]
BuildNeighborAdvertisement(src, dst, target, mac) ==
    Stamped(src, dst, <<NeighborAdvertisement, 0, 0, 96>> \o target \o <<TargetLla, 1, mac>>)
BuildNeighborSolicitation(src, dst, target, mac) ==
    Stamped(src, dst, <<NeighborSolicitation, 0, 0, 0>> \o target \o <<SourceLla, 1, mac>>)
BuildRouterSolicitation(src, dst, mac) ==
    Stamped(src, dst, <<RouterSolicitation, 0, 0, 0>> \o <<SourceLla, 1, mac>>)
VerifyChecksum(src, dst, m) == L4ChecksumV6(src, dst, IcmpV6, m) = 0

\* iter_options: the options up to the first that is malformed.
RECURSIVE IterOptions(_)
IterOptions(b) ==
    IF Len(b) < 2 THEN <<>>
    ELSE IF b[2] = 0 \/ Len(b) < b[2] * OptUnit THEN <<>>
    ELSE <<[ty |-> b[1], body |-> Cells(b, 2, b[2] * OptUnit - 2)]>>
         \o IterOptions(Cells(b, b[2] * OptUnit, Len(b) - b[2] * OptUnit))

FirstOf(s, P(_)) ==
    LET at == {i \in DOMAIN s : P(s[i])}
    IN IF at = {} THEN [ok |-> FALSE] ELSE [ok |-> TRUE, v |-> s[Min(at)]]

\* parse_lla_option walks on while a whole unit is left; on well-formed and
\* on malformed lists it stops where iter_options does.
ParseLla(b, wanted) ==
    LET hit == FirstOf(IterOptions(b), LAMBDA o : o.ty = wanted)
    IN IF hit.ok THEN hit.v.body[1] ELSE MacZero

\* prefix length, flags, prefix: two units.
FindPrefixInfo(b) ==
    LET hit == FirstOf(IterOptions(b), LAMBDA o : o.ty = PrefixInformation /\ Len(o.body) >= 4)
    IN IF ~hit.ok THEN hit
       ELSE [ok |-> TRUE, plen |-> hit.v.body[1], autonomous |-> hit.v.body[2] = 64,
             prefix |-> Cells(hit.v.body, 2, 2)]

ParseNeighborSolicitation(m) ==
    IF Len(m) < NdHead \/ m[1] # NeighborSolicitation THEN [ok |-> FALSE]
    ELSE [ok |-> TRUE, target |-> Cells(m, 4, 2),
          lla |-> ParseLla(Cells(m, NdHead, Len(m) - NdHead), SourceLla)]
ParseRouterAdvertisement(m) ==
    IF Len(m) < 4 \/ m[1] # RouterAdvertisement THEN [ok |-> FALSE]
    ELSE [ok |-> TRUE, options |-> Cells(m, 4, Len(m) - 4)]

\* handle_router_advertisement's derivation: the address an advertisement
\* configures, Any6 when it configures none.
SlaacAddress(m) ==
    LET ra == ParseRouterAdvertisement(m)
        pfx == FindPrefixInfo(ra.options)
    IN IF ~ra.ok THEN Any6
       ELSE IF ~pfx.ok THEN Any6
       ELSE IF ~pfx.autonomous \/ pfx.plen # 64 THEN Any6
       ELSE <<pfx.prefix[1], Eui64(OurMac)>>

EthernetSend(dst, ethertype, payload) ==
    EthFillHeader(dst, OurMac, ethertype) \o Cells(payload, 0, Min({Len(payload), Mtu}))
Ipv6SendToMac(src, dst, mac, nh, hop, payload) ==
    LET b == Ipv6Build(src, dst, nh, hop, payload)
    IN IF b.ok THEN <<EthernetSend(mac, EtherV6, b.d)>> ELSE <<>>
\* ipv6_send: an unknown unicast neighbour is solicited and the packet dropped.
Solicit(src, target) ==
    LET snm == SolicitedNode(target)
        b == Ipv6Build(src, snm, IcmpV6, 255, BuildNeighborSolicitation(src, snm, target, OurMac))
    IN IF OurMac # MacZero /\ b.ok THEN <<EthernetSend(MulticastMac(snm), EtherV6, b.d)>> ELSE <<>>
Ipv6Send(src, dst, known, nh, hop, payload) ==
    IF IsMulticast(dst) THEN Ipv6SendToMac(src, dst, MulticastMac(dst), nh, hop, payload)
    ELSE IF known = MacZero THEN Solicit(src, dst)
    ELSE Ipv6SendToMac(src, dst, known, nh, hop, payload)
SendRouterSolicitation(ll) ==
    Ipv6Send(ll, AllRouters, MacZero, IcmpV6, 255, BuildRouterSolicitation(ll, AllRouters, OurMac))

\* handle_icmpv6: the frames it answers with (path-MTU reports and router
\* advertisements change state instead; see Ipv6Nd and TcpConn).
HandleIcmpv6(src, dst, m, srcMac, ll, global) ==
    LET ns == ParseNeighborSolicitation(m)
        echo == BuildEchoReply(ll, src, m)
    IN IF m = <<>> THEN <<>>
       ELSE IF ~VerifyChecksum(src, dst, m) THEN <<>>
       ELSE IF m[1] = EchoRequest /\ echo.ok
       THEN Ipv6SendToMac(ll, src, srcMac, IcmpV6, 64, echo.m)
       ELSE IF m[1] = NeighborSolicitation /\ ns.ok
       THEN IF ns.target = ll \/ (global # Any6 /\ ns.target = global)
            THEN Ipv6SendToMac(ns.target, src, IF ns.lla # MacZero THEN ns.lla ELSE srcMac, IcmpV6, 255,
                               BuildNeighborAdvertisement(ns.target, src, ns.target, OurMac))
            ELSE <<>>
       ELSE <<>>

(***************************************************************************)
(* DHCP options: code, length, value; 0 pads, 255 (here End) ends.         *)
(***************************************************************************)
Pad == 0
End == 15
OptSubnet == 1
OptRouter == 3
OptDns == 6
OptMsgType == 5
OptServerId == 7

\* An address is AddrLen cells; a shorter value is skipped, of a longer one
\* the first are taken.  Absent is <<>>.
AddrLen == 2
NoOptions == [type |-> 0, subnet |-> <<>>, gateway |-> <<>>, dns |-> <<>>, server |-> <<>>]
TakeOption(o, code, val) ==
    LET a == Cells(val, 0, AddrLen)
    IN IF code = OptMsgType THEN IF val = <<>> THEN o ELSE [o EXCEPT !.type = val[1]]
       ELSE IF Len(val) < AddrLen THEN o
       ELSE IF code = OptSubnet THEN [o EXCEPT !.subnet = a]
       ELSE IF code = OptRouter THEN [o EXCEPT !.gateway = a]
       ELSE IF code = OptDns THEN [o EXCEPT !.dns = a]
       ELSE IF code = OptServerId THEN [o EXCEPT !.server = a]
       ELSE o
RECURSIVE ParseOptionsFrom(_, _)
ParseOptionsFrom(b, o) ==
    IF b = <<>> THEN o
    ELSE IF b[1] = End THEN o
    ELSE IF b[1] = Pad THEN ParseOptionsFrom(Tail(b), o)
    ELSE IF Len(b) < 2 THEN o
    ELSE IF 2 + b[2] > Len(b) THEN o
    ELSE ParseOptionsFrom(Cells(b, 2 + b[2], Len(b) - 2 - b[2]), TakeOption(o, b[1], Cells(b, 2, b[2])))
ParseOptions(b) == ParseOptionsFrom(b, NoOptions)

\* The fixed header: op, xid, yiaddr, cookie; then the options, padded to
\* the size of the smallest BOOTP message.
DhcpHead == 4
Cookie == 9
BuildPayload(xid, tail, least) ==
    LET p == <<1, xid, 0, Cookie>> \o tail
    IN p \o [i \in 1 .. Max({0, least - Len(p)}) |-> 0]
BuildDiscover(xid, least) == BuildPayload(xid, <<OptMsgType, 1, 1, 8, 3, OptSubnet, OptRouter, OptDns, End>>, least)
BuildRequest(xid, ip, server, least) ==
    BuildPayload(xid, <<OptMsgType, 1, 3, 10, AddrLen>> \o ip \o <<OptServerId, AddrLen>> \o server
                      \o <<8, 3, OptSubnet, OptRouter, OptDns, End>>, least)
ValidateHeader(p, xid) ==
    IF Len(p) < DhcpHead THEN [ok |-> FALSE]
    ELSE IF p[1] # 2 \/ p[2] # xid \/ p[4] # Cookie THEN [ok |-> FALSE]
    ELSE [ok |-> TRUE, yiaddr |-> p[3]]

(***************************************************************************)
(* Path-MTU reports: an ICMP error quotes the head of the segment we sent. *)
(* A report is the peer, its port, ours, the sequence number and the MSS   *)
(* the path allows; least is the smallest MTU taken seriously.             *)
(***************************************************************************)
TcpHead == 3
IcmpV4PmtuReport(m, least) ==
    LET ip == Cells(m, 4, Len(m) - 4)
        tcp == Cells(ip, ip[2], Len(ip) - ip[2])
    IN IF Len(m) < 4 + Ipv4Len + TcpHead THEN [ok |-> FALSE]
       ELSE IF m[1] # 3 \/ m[2] # 4 \/ m[4] < least \/ ip[1] # 4 THEN [ok |-> FALSE]
       ELSE IF ip[2] < Ipv4Len \/ Len(ip) < ip[2] + TcpHead \/ ip[4] # Tcp THEN [ok |-> FALSE]
       ELSE [ok |-> TRUE, peer |-> [v |-> 4, ip |-> ip[7]], rport |-> tcp[2], lport |-> tcp[1],
             seq |-> tcp[3], mss |-> Max({0, m[4] - Ipv4Len - TcpHead})]
IcmpV6PtbReport(m, least) ==
    LET ip == Cells(m, 4, Len(m) - 4)
        tcp == Cells(ip, Ipv6Len, Len(ip) - Ipv6Len)
    IN IF Len(m) < 4 + Ipv6Len + TcpHead THEN [ok |-> FALSE]
       ELSE IF m[1] # PacketTooBig \/ m[4] < least THEN [ok |-> FALSE]
       ELSE IF ip[1] # 6 \/ ip[3] # Tcp THEN [ok |-> FALSE]
       ELSE [ok |-> TRUE, peer |-> [v |-> 6, ip |-> Cells(ip, 6, 2)], rport |-> tcp[2], lport |-> tcp[1],
             seq |-> tcp[3], mss |-> Max({0, m[4] - Ipv6Len - TcpHead})]

(***************************************************************************)
(* The NDP cache, filled from received packets only: entries in slot order *)
(* and the slot to evict next.                                             *)
(***************************************************************************)
EmptyNdp == [entries |-> <<>>, next |-> 1]
NdpSlot(c, ip) == {i \in DOMAIN c.entries : c.entries[i].ip = ip}
NdpResolve(c, ip) == IF IsMulticast(ip) \/ NdpSlot(c, ip) = {} THEN MacZero
                     ELSE c.entries[Min(NdpSlot(c, ip))].mac
NdpUpdate(c, size, ip, mac) ==
    LET e == [ip |-> ip, mac |-> mac] IN
    IF NdpSlot(c, ip) # {} THEN [c EXCEPT !.entries[Min(NdpSlot(c, ip))] = e]
    ELSE IF Len(c.entries) < size THEN [c EXCEPT !.entries = Append(@, e)]
    ELSE [entries |-> [c.entries EXCEPT ![c.next] = e], next |-> (c.next % size) + 1]
NdpLearn(c, size, ip, mac) == IF ip = Any6 \/ IsMulticast(ip) THEN c ELSE NdpUpdate(c, size, ip, mac)

-----------------------------------------------------------------------------
(***************************************************************************)
(* The frames the runner's userspace network writes into the guest's       *)
(* receive ring, and its answers to ARP, neighbour discovery, echo and     *)
(* DHCP.  Cells and addresses are those of PacketWire, whose parsers are   *)
(* the guest's; a frame starts with one cell of virtio-net header.         *)
(***************************************************************************)
CONSTANTS MaxReplyFrame   \* cells of a TxFrame (600 bytes)

NetHdr == 1
GwMac == 7
GuestMac == OurMac
GwIp == 2
VmIp == 1
DnsIp == 3
GwIp6 == <<LinkLocal, GwMac + 3>>
VmIp6 == <<LinkLocal, GuestMac + 3>>
TcpLen == 6      \* ports, sequence, acknowledgement, flags, checksum

\* IpAddrPair: the family, the source and the destination of a frame.
Pair4(src, dst) == [v |-> 4, src |-> src, dst |-> dst]
Pair6(src, dst) == [v |-> 6, src |-> src, dst |-> dst]
ip_hdr_len(p) == IF p.v = 4 THEN Ipv4Len ELSE Ipv6Len
ethertype(p) == IF p.v = 4 THEN EtherV4 ELSE EtherV6
write_ip_header(p, len) ==
    IF p.v = 4
    THEN LET h == <<4, Ipv4Len, Ipv4Len + len, Tcp, 0, p.src, p.dst>>
         IN  [h EXCEPT ![5] = InternetChecksum(h)]
    ELSE <<6, len, Tcp, 64>> \o p.src \o p.dst

\* Sums of big-endian words, the last odd octet padded, folded and inverted;
\* udp_checksum sends 0 as all ones.
PseudoSum(p, proto, seg) ==
    Fold(SumWords(AddrCells([v |-> p.v, ip |-> p.src]) \o AddrCells([v |-> p.v, ip |-> p.dst]))
         + proto + Len(seg) + SumWords(seg))
tcp_checksum(p, seg) == Complement(PseudoSum(p, Tcp, seg))
ipv6_pseudo_checksum(src, dst, nh, seg) == Complement(PseudoSum(Pair6(src, dst), nh, seg))
udp_checksum(p, seg) ==
    LET r == Complement(PseudoSum(p, Udp, seg)) IN IF r = 0 THEN WordMod - 1 ELSE r

write_tcp_header(t) == <<t.sport, t.dport, t.seq, t.ack, t.flags, 0>>

Prefix(mac, type) == <<0>> \o EthFillHeader(mac, GwMac, type)

write_tcp_headers_only(mac, p, t, tcpLen) ==
    Prefix(mac, ethertype(p)) \o write_ip_header(p, tcpLen) \o write_tcp_header(t)

\* The whole frame built in a scratch buffer.
write_tcp_frame(mac, p, t, payload) ==
    LET seg == write_tcp_header(t) \o payload
        sum == tcp_checksum(p, seg)
    IN  Prefix(mac, ethertype(p)) \o write_ip_header(p, Len(seg)) \o Put(seg, 5, <<sum>>)

\* The headers written around a payload that read(2) left in the guest's
\* buffer, behind room for them.
write_tcp_frame_around_payload(buf, mac, p, t, n) ==
    LET start == NetHdr + EthLen + ip_hdr_len(p)
        b == Put(buf, 0, write_tcp_headers_only(mac, p, t, TcpLen + n))
        seg == Cells(b, start, TcpLen + n)
    IN  Cells(Put(b, start + 5, <<tcp_checksum(p, seg)>>), 0, start + TcpLen + n)

\* A fixed reply frame; writing past its end is a panic.
Fixed(f) == [ok |-> Len(f) <= MaxReplyFrame, f |-> f]
build_tcp_reply(v, t, payload) ==
    Fixed(write_tcp_frame(GuestMac, IF v = 4 THEN Pair4(GwIp, VmIp) ELSE Pair6(GwIp6, VmIp6), t, payload))

build_udp_frame_v4(mac, src, dst, sport, dport, payload) ==
    LET len == UdpLen + Len(payload)
        seg == <<sport, dport, len, 0>> \o payload
    IN  Prefix(mac, EtherV4) \o Ipv4FillHeader(src, dst, Udp, Ipv4Len + len)
        \o Put(seg, 3, <<udp_checksum(Pair4(src, dst), seg)>>)
build_udp_frame_v6(mac, src, dst, sport, dport, payload) ==
    LET len == UdpLen + Len(payload)
        seg == <<sport, dport, len, 0>> \o payload
    IN  Prefix(mac, EtherV6) \o <<6, len, Udp, 64>> \o src \o dst
        \o Put(seg, 3, <<ipv6_pseudo_checksum(src, dst, Udp, seg)>>)
build_udp_frame_in(src, sport, dport, payload) ==
    Fixed(build_udp_frame_v4(GuestMac, src, VmIp, sport, dport, payload))

\* build_ipv6_frame gives up (an empty frame) when the reply would not fit.
build_ipv6_frame(mac, src, dst, nh, hop, payload) ==
    LET f == Prefix(mac, EtherV6) \o Ipv6FillHeader(src, dst, nh, hop, Len(payload)) \o payload
    IN  IF Len(f) > MaxReplyFrame THEN <<>> ELSE f

reply_neighbor_solicitation(src, ns, mac) ==
    LET na == <<NeighborAdvertisement, 0, 0, 96>> \o GwIp6 \o <<TargetLla, 1, GwMac>>
        sum == ipv6_pseudo_checksum(GwIp6, src, IcmpV6, na)
    IN  IF Len(ns) < NdHead THEN <<>>
        ELSE IF Cells(ns, 4, 2) # GwIp6 THEN <<>>
        ELSE build_ipv6_frame(mac, GwIp6, src, IcmpV6, 255, Put(na, 2, <<sum>>))

bounce_icmpv6_echo(src, req, mac) ==
    LET reply == Put(req, 0, <<EchoReply, 0, 0>>)
        sum == ipv6_pseudo_checksum(GwIp6, src, IcmpV6, reply)
    IN  IF Len(req) < 4 THEN <<>>
        ELSE build_ipv6_frame(mac, GwIp6, src, IcmpV6, 64, Put(reply, 2, <<sum>>))

\* ARP cells: operation, sender MAC and address, target MAC and address.
handle_arp(arp) ==
    IF Len(arp) < 5 THEN <<>>
    ELSE IF arp[1] # 1 \/ arp[5] # GwIp THEN <<>>
    ELSE Prefix(arp[2], EtherArp) \o <<2, GwMac, GwIp, arp[2], arp[3]>>
build_grat_arp_frame(mac) == Prefix(MacBroadcast, EtherArp) \o <<2, GwMac, GwIp, mac, GwIp>>

\* DHCP: the last message-type option decides; the reply's cells are those of
\* PacketWire's ValidateHeader, its UDP checksum left 0.
RECURSIVE DhcpType(_, _)
DhcpType(b, type) ==
    IF b = <<>> \/ b[1] = End THEN type
    ELSE IF b[1] = Pad THEN DhcpType(Tail(b), type)
    ELSE IF Len(b) < 2 THEN type
    ELSE IF 2 + b[2] > Len(b) THEN type
    ELSE DhcpType(Cells(b, 2 + b[2], Len(b) - 2 - b[2]),
                  IF b[1] = OptMsgType /\ b[2] >= 1 THEN b[3] ELSE type)
OptLease == 11
Addr(ip) == <<0, ip>>
handle_dhcp(bootp) ==
    LET type == DhcpType(Cells(bootp, DhcpHead, Len(bootp) - DhcpHead), 0)
        opts == <<OptMsgType, 1, IF type = 1 THEN 2 ELSE 5, OptServerId, AddrLen>> \o Addr(GwIp)
                \o <<OptLease, AddrLen, 1, 1, OptSubnet, AddrLen, 4, 0, OptRouter, AddrLen>> \o Addr(GwIp)
                \o <<OptDns, AddrLen>> \o Addr(DnsIp) \o <<End>>
        body == <<2, bootp[2], VmIp, Cookie>> \o opts
        len == UdpLen + Len(body)
    IN  IF Len(bootp) < DhcpHead THEN <<>>
        ELSE IF type \notin {1, 3} THEN <<>>
        ELSE Prefix(MacBroadcast, EtherV4) \o Ipv4FillHeader(GwIp, Broadcast4, Udp, Ipv4Len + len)
             \o <<67, 68, len, 0>> \o body

handle_ipv6(ip, mac) ==
    LET p == Ipv6Parse(ip)
        m == Cells(ip, Ipv6Len, ip[2])
    IN  IF Len(ip) < Ipv6Len THEN <<>>
        ELSE IF Ipv6Len + ip[2] > Len(ip) \/ ip[3] # IcmpV6 \/ m = <<>> THEN <<>>
        ELSE IF m[1] = EchoRequest THEN bounce_icmpv6_echo(p.src, m, mac)
        ELSE IF m[1] = NeighborSolicitation THEN reply_neighbor_solicitation(p.src, m, mac)
        ELSE <<>>
handle_ipv4(ip) ==
    IF Len(ip) < Ipv4Len \/ ip[4] # Udp THEN <<>>
    ELSE LET seg == Cells(ip, ip[2], Len(ip) - ip[2])
         IN  IF Len(seg) < UdpLen THEN <<>>
             ELSE IF seg[1] = 68 /\ seg[2] = 67 THEN handle_dhcp(Cells(seg, UdpLen, Len(seg) - UdpLen))
             ELSE <<>>

\* The frame a guest's frame is answered with at once; TCP and relayed UDP are
\* in HvfProxy and HvfUdp.
handle_guest_tx(f) ==
    LET l3 == Cells(f, EthLen, Len(f) - EthLen)
    IN  IF Len(f) < EthLen THEN <<>>
        ELSE IF f[3] = EtherArp THEN handle_arp(l3)
        ELSE IF f[3] = EtherV4 THEN handle_ipv4(l3)
        ELSE IF f[3] = EtherV6 THEN handle_ipv6(l3, f[2])
        ELSE <<>>
=============================================================================
