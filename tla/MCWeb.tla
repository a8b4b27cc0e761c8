------------------------------- MODULE MCWeb -------------------------------
(***************************************************************************)
(* The servers of the web protocols, each part on an instance of its own:  *)
(* an HTTP/2 server against an arbitrary client and against the project's  *)
(* own, TLS sessions and the store of ticket keys; and the codecs, one case*)
(* a state.  A behaviour runs the part `part` names.                       *)
(***************************************************************************)
EXTENDS Integers, Sequences, FiniteSets, SequencesExt

VARIABLE x  \* the codec case of a state

Q == INSTANCE QuicWire WITH ByteBits <- 6, MaxCidLen <- 2, Version <- <<0, 0, 0, 1>>, MaxFixed <- 2

\* Values on both sides of every varint boundary of a 6-bit byte.
Ints == {0, 7, 15, 16, 63, 1023, 1024, 4194303, 4194304}
Bytes == {<<>>, <<5>>, <<63, 16>>}
Cids == {<<>>, <<9>>, <<1, 63>>}

QuicFrames ==
    {[k |-> k] : k \in {"padding", "ping", "done"}}
    \cup [k : {"maxdata"}, max : Ints]
    \cup [k : {"maxstreamdata"}, sid : Ints, max : Ints]
    \cup [k : {"reset"}, sid : {0, 16}, code : Ints, final : Ints]
    \cup [k : {"stop"}, sid : Ints, code : Ints]
    \cup [k : {"crypto"}, off : Ints, data : Bytes]
    \cup [k : {"stream"}, sid : {3, 16}, off : Ints, data : Bytes, fin : BOOLEAN]
    \cup [k : {"close"}, code : Ints, frame : {0, 6}, reason : Bytes]
    \cup [k : {"ack"}, largest : {9, 1024}, delay : {0, 16}, first : {0, 63}, ecn : {<<>>},
          more : {<<>>, <<<<0, 1>>>>, <<<<16, 0>>, <<1, 1024>>>>}]
    \cup [k : {"skipped"}, kind : {18, 19, 27}]

QuicHeaders ==
    [type : {0, 1, 2}, dcid : Cids, scid : Cids, token : {<<>>, <<4, 4>>}, length : {15, 16, 1024}]

QuicParams ==
    {[id \in Q!VarintParams \cup Q!CidParams |->
        IF id \in Q!CidParams THEN c ELSE IF id = 10 THEN 3 ELSE IF id = 11 THEN 25
        ELSE IF id = 4 THEN a ELSE b] : a \in Ints, b \in Ints, c \in Cids}

\* The key stream of the AES-GCM model, which works over GF(2^8) with batches of
\* three blocks and a three-bit counter.
KeyStream(c) == {(3 * c + i) % 8 : i \in 0 .. (c % 4)}
Polys == {{}, {0}, {7}, {0, 3, 4, 7}, {1, 2, 5}, {3, 6}, 0 .. 7}
\* A message of n blocks, every one of them different from its neighbours,
\* and a partial block of the first bits of `mask'.
Message(n, seed, mask) ==
    [blocks |-> [i \in 1 .. n |-> {(seed + i * i) % 8, (seed + 3 * i) % 8}],
     rest |-> {(seed + 1) % 8, 7} \cap mask, mask |-> mask]

\* Header compression with the code of RFC 7541 and tables of a few fields
\* whose sizes differ: the dynamic table holds one to three of them, and the
\* list of fields has room for four.
A == <<<<97>>, <<49>>>>
B == <<<<98, 98>>, <<50>>>>
C == <<<<99>>, <<51, 51, 51>>>>
Upper == <<<<65>>, <<49>>>>
HpStatic == <<A, <<<<97>>, <<>>>>, B>>
Reps == [k : {"insert", "plain"}, f : {B, C}, i : {0}]
        \cup [k : {"insert"}, f : {C}, i : {3, 4, 5}]
        \cup [k : {"indexed"}, i : {1, 4, 5, 6}] \cup [k : {"size"}, max : {0, 5, 11}]

\* TLS messages with two-byte keys; psks is how many tickets an external
\* client offers.
T == INSTANCE TlsWire WITH KeyLen <- 2, MaxSid <- 2, MaxPsks <- 2, K <- 8, Taps <- {4, 5, 7}, BatchBlocks <- 3, CtrMod <- 8
H2 == <<104, 50>>
H11 == <<104, 49>>
Psk(n) == LET ids == FlattenSeq([i \in 1 .. n |-> T!Vector(2, <<i, i>>) \o <<0, 0, 0, i>>])
              binds == FlattenSeq([i \in 1 .. n |-> T!Vector(1, <<8, i>>)])
          IN [head |-> T!Vector(2, ids), binds |-> T!Vector(2, binds)]
TlsHello(h) ==
    [random |-> <<1, 2>>, sid |-> h.sid, pub |-> <<3, 4>>, name |-> h.name, alpn |-> h.alpn,
     extras |-> IF h.psks = 0 THEN <<>>
                ELSE <<<<45, <<1, 1>>>>, <<41, Psk(h.psks).head \o Psk(h.psks).binds>>>>]

\* HTTP/1.1 has slots of a few cells and room for four request headers.
W == INSTANCE HttpWire WITH Static <- HpStatic, EntryOverhead <- 2, HardMax <- 11, MaxList <- 16,
         ScratchLen <- 3, MaxShift <- 14, MethodCap <- 1, PathCap <- 2, NameCap <- 1, ValueCap <- 3, MaxHeaders <- 4,
         MaxHead <- 45, MaxStatusLine <- 12, MaxHeaderBytes <- 40, MaxResponseHeaders <- 5,
         MaxChunk <- 20, MaxHexDigits <- 2, MaxExt <- 2, MaxTrailer <- 12
Payload(n) == [i \in 1 .. n |-> IF i % 3 = 0 THEN "CR" ELSE IF i % 3 = 1 THEN "0" ELSE "LF"]
H1Headers == {<<>>, <<[n |-> <<"X-Tag">>, v |-> <<"a">>]>>,
              <<[n |-> <<"X-Tag">>, v |-> <<>>], [n |-> <<"X-Long">>, v |-> <<"a", "SP", "b", "b">>]>>}
Hex(n) == IF n < 10 THEN <<ToString(n)>> ELSE IF n = 16 THEN <<"1", "0">> ELSE <<"a">>
\* The chunked coding of an external server: a body in chunks of n bytes.
RECURSIVE ChunkedBody(_, _)
ChunkedBody(ns, ext) ==
    IF ns = <<>> THEN <<"0">> \o ext \o W!Crlf
    ELSE Hex(Head(ns)) \o ext \o W!Crlf \o Payload(Head(ns)) \o W!Crlf \o ChunkedBody(Tail(ns), ext)

\* Packets of at most 24 cells of 8 bits; hosts 32 to 47 are on our link.
N == INSTANCE PacketWire WITH WordMod <- 256, Mtu <- 24, OurMac <- 5, MaxReplyFrame <- 50
HvfCfg == [ip |-> 1, mask |-> 16, gateway |-> 2]
\* The bring-up of devices: a runner with two vCPUs, addresses of two 6-bit
\* words and MACs of 3-bit bytes, a PCI table of four entries.
D == INSTANCE DeviceInit WITH WordMod <- 64, ByteMod <- 8, Cpus <- 2, MaxVcpus <- 4, QueueSize <- 4, DriverMax <- 2,
         MaxDevices <- 4, PciSlots <- 0 .. 2, Funcs <- 0 .. 1, Bars <- 3, CapSteps <- 3,
         AdminSlots <- 8, MaxQueuePairs <- 3, TxRing <- 4, RxRing <- 8, RssLut <- 4
\* NICs of a few features.
VirtioDevices ==
    [present : {TRUE}, v2 : BOOLEAN, accepts : BOOLEAN, max_pairs : {0, 1, 3}, ctrl_size : {0, 4},
     ack : {"ok", "err", "none"}, fail : {"none", "storage", "queue", "ctrl", "buffer"},
     features : {s \cup t : s \in SUBSET {"mq", "ctrl_vq", "event_idx"}, t \in {{}, {"csum"}, {"csum", "tso4"}}}]
NoDevice == [present |-> FALSE, v2 |-> FALSE, accepts |-> FALSE, max_pairs |-> 0, ctrl_size |-> 0,
             ack |-> "none", fail |-> "none", features |-> {}]
\* The driver places its rings at a stride.
Rings(i, base, stride) == [i |-> i, desc |-> base + 9 * i * stride, driver |-> base + (9 * i + 1) * stride,
                           device |-> base + (9 * i + 5) * stride]
RingSet(base, stride, n) == [k \in 1 .. n |-> Rings(k - 1, base, stride)]
\* Machines of up to three slots with two functions.
PciBars == {<<[kind |-> "mem32", addr |-> 0], [kind |-> "none", addr |-> 0], [kind |-> "io", addr |-> 0]>>,
            <<[kind |-> "mem64", addr |-> 0], [kind |-> "high", addr |-> 0], [kind |-> "mem32", addr |-> 0]>>,
            <<[kind |-> "mem32", addr |-> 3], [kind |-> "mem64", addr |-> 0], [kind |-> "high", addr |-> 0]>>}
Cap(id, kind, bar, next) == [id |-> id, kind |-> kind, bar |-> bar, off |-> 100, next |-> next]
PciCaps == {<<Cap("vendor", "common", 1, 2), Cap("vendor", "notify", 1, 3), Cap("msix", "", 1, 0)>>,
            <<Cap("msix", "", 2, 2), Cap("vendor", "common", 1, 3), Cap("vendor", "pci", 1, 0)>>}
PciFunctions ==
    [id : {<<"modern", 1>>, <<"transitional", 1>>}, bridge : {FALSE}, decoding : BOOLEAN, mastering : {FALSE},
     multi : BOOLEAN, bars : PciBars, caps : PciCaps, first : {0, 1}]
PciOther == [id |-> <<"other", 0>>, bridge |-> TRUE, decoding |-> FALSE, mastering |-> FALSE, multi |-> TRUE,
             bars |-> [i \in 1 .. 3 |-> [kind |-> "mem32", addr |-> 0]], caps |-> <<>>, first |-> 0]
PciMachine(pos, f, g) == [at \in pos |-> IF at = <<1, 0>> THEN PciOther ELSE IF at[1] = 0 THEN f ELSE g]
\* gVNIC devices: their queue counts, options (a queue format twice, ring
\* bounds in and out of the descriptor), memory and refusals.
GveOption(id, len, min, max) == [id |-> id, len |-> len, min |-> min, max |-> max]
GveOptions == {<<>>, <<GveOption("gqi", 4, 0, 0)>>,
               <<GveOption("gqi", 0, 0, 0), GveOption("modify", 12, 2, 8), GveOption("dqo", 4, 0, 0)>>,
               <<GveOption("dqo", 4, 0, 0), GveOption("modify", 8, 9, 8), GveOption("gqi", 4, 0, 0)>>,
               <<GveOption("gqi", 4, 0, 0), GveOption("modify", 12, 5, 6)>>}
GveDevices == [found : {TRUE}, bar0 : {TRUE}, bar2 : BOOLEAN, max_tx : {0, 2, 5}, max_rx : {1, 5}, default_queues : {4},
               counters : {0, 1}, options : GveOptions, num_options : {1, 3}, total_len : {60, 200},
               pages : {7, 20, 100}, fails : {"none", "describe", "configure", "register", "tx", "rx", "rss"}]
\* Windows of a few segments, and a controller driven by four events.
CC == INSTANCE CongestionControl WITH Mss <- 2, InitialWindow <- 20, MaxWindow <- 60, SlowStartCap <- 0, TimeScale <- 100,
          BetaNum <- 7, BetaDen <- 10, U32Max <- 1000
CcEvents == [k : {"ack"}, n : {2, 12}, dt : {1, 6}] \cup [k : {"loss", "rto"}, n : {0}, dt : {1}]
CcStep(st, e) ==
    [now |-> st.now + e.dt,
     r |-> IF e.k = "ack" THEN CC!OnAck(st.r, e.n, 2, st.now + e.dt) ELSE CC!OnLoss(st.r, e.k = "rto")]
NetCfg == {[ip |-> 34, mask |-> 16, gateway |-> 33], [ip |-> 34, mask |-> 0, gateway |-> 0],
           [ip |-> 34, mask |-> 16, gateway |-> 0]}
Peers == {[v |-> 4, ip |-> i] : i \in {40, 47, 90, 255}} \cup {[v |-> 6, ip |-> <<8, i>>] : i \in {7, 15}}
Words(n) == [i \in 1 .. n |-> (i * 37) % 256]
OurLl == N!LinkLocalFromMac(5)
Global == <<20, 8>>
\* Options of a neighbour or a router: good ones, unknown ones, and ones that
\* end the list.
NdOptions == {<<>>, <<N!SourceLla, 1, 77>>, <<9, 1, 1>>, <<4, 0, 0>>, <<7, 2, 1, 1, 1>>,
              <<N!PrefixInformation, 2, 64, 64, 20, 0>>, <<N!PrefixInformation, 2, 60, 64, 21, 0>>,
              <<N!PrefixInformation, 1, 64>>}
DhcpOptions == {<<N!OptMsgType, 1, 2>>, <<N!OptSubnet, 2, 7, 8>>, <<N!OptRouter, 3, 1, 2, 3>>, <<N!OptDns, 1, 4>>,
                <<N!OptServerId, 2, 6, 6>>, <<12, 1, N!End>>, <<N!Pad>>}
DhcpEnds == {<<>>, <<N!End, N!OptDns, 2, 1, 1>>, <<N!OptSubnet, 4, 9>>, <<N!OptMsgType>>}

CodecInit ==
    \/ \E es \in [1 .. 4 -> CcEvents], algo \in {"reno", "cubic"} : x = [codec |-> "cc", es |-> es, algo |-> algo]
    \/ \E n \in 0 .. 999 : x = [codec |-> "cube root", n |-> n]
    \/ \E of \in SUBSET (1 .. 4) : \E sent \in [of -> 0 .. 4], th \in {0, 2, 3}, now \in 4 .. 6 :
          x = [codec |-> "loss", units |-> {<<i, sent[i]>> : i \in of}, th |-> th, now |-> now]
    \/ \E base \in {0, 63, 200}, stride \in {1, 7}, n \in 1 .. 6, mac \in {<<1, 2, 3, 4, 5, 6>>, <<7, 0, 7, 0, 7, 7>>} :
          x = [codec |-> "mmio", base |-> base, stride |-> stride, n |-> n, mac |-> mac]
    \/ \E pos \in SUBSET ((0 .. 2) \X (0 .. 1)), f \in PciFunctions :
          x = [codec |-> "pci", pos |-> pos, f |-> f]
    \/ \E g \in GveDevices : x = [codec |-> "gve", g |-> g]
    \/ \E dv \in VirtioDevices, cpus \in {1, 4}, t \in {"pci", "mmio"} :
          x = [codec |-> "virtio", dv |-> dv, cpus |-> cpus, t |-> t]
    \/ \E dst \in Peers, n \in 1 .. 13, cfg \in NetCfg, gso \in 1 .. 3 :
          x = [codec |-> "udp", dst |-> dst, n |-> n, cfg |-> cfg, gso |-> gso]
    \/ \E s \in UNION {[1 .. n -> {0, 1, 8, 15}] : n \in 0 .. 5} : x = [codec |-> "checksum", s |-> s]
    \/ \E k \in {"ns", "ra", "echo"}, a, b \in NdOptions, t \in {OurLl, Global, <<8, 99>>}, g \in {N!Any6, Global},
          damaged \in BOOLEAN :
          x = [codec |-> "nd", k |-> k, opts |-> a \o b, target |-> t, global |-> g, damaged |-> damaged]
    \/ \E a, b, c \in DhcpOptions, e \in DhcpEnds : x = [codec |-> "dhcp", opts |-> {a, b, c}, bytes |-> a \o b \o c \o e]
    \/ \E s \in [1 .. 5 -> {<<8, 1>>, <<8, 2>>, <<8, 3>>, <<9, 1>>}] :
          x = [codec |-> "ndp", seen |-> [i \in 1 .. 5 |-> [ip |-> s[i], mac |-> i]]]
    \/ \E v \in {4, 6}, mtu \in {10, 15, 20}, proto \in {6, 17}, ihl \in {7, 8}, cut \in 0 .. 2 :
          x = [codec |-> "pmtu", v |-> v, mtu |-> mtu, proto |-> proto, ihl |-> ihl, cut |-> cut]
    \/ \E v \in {4, 6}, n \in 0 .. 5, seq, ack \in {0, 1, 128, 255}, fl \in {2, 16, 24} :
          x = [codec |-> "hvf", v |-> v, n |-> n,
               t |-> [sport |-> 80, dport |-> 11, seq |-> seq, ack |-> ack, flags |-> fl]]
    \/ \E m \in {"GET", "POST", "PATCH"}, path \in {<<"/">>, <<"/", "a">>, <<"/", "a", "b">>},
          hs \in H1Headers, n \in {-1, 0, 3, 10, 12}, c \in BOOLEAN :
          x = [codec |-> "http1 request",
               r |-> [method |-> <<m>>, path |-> path, host |-> <<"h">>, headers |-> hs, close |-> c,
                      hasBody |-> n >= 0, body |-> Payload(IF n < 0 THEN 0 ELSE n)]]
    \/ \E s \in {7, 100, 200, 204, 999}, hs \in H1Headers, n \in {0, 9, 10, 205}, k, str \in BOOLEAN :
          x = [codec |-> "http1 response", status |-> s, extra |-> hs, len |-> n, keep |-> k, stream |-> str]
    \/ \E a \in {<<>>, <<3>>, <<10, 1>>, <<4, 16, 2>>}, b \in {<<>>, <<16>>}, ext \in {<<>>, <<";", "e">>, <<";", "e", "e">>},
          tr \in {<<>>, <<"T", "CR", "LF">>} :
          x = [codec |-> "http1 chunked", ns |-> a \o b, ext |-> ext, trailer |-> tr]
    \/ \E sid, name \in {<<>>, <<7>>, <<7, 0>>}, alpn \in {<<>>, <<H2>>, <<H11>>, <<H2, H11>>, <<<<1>>, H2>>},
          n \in 0 .. 3 :
          x = [codec |-> "tls hello", h |-> [sid |-> sid, name |-> name, alpn |-> alpn, psks |-> n]]
    \/ \E sid \in {<<>>, <<7>>, <<7, 0>>}, name \in {<<>>, H2, H11}, psk \in {<<>>, <<0>>, <<258>>},
          blob \in {<<9>>, <<0, 5>>, <<3, 0, 0>>} :
          x = [codec |-> "tls", sid |-> sid, alpn |-> name, psk |-> psk, blob |-> blob]
    \/ \E a \in {n \in 0 .. 255 : n % 16 = 7}, b \in {48} : x = [codec |-> "huffman", s |-> <<a, b>>]
    \/ \E a \in {r \in Reps : r.k = "size" \/ (r.k = "insert" /\ r.i = 0)}, b, c, d \in Reps : x = [codec |-> "hpack", reps |-> <<a, b, c, d>>]
    \/ \E a, b, c \in {A, B, C, Upper, <<<<>>, <<>>>>, <<<<97>>, <<200, 7>>>>} :
          x = [codec |-> "fields", fields |-> <<a, b, c>>]
    \/ \E a \in SUBSET (0 .. 7), b \in Polys : x = [codec |-> "polyval", a |-> a, b |-> b]
    \/ \E n \in 0 .. 7, s \in {0, 3}, h \in Polys, mask \in {{}, {7}, 2 .. 7}, k \in {0, 2} :
          x = [codec |-> "gcm", m |-> Message(n, s, mask), h |-> h, aad |-> Message(k, s + 1, {}).blocks]
    \/ \E f \in QuicFrames : x = [codec |-> "quic frame", f |-> f]
    \/ \E h \in QuicHeaders : x = [codec |-> "quic header", h |-> h]
    \/ \E acked \in 0 .. 3, ahead \in 1 .. 40, seen \in 0 .. 40 :
          seen < ahead /\ x = [codec |-> "quic pn", acked |-> 30 + acked, ahead |-> ahead, seen |-> seen]
    \/ \E p \in QuicParams, r \in BOOLEAN : x = [codec |-> "quic params", p |-> p, retried |-> r]

CodecNext == UNCHANGED x

-----------------------------------------------------------------------------
Cuts(s) == {SubSeq(s, 1, n) : n \in 0 .. Len(s) - 1}

\* Every frame the sender writes is read back as it was, followed by
\* anything, and no part of it is taken for a frame: parse_frame never
\* reads past what it was given (frame.rs).
QuicFramesReadBack ==
    x.codec = "quic frame" =>
        \A bytes \in {Q!WriteFrame(x.f)} :
            /\ \A tail \in {<<>>, <<0>>, <<63, 63>>} : \A r \in {Q!ParseFrame(bytes \o tail)} :
                  r.ok /\ r.f = x.f /\ r.n = Len(bytes)
            /\ \A s \in Cuts(bytes) : ~Q!ParseFrame(s).ok

\* The same for packet headers.
QuicHeadersReadBack ==
    x.codec = "quic header" =>
        LET h == x.h
            Parse(b) == IF h.type = 0 THEN Q!ParseInitialHeader(b) ELSE Q!ParseLongPayloadHeader(b)
        IN  \A bytes \in {Q!WriteLongHeader(h.type, h.dcid, h.scid, h.token, h.length)} :
            /\ \A r \in {Parse(bytes \o <<1>>)} :
                  /\ r.ok /\ r.n = Len(bytes) /\ r.length = h.length
                  /\ r.pre.dcid = h.dcid /\ r.pre.scid = h.scid
                  /\ h.type = 0 => r.token = h.token
            /\ \A s \in Cuts(bytes) : ~Parse(s).ok

\* A truncated packet number is decoded to the number it stands for by any
\* receiver that has seen at least what it acknowledged (wire.rs, RFC 9000
\* A.2 and A.3), for the length the sender chose.
PN == INSTANCE QuicWire WITH ByteBits <- 2, MaxCidLen <- 2, Version <- <<0, 0, 0, 1>>, MaxFixed <- 2
PacketNumberReadBack ==
    x.codec = "quic pn" =>
        LET pn == x.acked + x.ahead
            len == PN!EncodePacketNumberLen(pn, x.acked)
        IN  PN!DecodePacketNumber(x.acked + x.seen, PN!EncodePacketNumber(pn, len), len, 2 ^ 20) = pn

\* What either end encodes as its transport parameters the other parses to
\* the same values.
QuicParamsReadBack ==
    x.codec = "quic params" =>
        LET server == Q!ParseParams(Q!EncodeParams(Q!ServerParamOrder(x.retried), x.p))
            client == Q!ParseParams(Q!EncodeParams(Q!ClientParamOrder, 
                          [id \in DOMAIN x.p \cup {3, 14} |-> IF id \in {3, 14} THEN 2 ELSE x.p[id]]))
            Kept(r, ids) == r.ok /\ \A id \in DOMAIN x.p :
                                r.p[id] = IF id \in ids THEN x.p[id] ELSE Q!DefaultParams[id]
        IN  /\ Kept(server, ToSet(Q!ServerParamOrder(x.retried)))
            /\ Kept(client, ToSet(Q!ClientParamOrder))

\* Both SIMD multiplications, with their Karatsuba parts and two-step
\* Montgomery reduction, are POLYVAL's product (ghash_batch.rs).
PolyvalExact ==
    x.codec = "polyval" =>
        /\ T!PolyvalMul(x.a, x.b) = T!Dot(x.a, x.b)
        /\ T!PolyvalMulArm(x.a, x.b) = T!Dot(x.a, x.b)

\* A sealed message opens to itself, its tag is the one of the block by
\* block definition although whole chunks are absorbed with one reduction,
\* and it does not open with another tag.
GcmOpensWhatItSeals ==
    x.codec = "gcm" =>
      \A len \in {{Len(x.m.blocks) % 8}} : \A c \in {T!Seal(x.h, x.aad, x.m, len)} :
        LET all == x.aad \o c.text.blocks \o (IF x.m.mask = {} THEN <<>> ELSE <<c.text.rest>>) \o <<len>>
        IN  /\ \A r \in {T!Open(x.h, x.aad, c.text, len, c.tag)} : r.ok /\ r.text = x.m
            /\ c.tag = T!Add(T!AbsorbAll({}, x.h, all), KeyStream(1))
            /\ ~T!Open(x.h, x.aad, c.text, len, T!Add(c.tag, {0})).ok

\* Every string of symbols decodes to itself, with room for it and only then,
\* and no code is a prefix of another (field-huffman).
HuffmanReadsBack ==
    x.codec = "huffman" =>
      /\ \A at \in {<<0, 0>>, <<1, 1>>, <<2, 2>>, <<2, 1>>} : LET s == SubSeq(x.s, 1, at[1]) IN
           W!DecodeIntoSlice(W!Encode(s), at[2]) = IF at[1] <= at[2] THEN [ok |-> TRUE, v |-> s] ELSE [ok |-> FALSE]
      /\ \A b \in W!Symbols \ {x.s[1]} : ~W!Starts(x.s[1], b)

\* The decoder follows a peer's encoder through every sequence of insertions,
\* evictions, references and size changes: the same fields, the same dynamic
\* table and the right account of its size; a reference to what is not there,
\* or a list over the limit, is an error (hpack.rs).
RECURSIVE Valid(_, _, _)
Valid(table, max, reps) ==
    reps = <<>> \/
    LET r == Head(reps) IN
      /\ r.k # "size" => r.i <= Len(HpStatic) + Len(table)
      /\ LET m == W!Meant(table, max, <<r>>, <<>>) IN Valid(m.table, m.max, Tail(reps))
ListSize(fields) == FoldSeq(LAMBDA f, n : n + W!SizeOf(f), 0, fields)
HpackAgrees ==
    x.codec = "hpack" =>
      \A got \in {W!Decode(W!NewDecoder, FlattenSeq([i \in DOMAIN x.reps |-> W!PeerBytes(x.reps[i])]))} :
          IF ~Valid(<<>>, 11, x.reps) THEN ~got.ok
          ELSE \A meant \in {W!Meant(<<>>, 11, x.reps, <<>>)} :
               IF ListSize(meant.fields) > 16 THEN ~got.ok
               ELSE /\ got.ok /\ got.fields = meant.fields
                    /\ got.d.dynamic = meant.table
                    /\ got.d.size = ListSize(meant.table)

\* What the encoders write, the decoders of HTTP/2 and HTTP/3 read back, with
\* HTTP/2's names in lower case.
FieldsReadBack ==
    x.codec = "fields" =>
      LET lower == [i \in DOMAIN x.fields |-> <<W!Lowercase(x.fields[i][1]), x.fields[i][2]>>]
      IN  /\ \A h2 \in {W!Decode(W!NewDecoder, W!EncodeHeaderList(x.fields))} :
                ListSize(lower) <= 16 => h2.ok /\ h2.fields = lower /\ h2.d = W!NewDecoder
          /\ \A h3 \in {W!DecodeFieldSection(W!EncodeFieldSection(x.fields))} :
                h3.ok /\ h3.fields = x.fields

\* What the client's hello says the server reads, whatever it offers: the
\* share, the protocols in their order, the first tickets with their binders,
\* and the part of the message the binders cover ends where they begin
\* (build_client_hello, ClientHello::parse, iter_alpn, try_resume).
TlsHelloReadsBack ==
    x.codec = "tls hello" =>
      \A p \in {TlsHello(x.h)} : \A body \in {T!BuildClientHello(p)} : \A msg \in {T!EncodeHandshake(1, body)} :
      \A r \in {T!ParseClientHello(T!ParseHandshake(msg \o <<5>>).body)} :
        LET kept == IF x.h.psks < 2 THEN x.h.psks ELSE 2
        IN  /\ r.ok /\ r.sid = p.sid /\ r.random = p.random /\ r.pub = p.pub
            /\ T!IterAlpn(r.alpn) = p.alpn
            /\ x.h.psks = 0 => r.psk = <<>>
            /\ x.h.psks > 0 =>
                  /\ r.psk[1] = [i \in 1 .. kept |-> <<i, i>>]
                  /\ r.psk[2] = [i \in 1 .. kept |-> <<8, i>>]
                  /\ 1 \in r.modes
                  /\ T!Truncated(msg, r.psk) \o Psk(x.h.psks).binds = msg
            /\ \A s \in Cuts(body) : ~T!ParseClientHello(s).ok
            /\ \A s \in Cuts(msg) : ~T!ParseHandshake(s).ok

\* The server's messages read back at the client, and no part of one is
\* taken for the whole; a record's content survives whatever zeros end it
\* and pad it (server_hello.rs, messages.rs, record.rs).
TlsMessagesReadBack ==
    x.codec = "tls" =>
        LET sh == T!BuildServerHello(<<1, 2>>, x.sid, x.blob \o <<0>>, x.psk)
            exts == IF x.alpn = <<>> THEN <<>> ELSE <<<<16, T!AlpnBody(<<x.alpn>>)>>>>
            ee == T!BuildEncryptedExtensions(exts \o <<<<57, x.blob>>, <<9, <<>>>>>>)
            cert == T!BuildCertificate(<<x.blob, <<6>>>>)
            cv == T!BuildCertificateVerify(x.blob)
            rec == T!BuildPlaintext(22, x.blob)
        IN  /\ \A hello \in {T!ParseServerHello(T!BuildServerHello(<<1, 2>>, x.sid, <<3, 4>>, x.psk))} :
                  hello.ok /\ hello.sid = x.sid /\ hello.pub = <<3, 4>> /\ hello.psk = (x.psk # <<>>)
            /\ Len(x.blob) # 1 => ~T!ParseServerHello(sh).ok
            /\ T!ParseEncryptedExtensions(ee).alpn = x.alpn
            /\ T!ParseEncryptedExtensions(ee).quic = x.blob
            /\ T!ParseCertificateLeaf(cert).v = x.blob
            /\ T!ParseCertificateVerify(cv) = [ok |-> TRUE, alg |-> T!Ecdsa, sig |-> x.blob]
            /\ T!ParseFinished(x.blob).ok = (Len(x.blob) = 2)
            /\ T!ParsePlaintext(rec \o <<1>>) = [ok |-> TRUE, type |-> 22, body |-> x.blob]
            /\ T!ParseServerHello(T!BuildServerHello(T!HelloRetryRandom, x.sid, <<>>, <<>>)).retry
            /\ \A s \in Cuts(ee) : ~T!ParseEncryptedExtensions(s).ok
            /\ \A s \in Cuts(cert) : ~T!ParseCertificateLeaf(s).ok
            /\ \A s \in Cuts(cv) : ~T!ParseCertificateVerify(s).ok
            /\ \A s \in Cuts(rec) : ~T!ParsePlaintext(s).ok
            /\ \A pad \in {<<>>, <<0>>, <<0, 0>>} :
                  T!ParseInner(T!InnerPlaintext(23, x.blob) \o pad)
                      = [ok |-> TRUE, type |-> 23, content |-> x.blob]
            /\ ~T!ParseInner(<<0, 0>>).ok
            /\ T!ParseHandshake(T!EncodeHandshake(4,
                   T!BuildNewSessionTicket(604800, 258, <<>>, x.blob))).body
                 = <<0, 9, 58, 128, 0, 0, 1, 2, 0>> \o T!Vector(2, x.blob) \o <<0, 0>>
            /\ T!ExtractP256D(x.blob \o T!P256Oid \o x.sid \o T!DHeader \o <<5, 6>> \o x.blob)
                 = [ok |-> TRUE, v |-> <<5, 6>>]
            /\ ~T!ExtractP256D(x.blob \o T!P256Oid \o T!DHeader \o <<5>>).ok

\* A request the client writes is the request the server reads, wherever the
\* chunks it arrives in are cut: the slots keep what fits them, the body
\* starts where the head ends, and its length is the body's (serialize_request,
\* StreamingRequestParser).  A head over the limit is refused however it is cut.
Http1RequestReadsBack ==
    x.codec = "http1 request" =>
      \A wire \in {W!SerializeRequest(x.r)} : \A whole \in {W!FeedRequest(W!NewRequestParser, wire)} :
        LET r == x.r
            headLen == Len(wire) - Len(r.body)
            Fit(s, n) == SubSeq(s, 1, IF Len(s) < n THEN Len(s) ELSE n)
            Second(b, n) == IF b.r = "Done" THEN [b EXCEPT !.used = @ + n] ELSE b
            First(a, n) == IF a.r = "Done" THEN a
                           ELSE Second(W!FeedRequest(a.p, SubSeq(wire, n + 1, Len(wire))), n)
            Two(n) == First(W!FeedRequest(W!NewRequestParser, SubSeq(wire, 1, n)), n)
            Same(a, b) == /\ a.r = b.r /\ a.used = b.used
                          /\ a.r = "Done" => [a.p EXCEPT !.used = 0, !.prior = 0] = [b.p EXCEPT !.used = 0, !.prior = 0]
        IN  /\ whole.r = IF headLen <= 45 THEN "Done" ELSE "Overflow"
            /\ whole.r = "Done" =>
                  /\ whole.used = headLen
                  /\ whole.p.method = IF r.method = <<"PATCH">> THEN <<"Unknown">> ELSE r.method
                  /\ whole.p.path = Fit(r.path, 2)
                  /\ W!HeaderOf(whole.p.hs, "Host").v = r.host
                  /\ whole.p.cl = Len(r.body) /\ ~whole.p.reject
                  /\ \A i \in DOMAIN r.headers :
                        W!HeaderOf(whole.p.hs, r.headers[i].n[1]) = [ok |-> TRUE, v |-> Fit(r.headers[i].v, 3)]
                  /\ Len(whole.p.hs) < 4 /\ r.close => W!HeaderOf(whole.p.hs, "Connection").v = <<"close">>
            /\ \A n \in 0 .. Len(wire) : Same(Two(n), whole)

\* A response head the server writes is the one the client reads, wherever it
\* is cut, with the framing that finds the body's end: its length, or the
\* connection's end for a streamed one; a Host header's port is found behind
\* the colons of an IPv6 literal (response.rs, ResponseParser, body_framing,
\* host_header_port).
Http1ResponseReadsBack ==
    x.codec = "http1 response" =>
      \A head \in {IF x.stream THEN W!StreamingHead(x.status, <<"text">>, x.extra)
                   ELSE W!ResponseHead(x.status, <<"text">>, x.extra, x.len, x.keep)} :
      \A p \in {W!FeedResponse(W!NewResponseParser, head \o Payload(3))} :
        LET Two(n) == LET a == W!FeedResponse(W!NewResponseParser, SubSeq(head, 1, n))
                      IN  IF a.st = "Done" THEN a ELSE W!FeedResponse(a, SubSeq(head, n + 1, Len(head)))
        IN  /\ p.err = IF x.status < 100 THEN "BadStatusLine" ELSE "none"
            /\ p.err = "none" =>
                  /\ p.used = Len(head) /\ p.status = x.status
                  /\ p.close = (x.stream \/ ~x.keep)
                  /\ W!BodyFraming(p) = IF x.status = 204 THEN "NoBody"
                                        ELSE IF x.stream THEN "ReadToEof" ELSE "ContentLength"
                  /\ ~x.stream => p.cl = x.len
            /\ \A host \in {<<"h">>, <<"[", ":", ":", "1", "]">>}, n \in {x.len, x.len + 65331} :
                  W!HostHeaderPort(host \o <<":">> \o W!WriteUsize(n))
                     = IF n < 65536 THEN [ok |-> TRUE, v |-> n] ELSE [ok |-> FALSE, v |-> 0]
            /\ \A n \in 0 .. Len(head) : [Two(n) EXCEPT !.used = 0] = [p EXCEPT !.used = 0]

\* A chunked body comes out whole, wherever its coding is cut, and nothing
\* past its end is consumed (ChunkedDecoder).
Http1ChunkedReadsBack ==
    x.codec = "http1 chunked" =>
        LET wire == ChunkedBody(x.ns, x.ext) \o x.trailer \o W!Crlf
            body == FlattenSeq([i \in DOMAIN x.ns |-> Payload(x.ns[i])])
            d == W!FeedChunked(W!NewChunkedDecoder, wire \o <<"GET">>)
            Two(n) == LET a == W!FeedChunked(W!NewChunkedDecoder, SubSeq(wire, 1, n))
                      IN  W!FeedChunked(a, SubSeq(wire, n + 1, Len(wire)))
        IN  /\ d.err = "none" /\ d.st = "Done" /\ d.out = body /\ d.used = Len(wire)
            /\ \A n \in 0 .. Len(wire) : Two(n).st = "Done" /\ Two(n).out = body

\* A datagram sent by any of the send paths arrives whole, at the peer's
\* port, from ours, with the checksums right once the device has finished
\* them, and padding after the packet is not taken for payload (udp.rs,
\* ipv4.rs, ipv6.rs, classify.rs, checksum.rs).  An address of the link is
\* sent there, any other to the gateway.
UdpReadsBack ==
    x.codec = "udp" =>
      \A room \in {[i \in 1 .. N!MaxL2Headroom |-> 99] \o Words(x.n)} :
      \A a \in {N!SendWithL2Headroom(x.dst, 6, 11, 12, room, x.cfg)},
         b \in {N!SendViaTxHandle(x.dst, 6, 11, 12, room \o <<98, 98>>, Len(room), x.cfg)},
         g \in {N!SendUdpGso(x.dst, 6, 11, 12, room \o <<98>>, Len(room), x.gso, x.cfg)} :
      \A parts \in {N!DeviceSegments(g, x.dst, SubSeq(g.f, g.hdr + 1, Len(g.f)), x.cfg)} :
        LET peerCfg == [ip |-> IF x.dst.v = 4 THEN x.dst.ip ELSE 40, mask |-> x.cfg.mask, gateway |-> 33]
            Arrives(f, data) ==
                \A p \in {N!Classify(f \o <<0, 0>>, peerCfg, x.dst.ip, N!Any6)} :
                \A l4 \in {N!L4(p, f)} : \A u \in {N!UdpReceive(l4)} :
                    /\ f[1] = 6 /\ p.k = "ip" /\ p.proto = N!Udp /\ p.dst = x.dst
                    /\ p.src.ip = IF x.dst.v = 4 THEN x.cfg.ip ELSE N!Any6
                    /\ u.ok /\ u.sport = 11 /\ u.dport = 12 /\ u.body = data
                    /\ p.snoop = IF x.dst.v = 6 \/ N!SameSubnet(x.cfg.ip, peerCfg) THEN 5 ELSE 0
                    /\ N!Fold(N!L4PseudoPartial(p.src, p.dst, N!Udp, Len(l4)) + N!SumWords(l4)) = 255
                    /\ x.dst.v = 4 => N!InternetChecksum(SubSeq(f, 4, 10)) = 0
        IN  /\ a.ok /\ Arrives(N!DeviceChecksum(a.f, a.start, 3), Words(x.n))
            /\ b.ok /\ b.f = a.f /\ b.start = a.start
            /\ N!SendToAddr(x.dst, 6, 11, 12, Words(x.n), x.cfg) = a
            /\ FlattenSeq([i \in DOMAIN parts |-> SubSeq(parts[i], g.hdr + 1, Len(parts[i]))]) = Words(x.n)
            /\ \A i \in DOMAIN parts : Arrives(parts[i], SubSeq(parts[i], g.hdr + 1, Len(parts[i])))
            /\ x.dst.v = 4 => N!NextHop(x.dst.ip, x.cfg) =
                  IF x.cfg.mask = 0 \/ x.dst.ip \in 32 .. 47 \cup {255} THEN x.dst.ip ELSE x.cfg.gateway

\* The little-endian sum is the byte-swapped big-endian one, whatever the
\* length, so the value stored as it stands is the checksum of the wire
\* order, and data with its checksum in place sums to zero (checksum.rs).
ChecksumExact ==
    x.codec = "checksum" =>
        LET c == N!Complement(N!Fold(N!SumOctets(x.s, 16)))
            swapped == 16 * (c % 16) + (c \div 16)
            even == IF Len(x.s) % 2 = 1 THEN Append(x.s, 0) ELSE x.s
            big == [i \in 1 .. Len(even) \div 2 |-> 16 * even[2 * i - 1] + even[2 * i]]
        IN  /\ swapped = N!InternetChecksum(big)
            /\ N!Complement(N!Fold(N!SumOctets(<<c % 16, c \div 16>> \o x.s, 16))) = 0

\* A neighbour's solicitation of an address of ours, and only of ours, is
\* answered once, to the link-layer address it names, with an advertisement
\* that verifies; a router's advertisement configures the first usable prefix
\* in front of the first malformed option, and a damaged message does
\* nothing; our own solicitation reaches the group its target listens to
\* (ipv6_nd.rs, icmpv6.rs, ipv6_send.rs).
NeighbourDiscoveryExact ==
    x.codec = "nd" =>
        LET peer == <<8, 99>>
            body == IF x.k = "ns" THEN <<N!NeighborSolicitation, 0, 0, 0>> \o x.target \o x.opts
                    ELSE IF x.k = "ra" THEN <<N!RouterAdvertisement, 0, 0, 64>> \o x.opts
                    ELSE <<N!EchoRequest, 0, 0, 3>> \o x.opts
            Body(l3, p) == SubSeq(l3, p.off + 1, p.off + p.len)
            ours == x.target = OurLl \/ x.target = x.global
            whole == N!IterOptions(x.opts)
            Usable(o) == o.ty = N!PrefixInformation /\ Len(o.body) = 4
            first == {i \in DOMAIN whole : Usable(whole[i]) /\ \A j \in 1 .. i - 1 : ~Usable(whole[j])}
            lla == \E i \in DOMAIN whole : whole[i].ty = N!SourceLla
        IN  \A good \in {N!Stamped(peer, OurLl, body)} :
            \A m \in {IF x.damaged THEN [good EXCEPT ![4] = @ + 1] ELSE good} :
            \A out \in {N!HandleIcmpv6(peer, OurLl, m, 66, OurLl, x.global)} :
            /\ Len(out) = IF x.damaged \/ x.k = "ra" \/ (x.k = "ns" /\ ~ours) THEN 0 ELSE 1
            /\ \A f \in ToSet(out) : \A l3 \in {N!EthParse(f).l3} :
               \A p \in {N!Ipv6Parse(l3)} : \A reply \in {Body(l3, p)} :
                  /\ p.ok /\ p.dst = peer /\ N!VerifyChecksum(p.src, p.dst, reply)
                  /\ x.k = "ns" =>
                        /\ f[1] = IF lla THEN 77 ELSE 66
                        /\ p.src = x.target /\ SubSeq(reply, 5, 6) = x.target /\ reply[9] = 5 /\ p.hop = 255
                  /\ x.k = "echo" => reply[1] = N!EchoReply /\ SubSeq(reply, 4, Len(reply)) = SubSeq(m, 4, Len(m))
            /\ x.k = "ra" => N!SlaacAddress(good) =
                  IF \E i \in first : whole[i].body[1] = 64 THEN Global ELSE N!Any6
            /\ \A l3 \in {N!EthParse(N!Ipv6Send(OurLl, peer, 0, N!IcmpV6, 64, <<1>>)[1]).l3} :
               \A ip \in {N!Ipv6Parse(l3)} : \A ns \in {N!ParseNeighborSolicitation(Body(l3, ip))} :
                  N!V6AddrIsOurs(ip.dst, peer, N!Any6) /\ ns.ok /\ ns.target = peer /\ ns.lla = 5
            /\ Len(N!SendRouterSolicitation(OurLl)) = 1

\* After any packets the neighbour cache knows its last unicast senders, each
\* once and with the MAC it had last; what it forgot was inserted before
\* everything it kept (ndp.rs).
NdpKeepsTheLast ==
    x.codec = "ndp" =>
        LET c == FoldLeft(LAMBDA a, e : N!NdpLearn(a, 2, e.ip, e.mac), N!EmptyNdp, x.seen)
            uni == SelectSeq(x.seen, LAMBDA e : e.ip[1] # 9)
            \* when each address last entered the cache
            Step(a, e) == IF e.ip \in ToSet(a) THEN a ELSE Append(IF Len(a) = 2 THEN Tail(a) ELSE a, e.ip)
            order == FoldLeft(Step, <<>>, uni)
            LastMac(ip) == uni[CHOOSE i \in DOMAIN uni : uni[i].ip = ip /\ \A j \in i + 1 .. Len(uni) : uni[j].ip # ip].mac
        IN  \A ip \in {<<8, 1>>, <<8, 2>>, <<8, 3>>, <<9, 1>>} :
                N!NdpResolve(c, ip) = IF ip \in ToSet(order) THEN LastMac(ip) ELSE 0

\* The lease options are found wherever they stand, those after an end marker
\* or a length that runs over are not, and our own request names the offer to
\* any server that parses the same way (dhcp_parse.rs, dhcp.rs).
DhcpReadsBack ==
    x.codec = "dhcp" =>
        LET got == N!ParseOptions(x.bytes)
            Has(o) == o \in x.opts
            Addr(o, v) == IF Has(o) THEN v ELSE <<>>
            req == N!BuildRequest(3, <<4, 5>>, <<6, 7>>, 30)
            opts == N!ParseOptions(SubSeq(req, N!DhcpHead + 1, Len(req)))
        IN  /\ got = [type |-> IF Has(<<N!OptMsgType, 1, 2>>) THEN 2 ELSE 0,
                       subnet |-> Addr(<<N!OptSubnet, 2, 7, 8>>, <<7, 8>>),
                       gateway |-> Addr(<<N!OptRouter, 3, 1, 2, 3>>, <<1, 2>>), dns |-> <<>>,
                       server |-> Addr(<<N!OptServerId, 2, 6, 6>>, <<6, 6>>)]
            /\ opts.type = 3 /\ opts.server = <<6, 7>> /\ Len(req) = 30
            /\ N!ParseOptions(SubSeq(N!BuildDiscover(3, 30), N!DhcpHead + 1, 30)).type = 1
            /\ ~N!ValidateHeader(req, 3).ok /\ ~N!ValidateHeader([req EXCEPT ![1] = 2], 4).ok
            /\ N!ValidateHeader([req EXCEPT ![1] = 2], 3).ok

\* A router's complaint about one of our segments names that segment's
\* connection, and nothing shorter or about another protocol names any
\* (icmpv4_pmtu_report, icmpv6_ptb_report).
PmtuNamesTheSegment ==
    x.codec = "pmtu" =>
        LET seg == <<11, 12, 77>>
            ip == IF x.v = 6 THEN N!Ipv6FillHeader(<<8, 1>>, <<8, 2>>, x.proto, 64, 30)
                  ELSE [N!Ipv4FillHeader(34, 40, x.proto, 30) EXCEPT ![2] = x.ihl]
                         \o [i \in 1 .. x.ihl - 7 |-> 1]
            all == <<IF x.v = 6 THEN 2 ELSE 3, IF x.v = 6 THEN 0 ELSE 4, 0, x.mtu>> \o ip \o seg
            m == SubSeq(all, 1, Len(all) - x.cut)
            r == IF x.v = 6 THEN N!IcmpV6PtbReport(m, 15) ELSE N!IcmpV4PmtuReport(m, 15)
        IN  /\ r.ok = (x.cut = 0 /\ x.proto = N!Tcp /\ x.mtu >= 15)
            /\ r.ok => /\ r.peer.ip = IF x.v = 6 THEN <<8, 2>> ELSE 40
                       /\ r.lport = 11 /\ r.rport = 12 /\ r.seq = 77 /\ r.mss < x.mtu

\* What the runner writes into the guest's ring the guest reads: a TCP frame
\* is the same whether it was built whole or around a payload already in
\* place, and is classified to the segment with its checksums right, as is a
\* relayed datagram; a request for the gateway's address is answered to the
\* asker by ARP and by neighbour discovery, an echo comes back as it was, and
\* the DHCP answer to our own messages is the lease (frame.rs, guest_tx.rs).
HvfFramesRead ==
    x.codec = "hvf" =>
        LET pair == IF x.v = 4 THEN N!Pair4(N!GwIp, N!VmIp) ELSE N!Pair6(N!GwIp6, N!VmIp6)
            data == Words(x.n)
            room == [i \in 1 .. N!NetHdr + N!EthLen + N!ip_hdr_len(pair) + N!TcpLen |-> 99]
            Seen(frame, proto, p) ==
                [p |-> p, l4 |-> N!L4(p, Tail(frame)), ok |-> p.k = "ip" /\ p.proto = proto /\ frame[2] = 5]
            Read(frame, proto) == Seen(frame, proto, N!Classify(Tail(frame), HvfCfg, OurLl, N!Any6))
            Sums(r, proto) == N!Fold(N!L4PseudoPartial(r.p.src, r.p.dst, proto, Len(r.l4)) + N!SumWords(r.l4)) = 255
            udpFrame == IF x.v = 4 THEN N!build_udp_frame_v4(5, N!GwIp, N!VmIp, 11, 12, data)
                        ELSE N!build_udp_frame_v6(5, N!GwIp6, N!VmIp6, 11, 12, data)
            Ask(m) == N!EthFillHeader(7, 5, N!EtherV6) \o N!Ipv6FillHeader(OurLl, N!GwIp6, N!IcmpV6, 64, Len(m)) \o m
            solicitation == N!BuildNeighborSolicitation(OurLl, N!GwIp6, N!GwIp6, 5)
            ping == <<N!EchoRequest, 0, 0, x.t.seq>> \o data
            Arp(ip) == <<255, 5, N!EtherArp, 1, 5, N!VmIp, 0, ip>>
            Dhcp(m) == N!EthFillHeader(255, 5, N!EtherV4)
                           \o N!Ipv4FillHeader(0, 255, N!Udp, 11 + Len(m)) \o <<68, 67, 4 + Len(m), 0>> \o m
            asked == <<Ask(solicitation), Ask(ping), Arp(N!GwIp), Arp(N!VmIp), Dhcp(N!BuildDiscover(3, 20)),
                       Dhcp(N!BuildRequest(3, <<0, 1>>, <<0, 2>>, 20))>>
            Lease(frame, kind) ==
                \A f \in {Tail(frame)} :
                \A u \in {N!UdpReceive(N!L4(N!Classify(f, [HvfCfg EXCEPT !.ip = 0], OurLl, N!Any6), f))} :
                \A o \in {N!ParseOptions(SubSeq(u.body, N!DhcpHead + 1, Len(u.body)))} :
                    /\ u.ok /\ u.dport = 68 /\ N!ValidateHeader(u.body, 3) = [ok |-> TRUE, yiaddr |-> N!VmIp]
                    /\ o.type = kind /\ o.gateway = N!Addr(N!GwIp) /\ o.server = o.gateway /\ o.dns = N!Addr(N!DnsIp)
        IN  /\ \A f \in {N!write_tcp_frame(5, pair, x.t, data)} :
                  /\ N!write_tcp_frame_around_payload(room \o data \o <<98>>, 5, pair, x.t, x.n) = f
                  /\ N!build_tcp_reply(x.v, x.t, data) = [ok |-> TRUE, f |-> f]
                  /\ \A tcp \in {Read(f, N!Tcp)} :
                        tcp.ok /\ Sums(tcp, N!Tcp) /\ [tcp.l4 EXCEPT ![6] = 0] = N!write_tcp_header(x.t) \o data
                  /\ x.v = 4 => N!InternetChecksum(SubSeq(f, 5, 11)) = 0
            /\ \A udp \in {Read(udpFrame, N!Udp)} :
                  udp.ok /\ Sums(udp, N!Udp) /\ N!UdpReceive(udp.l4).body = data /\ (x.v = 4 => udp.l4[4] # 0)
            /\ \A a \in {[i \in DOMAIN asked |-> N!handle_guest_tx(asked[i])]} :
               \A r \in {[i \in {1, 2} |-> Read(a[i], N!IcmpV6)]} :
                  /\ \A i \in {1, 2} : r[i].ok /\ N!VerifyChecksum(r[i].p.src.ip, r[i].p.dst.ip, r[i].l4)
                  /\ SubSeq(r[1].l4, 5, 6) = N!GwIp6 /\ r[1].l4[9] = 7
                  /\ r[2].l4[1] = N!EchoReply /\ SubSeq(r[2].l4, 4, Len(r[2].l4)) = SubSeq(ping, 4, Len(ping))
                  /\ a[3] = <<0, 5, 7, N!EtherArp, 2, 7, N!GwIp, 5, N!VmIp>> /\ a[4] = <<>>
                  /\ \A i \in {5, 6} : Lease(a[i], IF i = 5 THEN 2 ELSE 5)

\* What the driver believes after bring-up is what the device was told: several
\* queue pairs only when the device acknowledged them on a live control queue,
\* no more of them than there are processors or storage, every one with its
\* receive buffers, offloads only as negotiated; and a device that was found
\* and not brought up over PCI is marked failed (init.rs).
VirtioAgrees ==
    x.codec = "virtio" =>
        \A r \in {IF x.t = "pci" THEN D!virtio_init(NoDevice, x.dv, x.cpus) ELSE D!virtio_init(x.dv, NoDevice, x.cpus)} :
            LET f == IF x.t = "pci" THEN D!AcceptedPci(x.dv) ELSE D!AcceptedMmio(x.dv) IN
            IF r.ok
            THEN /\ r.status = "driver_ok" /\ r.nd.num_queue_pairs = r.told
                 /\ r.told > 1 => r.nd.ctrl /\ x.dv.ack = "ok"
                 /\ r.nd.negotiated \in 1 .. x.cpus /\ r.nd.negotiated <= r.nd.rings
                 /\ r.nd.negotiated <= IF x.dv.max_pairs > 1 THEN x.dv.max_pairs ELSE 1
                 /\ r.nd.posted = r.nd.negotiated
                 /\ r.nd.has_csum = ("csum" \in f) /\ (r.nd.has_tso4 => r.nd.has_csum)
                 /\ x.t = "mmio" => ~r.nd.dead
            ELSE x.t = "pci" => r.status = "failed"

\* After the driver's writes the runner serves the rings the driver placed, for
\* every queue the device has: each snapshot is the queue's own, only the
\* receive rings are marked as needing no doorbell, the MAC the driver
\* assembles is the device's, and the control command is acknowledged
\* (hvf-runner virtio.rs, bus virtio.rs init_legacy).
MmioAgrees ==
    x.codec = "mmio" =>
      \A d \in {D!Writes(D!new(x.mac), D!mmio_init(RingSet(x.base, x.stride, x.n)))} :
        LET At(a) == [lo |-> a % 64, hi |-> a \div 64]
            cmd == D!handle_ctrl_queue(D!queue_snapshot(d, D!CtrlIndex),
                       <<[write |-> FALSE, len |-> 4], [write |-> TRUE, len |-> 1]>>,
                       [class |-> 4, cmd |-> 0, pairs |-> 2])
        IN  /\ \A i \in 0 .. 6 :
                  LET r == Rings(i, x.base, x.stride) IN
                  D!queue_snapshot(d, i) =
                      IF i < x.n /\ i < 5
                      THEN [qsize |-> 2, desc |-> At(r.desc), driver |-> At(r.driver), device |-> At(r.device), ready |-> TRUE]
                      ELSE D!NoSnapshot
            /\ d.no_notify = {At(Rings(i, x.base, x.stride).device) : i \in {k \in {0, 2} : k < x.n}}
            /\ D!DriverMac(d) = x.mac /\ D!read(d, "config8") = 2
            /\ d.driver_features[1] \subseteq D!read(D!write(d, <<"fsel", 0>>), "features")
            /\ "driver_ok" \in D!read(d, "status") /\ D!read(D!after_read(d, "isr"), "isr") = 0
            /\ cmd.done = (x.n >= 5) /\ (cmd.done => cmd.acked /\ cmd.pairs = 2)

\* The scan lists every function of bus 0 once, in order, as far as the table
\* reaches; the registers it assigns are distinct and none is left at zero in a
\* function it enabled; and the two capability walks agree (pci.rs, virtio.rs).
PciScanExact ==
    x.codec = "pci" =>
      \A st \in {D!pci_init(PciMachine(x.pos, x.f, x.f), 8)} :
        LET m == PciMachine(x.pos, x.f, x.f)
            seen == {at \in x.pos : at[2] = 0 \/ (<<at[1], 0>> \in x.pos /\ m[<<at[1], 0>>].multi)}
            Before(a, b) == a[1] < b[1] \/ (a[1] = b[1] /\ a[2] < b[2])
            units == {<<at, i>> \in x.pos \X (1 .. 3) : st.m[at].bars[i].kind \in {"mem32", "mem64"}
                                                      /\ st.m[at].bars[i].addr >= 8}
            i == D!vpci_identity(st, 1)
            c == D!vpci_parse_caps(x.f)
        IN  /\ ToSet(st.table) \subseteq seen /\ Len(st.table) = IF Cardinality(seen) < 4 THEN Cardinality(seen) ELSE 4
            /\ \A k \in 2 .. Len(st.table) : Before(st.table[k - 1], st.table[k])
            /\ \A at \in seen \ ToSet(st.table) : \A k \in DOMAIN st.table : Before(st.table[k], at)
            /\ \A u, w \in units : st.m[u[1]].bars[u[2]].addr = st.m[w[1]].bars[w[2]].addr => u = w
            /\ \A at \in seen : st.m[at].mastering =>
                  \A k \in 1 .. 3 : st.m[at].bars[k].kind \in {"mem32", "mem64"} => st.m[at].bars[k].addr # 0
            /\ i # 0 => st.m[st.table[i]].id \in {<<"modern", 1>>, <<"transitional", 1>>}
            /\ (i = 0) = (\A k \in DOMAIN st.table : st.table[k] = <<1, 0>>)
            /\ i # 0 => D!enable_bus_mastering(st.m, st.table[i])[<<st.table[i][1], 0>>].mastering
            /\ c.d.msix_cap = D!find_msix_cap(x.f)
            /\ D!msix_enable({"mask", "rest"}, TRUE) = {"enable", "rest"} /\ D!msix_enable({"enable", "mask"}, FALSE) = {"mask"}

\* gVNIC bring-up succeeds exactly when a known format is inside the
\* descriptor, the doorbells, the counters and enough pages are there and no
\* command but RSS is refused; then the driver's queues are the ones the
\* device created, each with a notification block and a page list of its
\* own, the steering table reaches all of them and only them, no batch of
\* commands laps the admin ring, and no masked tail is the device's head.
\* After a failure the driver is not ready, and has published no queue the
\* device refused.
GveBringUpAgrees ==
    x.codec = "gve" =>
        \A r \in {D!gve_init(x.g)}, n \in {D!NumPairs(x.g)} :
            /\ ~r.lapped
            /\ r.tx \subseteq {q.qp : q \in r.devTx} /\ r.rx \subseteq {q.qp : q \in r.devRx}
            /\ r.ready => /\ r.tx = 0 .. n - 1 /\ r.rx = 0 .. n - 1
                          /\ Cardinality(r.devTx) = n /\ Cardinality(r.devRx) = n
                          /\ (n > 1 /\ x.g.fails # "rss") => ToSet(r.lut) = 0 .. n - 1
                          /\ \A i \in DOMAIN r.tail : r.fmt = "dqo" => r.tail[i] \notin {0, 8}
            /\ (~r.ready /\ ~r.panic /\ r.fmt # "none" /\ x.g.pages = 100 /\ x.g.bar2) =>
                   x.g.counters = 0 \/ x.g.fails \in {"configure", "register", "tx", "rx"}

\* A congestion controller stays between its smallest and its largest window,
\* an acknowledgement never shrinks it, a loss never grows it and shrinks it
\* only once in a round trip; the cube root is the integer one; and the time a
\* loss is next looked for is the first at which there is one (lib.rs, loss.rs
\* of crates/net/cc).
CongestionExact ==
    /\ x.codec = "cc" =>
         LET start == [now |-> 1, r |-> IF x.algo = "reno" THEN CC!NewReno ELSE CC!Cubic]
             after[n \in 0 .. 4] == IF n = 0 THEN start ELSE CcStep(after[n - 1], x.es[n])
         IN  \A n \in 1 .. 4 :
               LET old == after[n - 1].r  new == after[n].r IN
               /\ CC!MinimumWindow <= new.cwnd /\ new.cwnd <= 60
               /\ x.es[n].k = "ack" => new.cwnd >= old.cwnd /\ (old.rec.active => new.cwnd = old.cwnd)
               /\ x.es[n].k = "loss" => IF old.rec.active THEN new = old
                                        ELSE new.cwnd = new.ssthresh /\ new.rec.rem = old.cwnd
               /\ x.es[n].k # "ack" => new.cwnd <= old.cwnd
    /\ x.codec = "cube root" => LET r == CC!Icbrt(x.n) IN CC!Cube(r) <= x.n /\ x.n < CC!Cube(r + 1)
    /\ x.codec = "loss" =>
         LET Lost(t) == CC!LostUnits(x.units, 4, 3, x.th, t)
             at == CC!LossDeadline(x.units, 4, 3, x.th, x.now)
         IN  IF at = 0 THEN Lost(20) = Lost(x.now)
             ELSE at > x.now /\ Lost(at) # Lost(x.now) /\ Lost(at - 1) = Lost(x.now)

\* What one end writes the other reads: the frames, headers and parameters of
\* QUIC, sealed messages, compressed header fields, the messages of TLS and
\* those of HTTP/1, and the packets of the stack and of the hypervisor host.
WireReadsBack ==
    /\ QuicFramesReadBack /\ QuicHeadersReadBack /\ PacketNumberReadBack /\ QuicParamsReadBack
    /\ PolyvalExact /\ GcmOpensWhatItSeals
    /\ HuffmanReadsBack /\ HpackAgrees /\ FieldsReadBack
    /\ TlsHelloReadsBack /\ TlsMessagesReadBack
    /\ Http1RequestReadsBack /\ Http1ResponseReadsBack /\ Http1ChunkedReadsBack
    /\ UdpReadsBack /\ ChecksumExact /\ NeighbourDiscoveryExact /\ NdpKeepsTheLast
    /\ DhcpReadsBack /\ PmtuNamesTheSegment /\ HvfFramesRead

\* After bring-up a driver and its device agree.
BringUpAgrees == VirtioAgrees /\ MmioAgrees /\ PciScanExact /\ GveBringUpAgrees

-----------------------------------------------------------------------------
(* The protocols *)

VARIABLES part,  \* the part that runs
  \* Http2: http2, http2_pair
  conn, http2Task, http2Pc, sending, http2Wire, client, h, up, wrote,
  \* Tls: tls, tls_abandon
  end, tlsTask, tlsWire, closed, session, wallet,
  \* Tls: the ticket store
  once, value, slot, doing, arg, loaded, used, accepted, offers, evicted

http2Vars == <<conn, http2Task, http2Pc, sending, http2Wire, client, h, up, wrote>>
tlsVars == <<end, tlsTask, tlsWire, closed, session, wallet>>
ticketVars == <<once, value, slot, doing, arg, loaded, used, accepted, offers, evicted>>
MCVars == <<part, x, http2Vars, tlsVars, ticketVars>>

\* The value of a variable that the running part does not use.
Off == "off"

\* One stream with windows of one unit.
Server == INSTANCE Http2 WITH
  task <- http2Task, pc <- http2Pc, wire <- http2Wire, Sids <- {1}, InitialWindow <- 1, MaxFrame <- 1,
  SendCap <- 1, MaxStreams <- 2, FloodCap <- 3, ResetCap <- 1, ArenaSlots <- 1, WireCap <- 1, BodyLen <- 2,
  ReplyLens <- {1}, Writes <- {1}, MaxWrites <- 1, MaxGrants <- 1, ClientInits <- {0}, MayPad <- FALSE,
  MayMismatch <- FALSE, MayGrantEarly <- FALSE, HandlersFail <- FALSE, Requests <- Off, BodyCap <- Off,
  MayLose <- Off
\* The project's client with a request whose body is larger than the window.
Pair == INSTANCE Http2 WITH
  task <- http2Task, pc <- http2Pc, wire <- http2Wire, Sids <- {1, 3}, InitialWindow <- 2, MaxFrame <- 1,
  SendCap <- 2, MaxStreams <- 2, FloodCap <- 100, ResetCap <- 3, ArenaSlots <- 2, WireCap <- 3, BodyLen <- 3,
  ReplyLens <- {0, 3}, Writes <- {1, 2}, MaxWrites <- 2, MaxGrants <- 0, ClientInits <- {}, MayPad <- FALSE,
  MayMismatch <- FALSE, MayGrantEarly <- FALSE, HandlersFail <- FALSE, Requests <- 1, BodyCap <- 3,
  MayLose <- FALSE
\* Two sessions, the second resumed; records that are split and joined.  Two workers
\* that race to draw the ticket key.
Tls == INSTANCE Tls WITH
  task <- tlsTask, wire <- tlsWire, HeaderLen <- 2, MaxRecord <- 6, MaxPlain <- 2, CertLen <- 2,
  TxBufLen <- 60, Scratch <- 7, SealLimit <- 100, Offers <- {{"h2", "http/1.1"}, {}}, PinOk <- TRUE,
  Packings <- {"one", "split", "joined"}, Ask <- 3, Answer <- 3, Sessions <- 2, Resumes <- TRUE,
  MayExpire <- TRUE, MayAbandon <- FALSE, PeerWaits <- FALSE, Workers <- {"w1", "w2"},
  Nonces <- {<<1, 1>>, <<2, 2>>}, Offered <- 2
\* A server task that goes away.
TlsAbandon == INSTANCE Tls WITH
  task <- tlsTask, wire <- tlsWire, HeaderLen <- 2, MaxRecord <- 6, MaxPlain <- 2, CertLen <- 2,
  TxBufLen <- 60, Scratch <- 7, SealLimit <- 100, Offers <- {{"h2", "http/1.1"}}, PinOk <- TRUE,
  Packings <- {"one"}, Ask <- 3, Answer <- 3, Sessions <- 2, Resumes <- TRUE, MayExpire <- TRUE,
  MayAbandon <- TRUE, PeerWaits <- FALSE, Workers <- {}, Nonces <- {}, Offered <- 0

http2Init ==
  IF part = "http2" THEN Server!Init /\ h = Off /\ up = Off /\ wrote = Off
  ELSE IF part = "http2_pair" THEN Pair!PairInit
  ELSE conn = Off /\ http2Task = Off /\ http2Pc = Off /\ sending = Off /\ http2Wire = Off /\ client = Off /\
       h = Off /\ up = Off /\ wrote = Off

tlsInit ==
  IF part = "tls" THEN Tls!Init
  ELSE IF part = "tls_abandon" THEN TlsAbandon!Init
  ELSE end = Off /\ tlsTask = Off /\ tlsWire = Off /\ closed = Off /\ session = Off /\ wallet = Off

ticketInit ==
  IF part = "tickets" THEN Tls!TicketInit
  ELSE once = Off /\ value = Off /\ slot = Off /\ doing = Off /\ arg = Off /\ loaded = Off /\
       used = Off /\ accepted = Off /\ offers = Off /\ evicted = Off

MCInit ==
  /\ part \in {"codec", "http2", "http2_pair", "tls", "tls_abandon", "tickets"}
  /\ IF part = "codec" THEN CodecInit ELSE x = [codec |-> Off]
  /\ http2Init
  /\ tlsInit
  /\ ticketInit

MCNext ==
  /\ part' = part
  /\ \/ /\ part = "codec" /\ CodecNext
        /\ UNCHANGED <<http2Vars, tlsVars, ticketVars>>
     \/ /\ part = "http2" /\ Server!Next
        /\ UNCHANGED <<h, up, wrote, x, tlsVars, ticketVars>>
     \/ /\ part = "http2_pair" /\ Pair!PairNext
        /\ UNCHANGED <<x, tlsVars, ticketVars>>
     \/ /\ part = "tls" /\ Tls!Next
        /\ UNCHANGED <<x, http2Vars, ticketVars>>
     \/ /\ part = "tls_abandon" /\ TlsAbandon!Next
        /\ UNCHANGED <<x, http2Vars, ticketVars>>
     \/ /\ part = "tickets" /\ Tls!TicketNext
        /\ UNCHANGED <<x, http2Vars, tlsVars>>

MCSpec == MCInit /\ [][MCNext]_MCVars

-----------------------------------------------------------------------------
\* HTTP/2: windows and credit are counted exactly, the demultiplexer sleeps only
\* when there is nothing to do, a waiting handler is known to it, a request is
\* answered with a well-formed response; with the project's own client the
\* answer arrives whole, the ends never wait for each other and the server
\* never accuses the client of a flood.
Http2Exact ==
  /\ part = "http2" => /\ Server!SendWindowExact /\ Server!ReceiveCreditConserved /\ Server!ParkedDemuxIsIdle
                       /\ Server!WaitingHandlerIsKnown /\ Server!RequestIsAnswered /\ Server!ResponseWellFormed
  /\ part = "http2_pair" => Pair!AnswerIsWhole /\ Pair!NoMutualWait /\ Pair!NoAccusation

\* TLS: honest peers agree on a session, read what the other wrote, use no nonce
\* twice and get the response whole; one ticket key is in use however many
\* workers draw one.
TlsExact ==
  /\ part = "tls" => /\ Tls!HonestPeersNeverFail /\ Tls!SameSession /\ Tls!StreamExact
                     /\ Tls!NonceOnce /\ Tls!ResponseComplete /\ Tls!NoMutualWait
  /\ part = "tls_abandon" => TlsAbandon!SameSession /\ TlsAbandon!StreamExact /\ TlsAbandon!NonceOnce
  /\ part = "tickets" => Tls!OneTicketKey
=============================================================================
