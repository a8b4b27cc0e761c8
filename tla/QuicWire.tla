------------------------------ MODULE QuicWire ------------------------------
(***************************************************************************)
(* The encodings of crates/proto/quic: variable-length integers, packet    *)
(* headers and packet numbers (wire.rs), frames (frame.rs), transport      *)
(* parameters (transport_params.rs).  A byte has ByteBits bits (8 in the   *)
(* code), so that a small byte lets TLC walk through every length form;    *)
(* masks and shifts are written in terms of it.                            *)
(*                                                                         *)
(* A reader returns [ok |-> TRUE, ...] with what it read and `n', the      *)
(* bytes it used, or [ok |-> FALSE, err |-> reason].                       *)
(***************************************************************************)
EXTENDS Integers, Sequences, SequencesExt

CONSTANT ByteBits, MaxCidLen, Version, MaxFixed
    \* MaxFixed: the length of path-challenge data (8) and reset tokens (16)

Byte == 2 ^ ByteBits
Quarter == Byte \div 4
Err(e) == [ok |-> FALSE, err |-> e]
From(s, i) == SubSeq(s, i, Len(s))
\* What Op makes of a successful read; a failed one stands.
Then(r, Op(_)) == IF r.ok THEN Op(r) ELSE r

-----------------------------------------------------------------------------
(* Variable-length integers: the top two bits of the first byte are the    *)
(* logarithm of the length.                                                *)

VarintLen(first) == 2 ^ (first \div Quarter)

ReadVarint(data) ==
    LET len == VarintLen(data[1])
    IN  IF data = <<>> THEN Err("truncated")
        ELSE IF Len(data) < len THEN Err("truncated")
        ELSE [ok |-> TRUE, n |-> len,
              v |-> FoldLeft(LAMBDA v, b : v * Byte + b, data[1] % Quarter, SubSeq(data, 2, len))]

Digits(value, len) == [i \in 1 .. len |-> (value \div Byte ^ (len - i)) % Byte]

WriteVarint(value) ==
    LET len == IF value < Quarter THEN 1
               ELSE IF value < Quarter * Byte THEN 2
               ELSE IF value < Quarter * Byte ^ 3 THEN 4 ELSE 8
        prefix == CASE len = 1 -> 0 [] len = 2 -> 1 [] len = 4 -> 2 [] len = 8 -> 3
        digits == IF len < 8 THEN Digits(value, len)
                  ELSE <<0, 0, 0, 0>> \o Digits(value, 4) \* values stay below four bytes here
    IN  [digits EXCEPT ![1] = @ + prefix * Quarter]

\* A run of varints: the values, and the bytes they took.
ReadVarints(data, count) ==
    LET read(a) == Then(ReadVarint(From(data, a.n + 1)),
                        LAMBDA r : [ok |-> TRUE, n |-> a.n + r.n, v |-> Append(a.v, r.v)])
    IN  FoldLeft(LAMBDA a, i : Then(a, read), [ok |-> TRUE, n |-> 0, v |-> <<>>],
                 [i \in 1 .. count |-> i])

WriteVarints(vs) == FoldLeft(LAMBDA acc, v : acc \o WriteVarint(v), <<>>, vs)

\* `count' varints of which the last is the length of the bytes that follow.
ReadCounted(data, count, short) ==
    Then(ReadVarints(data, count), LAMBDA r :
        IF r.v[count] > Len(data) - r.n THEN Err(short)
        ELSE [ok |-> TRUE, v |-> r.v, n |-> r.n + r.v[count],
              data |-> SubSeq(data, r.n + 1, r.n + r.v[count])])

-----------------------------------------------------------------------------
(* Packet headers. *)

IsLong(first) == first \div (Byte \div 2) = 1
FixedBit(first) == (first \div Quarter) % 2 = 1
LongType(first) == (first \div 2 ^ (ByteBits - 4)) % 4

ParseLongHeaderPreamble(data) ==
    LET dcidLen == data[6]
        scidAt == 7 + dcidLen
        scidLen == data[scidAt]
    IN  IF data = <<>> THEN Err("truncated")
        ELSE IF ~IsLong(data[1]) THEN Err("wrong form")
        ELSE IF ~FixedBit(data[1]) THEN Err("fixed bit")
        ELSE IF Len(data) < 6 THEN Err("truncated")
        ELSE IF SubSeq(data, 2, 5) # Version THEN Err("version")
        ELSE IF dcidLen > MaxCidLen THEN Err("length")
        ELSE IF Len(data) < scidAt THEN Err("truncated")
        ELSE IF scidLen > MaxCidLen THEN Err("length")
        ELSE IF Len(data) < scidAt + scidLen THEN Err("truncated")
        ELSE [ok |-> TRUE, type |-> LongType(data[1]), dcid |-> SubSeq(data, 7, 6 + dcidLen),
              scid |-> SubSeq(data, scidAt + 1, scidAt + scidLen), n |-> scidAt + scidLen]

InitialType == 0
ZeroRttType == 1
HandshakeType == 2

ParseInitialHeader(data) ==
    LET header(p, token) ==
            Then(ReadVarint(From(data, p.n + token.n + 1)), LAMBDA len :
                [ok |-> TRUE, pre |-> p, token |-> token.data, length |-> len.v,
                 n |-> p.n + token.n + len.n])
        tokens(p) == Then(ReadCounted(From(data, p.n + 1), 1, "truncated"),
                          LAMBDA token : header(p, token))
    IN  Then(ParseLongHeaderPreamble(data),
             LAMBDA p : IF p.type # InitialType THEN Err("wrong form") ELSE tokens(p))

ParseLongPayloadHeader(data) ==
    LET header(p) == Then(ReadVarint(From(data, p.n + 1)), LAMBDA len :
                         [ok |-> TRUE, pre |-> p, length |-> len.v, n |-> p.n + len.n])
    IN  Then(ParseLongHeaderPreamble(data), LAMBDA p :
            IF p.type \notin {HandshakeType, ZeroRttType} THEN Err("wrong form") ELSE header(p))

ParseShortHeader(data, dcidLen) ==
    IF dcidLen > MaxCidLen THEN Err("length")
    ELSE IF data = <<>> THEN Err("truncated")
    ELSE IF IsLong(data[1]) THEN Err("wrong form")
    ELSE IF ~FixedBit(data[1]) THEN Err("fixed bit")
    ELSE IF Len(data) < 1 + dcidLen THEN Err("truncated")
    ELSE [ok |-> TRUE, dcid |-> SubSeq(data, 2, 1 + dcidLen), n |-> 1 + dcidLen]

\* The long headers encode_initial_packet and encode_handshake_packet write.
WriteLongHeader(type, dcid, scid, token, length) ==
    <<3 * Quarter + type * 2 ^ (ByteBits - 4) + 3>> \o Version
    \o <<Len(dcid)>> \o dcid \o <<Len(scid)>> \o scid
    \o (IF type = InitialType THEN WriteVarint(Len(token)) \o token ELSE <<>>)
    \o WriteVarint(length)

-----------------------------------------------------------------------------
(* Packet numbers: only the low bytes travel; the receiver finds the       *)
(* number nearest to the one it expects.  MaxPn is 2^62 in the code.       *)

DecodePacketNumber(largest, truncated, len, maxPn) ==
    LET expected == largest + 1
        win == Byte ^ len
        candidate == (expected \div win) * win + truncated
    IN  IF candidate + win \div 2 <= expected /\ candidate < maxPn - win THEN candidate + win
        ELSE IF candidate > expected + win \div 2 /\ candidate >= win THEN candidate - win
        ELSE candidate

\* The window covers the distance once.
EncodePacketNumberLenTight(pn, largestAcked) ==
    LET unacked == IF pn - largestAcked > 1 THEN pn - largestAcked ELSE 1
    IN  IF largestAcked = -1 THEN 4
        ELSE CHOOSE n \in 1 .. 4 : /\ n = 4 \/ unacked < Byte ^ n
                                   /\ \A m \in 1 .. n - 1 : unacked >= Byte ^ m

\* The shortest length whose window covers twice what is unacknowledged.
EncodePacketNumberLen(pn, largestAcked) ==
    LET unacked == IF pn - largestAcked > 1 THEN pn - largestAcked ELSE 1
        floor == 2 * unacked - 1
    IN  IF largestAcked = -1 THEN 4
        ELSE CHOOSE n \in 1 .. 4 : /\ n = 4 \/ floor < Byte ^ n
                                   /\ \A m \in 1 .. n - 1 : floor >= Byte ^ m

EncodePacketNumber(pn, len) == pn % Byte ^ len

-----------------------------------------------------------------------------
(* Frames. *)

Skipped(kind) == [k |-> "skipped", kind |-> kind]
Got(f, r) == [ok |-> TRUE, f |-> f, n |-> 1 + r.n]

ParseMaxData(b) ==
    Then(ReadVarints(b, 1), LAMBDA r : Got([k |-> "maxdata", max |-> r.v[1]], r))

ParseMaxStreamData(b) ==
    Then(ReadVarints(b, 2),
         LAMBDA r : Got([k |-> "maxstreamdata", sid |-> r.v[1], max |-> r.v[2]], r))

ParseResetStream(b) ==
    Then(ReadVarints(b, 3), LAMBDA r :
        Got([k |-> "reset", sid |-> r.v[1], code |-> r.v[2], final |-> r.v[3]], r))

ParseStopSending(b) ==
    Then(ReadVarints(b, 2), LAMBDA r : Got([k |-> "stop", sid |-> r.v[1], code |-> r.v[2]], r))

SkipOneVarint(b, t) == Then(ReadVarints(b, 1), LAMBDA r : Got(Skipped(t), r))
SkipTwoVarints(b, t) == Then(ReadVarints(b, 2), LAMBDA r : Got(Skipped(t), r))

SkipVarLenField(b, t) == Then(ReadCounted(b, 1, "length"), LAMBDA r : Got(Skipped(t), r))

\* Two varints, a connection id with its length, a stateless reset token.
SkipNewConnectionId(b, t) ==
    LET skip(total) == IF total > Len(b) THEN Err("length") ELSE Got(Skipped(t), [n |-> total])
    IN  Then(ReadVarints(b, 2), LAMBDA r :
            IF r.n + 1 > Len(b) THEN Err("length") ELSE skip(r.n + 1 + b[r.n + 1] + 2 * MaxFixed))

SkipFixed(b, t, n) ==
    IF Len(b) < n THEN Err("truncated") ELSE Got(Skipped(t), [n |-> n])

ParsePathChallenge(b) ==
    IF Len(b) < MaxFixed THEN Err("truncated")
    ELSE Got([k |-> "challenge", data |-> SubSeq(b, 1, MaxFixed)], [n |-> MaxFixed])

\* largest, delay, range count, first range, then the ranges; ECN counts last.
ParseAck(b, ecn) ==
    LET ack(head, ranges, counts) ==
            Got([k |-> "ack", largest |-> head.v[1], delay |-> head.v[2],
                 first |-> head.v[4], ecn |-> counts.v,
                 more |-> [i \in 1 .. head.v[3] |-> <<ranges.v[2 * i - 1], ranges.v[2 * i]>>]],
                [n |-> head.n + ranges.n + counts.n])
        ranged(head, ranges) ==
            Then(ReadVarints(From(b, head.n + ranges.n + 1), IF ecn THEN 3 ELSE 0),
                 LAMBDA counts : ack(head, ranges, counts))
    IN  Then(ReadVarints(b, 4), LAMBDA head :
            Then(ReadVarints(From(b, head.n + 1), 2 * head.v[3]),
                 LAMBDA ranges : ranged(head, ranges)))

ParseCrypto(b) ==
    Then(ReadCounted(b, 2, "truncated"),
         LAMBDA r : Got([k |-> "crypto", off |-> r.v[1], data |-> r.data], r))

StreamBase == 8
StreamFin == 1
StreamLen == 2
StreamOff == 4
HasFlag(t, flag) == (t \div flag) % 2 = 1

\* Without LEN the data runs to the end of the packet.
ParseStream(b, t) ==
    LET offset(id) == IF HasFlag(t, StreamOff) THEN ReadVarint(From(b, id.n + 1))
                      ELSE [ok |-> TRUE, v |-> 0, n |-> 0]
        body(rest) == IF HasFlag(t, StreamLen) THEN ReadCounted(rest, 1, "truncated")
                      ELSE [ok |-> TRUE, data |-> rest, n |-> Len(rest)]
        frame(id, off) ==
            Then(body(From(b, id.n + off.n + 1)), LAMBDA r :
                Got([k |-> "stream", sid |-> id.v, off |-> off.v, data |-> r.data,
                     fin |-> HasFlag(t, StreamFin)], [n |-> id.n + off.n + r.n]))
    IN  Then(ReadVarint(b), LAMBDA id : Then(offset(id), LAMBDA off : frame(id, off)))

ParseCloseTransport(b) ==
    Then(ReadCounted(b, 3, "truncated"), LAMBDA r :
        Got([k |-> "close", code |-> r.v[1], frame |-> r.v[2], reason |-> r.data], r))

ParseCloseApplication(b) ==
    Then(ReadCounted(b, 2, "truncated"),
         LAMBDA r : Got([k |-> "appclose", code |-> r.v[1], reason |-> r.data], r))

ParseFrame(data) ==
    LET t == data[1]
        b == Tail(data)
    IN  IF data = <<>> THEN Err("truncated")
        ELSE CASE t = 0 -> Got([k |-> "padding"], [n |-> 0])
               [] t = 1 -> Got([k |-> "ping"], [n |-> 0])
               [] t \in {2, 3} -> ParseAck(b, t = 3)
               [] t = 4 -> ParseResetStream(b)
               [] t = 5 -> ParseStopSending(b)
               [] t = 6 -> ParseCrypto(b)
               [] t = 7 -> SkipVarLenField(b, t)
               [] t \in StreamBase .. 15 -> ParseStream(b, t)
               [] t = 16 -> ParseMaxData(b)
               [] t = 17 -> ParseMaxStreamData(b)
               [] t \in {18, 19, 20, 22, 23, 25} -> SkipOneVarint(b, t)
               [] t = 21 -> SkipTwoVarints(b, t)
               [] t = 24 -> SkipNewConnectionId(b, t)
               [] t = 26 -> ParsePathChallenge(b)
               [] t = 27 -> SkipFixed(b, t, MaxFixed)
               [] t = 28 -> ParseCloseTransport(b)
               [] t = 29 -> ParseCloseApplication(b)
               [] t = 30 -> Got([k |-> "done"], [n |-> 0])
               [] OTHER -> Err("unknown type")

WriteCrypto(f) == <<6>> \o WriteVarints(<<f.off, Len(f.data)>>) \o f.data

WriteStreamHeader(f) ==
    <<StreamBase + StreamOff + StreamLen + IF f.fin THEN StreamFin ELSE 0>>
    \o WriteVarints(<<f.sid, f.off, Len(f.data)>>)
WriteStream(f) == WriteStreamHeader(f) \o f.data

WriteAck(f) ==
    <<2>> \o WriteVarints(<<f.largest, f.delay, Len(f.more), f.first>> \o FlattenSeq(f.more))

WriteCloseTransport(f) ==
    <<28>> \o WriteVarints(<<f.code, f.frame, Len(f.reason)>>) \o f.reason

WriteMaxStreams(kind, max) == <<kind>> \o WriteVarint(max)
WriteMaxData(f) == <<16>> \o WriteVarint(f.max)
WriteMaxStreamData(f) == <<17>> \o WriteVarints(<<f.sid, f.max>>)
WriteResetStream(f) == <<4>> \o WriteVarints(<<f.sid, f.code, f.final>>)
WriteStopSending(f) == <<5>> \o WriteVarints(<<f.sid, f.code>>)
WritePathResponse(data) == <<27>> \o data

WriteFrame(f) ==
    CASE f.k = "padding" -> <<0>> [] f.k = "ping" -> <<1>> [] f.k = "done" -> <<30>>
      [] f.k = "ack" -> WriteAck(f) [] f.k = "crypto" -> WriteCrypto(f)
      [] f.k = "stream" -> WriteStream(f) [] f.k = "close" -> WriteCloseTransport(f)
      [] f.k = "maxdata" -> WriteMaxData(f) [] f.k = "maxstreamdata" -> WriteMaxStreamData(f)
      [] f.k = "reset" -> WriteResetStream(f) [] f.k = "stop" -> WriteStopSending(f)
      [] f.k = "skipped" -> IF f.kind = 27 THEN WritePathResponse([i \in 1 .. MaxFixed |-> 1])
                            ELSE WriteMaxStreams(f.kind, 1)

-----------------------------------------------------------------------------
(* Transport parameters: a function from parameter ids to values.  The ids *)
(* below hold a varint; 0, 15 and 16 hold connection ids.                  *)

VarintParams == {1, 4, 5, 6, 7, 8, 9, 10, 11}
CidParams == {0, 15, 16}
AckDelayExponent == 10
MaxAckDelay == 11

WriteVarintParam(id, v) ==
    WriteVarint(id) \o WriteVarint(Len(WriteVarint(v))) \o WriteVarint(v)
WriteBytesParam(id, v) == WriteVarint(id) \o WriteVarint(Len(v)) \o v

EncodeParams(order, p) ==
    FoldLeft(LAMBDA acc, id : acc \o (IF id \in CidParams THEN WriteBytesParam(id, p[id])
                                      ELSE WriteVarintParam(id, p[id])), <<>>, order)

\* ServerParams::encode and encode_client_params write their ids in this
\* order, the retry id only when the connection was retried.
ServerParamOrder(retried) == <<0, 15, 4, 5, 6, 7, 8, 9, 1>> \o IF retried THEN <<16>> ELSE <<>>
ClientParamOrder == <<15, 3, 4, 5, 6, 7, 8, 9, 10, 11, 14, 1>>

DefaultParams ==
    [id \in VarintParams \cup CidParams |->
        IF id \in CidParams THEN <<-1>> \* none
        ELSE IF id = AckDelayExponent THEN 3 ELSE IF id = MaxAckDelay THEN 25 ELSE 0]

DecodeVarintPayload(v) ==
    Then(ReadVarint(v), LAMBDA r : IF r.n # Len(v) THEN Err("wire") ELSE r)

OneParam(p, id, v) ==
    LET integer(r) ==
            IF ~r.ok THEN Err("wire")
            ELSE IF id = AckDelayExponent /\ r.v > 20 THEN Err("wire")
            ELSE IF id = MaxAckDelay /\ r.v >= 2 ^ 14 THEN Err("wire")
            ELSE [ok |-> TRUE, p |-> [p EXCEPT ![id] = r.v]]
    IN  IF id \in CidParams THEN [ok |-> TRUE, p |-> [p EXCEPT ![id] = v]]
        ELSE IF id \notin VarintParams THEN [ok |-> TRUE, p |-> p]
        ELSE integer(DecodeVarintPayload(v))

RECURSIVE ParseParamsFrom(_, _)
ParseParamsFrom(p, bytes) ==
    LET next(id, value) ==
            IF ~value.ok THEN Err("wire")
            ELSE Then(OneParam(p, id.v, value.data),
                      LAMBDA r : ParseParamsFrom(r.p, From(bytes, id.n + value.n + 1)))
        named(id) == IF ~id.ok THEN Err("wire")
                     ELSE next(id, ReadCounted(From(bytes, id.n + 1), 1, "wire"))
    IN  IF bytes = <<>> THEN [ok |-> TRUE, p |-> p] ELSE named(ReadVarint(bytes))

ParseParams(bytes) == ParseParamsFrom(DefaultParams, bytes)
=============================================================================
