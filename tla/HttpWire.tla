----------------------------- MODULE HttpWire -------------------------------
(***************************************************************************)
(* The wire formats of the HTTP protocols: the field Huffman code, HPACK and*)
(* QPACK header blocks, and the heads and chunked bodies of HTTP/1.1.      *)
(***************************************************************************)
EXTENDS Integers, Sequences, SequencesExt, FiniteSetsExt

(* The code table HC of crates/proto/field-huffman: <<code, bits>> for the    *)
(* symbols 0 to 255 and the end of string.                                    *)

HC == <<
    <<8184, 13>>, <<8388568, 23>>, <<268435426, 28>>, <<268435427, 28>>, <<268435428, 28>>,
    <<268435429, 28>>, <<268435430, 28>>, <<268435431, 28>>, <<268435432, 28>>,
    <<16777194, 24>>, <<1073741820, 30>>, <<268435433, 28>>, <<268435434, 28>>,
    <<1073741821, 30>>, <<268435435, 28>>, <<268435436, 28>>, <<268435437, 28>>,
    <<268435438, 28>>, <<268435439, 28>>, <<268435440, 28>>, <<268435441, 28>>,
    <<268435442, 28>>, <<1073741822, 30>>, <<268435443, 28>>, <<268435444, 28>>,
    <<268435445, 28>>, <<268435446, 28>>, <<268435447, 28>>, <<268435448, 28>>,
    <<268435449, 28>>, <<268435450, 28>>, <<268435451, 28>>, <<20, 6>>, <<1016, 10>>,
    <<1017, 10>>, <<4090, 12>>, <<8185, 13>>, <<21, 6>>, <<248, 8>>, <<2042, 11>>,
    <<1018, 10>>, <<1019, 10>>, <<249, 8>>, <<2043, 11>>, <<250, 8>>, <<22, 6>>, <<23, 6>>,
    <<24, 6>>, <<0, 5>>, <<1, 5>>, <<2, 5>>, <<25, 6>>, <<26, 6>>, <<27, 6>>, <<28, 6>>,
    <<29, 6>>, <<30, 6>>, <<31, 6>>, <<92, 7>>, <<251, 8>>, <<32764, 15>>, <<32, 6>>,
    <<4091, 12>>, <<1020, 10>>, <<8186, 13>>, <<33, 6>>, <<93, 7>>, <<94, 7>>, <<95, 7>>,
    <<96, 7>>, <<97, 7>>, <<98, 7>>, <<99, 7>>, <<100, 7>>, <<101, 7>>, <<102, 7>>, <<103, 7>>,
    <<104, 7>>, <<105, 7>>, <<106, 7>>, <<107, 7>>, <<108, 7>>, <<109, 7>>, <<110, 7>>,
    <<111, 7>>, <<112, 7>>, <<113, 7>>, <<114, 7>>, <<252, 8>>, <<115, 7>>, <<253, 8>>,
    <<8187, 13>>, <<524272, 19>>, <<8188, 13>>, <<16380, 14>>, <<34, 6>>, <<32765, 15>>,
    <<3, 5>>, <<35, 6>>, <<4, 5>>, <<36, 6>>, <<5, 5>>, <<37, 6>>, <<38, 6>>, <<39, 6>>,
    <<6, 5>>, <<116, 7>>, <<117, 7>>, <<40, 6>>, <<41, 6>>, <<42, 6>>, <<7, 5>>, <<43, 6>>,
    <<118, 7>>, <<44, 6>>, <<8, 5>>, <<9, 5>>, <<45, 6>>, <<119, 7>>, <<120, 7>>, <<121, 7>>,
    <<122, 7>>, <<123, 7>>, <<32766, 15>>, <<2044, 11>>, <<16381, 14>>, <<8189, 13>>,
    <<268435452, 28>>, <<1048550, 20>>, <<4194258, 22>>, <<1048551, 20>>, <<1048552, 20>>,
    <<4194259, 22>>, <<4194260, 22>>, <<4194261, 22>>, <<8388569, 23>>, <<4194262, 22>>,
    <<8388570, 23>>, <<8388571, 23>>, <<8388572, 23>>, <<8388573, 23>>, <<8388574, 23>>,
    <<16777195, 24>>, <<8388575, 23>>, <<16777196, 24>>, <<16777197, 24>>, <<4194263, 22>>,
    <<8388576, 23>>, <<16777198, 24>>, <<8388577, 23>>, <<8388578, 23>>, <<8388579, 23>>,
    <<8388580, 23>>, <<2097116, 21>>, <<4194264, 22>>, <<8388581, 23>>, <<4194265, 22>>,
    <<8388582, 23>>, <<8388583, 23>>, <<16777199, 24>>, <<4194266, 22>>, <<2097117, 21>>,
    <<1048553, 20>>, <<4194267, 22>>, <<4194268, 22>>, <<8388584, 23>>, <<8388585, 23>>,
    <<2097118, 21>>, <<8388586, 23>>, <<4194269, 22>>, <<4194270, 22>>, <<16777200, 24>>,
    <<2097119, 21>>, <<4194271, 22>>, <<8388587, 23>>, <<8388588, 23>>, <<2097120, 21>>,
    <<2097121, 21>>, <<4194272, 22>>, <<2097122, 21>>, <<8388589, 23>>, <<4194273, 22>>,
    <<8388590, 23>>, <<8388591, 23>>, <<1048554, 20>>, <<4194274, 22>>, <<4194275, 22>>,
    <<4194276, 22>>, <<8388592, 23>>, <<4194277, 22>>, <<4194278, 22>>, <<8388593, 23>>,
    <<67108832, 26>>, <<67108833, 26>>, <<1048555, 20>>, <<524273, 19>>, <<4194279, 22>>,
    <<8388594, 23>>, <<4194280, 22>>, <<33554412, 25>>, <<67108834, 26>>, <<67108835, 26>>,
    <<67108836, 26>>, <<134217694, 27>>, <<134217695, 27>>, <<67108837, 26>>, <<16777201, 24>>,
    <<33554413, 25>>, <<524274, 19>>, <<2097123, 21>>, <<67108838, 26>>, <<134217696, 27>>,
    <<134217697, 27>>, <<67108839, 26>>, <<134217698, 27>>, <<16777202, 24>>, <<2097124, 21>>,
    <<2097125, 21>>, <<67108840, 26>>, <<67108841, 26>>, <<268435453, 28>>, <<134217699, 27>>,
    <<134217700, 27>>, <<134217701, 27>>, <<1048556, 20>>, <<16777203, 24>>, <<1048557, 20>>,
    <<2097126, 21>>, <<4194281, 22>>, <<2097127, 21>>, <<2097128, 21>>, <<8388595, 23>>,
    <<4194282, 22>>, <<4194283, 22>>, <<33554414, 25>>, <<33554415, 25>>, <<16777204, 24>>,
    <<16777205, 24>>, <<67108842, 26>>, <<8388596, 23>>, <<67108843, 26>>, <<134217702, 27>>,
    <<67108844, 26>>, <<67108845, 26>>, <<134217703, 27>>, <<134217704, 27>>,
    <<134217705, 27>>, <<134217706, 27>>, <<134217707, 27>>, <<268435454, 28>>,
    <<134217708, 27>>, <<134217709, 27>>, <<134217710, 27>>, <<134217711, 27>>,
    <<134217712, 27>>, <<67108846, 26>>, <<1073741823, 30>>
  >>

-----------------------------------------------------------------------------
(***************************************************************************)
(* The field Huffman decoder of HPACK and QPACK (crates/proto/             *)
(* field-huffman): the code table and the bit-by-bit walk of the tree that *)
(* build_tree makes of it.                                                 *)
(***************************************************************************)
Symbols == 0 .. 256
Eos == 256
CodeOf(sym) == HC[sym + 1]

\* A node of the tree is the string of bits that leads to it: its value and its
\* length.  build_tree leaves the end-of-string symbol out.
Prefix(code, k) == <<code[1] \div 2 ^ (code[2] - k), k>>
InTree == {<<sym, CodeOf(sym)>> : sym \in Symbols \ {Eos}}
Below(node) == {e \in InTree : e[2][2] >= node[2] /\ Prefix(e[2], node[2]) = node}

Bit(byte, i) == (byte \div 2 ^ (7 - i)) % 2

\* decode_into_slice: st is the node, the bytes written and whether only one
\* bits were seen since the root.
Root == <<0, 0>>
DecodeBit(st, bit, cap) ==
    LET ones == bit = 1 /\ (st.node = Root \/ st.ones)
        leaf(sym) == IF Len(st.out) >= cap THEN [st EXCEPT !.ok = FALSE]
                     ELSE [st EXCEPT !.node = Root, !.out = Append(@, sym), !.ones = TRUE]
        at(child, below) ==
            IF below = {} THEN [st EXCEPT !.ok = FALSE]
            ELSE IF \E e \in below : e[2] = child THEN leaf((CHOOSE e \in below : e[2] = child)[1])
            ELSE [st EXCEPT !.node = child, !.ones = ones]
        down(child) == at(child, Below(child))
    IN  down(<<2 * st.node[1] + bit, st.node[2] + 1>>)

\* The walk from the k-th bit on, one state after the other.
RECURSIVE Walk(_, _, _, _)
Walk(st, input, k, cap) ==
    IF ~st.ok \/ k = 8 * Len(input) THEN st
    ELSE CHOOSE r \in {Walk(next, input, k + 1, cap) :
                         next \in {DecodeBit(st, Bit(input[1 + k \div 8], k % 8), cap)}} : TRUE

DecodeIntoSlice(input, cap) ==
    LET end(st) == IF ~st.ok \/ st.node[2] > 7 \/ ~st.ones THEN [ok |-> FALSE]
                   ELSE [ok |-> TRUE, v |-> st.out]
    IN  end(Walk([ok |-> TRUE, node |-> Root, out |-> <<>>, ones |-> TRUE], input, 0, cap))

-----------------------------------------------------------------------------
(* Reference: the encoding of a string is the codes of its bytes, padded   *)
(* with ones to a whole byte.                                              *)

BitsOf(code) == [i \in 1 .. code[2] |-> (code[1] \div 2 ^ (code[2] - i)) % 2]
Encode(s) ==
    LET pad(bits, i) == IF i <= Len(bits) THEN bits[i] ELSE 1
        bytes(bits) == [i \in 1 .. (Len(bits) + 7) \div 8 |->
                           FoldLeft(LAMBDA a, k : 2 * a + pad(bits, 8 * (i - 1) + k), 0,
                                    [k \in 1 .. 8 |-> k])]
    IN  bytes(FlattenSeq([i \in DOMAIN s |-> BitsOf(CodeOf(s[i]))]))

\* The code of a is a prefix of the code of b.
Starts(a, b) ==
    LET starts(c, d) == c[2] <= d[2] /\ Prefix(d, c[2]) = c
    IN  starts(CodeOf(a), CodeOf(b))

-----------------------------------------------------------------------------
(***************************************************************************)
(* Header compression of HTTP/2 (crates/proto/http2/hpack.rs) and HTTP/3   *)
(* (crates/proto/http3/qpack.rs): prefixed integers, strings, the decoder  *)
(* with its dynamic table, the encoder that uses the static table only.    *)
(* A name and a value are sequences of bytes.  A reader returns            *)
(* [ok |-> TRUE, v, n] with n the bytes it has read, or [ok |-> FALSE].    *)
(***************************************************************************)
CONSTANTS Static,         \* the static table: a sequence of <<name, value>>
          EntryOverhead,  \* ENTRY_OVERHEAD (32)
          HardMax,        \* the table size the decoder announced
          MaxList,        \* max_header_list_size
          ScratchLen,     \* length of the scratch buffers
          MaxShift        \* the last shift of a prefixed integer (63)

No == [ok |-> FALSE]
Yes(v, n) == [ok |-> TRUE, v |-> v, n |-> n]
\* What Op makes of a successful read; a failed one stands.
Then(r, Op(_)) == IF r.ok THEN Op(r) ELSE No
From(buf, pos) == SubSeq(buf, pos + 1, Len(buf))

-----------------------------------------------------------------------------
(* Prefixed integers and strings. *)

\* The continuation bytes from buf[p + 1] on.
ReadRest[x \in Seq(0 .. 255) \X Nat \X Nat \X Nat] ==
    LET buf == x[1]
        p == x[2]
        value == x[3] + (buf[p + 1] % 128) * 2 ^ x[4]
    IN  IF p >= Len(buf) THEN No
        ELSE IF buf[p + 1] < 128 THEN Yes(value, p + 1)
        ELSE IF x[4] + 7 > MaxShift THEN No
        ELSE ReadRest[<<buf, p + 1, value, x[4] + 7>>]

ReadInt(buf, bits) ==
    LET mask == 2 ^ bits - 1
    IN  IF buf = <<>> THEN No
        ELSE IF buf[1] % 2 ^ bits < mask THEN Yes(buf[1] % 2 ^ bits, 1)
        ELSE ReadRest[<<buf, 1, mask, 0>>]

WriteRest[v \in Nat] == IF v >= 128 THEN <<(v % 128) + 128>> \o WriteRest[v \div 128] ELSE <<v>>

WriteInt(value, bits, prefix) ==
    LET mask == 2 ^ bits - 1
    IN  IF value < mask THEN <<prefix + value>> ELSE <<prefix + mask>> \o WriteRest[value - mask]

\* read_string; `bits' is 7 in HPACK, and QPACK has names with 3.
ReadString(buf, bits) ==
    LET huffman == (buf[1] \div 2 ^ bits) % 2 = 1
        string(len, raw) ==
            IF Len(buf) - len.n < len.v THEN No
            ELSE IF huffman THEN Then(DecodeIntoSlice(raw, ScratchLen),
                                      LAMBDA s : Yes(s.v, len.n + len.v))
            ELSE IF len.v > ScratchLen THEN No ELSE Yes(raw, len.n + len.v)
    IN  IF buf = <<>> THEN No
        ELSE Then(ReadInt(buf, bits),
                  LAMBDA len : string(len, SubSeq(buf, len.n + 1, len.n + len.v)))

WriteString(s, bits, prefix) == WriteInt(Len(s), bits, prefix) \o s

-----------------------------------------------------------------------------
(* The decoder. *)

NewDecoder == [dynamic |-> <<>>, size |-> 0, max |-> HardMax]

SizeOf(f) == Len(f[1]) + Len(f[2]) + EntryOverhead

\* lookup and the dynamic table behind it; the index is at least one.
EntryAt(d, idx) ==
    IF idx <= Len(Static) THEN [ok |-> TRUE, f |-> Static[idx]]
    ELSE IF idx - Len(Static) <= Len(d.dynamic)
    THEN [ok |-> TRUE, f |-> d.dynamic[idx - Len(Static)]] ELSE No

RECURSIVE EvictTo(_, _)
EvictTo(d, target) ==
    IF d.size <= target THEN d
    ELSE IF d.dynamic = <<>> THEN [d EXCEPT !.size = 0]
    ELSE EvictTo([d EXCEPT !.dynamic = Front(@), !.size = @ - SizeOf(Last(d.dynamic))], target)

Insert(d, f) ==
    LET room == EvictTo(d, IF d.max > SizeOf(f) THEN d.max - SizeOf(f) ELSE 0)
    IN  IF SizeOf(f) > d.max THEN room
        ELSE [room EXCEPT !.dynamic = <<f>> \o @, !.size = @ + SizeOf(f)]

SetMaxSize(d, new) == EvictTo([d EXCEPT !.max = new], new)

\* read_name: an index into the tables, or a literal.
ReadName(d, idx, buf) ==
    IF idx = 0 THEN ReadString(buf, 7)
    ELSE Then(EntryAt(d, idx),
              LAMBDA e : IF Len(e.f[1]) > ScratchLen THEN No ELSE Yes(e.f[1], 0))

\* One literal field: the name after an index of `bits' bits, then the value.
ReadLiteral(d, buf, bits) ==
    LET value(idx, name) ==
            Then(ReadString(From(buf, idx.n + name.n), 7),
                 LAMBDA v : Yes(<<name.v, v.v>>, idx.n + name.n + v.n))
        named(idx) == Then(ReadName(d, idx.v, From(buf, idx.n)), LAMBDA name : value(idx, name))
    IN  Then(ReadInt(buf, bits), named)

\* The decoder d with the fields seen so far and their accounted size.
RECURSIVE DecodeFrom(_, _, _, _)
DecodeFrom(d, buf, fields, listSize) ==
    LET b == buf[1]
        Field(d2, f, n) ==
            IF listSize + SizeOf(f) > MaxList THEN No
            ELSE DecodeFrom(d2, From(buf, n), Append(fields, f), listSize + SizeOf(f))
        Indexed(idx) == IF idx.v = 0 THEN No
                        ELSE Then(EntryAt(d, idx.v), LAMBDA e : Field(d, e.f, idx.n))
        Literal(lit) == Field(IF b >= 64 THEN Insert(d, lit.v) ELSE d, lit.v, lit.n)
        Resize(new) == IF new.v > HardMax THEN No
                       ELSE DecodeFrom(SetMaxSize(d, new.v), From(buf, new.n), fields, listSize)
    IN  IF buf = <<>> THEN [ok |-> TRUE, d |-> d, fields |-> fields]
        ELSE IF b >= 128 THEN Then(ReadInt(buf, 7), Indexed)
        ELSE IF b \in 32 .. 63 THEN Then(ReadInt(buf, 5), Resize)
        ELSE Then(ReadLiteral(d, buf, IF b >= 64 THEN 6 ELSE 4), Literal)

Decode(d, buf) == DecodeFrom(d, buf, <<>>, 0)

-----------------------------------------------------------------------------
(* The encoder. *)

\* static_table::find
FindExact(f) == SelectInSeq(Static, LAMBDA e : e = f)
FindName(f) == SelectInSeq(Static, LAMBDA e : e[1] = f[1])

EncodeOne(f) ==
    IF FindExact(f) # 0 THEN WriteInt(FindExact(f), 7, 128)
    ELSE (IF FindName(f) # 0 THEN WriteInt(FindName(f), 4, 0)
          ELSE WriteInt(0, 4, 0) \o WriteString(f[1], 7, 0)) \o WriteString(f[2], 7, 0)

Lowercase(s) == [i \in DOMAIN s |-> IF s[i] \in 65 .. 90 THEN s[i] + 32 ELSE s[i]]

EncodeHeaderList(fields) ==
    FlattenSeq([i \in DOMAIN fields |-> EncodeOne(<<Lowercase(fields[i][1]), fields[i][2]>>)])

-----------------------------------------------------------------------------
(* QPACK without a dynamic table; its static indices count from zero.      *)

RECURSIVE QpackFields(_, _)
QpackFields(buf, fields) ==
    LET b == buf[1]
        Field(n, f) == QpackFields(From(buf, n), Append(fields, f))
        Value(n, name) == Then(ReadString(From(buf, n), 7), LAMBDA v : Field(n + v.n, <<name, v.v>>))
        Indexed(idx) ==
            IF idx.v >= Len(Static) THEN No
            ELSE IF b >= 128 THEN Field(idx.n, Static[idx.v + 1])
            ELSE Value(idx.n, Static[idx.v + 1][1])
    IN  IF buf = <<>> THEN [ok |-> TRUE, fields |-> fields]
        ELSE IF b \in 128 .. 191 \/ (b \in 64 .. 127 /\ (b \div 16) % 2 = 0) \/ b < 32 THEN No
        ELSE IF b >= 64 THEN Then(ReadInt(buf, IF b >= 128 THEN 6 ELSE 4), Indexed)
        ELSE Then(ReadString(buf, 3), LAMBDA name : Value(name.n, name.v))

DecodeFieldSection(buf) ==
    LET fields(n) == QpackFields(From(buf, n), <<>>)
        based(ric) == Then(ReadInt(From(buf, ric.n), 7),
                           LAMBDA base : IF base.v # 0 THEN No ELSE fields(ric.n + base.n))
    IN  Then(ReadInt(buf, 8), LAMBDA ric : IF ric.v # 0 THEN No ELSE based(ric))

EncodeField(f) ==
    IF FindExact(f) # 0 THEN WriteInt(FindExact(f) - 1, 6, 192)
    ELSE IF FindName(f) # 0 THEN WriteInt(FindName(f) - 1, 4, 80) \o WriteString(f[2], 7, 0)
    ELSE WriteString(f[1], 3, 32) \o WriteString(f[2], 7, 0)

EncodeFieldSection(fields) ==
    <<0, 0>> \o FlattenSeq([i \in DOMAIN fields |-> EncodeField(fields[i])])

-----------------------------------------------------------------------------
(* Reference: a peer's encoder.  Its table holds the newest entries that   *)
(* fit; a representation is [k, f, i] with an index or 0 for a literal.    *)

Fitting(table, max) ==
    LET total(n) == FoldSeq(LAMBDA f, a : a + SizeOf(f), 0, SubSeq(table, 1, n))
        fits == {n \in 0 .. Len(table) : total(n) <= max}
    IN  SubSeq(table, 1, Max(fits))

PeerField(table, r) ==
    LET all == Static \o table
    IN  IF r.i = 0 THEN r.f
        ELSE IF r.k = "indexed" THEN all[r.i] ELSE <<all[r.i][1], r.f[2]>>

PeerBytes(r) ==
    CASE r.k = "indexed" -> WriteInt(r.i, 7, 128)
      [] r.k = "size" -> WriteInt(r.max, 5, 32)
      [] r.k \in {"insert", "plain"} ->
           LET bits == IF r.k = "insert" THEN 6 ELSE 4
               prefix == IF r.k = "insert" THEN 64 ELSE 0
           IN  WriteInt(r.i, bits, prefix)
               \o (IF r.i = 0 THEN WriteString(r.f[1], 7, 0) ELSE <<>>) \o WriteString(r.f[2], 7, 0)

\* What the peer meant by a sequence of representations, from table and max.
RECURSIVE Meant(_, _, _, _)
Meant(table, max, reps, fields) ==
    LET r == Head(reps)
        f == PeerField(table, r)
    IN  IF reps = <<>> THEN [table |-> table, max |-> max, fields |-> fields]
        ELSE IF r.k = "size" THEN Meant(Fitting(table, r.max), r.max, Tail(reps), fields)
        ELSE Meant(IF r.k = "insert" THEN Fitting(<<f>> \o table, max) ELSE table, max,
                   Tail(reps), Append(fields, f))

-----------------------------------------------------------------------------
(***************************************************************************)
(* The HTTP/1.1 wire format (src/crates/proto/http): the request parser of *)
(* the server, the response writer, the request writer of the client, its  *)
(* response parser and its chunked decoder.  Every parser is fed chunk by  *)
(* chunk; a chunk boundary may fall anywhere.                              *)
(*                                                                         *)
(* A message is a sequence of cells.  A cell is a delimiter ("CR", "LF",   *)
(* "SP", "TAB", ":", ";", ","), a digit, or a whole word ("Host", "GET");  *)
(* letter case is not represented.  The slots' capacities count cells.     *)
(***************************************************************************)
CONSTANTS MethodCap,  \* cells of a method the request parser keeps
          PathCap,  \* cells of a path
          NameCap,  \* cells of a header name
          ValueCap,  \* cells of a header value
          MaxHeaders,  \* header slots of a RequestHead
          MaxHead,  \* MAX_HEAD_BYTES
          MaxStatusLine, MaxHeaderBytes, MaxResponseHeaders,
          MaxChunk, MaxHexDigits, MaxExt, MaxTrailer

Crlf == <<"CR", "LF">>

DigitOf == [d \in {"0", "1", "2", "3", "4", "5", "6", "7", "8", "9"} |->
              CHOOSE n \in 0..9 : ToString(n) = d]
HexOf == DigitOf @@ ("a" :> 10 @@ "b" :> 11 @@ "f" :> 15)
IsDigit(b) == b \in DOMAIN DigitOf

\* write_usize: the decimal digits of n, most significant first.
RECURSIVE WriteUsize(_)
WriteUsize(n) == IF n < 10 THEN <<ToString(n)>>
                 ELSE Append(WriteUsize(n \div 10), ToString(n % 10))

\* parse_usize: the value of the leading digits; 0 when there is none.
RECURSIVE ParseUsize(_, _)
ParseUsize(s, n) == IF s = <<>> \/ ~IsDigit(Head(s)) THEN n
                    ELSE ParseUsize(Tail(s), 10 * n + DigitOf[Head(s)])

\* parse_strict_decimal: digits only and at least one.
StrictDecimal(s) ==
  [ok |-> s # <<>> /\ \A i \in DOMAIN s : IsDigit(s[i]), v |-> ParseUsize(s, 0)]

\* The elements of a comma-separated list, trimmed.
RECURSIVE Split(_, _)
Split(s, acc) ==
  IF s = <<>> THEN {acc}
  ELSE IF Head(s) = "," THEN {acc} \cup Split(Tail(s), <<>>)
  ELSE Split(Tail(s), IF Head(s) \in {"SP", "TAB"} THEN acc ELSE Append(acc, Head(s)))
Tokens(s) == Split(s, <<>>)

\* The value of the first header of that name, if any.
HeaderOf(hs, name) ==
  LET at == {i \in DOMAIN hs : hs[i].n = <<name>>}
  IN IF at = {} THEN [ok |-> FALSE, v |-> <<>>]
     ELSE [ok |-> TRUE, v |-> hs[CHOOSE i \in at : \A j \in at : i <= j].v]

TransferEncodingIsChunked(hs) ==
  LET te == HeaderOf(hs, "Transfer-Encoding")
  IN te.ok /\ <<"chunked">> \in Tokens(te.v)

\* Append b to a slot that keeps cap cells and drops the rest.
Keep(s, b, cap) == IF Len(s) < cap THEN Append(s, b) ELSE s

(***************************************************************************)
(* StreamingRequestParser.                                                 *)
(***************************************************************************)
\* The parser and the RequestHead it writes; cur = 0 when every header slot
\* is taken and the header is skipped.
NewRequestParser ==
  [st |-> "Method", method |-> <<>>, cur |-> 0, prior |-> 0, used |-> 0,
   path |-> <<>>, hs |-> <<>>, cl |-> 0, reject |-> FALSE]

DecodeMethod(m) ==
  IF m \in {<<"GET">>, <<"POST">>, <<"PUT">>, <<"DELETE">>, <<"HEAD">>} THEN m ELSE <<"Unknown">>

FinishHeaders(p) ==
  [p EXCEPT !.st = "Done",
            !.cl = ParseUsize(HeaderOf(p.hs, "Content-Length").v, 0),
            !.reject = TransferEncodingIsChunked(p.hs)]

\* One byte of a head.  A state that meets the first byte of the next
\* construct changes state and leaves the byte to it.
RECURSIVE RequestByte(_, _)
RequestByte(p, b) ==
  LET eat == [p EXCEPT !.used = @ + 1]
      OnName  == IF p.cur = 0 THEN eat
                 ELSE [eat EXCEPT !.hs[p.cur].n = Keep(@, b, NameCap)]
      OnValue == IF p.cur = 0 THEN eat
                 ELSE [eat EXCEPT !.hs[p.cur].v = Keep(@, b, ValueCap)]
      OpenSlot == IF Len(p.hs) < MaxHeaders
                  THEN [p EXCEPT !.cur = Len(p.hs) + 1, !.st = "HeaderName",
                                 !.hs = Append(@, [n |-> <<>>, v |-> <<>>])]
                  ELSE [p EXCEPT !.cur = 0, !.st = "HeaderName"]
  IN CASE p.st = "Method" ->
            IF b = "SP" THEN [eat EXCEPT !.method = DecodeMethod(@), !.st = "Target"]
            ELSE [eat EXCEPT !.method = Keep(@, b, MethodCap)]
       [] p.st = "Target" ->
            IF b = "SP" THEN [eat EXCEPT !.st = "Version"]
            ELSE [eat EXCEPT !.path = Keep(@, b, PathCap)]
       [] p.st = "Version" -> IF b = "CR" THEN [eat EXCEPT !.st = "AfterCR"] ELSE eat
       [] p.st = "AfterCR" ->
            IF b = "LF" THEN [eat EXCEPT !.st = "LineStart"]
            ELSE RequestByte([p EXCEPT !.st = "LineStart"], b)
       [] p.st = "LineStart" ->
            IF b = "CR" THEN [eat EXCEPT !.st = "FinalCR"]
            ELSE IF b = "LF" THEN FinishHeaders(eat)
            ELSE RequestByte(OpenSlot, b)
       [] p.st = "HeaderName" -> IF b = ":" THEN [eat EXCEPT !.st = "Colon"] ELSE OnName
       [] p.st = "Colon" ->
            IF b = "SP" THEN eat
            ELSE IF b = "CR" THEN [eat EXCEPT !.st = "AfterCR"]
            ELSE IF b = "LF" THEN [eat EXCEPT !.st = "LineStart"]
            ELSE RequestByte([p EXCEPT !.st = "Value"], b)
       [] p.st = "Value" -> IF b = "CR" THEN [eat EXCEPT !.st = "AfterCR"] ELSE OnValue
       [] p.st = "FinalCR" -> FinishHeaders(IF b = "LF" THEN eat ELSE p)
       [] OTHER -> p

RECURSIVE RequestBytes(_, _, _)
RequestBytes(p, s, i) ==
  IF i > Len(s) \/ p.st = "Done" THEN p
  ELSE CHOOSE r \in {RequestBytes(q, s, i + 1) : q \in {RequestByte(p, s[i])}} : TRUE

\* feed: [r |-> "Done" / "NeedMore" / "Overflow", p |-> the parser, used |-> consumed].
FeedRequest(p, s) ==
  LET cap == IF MaxHead > p.prior THEN MaxHead - p.prior ELSE 0
      in  == SubSeq(s, 1, IF Len(s) < cap THEN Len(s) ELSE cap)
      q   == RequestBytes([p EXCEPT !.used = 0], in, 1)
  IN IF q.st = "Done" THEN [r |-> "Done", p |-> q, used |-> q.used]
     ELSE [r |-> IF Len(in) < Len(s) THEN "Overflow" ELSE "NeedMore",
           p |-> [q EXCEPT !.prior = @ + Len(in)], used |-> 0]

(***************************************************************************)
(* Writers.                                                                *)
(***************************************************************************)
RECURSIVE HeaderLines(_)
HeaderLines(hs) ==
  IF hs = <<>> THEN <<>>
  ELSE Head(hs).n \o <<":", "SP">> \o Head(hs).v \o Crlf \o HeaderLines(Tail(hs))

\* serialize_request.
SerializeRequest(req) ==
  req.method \o <<"SP">> \o req.path \o <<"SP", "HTTP/1.1">> \o Crlf
  \o <<"Host", ":", "SP">> \o req.host \o Crlf
  \o HeaderLines(req.headers)
  \o (IF req.hasBody THEN <<"Content-Length", ":", "SP">> \o WriteUsize(Len(req.body)) \o Crlf ELSE <<>>)
  \o (IF req.close THEN <<"Connection", ":", "SP", "close">> \o Crlf ELSE <<>>)
  \o Crlf \o (IF req.hasBody THEN req.body ELSE <<>>)

\* write_status_code: three digits, or a lone 0.
StatusCode(s) == IF s \in 100..999 THEN WriteUsize(s) ELSE <<"0">>

StatusAndType(status, ct) ==
  <<"HTTP/1.1", "SP">> \o StatusCode(status) \o <<"SP", "Reason">> \o Crlf
  \o <<"Content-Type", ":", "SP">> \o ct

\* write_response_head_parts.
ResponseHead(status, ct, extra, len, keepAlive) ==
  StatusAndType(status, ct) \o Crlf
  \o <<"Content-Length", ":", "SP">> \o WriteUsize(len) \o Crlf
  \o <<"Connection", ":", "SP", IF keepAlive THEN "keep-alive" ELSE "close">> \o Crlf
  \o HeaderLines(extra) \o Crlf

\* write_streaming_head_parts.
StreamingHead(status, ct, extra) ==
  StatusAndType(status, ct) \o Crlf
  \o <<"Connection", ":", "SP", "close">> \o Crlf \o HeaderLines(extra) \o Crlf

(***************************************************************************)
(* ResponseParser: stricter than the request parser; a fault is kept and   *)
(* returned by every later feed.                                           *)
(***************************************************************************)
NewResponseParser ==
  [st |-> "Version", ver |-> <<>>, digits |-> 0, status |-> 0, sbytes |-> 0, hbytes |-> 0,
   used |-> 0, err |-> "none", http10 |-> FALSE, hs |-> <<>>,
   hasCl |-> FALSE, cl |-> 0, chunked |-> FALSE, close |-> FALSE]

RespErr(p, e) == [p EXCEPT !.err = e]

\* note_status / note_header: charge one byte to the section's budget.
EatStatus(p) == IF p.sbytes + 1 > MaxStatusLine THEN RespErr(p, "StatusLineTooLong")
                ELSE [p EXCEPT !.sbytes = @ + 1, !.used = @ + 1]
EatHeader(p) == IF p.hbytes + 1 > MaxHeaderBytes THEN RespErr(p, "HeadersTooLarge")
                ELSE [p EXCEPT !.hbytes = @ + 1, !.used = @ + 1]

RECURSIVE TrimEnd(_)
TrimEnd(s) == IF s # <<>> /\ Last(s) \in {"SP", "TAB"} THEN TrimEnd(Front(s)) ELSE s

\* finish_head: the framing and the connection's fate, from the headers.
FinishHead(p) ==
  LET cls  == {i \in DOMAIN p.hs : p.hs[i].n = <<"Content-Length">>}
      val  == {StrictDecimal(p.hs[i].v) : i \in cls}
      toks == LET c == HeaderOf(p.hs, "Connection") IN IF c.ok THEN Tokens(c.v) ELSE {}
      bad  == (\E v \in val : ~v.ok) \/ (\E v, w \in val : v.v # w.v)
  IN IF bad THEN RespErr(p, "BadContentLength")
     ELSE [p EXCEPT !.hasCl = cls # {},
                    !.cl = IF cls = {} THEN 0 ELSE (CHOOSE v \in val : TRUE).v,
                    !.chunked = TransferEncodingIsChunked(p.hs),
                    !.close = \/ <<"close">> \in toks
                              \/ p.http10 /\ <<"keep-alive">> \notin toks]

RECURSIVE ResponseByte(_, _)
ResponseByte(p, b) ==
  LET to(q, st) == IF q.err # "none" THEN q ELSE [q EXCEPT !.st = st]
      blank == b \in {"SP", "TAB"}
      last  == Len(p.hs)
  IN CASE p.st = "Version" ->
            IF b # "SP" THEN IF p.ver # <<>> THEN RespErr(p, "BadVersion")
                             ELSE EatStatus([p EXCEPT !.ver = <<b>>])
            ELSE IF p.ver \notin {<<"HTTP/1.1">>, <<"HTTP/1.0">>} THEN RespErr(p, "BadVersion")
            ELSE to(EatStatus([p EXCEPT !.http10 = (p.ver = <<"HTTP/1.0">>)]), "Code")
       [] p.st = "Code" ->
            IF IsDigit(b)
            THEN IF p.digits = 3 THEN RespErr(p, "BadStatusLine")
                 ELSE EatStatus([p EXCEPT !.status = 10 * @ + DigitOf[b], !.digits = @ + 1])
            ELSE IF b \notin {"SP", "CR"} \/ p.digits # 3 THEN RespErr(p, "BadStatusLine")
            ELSE to(EatStatus(p), IF b = "SP" THEN "Reason" ELSE "StatusCr")
       [] p.st = "Reason" ->
            IF b = "LF" THEN RespErr(p, "BadStatusLine")
            ELSE to(EatStatus(p), IF b = "CR" THEN "StatusCr" ELSE "Reason")
       [] p.st = "StatusCr" ->
            IF b # "LF" THEN RespErr(p, "BareCr") ELSE to(EatStatus(p), "LineStart")
       [] p.st = "LineStart" ->
            IF b = "CR" THEN to(EatHeader(p), "FinalCr")
            ELSE IF b = "LF" THEN RespErr(p, "BadHeader")
            ELSE IF blank THEN RespErr(p, "ObsFold")
            ELSE IF Len(p.hs) = MaxResponseHeaders THEN RespErr(p, "TooManyHeaders")
            ELSE ResponseByte([p EXCEPT !.hs = Append(@, [n |-> <<>>, v |-> <<>>]),
                                        !.st = "HeaderName"], b)
       [] p.st = "HeaderName" ->
            IF b = ":" THEN IF p.hs[last].n = <<>> THEN RespErr(p, "BadHeader")
                            ELSE to(EatHeader(p), "Colon")
            ELSE IF blank \/ b \in {"CR", "LF"} THEN RespErr(p, "BadHeader")
            ELSE EatHeader([p EXCEPT !.hs[last].n = Keep(@, b, NameCap)])
       [] p.st = "Colon" ->
            IF blank THEN EatHeader(p)
            ELSE IF b = "CR" THEN to(EatHeader(p), "ValueCr")
            ELSE IF b = "LF" THEN RespErr(p, "BadHeader")
            ELSE ResponseByte([p EXCEPT !.st = "Value"], b)
       [] p.st = "Value" ->
            IF b = "LF" THEN RespErr(p, "BadHeader")
            ELSE IF b = "CR" THEN to(EatHeader([p EXCEPT !.hs[last].v = TrimEnd(@)]), "ValueCr")
            ELSE EatHeader([p EXCEPT !.hs[last].v = Keep(@, b, ValueCap)])
       [] p.st = "ValueCr" ->
            IF b # "LF" THEN RespErr(p, "BareCr") ELSE to(EatHeader(p), "LineStart")
       [] p.st = "FinalCr" ->
            IF b # "LF" THEN RespErr(p, "BareCr")
            ELSE FinishHead([p EXCEPT !.st = "Done", !.used = @ + 1])
       [] OTHER -> p

RECURSIVE ResponseBytes(_, _, _)
ResponseBytes(p, s, i) ==
  IF i > Len(s) \/ p.st = "Done" \/ p.err # "none" THEN p
  ELSE CHOOSE r \in {ResponseBytes(q, s, i + 1) : q \in {ResponseByte(p, s[i])}} : TRUE

\* feed: the parser after s; used counts what this feed consumed.
FeedResponse(p, s) == ResponseBytes([p EXCEPT !.used = 0], s, 1)

\* body_framing.
BodyFraming(p) ==
  IF p.status \in {204, 304} THEN "NoBody"
  ELSE IF p.chunked THEN "Chunked"
  ELSE IF p.hasCl THEN "ContentLength" ELSE "ReadToEof"

(***************************************************************************)
(* ChunkedDecoder.  A trailer line is charged its length plus one each     *)
(* time the decoder enters or resumes it: "fresh" marks that charge.       *)
(***************************************************************************)
NewChunkedDecoder ==
         [st |-> "Size", rem |-> 0, digits |-> 0, ext |-> 0, trail |-> 0, fresh |-> FALSE,
          used |-> 0, err |-> "none", out |-> <<>>]

ChunkErr(d, e) == [d EXCEPT !.err = e]

\* Charge n bytes to the trailer's budget.
Charge(d, n) == IF d.trail + n > MaxTrailer THEN ChunkErr(d, "TrailerTooLarge")
                ELSE [d EXCEPT !.trail = @ + n, !.used = @ + 1]

ChunkByte(d, b) ==
  LET eat == [d EXCEPT !.used = @ + 1]
      to(q, st) == IF q.err # "none" THEN q ELSE [q EXCEPT !.st = st]
      Expect(c, st) == IF b # c THEN ChunkErr(d, "BadFraming") ELSE [eat EXCEPT !.st = st]
  IN CASE d.st = "Size" ->
            IF b \in DOMAIN HexOf
            THEN LET rem == 16 * d.rem + HexOf[b]
                 IN IF d.digits = MaxHexDigits THEN ChunkErr(d, "BadSize")
                    ELSE IF rem > MaxChunk THEN ChunkErr(d, "ChunkTooLarge")
                    ELSE [eat EXCEPT !.rem = rem, !.digits = @ + 1]
            ELSE IF b \notin {";", "CR"} \/ d.digits = 0 THEN ChunkErr(d, "BadSize")
            ELSE [eat EXCEPT !.st = IF b = ";" THEN "SizeExt" ELSE "SizeCr"]
       [] d.st = "SizeExt" ->
            IF b = "LF" THEN ChunkErr(d, "BadFraming")
            ELSE IF b = "CR" THEN [eat EXCEPT !.st = "SizeCr"]
            ELSE IF d.ext + 1 > MaxExt THEN ChunkErr(d, "ExtTooLong")
            ELSE [eat EXCEPT !.ext = @ + 1]
       [] d.st = "SizeCr" ->
            IF b # "LF" THEN ChunkErr(d, "BadFraming")
            ELSE [eat EXCEPT !.digits = 0, !.ext = 0,
                             !.st = IF d.rem = 0 THEN "TrailerStart" ELSE "Data"]
       [] d.st = "Data" ->
            [eat EXCEPT !.out = Append(@, b), !.rem = @ - 1,
                        !.st = IF d.rem = 1 THEN "DataCr" ELSE "Data"]
       [] d.st = "DataCr" -> Expect("CR", "DataLf")
       [] d.st = "DataLf" -> Expect("LF", "Size")
       [] d.st = "TrailerStart" ->
            IF b = "LF" THEN ChunkErr(d, "BadFraming")
            ELSE [to(Charge(d, 1), IF b = "CR" THEN "TrailerEndCr" ELSE "TrailerLine")
                    EXCEPT !.fresh = TRUE]
       [] d.st = "TrailerLine" ->
            LET own == IF b \in {"CR", "LF"} THEN 0 ELSE 1
                q   == Charge([d EXCEPT !.fresh = FALSE], own + (IF d.fresh THEN 1 ELSE 0))
            IN IF q.err # "none" THEN q
               ELSE IF b = "LF" THEN ChunkErr(d, "BadFraming")
               ELSE IF b = "CR" THEN [q EXCEPT !.st = "TrailerLineCr"] ELSE q
       [] d.st = "TrailerLineCr" -> Expect("LF", "TrailerStart")
       [] d.st = "TrailerEndCr" -> Expect("LF", "Done")
       [] OTHER -> d

RECURSIVE ChunkBytes(_, _, _)
ChunkBytes(d, s, i) ==
  IF i > Len(s) \/ d.st = "Done" \/ d.err # "none" THEN d
  ELSE CHOOSE r \in {ChunkBytes(q, s, i + 1) : q \in {ChunkByte(d, s[i])}} : TRUE

\* feed: the decoder after s; its output accumulates in out.
FeedChunked(d, s) == ChunkBytes([d EXCEPT !.used = 0, !.fresh = TRUE], s, 1)

(***************************************************************************)
(* host_header_port: the port of a Host header, after the brackets of an   *)
(* IPv6 literal.                                                            *)
(***************************************************************************)
HostHeaderPort(h) ==
  LET first(s, c) == {i \in DOMAIN s : s[i] = c /\ \A j \in 1..i - 1 : s[j] # c}
      open  == h # <<>> /\ Head(h) = "["
      close == first(h, "]")
      after == IF ~open THEN h
               ELSE SubSeq(h, (CHOOSE i \in close : TRUE) + 1, Len(h))
      digits == SubSeq(after, (CHOOSE i \in first(after, ":") : TRUE) + 1, Len(after))
      port  == StrictDecimal(digits)
  IN IF open /\ close = {} THEN [ok |-> FALSE, v |-> 0]
     ELSE IF first(after, ":") = {} THEN [ok |-> FALSE, v |-> 0]
     ELSE IF ~port.ok \/ port.v > 65535 THEN [ok |-> FALSE, v |-> 0] ELSE port
=============================================================================
