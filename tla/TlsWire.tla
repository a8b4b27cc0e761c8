------------------------------ MODULE TlsWire -------------------------------
(***************************************************************************)
(* The messages of the TLS handshake and the protection of records.        *)
(***************************************************************************)
EXTENDS Integers, Sequences, SequencesExt, FiniteSets

(***************************************************************************)
(* The encodings of crates/proto/tls: handshake messages (handshake/) and  *)
(* the inner plaintext of a record (record.rs).  Randoms, public keys and  *)
(* hashes, 32 bytes in the code, have KeyLen bytes.  A reader returns what *)
(* it read and the rest, or [ok |-> FALSE, err |-> reason].                *)
(***************************************************************************)
CONSTANTS KeyLen,   \* 32: random, X25519 public key, HASH_LEN
          MaxSid,   \* 32: longest legacy_session_id
          MaxPsks   \* 4: identities and binders that are kept

Suite == 4865             \* TLS_AES_128_GCM_SHA256
Ecdsa == 1027             \* ECDSA_SECP256R1_SHA256
X25519 == 29
Tls13 == 772
Tls12 == 771

ExtType == [sni |-> 0, groups |-> 10, sigalgs |-> 13, alpn |-> 16, psk |-> 41,
            versions |-> 43, modes |-> 45, share |-> 51, quic |-> 57]

Err(e) == [ok |-> FALSE, err |-> e]
From(s, i) == SubSeq(s, i, Len(s))

-----------------------------------------------------------------------------
(* Reader, and what the builders write.                                    *)

BigEndian(v, n) == [i \in 1 .. n |-> (v \div 256 ^ (n - i)) % 256]
Value(bytes) == FoldLeft(LAMBDA v, b : v * 256 + b, 0, bytes)

ReadBytes(s, n) ==
    IF Len(s) < n THEN Err("truncated")
    ELSE [ok |-> TRUE, v |-> SubSeq(s, 1, n), rest |-> From(s, n + 1)]

\* What Op makes of a successful read; a failed one stands.
Then(r, Op(_)) == IF r.ok THEN Op(r) ELSE r

ReadUint(s, n) == Then(ReadBytes(s, n), LAMBDA r : [r EXCEPT !.v = Value(r.v)])

\* A vector behind a length of n bytes.
ReadVector(s, n) == Then(ReadUint(s, n), LAMBDA r : ReadBytes(r.rest, r.v))

\* Fields one after the other, each <<"uint" | "bytes" | "vector", n>>: the
\* values read, those before a failure included.
ReadField(s, f) ==
    CASE f[1] = "uint" -> ReadUint(s, f[2])
      [] f[1] = "bytes" -> ReadBytes(s, f[2])
      [] f[1] = "vector" -> ReadVector(s, f[2])

ReadFields(s, fields) ==
    LET add(a, r) == IF r.ok THEN [a EXCEPT !.v = Append(@, r.v), !.rest = r.rest]
                     ELSE [a EXCEPT !.ok = FALSE, !.err = r.err]
    IN FoldLeft(LAMBDA a, f : IF a.ok THEN add(a, ReadField(a.rest, f)) ELSE a,
                [ok |-> TRUE, err |-> "", v |-> <<>>, rest |-> s], fields)

Vector(n, bytes) == BigEndian(Len(bytes), n) \o bytes

U16(v) == BigEndian(v, 2)

\* Whole 16-bit values of a list, which must not end in half of one.
Pairs(s) == [i \in 1 .. Len(s) \div 2 |-> s[2 * i - 1] * 256 + s[2 * i]]

\* The items an item reader takes from s one after the other until nothing
\* is left; `at' is where each began.
RECURSIVE Items(_, _, _)
Items(Read(_), s, at) ==
    LET first(r) == Then(Items(Read, r.rest, at + Len(s) - Len(r.rest)),
                         LAMBDA more : [more EXCEPT !.v = <<[item |-> r.v, at |-> at]>> \o @])
    IN IF s = <<>> THEN [ok |-> TRUE, v |-> <<>>] ELSE Then(Read(s), first)

-----------------------------------------------------------------------------
(* handshake/mod.rs: type and 24-bit length.                               *)

EncodeHandshake(type, body) == <<type>> \o Vector(3, body)

ParseHandshake(data) ==
    IF Len(data) < 4 THEN Err("truncated")
    ELSE LET len == Value(SubSeq(data, 2, 4))
         IN IF 4 + len > Len(data) THEN Err("bad_length")
            ELSE [ok |-> TRUE, type |-> data[1], body |-> SubSeq(data, 5, 4 + len)]

-----------------------------------------------------------------------------
(* Extensions.                                                             *)

Extension(type, body) == U16(type) \o Vector(2, body)

ReadExtension(s) == ReadFields(s, <<<<"uint", 2>>, <<"vector", 2>>>>)

Extensions(s) == Items(ReadExtension, s, 0)

\* iter_alpn: names until one does not fit.
RECURSIVE IterAlpn(_)
IterAlpn(list) ==
    IF list = <<>> \/ 1 + list[1] > Len(list) THEN <<>>
    ELSE <<SubSeq(list, 2, 1 + list[1])>> \o IterAlpn(From(list, 2 + list[1]))

-----------------------------------------------------------------------------
(* ClientHello.                                                            *)

\* An ALPN list, as build_client_hello and do_client_hello write it.
AlpnList(names) == FlattenSeq([i \in 1 .. Len(names) |-> Vector(1, names[i])])
AlpnBody(names) == Vector(2, AlpnList(names))

KeyShareEntry(pub) == U16(X25519) \o Vector(2, pub)

\* build_client_hello: [random, sid, pub, name, alpn, extras]; an empty name
\* is no server_name extension.
BuildClientHello(p) ==
    LET sni == IF p.name = <<>> THEN <<>>
               ELSE Extension(ExtType.sni, Vector(2, <<0>> \o Vector(2, p.name)))
        alpn == IF p.alpn = <<>> THEN <<>> ELSE Extension(ExtType.alpn, AlpnBody(p.alpn))
        exts == sni \o Extension(ExtType.groups, Vector(2, U16(X25519)))
                    \o Extension(ExtType.sigalgs, Vector(2, U16(Ecdsa)))
                    \o alpn
                    \o Extension(ExtType.versions, Vector(1, U16(Tls13)))
                    \o Extension(ExtType.share, Vector(2, KeyShareEntry(p.pub)))
                    \o FlattenSeq([i \in 1 .. Len(p.extras) |->
                                      Extension(p.extras[i][1], p.extras[i][2])])
    IN U16(Tls12) \o p.random \o Vector(1, p.sid) \o Vector(2, U16(Suite))
         \o Vector(1, <<0>>) \o Vector(2, exts)

\* The fields of a hello, and what each extension contributes to them.
EmptyHello(random, sid) ==
    [ok |-> TRUE, random |-> random, sid |-> sid, tls13 |-> FALSE, x25519 |-> FALSE,
     pub |-> <<>>, shares |-> <<>>, groups |-> <<>>, sigalgs |-> <<>>, modes |-> {},
     psk |-> <<>>, alpn |-> <<>>, hasAlpn |-> FALSE, quic |-> <<>>]

OnVersions(h, d) ==
    Then(ReadVector(d, 1), LAMBDA r :
        IF Len(r.v) % 2 # 0 THEN Err("bad_extension")
        ELSE [h EXCEPT !.tls13 = @ \/ Contains(Pairs(r.v), Tls13)])

OnGroups(h, d) ==
    Then(ReadVector(d, 2), LAMBDA r :
        IF Len(r.v) % 2 # 0 THEN Err("bad_extension")
        ELSE [h EXCEPT !.x25519 = @ \/ Contains(Pairs(r.v), X25519),
                       !.groups = @ \o Pairs(r.v)])

ReadShare(s) == ReadFields(s, <<<<"uint", 2>>, <<"vector", 2>>>>)

OnKeyShare(h, d) ==
    LET Ours(e) == e.item[1] = X25519 /\ Len(e.item[2]) = KeyLen
        pub(ours) == IF ours = <<>> THEN h.pub ELSE Last(ours).item[2]
    IN Then(Then(ReadVector(d, 2), LAMBDA r : Items(ReadShare, r.v, 0)), LAMBDA list :
           [h EXCEPT !.shares = @ \o [i \in 1 .. Len(list.v) |-> list.v[i].item[1]],
                     !.pub = pub(SelectSeq(list.v, Ours))])

OnSigAlgs(h, d) ==
    Then(ReadVector(d, 2), LAMBDA r :
        IF Len(r.v) % 2 # 0 THEN Err("bad_extension")
        ELSE [h EXCEPT !.sigalgs = @ \o Pairs(r.v)])

OnModes(h, d) ==
    Then(ReadVector(d, 1), LAMBDA r :
        IF r.v = <<>> \/ r.rest # <<>> THEN Err("bad_extension")
        ELSE [h EXCEPT !.modes = @ \cup (ToSet(r.v) \cap {0, 1})])

ReadIdentity(s) ==
    Then(ReadFields(s, <<<<"vector", 2>>, <<"uint", 4>>>>), LAMBDA r :
        IF r.v[1] = <<>> THEN Err("bad_extension") ELSE [r EXCEPT !.v = r.v[1]])

ReadBinder(s) ==
    Then(ReadVector(s, 1), LAMBDA b : IF Len(b.v) < KeyLen THEN Err("bad_extension") ELSE b)

\* pre_shared_key: as many binders as identities, nothing after them, and the
\* extension is the last; at is where the extension begins in the body.
OnPreSharedKey(h, d, at, last) ==
    LET Keep(list) == [k \in 1 .. (IF Len(list) < MaxPsks THEN Len(list) ELSE MaxPsks)
                          |-> list[k].item]
        Offer(i, ids, b, binds) ==
            IF Len(ids) # Len(binds) \/ ids = <<>> \/ b.rest # <<>> \/ ~ last
            THEN Err("bad_extension")
            ELSE [h EXCEPT !.psk = <<Keep(ids), Keep(binds), at + 4 + 2 + Len(i.v)>>]
        Binders(i, ids) ==
            Then(ReadVector(i.rest, 2), LAMBDA b :
                Then(Items(ReadBinder, b.v, 0), LAMBDA binds : Offer(i, ids, b, binds.v)))
    IN Then(ReadVector(d, 2), LAMBDA i :
           Then(Items(ReadIdentity, i.v, 0), LAMBDA ids : Binders(i, ids.v)))

OnAlpn(h, d) ==
    Then(ReadVector(d, 2), LAMBDA r : [h EXCEPT !.alpn = r.v, !.hasAlpn = TRUE])

OnExtension(h, e, at, last) ==
    LET t == e[1] d == e[2]
    IN CASE t = ExtType.versions -> OnVersions(h, d)
         [] t = ExtType.groups -> OnGroups(h, d)
         [] t = ExtType.share -> OnKeyShare(h, d)
         [] t = ExtType.sigalgs -> OnSigAlgs(h, d)
         [] t = ExtType.modes -> OnModes(h, d)
         [] t = ExtType.psk -> OnPreSharedKey(h, d, at, last)
         [] t = ExtType.quic -> [h EXCEPT !.quic = d]
         [] t = ExtType.alpn -> OnAlpn(h, d)
         [] OTHER -> h

\* The fixed fields before the extensions.
HelloFields == <<<<"uint", 2>>, <<"bytes", KeyLen>>, <<"vector", 1>>, <<"vector", 2>>,
                 <<"vector", 1>>, <<"vector", 2>>>>

ParseHelloHead(body) ==
    LET head(r, n) ==
            IF n >= 3 /\ Len(r.v[3]) > MaxSid THEN Err("bad_length")
            ELSE IF n >= 4 /\ Len(r.v[4]) % 2 # 0 THEN Err("bad_length")
            ELSE IF n >= 4 /\ ~ Contains(Pairs(r.v[4]), Suite) THEN Err("unsupported")
            ELSE IF ~ r.ok THEN r
            ELSE [ok |-> TRUE, hello |-> EmptyHello(r.v[2], r.v[3]), exts |-> r.v[6],
                  at |-> Len(body) - Len(r.rest) - Len(r.v[6])]
        read(r) == head(r, Len(r.v))
    IN read(ReadFields(body, HelloFields))

ParseClientHello(body) ==
    LET on(h, i, list) == OnExtension(h, list[i].item, list[i].at, i = Len(list))
        fold(head, list) == FoldLeft(LAMBDA h, i : IF h.ok THEN on(h, i, list) ELSE h,
                                     head.hello, [i \in 1 .. Len(list) |-> i])
        hello(head) == Then(Items(ReadExtension, head.exts, head.at),
                            LAMBDA list : fold(head, list.v))
    IN Then(Then(ParseHelloHead(body), hello),
            LAMBDA h : IF h.tls13 THEN h ELSE Err("unsupported"))

\* Truncate(ClientHello): what the binders are computed over, of the whole
\* handshake message (try_resume).
Truncated(msg, offer) == SubSeq(msg, 1, 4 + offer[3])

-----------------------------------------------------------------------------
(* ServerHello.                                                            *)

\* build_server_hello; psk is <<>> or <<the selected identity>>.
BuildServerHello(random, sid, pub, psk) ==
    LET exts == Extension(ExtType.versions, U16(Tls13))
                \o Extension(ExtType.share, KeyShareEntry(pub))
                \o (IF psk = <<>> THEN <<>> ELSE Extension(ExtType.psk, U16(psk[1])))
    IN U16(Tls12) \o random \o Vector(1, sid) \o U16(Suite) \o <<0>> \o Vector(2, exts)

\* The random that makes a ServerHello a HelloRetryRequest.
HelloRetryRandom == [i \in 1 .. KeyLen |-> 207]

OnServerExtension(h, e) ==
    LET d == e[2]
        On(share) ==
            IF share.rest # <<>> THEN Err("bad_extension")
            ELSE IF share.v[1] # X25519 \/ Len(share.v[2]) # KeyLen THEN Err("unsupported")
            ELSE [h EXCEPT !.pub = share.v[2]]
    IN CASE e[1] = ExtType.versions ->
              IF Len(d) # 2 THEN Err("bad_extension")
              ELSE IF Value(d) # Tls13 THEN Err("unsupported") ELSE [h EXCEPT !.tls13 = TRUE]
         [] e[1] = ExtType.share -> Then(ReadShare(d), On)
         [] e[1] = ExtType.psk ->
              IF Len(d) # 2 THEN Err("bad_extension") ELSE [h EXCEPT !.psk = TRUE]
         [] OTHER -> h

ServerHelloFields == <<<<"uint", 2>>, <<"bytes", KeyLen>>, <<"vector", 1>>, <<"uint", 2>>,
                       <<"bytes", 1>>, <<"vector", 2>>>>

ParseServerHello(body) ==
    LET fold(sid, list) ==
            FoldLeft(LAMBDA h, e : IF h.ok THEN OnServerExtension(h, e.item) ELSE h,
                     [ok |-> TRUE, retry |-> FALSE, sid |-> sid, tls13 |-> FALSE,
                      pub |-> <<>>, psk |-> FALSE], list)
        hello(r, list) ==
            IF Len(r.v[3]) > MaxSid \/ r.rest # <<>> THEN Err("bad_length")
            ELSE IF r.v[4] # Suite \/ r.v[5] # <<0>> THEN Err("unsupported")
            ELSE Then(fold(r.v[3], list), LAMBDA h :
                     IF ~ h.tls13 \/ h.pub = <<>> THEN Err("unsupported") ELSE h)
        read(r) ==
            IF Len(r.v) < 2 THEN r
            ELSE IF r.v[2] = HelloRetryRandom THEN [ok |-> TRUE, retry |-> TRUE]
            ELSE Then(r, LAMBDA f : Then(Extensions(f.v[6]), LAMBDA list : hello(f, list.v)))
    IN read(ReadFields(body, ServerHelloFields))

-----------------------------------------------------------------------------
(* The other messages.                                                     *)

\* extras: pairs of an extension type and its body.
BuildEncryptedExtensions(extras) ==
    Vector(2, FlattenSeq([i \in 1 .. Len(extras) |-> Extension(extras[i][1], extras[i][2])]))

OnEncryptedExtension(h, e) ==
    LET Alpn(names, name) ==
            IF names.rest # <<>> \/ name.rest # <<>> \/ name.v = <<>>
            THEN Err("bad_extension") ELSE [h EXCEPT !.alpn = name.v]
    IN CASE e[1] = ExtType.alpn ->
              Then(ReadVector(e[2], 2), LAMBDA names :
                  Then(ReadVector(names.v, 1), LAMBDA name : Alpn(names, name)))
         [] e[1] = ExtType.quic -> [h EXCEPT !.quic = e[2]]
         [] OTHER -> h

ParseEncryptedExtensions(body) ==
    LET fold(list) ==
            FoldLeft(LAMBDA h, e : IF h.ok THEN OnEncryptedExtension(h, e.item) ELSE h,
                     [ok |-> TRUE, alpn |-> <<>>, quic |-> <<>>], list)
    IN Then(ReadVector(body, 2), LAMBDA exts :
           Then(Extensions(exts.v), LAMBDA list :
               IF exts.rest # <<>> THEN Err("bad_length") ELSE fold(list.v)))

\* build_certificate: an empty context, then each certificate with no
\* extensions; parse_certificate_leaf reads the first.
BuildCertificate(chain) ==
    <<0>> \o Vector(3, FlattenSeq([i \in 1 .. Len(chain) |-> Vector(3, chain[i]) \o <<0, 0>>]))

ParseCertificateLeaf(body) ==
    Then(ReadFields(body, <<<<"vector", 1>>, <<"vector", 3>>>>), LAMBDA list :
        Then(ReadFields(list.v[2], <<<<"vector", 3>>, <<"vector", 2>>>>), LAMBDA leaf :
            IF list.rest # <<>> \/ leaf.v[1] = <<>> THEN Err("bad_length")
            ELSE [ok |-> TRUE, v |-> leaf.v[1]]))

BuildCertificateVerify(signature) == U16(Ecdsa) \o Vector(2, signature)

ParseCertificateVerify(body) ==
    Then(ReadFields(body, <<<<"uint", 2>>, <<"vector", 2>>>>), LAMBDA r :
        IF r.rest # <<>> THEN Err("bad_length")
        ELSE [ok |-> TRUE, alg |-> r.v[1], sig |-> r.v[2]])

\* build_new_session_ticket; lifetime and age_add are 32 bits wide.
BuildNewSessionTicket(lifetime, ageAdd, nonce, ticket) ==
    BigEndian(lifetime, 4) \o BigEndian(ageAdd, 4) \o Vector(1, nonce)
        \o Vector(2, ticket) \o Vector(2, <<>>)

\* build_finished writes the MAC as it is; parse_finished checks its length.
ParseFinished(body) == IF Len(body) # KeyLen THEN Err("bad_length") ELSE [ok |-> TRUE, v |-> body]

-----------------------------------------------------------------------------
(* record.rs: the type follows the content; zeros after it are padding.    *)

InnerPlaintext(type, content) == content \o <<type>>

ParseInner(inner) ==
    LET set == {i \in 1 .. Len(inner) : inner[i] # 0}
        at == CHOOSE i \in set : \A j \in set : j <= i
    IN IF set = {} THEN Err("bad_inner")
       ELSE [ok |-> TRUE, type |-> inner[at], content |-> SubSeq(inner, 1, at - 1)]

\* build_plaintext and parse_plaintext.
BuildPlaintext(type, body) == <<type>> \o U16(Tls12) \o Vector(2, body)

ParsePlaintext(input) ==
    IF Len(input) < 5 THEN Err("truncated")
    ELSE Then(ReadVector(From(input, 4), 2),
              LAMBDA body : [ok |-> TRUE, type |-> input[1], body |-> body.v])

-----------------------------------------------------------------------------
(* server.rs: the private key inside a PKCS#8 blob.  Both markers are      *)
(* searched for from the start.                                            *)

P256Oid == <<6, 8, 42, 134, 72, 206, 61, 3, 1, 7>>
DHeader == <<2, 1, 1, 4, 32>>

ExtractP256D(blob) ==
    LET Marks(m, room) == {i \in 0 .. Len(blob) - Len(m) - room : SubSeq(blob, i + 1, i + Len(m)) = m}
        ds == Marks(DHeader, KeyLen)
        at == (CHOOSE i \in ds : \A j \in ds : i <= j) + Len(DHeader)
    IN IF Len(blob) < Len(P256Oid) + Len(DHeader) + KeyLen \/ Marks(P256Oid, 0) = {} \/ ds = {}
       THEN Err("none") ELSE [ok |-> TRUE, v |-> SubSeq(blob, at + 1, at + KeyLen)]

-----------------------------------------------------------------------------
(***************************************************************************)
(* The AES-GCM of crates/crypto/aes-gcm: GHASH in POLYVAL form             *)
(* (ghash_batch.rs) and the counter mode around it (aes_gcm.rs).           *)
(*                                                                         *)
(* A block is a polynomial over GF(2), written as the set of its           *)
(* exponents: adding is symmetric difference.  K (128 in the code) and the *)
(* field polynomial x^K + Taps + 1 are parameters, so that TLC can use a   *)
(* small field; the code's shifts by 1, 2, 7 and by 63, 62, 57 are the     *)
(* distances of the taps from K and from K/2.  The block cipher is an      *)
(* arbitrary function of the counter, and the byte reversal at the         *)
(* boundaries is left out: blocks are in POLYVAL order throughout.         *)
(***************************************************************************)
CONSTANTS K, Taps,       \* the field
          BatchBlocks,   \* blocks absorbed with one reduction (8)
          KeyStream(_),  \* the block cipher on a counter value
          CtrMod         \* the counter is 32 bits wide

Half == K \div 2
Add(a, b) == (a \ b) \cup (b \ a)
Shift(a, n) == {e + n : e \in a}
Low(a) == {e \in a : e < Half}
High(a) == {e - Half : e \in {x \in a : x >= Half}}

\* Op(v), with v evaluated before Op is entered: keeps TLC's stack shallow.
Strict(Op(_), v) == CHOOSE r \in {Op(p) : p \in {v}} : TRUE

\* Carry-less multiplication of two words (PCLMULQDQ, PMULL).
ClMul(a, b) == FoldSet(LAMBDA e, acc : Add(acc, Shift(b, e)), {}, a)

\* POLYVAL's product: a b x^-K modulo the field polynomial, by definition.
FieldPoly == {0, K} \cup Taps
RECURSIVE DivX(_, _)
DivX(z, n) ==
    IF n = 0 THEN z ELSE DivX(Shift(IF 0 \in z THEN Add(z, FieldPoly) ELSE z, -1), n - 1)
Dot(a, b) == DivX(ClMul(a, b), K)

-----------------------------------------------------------------------------
(* xmm: unreduced products are accumulated in three parts. *)

AccZero == [lo |-> {}, hi |-> {}, mid |-> {}]

KaratsubaAccumulate(acc, y, h) ==
    [lo |-> Add(acc.lo, ClMul(Low(y), Low(h))),
     hi |-> Add(acc.hi, ClMul(High(y), High(h))),
     mid |-> Add(acc.mid, ClMul(Add(Low(y), High(y)), Add(Low(h), High(h))))]

Word(a, i) == {e - i * Half : e \in {x \in a : x \in i * Half .. (i + 1) * Half - 1}}

\* A word times the taps, split at the word boundary: right shifts land in
\* the upper word, left shifts in the lower one.
TapsHigh(v) == FoldSet(LAMBDA t, s : Add(s, {e \in Shift(v, t - K) : e >= 0}), {}, Taps)
TapsLow(v) == FoldSet(LAMBDA t, s : Add(s, {e \in Shift(v, t - Half) : e < Half}), {}, Taps)

Reduce(v0, v1, v2, v3) ==
    LET w2 == Add(Add(v2, v0), TapsHigh(v0))
        w1 == Add(v1, TapsLow(v0))
        w3 == Add(Add(v3, w1), TapsHigh(w1))
        u2 == Add(w2, TapsLow(w1))
    IN  u2 \cup Shift(w3, Half)

AccReduce(acc) ==
    LET mid == Add(acc.mid, Add(acc.lo, acc.hi))
    IN  Reduce(Word(acc.lo, 0), Add(Word(acc.lo, 1), Word(mid, 0)),
               Add(Word(acc.hi, 0), Word(mid, 1)), Word(acc.hi, 1))

PolyvalMul(a, b) == AccReduce(KaratsubaAccumulate(AccZero, a, b))

\* neon: the same parts, reduced with two multiplications by the taps.
MontReduce(x) ==
    LET poly == Shift(Taps, -Half)
        a == ClMul(Word(x, 0), poly)
        x01 == {e \in x : e < K}
        b == Add(x01, {(e + Half) % K : e \in a})
        c == ClMul(High(b), poly)
    IN  Add(Shift(x \ x01, -K), Add(c, b))

AccReduceArm(acc) ==
    LET mid == Add(acc.mid, Add(acc.lo, acc.hi))
    IN  MontReduce(Add(Add(acc.lo, Shift(mid, Half)), Shift(acc.hi, K)))

PolyvalMulArm(a, b) == AccReduceArm(KaratsubaAccumulate(AccZero, a, b))

\* The portable fallback: the product reduced from the top.
RECURSIVE Fold(_, _)
Fold(z, e) ==
    IF e < K THEN z ELSE Fold(IF e \in z THEN Add(z, Shift(FieldPoly, e - K)) ELSE z, e - 1)
PolyvalMulSoft(a, b) == Fold(ClMul(a, b), 2 * K - 2)

-----------------------------------------------------------------------------
(* GhashKey and GhashState. *)

\* Multiplication by x.
Mulx(a) ==
    LET s == Shift(a, 1) IN IF K \in s THEN Add(s \ {K}, {0} \cup Taps) ELSE s

\* h_powers, highest first, as load_h_powers hands them out.
HPowers(h) ==
    LET power[n \in 1 .. BatchBlocks] ==
            IF n = 1 THEN Mulx(h) ELSE Strict(LAMBDA z : PolyvalMul(z, Mulx(h)), power[n - 1])
    IN  [i \in 1 .. BatchBlocks |-> power[BatchBlocks + 1 - i]]

AbsorbOne(y, h, block) == Strict(LAMBDA z : PolyvalMul(z, Mulx(h)), Add(y, block))

\* absorb_8 and the stitched forms: one reduction for a whole chunk.
AbsorbBatch(y, h, chunk) ==
    LET powers == HPowers(h)
        At(i) == IF i = 1 THEN Add(y, chunk[1]) ELSE chunk[i]
        acc[i \in 0 .. BatchBlocks] ==
            IF i = 0 THEN AccZero
            ELSE Strict(LAMBDA z : KaratsubaAccumulate(z, At(i), powers[i]), acc[i - 1])
    IN  Strict(AccReduce, acc[BatchBlocks])

AbsorbAll(y, h, blocks) ==
    LET acc[i \in 0 .. Len(blocks)] ==
            IF i = 0 THEN y ELSE AbsorbOne(acc[i - 1], h, blocks[i])
    IN  acc[Len(blocks)]

-----------------------------------------------------------------------------
(* Aes128GcmFast.  A message is a sequence of whole blocks and `rest', the *)
(* polynomial of a partial block within the exponents `mask' (the bytes it *)
(* has); mask = {} when the message ends with a whole block.               *)

Chunks(blocks) == Len(blocks) \div BatchBlocks
Ctr(i) == (1 + i) % CtrMod      \* increment_be32 applied i times to j0

\* What GHASH absorbs of a ciphertext: chunks, tail blocks, the partial
\* block padded with zeros.
Ghash(y, h, blocks, rest, mask) ==
    LET n == Chunks(blocks)
        chunk(j) == SubSeq(blocks, (j - 1) * BatchBlocks + 1, j * BatchBlocks)
        whole[j \in 0 .. n] == 
            IF j = 0 THEN y ELSE Strict(LAMBDA z : AbsorbBatch(z, h, chunk(j)), whole[j - 1])
        tail == AbsorbAll(whole[n], h, SubSeq(blocks, n * BatchBlocks + 1, Len(blocks)))
    IN  IF mask = {} THEN tail ELSE AbsorbOne(tail, h, rest)

Crypt(m) ==
    [blocks |-> [i \in 1 .. Len(m.blocks) |-> Add(m.blocks[i], KeyStream(Ctr(i)))],
     rest |-> Add(m.rest, KeyStream(Ctr(Len(m.blocks) + 1)) \cap m.mask),
     mask |-> m.mask]

\* absorb_padded_slice over the associated data comes first, the length
\* block last; `len' stands for that block.
Tag(h, aad, c, len) ==
    Add(AbsorbOne(Ghash(AbsorbAll({}, h, aad), h, c.blocks, c.rest, c.mask), h, len),
        KeyStream(1))

Seal(h, aad, m, len) == [text |-> Crypt(m), tag |-> Tag(h, aad, Crypt(m), len)]

\* open: the tag of what came in; the buffer is decrypted either way.
Open(h, aad, c, len, tag) == [ok |-> Tag(h, aad, c, len) = tag, text |-> Crypt(c)]

\* seal_chain: the parts are gathered and sealed as one message.
SealChain(h, aad, parts, m, len) == Seal(h, aad, [m EXCEPT !.blocks = FlattenSeq(parts)], len)
=============================================================================
