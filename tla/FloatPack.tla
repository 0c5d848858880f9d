------------------------------ MODULE FloatPack ------------------------------
(***************************************************************************)
(* The QPack codecs of []float64 and []float32: raw words, the two XOR     *)
(* codecs (Gorilla and Chimp), the decimal codec ALP and its companion     *)
(* ALP-RD.  A float is its bit pattern: kind "f64" a word, "f32" half a    *)
(* word.  XOR codecs write bit streams, most significant bit first.  A     *)
(* picker estimates; the XOR codecs are emitted, measured, and rolled back *)
(* when another form is smaller.                                           *)
(*                                                                         *)
(* An encoder's record e also has chimp, the window of earlier values with *)
(* its stamped index, which is kept from column to column.                 *)
(***************************************************************************)
EXTENDS BlockPack, FiniteSets

CONSTANTS
    LzField, MbField,       \* Gorilla: bits of its two fields, by kind
    GorillaControl,         \* Gorilla: bits charged for control, by kind
    XorProbe,               \* transitions the XOR probes look at
    RingField,              \* Chimp: chimpNLog2
    LeadRounds, LeadField,  \* Chimp: representable leading zeros, bits of their code
    SigField,               \* Chimp: bits of the count of significant bits
    ChimpGate,              \* Chimp: projected bits a value below which it is tried
    EpochLimit,             \* where the epoch of the stamps wraps
    MaxExp,                 \* ALP: alpMaxExpSearch
    AlpSample,              \* ALP: values the exponent is chosen on
    LeftMin, LeftMax,       \* ALP-RD: bits of the left part
    MaxLefts,               \* ALP-RD: alprdMaxDict
    LeftSample              \* ALP-RD: alprdSample

ASSUME FloatPackAssumption ==
    /\ XorProbe \in Nat \ {0} /\ RingField \in Nat \ {0} /\ EpochLimit \in Nat \ {0, 1}
    /\ LeadRounds[1] = 0 /\ Len(LeadRounds) = 2 ^ LeadField /\ 2 ^ SigField >= WordBits
    /\ MaxExp \in Nat /\ AlpSample \in Nat \ {0} /\ LeftSample \in Nat \ {0}
    /\ LeftMin \in ByteBits .. LeftMax /\ LeftMax <= 2 * ByteBits

Width(kind) == IF Narrow(kind) THEN WordBits \div 2 ELSE WordBits

Xor(a, b) == SumUpTo(WordBits, LAMBDA k : ((Shr(a, k - 1) + Shr(b, k - 1)) % 2) * 2 ^ (k - 1))

LeadingZeros(x, w) == w - BitsForDelta(x)
TrailingZeros(x) == CHOOSE k \in 0 .. WordBits - 1 : x % 2 ^ k = 0 /\ Shr(x, k) % 2 = 1

-----------------------------------------------------------------------------
(* Bit streams *)

BigEndian(x) == [j \in 1 .. WordBytes |-> Shr(x, (WordBytes - j) * ByteBits) % Byte]

\* bitWriter: a container filled from the top, sent when it is full.
PutBits(s, v, count) ==
    LET x == v % 2 ^ count
        space == WordBits - s.have
        rem == count - space
    IN IF count < space
       THEN [s EXCEPT !.acc = @ + Shl(x, space - count), !.have = @ + count, !.bits = @ + count]
       ELSE [s EXCEPT !.out = @ \o BigEndian(s.acc + Shr(x, rem)), !.acc = Shl(x, WordBits - rem),
                      !.have = rem, !.bits = @ + count]

\* The bytes and the number of bits of a sequence of fields <<value, width>>.
Flushed(s) == [bytes |-> s.out \o SubSeq(BigEndian(s.acc), 1, BytesFor(s.have)), bits |-> s.bits]

BitStream(fields) ==
    Flushed(Steps(LAMBDA s, k : PutBits(s, fields[k][1], fields[k][2]),
                  [out |-> <<>>, acc |-> 0, have |-> 0, bits |-> 0], Len(fields)))

\* bitReader: count bits from bit at of the stream on.
ReadBits(in, at, count) ==
    LET first == at \div ByteBits
        last == (at + count - 1) \div ByteBits
    IN IF count = 0 THEN 0
       ELSE (Steps(LAMBDA x, k : x * Byte + in[first + k], 0, last - first + 1)
                 \div 2 ^ ((last + 1) * ByteBits - at - count)) % 2 ^ count

HasBits(in, at, count) == at + count <= Len(in) * ByteBits

\* The fast reader: a word loaded at byte base, in which bit at is looked up.
WindowBits(in, base, at, count) ==
    Shr(Shl(Steps(LAMBDA x, k : x * Byte + in[base + k], 0, WordBytes), at - base * ByteBits),
        WordBits - count)

\* Framing of both XOR codecs: the first value raw, then the stream.
XorFrame(tag, kind, s, body) ==
    <<B("gorilla"), B(tag), V(Len(s))>>
    \o (IF s = <<>> THEN <<>> ELSE <<RawWord(kind, s[1])>>)
    \o (IF Len(s) < 2 THEN <<>> ELSE <<V(body.bits)>> \o Bytes(body.bytes))
    \o (IF Len(s) = 1 THEN <<V(0)>> ELSE <<>>)

\* readPackedGorillaHeader
XorHeader(w, i, tag, cap) ==
    LET n == w[i + 2][2]
        bodyLen == BytesFor(w[i + 4][2])
        rest == WireLen(SubSeq(w, i + 3, Len(w)))
    IN IF w[i + 1] # B(tag) \/ ~LenOK(n, cap) \/ n > rest * ByteBits + 1 THEN Refused
       ELSE CASE n = 0 -> [ok |-> TRUE, n |-> 0, next |-> i + 3]
              [] n = 1 -> IF w[i + 4] = V(0)
                          THEN [ok |-> TRUE, n |-> 1, first |-> w[i + 3][2], next |-> i + 5] ELSE Refused
              [] OTHER -> IF i + 4 + bodyLen > Len(w) THEN Refused
                          ELSE [ok |-> TRUE, n |-> n, first |-> w[i + 3][2],
                                body |-> Payload(w, i + 5, bodyLen), next |-> i + 5 + bodyLen]

-----------------------------------------------------------------------------
(* Gorilla *)

\* lz = width marks "no window".
GorillaDelta(kind, t, cur, x) ==
    LET width == Width(kind)
        lz == SmallerOf(LeadingZeros(x, width), 2 ^ LzField[kind] - 1)
        tz == TrailingZeros(x)
        mb == width - lz - tz
    IN CASE x = 0 -> [t EXCEPT !.fields = Append(@, <<0, 1>>)]
         [] x # 0 /\ t.lz # width /\ lz >= t.lz /\ tz >= t.tz ->
              [t EXCEPT !.prev = cur,
                        !.fields = @ \o <<<<1, 1>>, <<0, 1>>, <<Shr(x, t.tz), width - t.lz - t.tz>>>>]
         [] OTHER ->
              [prev |-> cur, lz |-> lz, tz |-> tz,
               fields |-> t.fields \o <<<<1, 1>>, <<1, 1>>, <<lz, LzField[kind]>>,
                                        <<mb - 1, MbField[kind]>>, <<Shr(x, tz), mb>>>>]

GorillaStep(kind, t, cur) == GorillaDelta(kind, t, cur, Xor(cur, t.prev))

GorillaFields(kind, s) ==
    IF Len(s) < 2 THEN <<>>
    ELSE Steps(LAMBDA t, k : GorillaStep(kind, t, s[k + 1]),
               [prev |-> s[1], lz |-> Width(kind), tz |-> 0, fields |-> <<>>], Len(s) - 1).fields

WriteGorilla(kind, s) == XorFrame(kind, kind, s, BitStream(GorillaFields(kind, s)))

GorillaPush(t, at, lz, tz, v) ==
    [ok |-> TRUE, at |-> at, prev |-> v, lz |-> lz, tz |-> tz, out |-> Append(t.out, v)]

\* A value of mb meaningful bits behind lz zeros at start.
GorillaTake(kind, in, t, start, lz, mb) ==
    LET tz == Width(kind) - lz - mb IN
    IF mb <= 0 \/ tz < 0 \/ ~HasBits(in, start, mb) THEN [t EXCEPT !.ok = FALSE]
    ELSE GorillaPush(t, start + mb, lz, tz,
                     Xor(t.prev, Shl(ReadBits(in, start, mb), tz) % 2 ^ Width(kind)))

GorillaNext(kind, in, t) ==
    LET lf == LzField[kind]  mf == MbField[kind] IN
    IF ~t.ok \/ ~HasBits(in, t.at, 1) THEN [t EXCEPT !.ok = FALSE]
    ELSE IF ReadBits(in, t.at, 1) = 0 THEN GorillaPush(t, t.at + 1, t.lz, t.tz, t.prev)
    ELSE IF ~HasBits(in, t.at, 2) THEN [t EXCEPT !.ok = FALSE]
    ELSE IF ReadBits(in, t.at + 1, 1) = 0
    THEN GorillaTake(kind, in, t, t.at + 2, t.lz, Width(kind) - t.lz - t.tz)
    ELSE IF ~HasBits(in, t.at + 2, lf + mf) THEN [t EXCEPT !.ok = FALSE]
    ELSE GorillaTake(kind, in, t, t.at + 2 + lf + mf,
                     ReadBits(in, t.at + 2, lf), ReadBits(in, t.at + 2 + lf, mf) + 1)

\* A stream with no value, or with those up to end.
XorGot(h, end, scratch) ==
    IF h.n = 0 THEN Got(<<>>, h.next, scratch)
    ELSE Then(end, LAMBDA t : Got(t.out, h.next, scratch))

GorillaValues(kind, h) ==
    Steps(LAMBDA t, k : GorillaNext(kind, h.body, t),
          [ok |-> TRUE, at |-> 0, prev |-> h.first, lz |-> Width(kind), tz |-> 0, out |-> <<h.first>>],
          h.n - 1)

ReadGorilla(w, i, kind, cap, scratch) ==
    Then(XorHeader(w, i, kind, cap), LAMBDA h : XorGot(h, GorillaValues(kind, h), scratch))

-----------------------------------------------------------------------------
(* Chimp, for words only *)

Ring == 2 ^ RingField
Threshold == SigField + RingField
NoLead == WordBits + 1
LeadCode(x) == CHOOSE c \in DOMAIN LeadRounds :
                   /\ LeadRounds[c] <= LeadingZeros(x, WordBits)
                   /\ \A d \in DOMAIN LeadRounds : LeadRounds[d] <= LeadingZeros(x, WordBits) => d <= c
Key(v) == v % 2 ^ (Threshold + 1)

FreshChimp == [epoch |-> 0, seen |-> <<>>, stored |-> [r \in 0 .. Ring - 1 |-> 0]]

\* Mutant of NextEpoch: the epoch is never wrapped.
MutNextEpoch(c) == [c EXCEPT !.epoch = @ + 1]

\* chimpScratchFor: a new epoch makes every stamp stale; when it wraps, the
\* stamps of old are wiped.
NextEpoch(c) ==
    IF (c.epoch + 1) % EpochLimit = 0 THEN [c EXCEPT !.epoch = 1, !.seen = <<>>]
    ELSE [c EXCEPT !.epoch = @ + 1]

Remember(c, slot, index, v) ==
    [c EXCEPT !.stored[slot] = v,
              !.seen = [k \in DOMAIN @ \cup {Key(v)} |->
                           IF k = Key(v) THEN [at |-> index, stamp |-> c.epoch] ELSE @[k]]]

\* t.index is the index of the newest value, its slot is index modulo the ring.
Newest(t) == t.chimp.stored[t.index % Ring]

\* The slot of an earlier value with the same key, while it is in the window.
Usable(t, v) ==
    /\ Key(v) \in DOMAIN t.chimp.seen
    /\ t.chimp.seen[Key(v)].stamp = t.chimp.epoch
    /\ t.index - t.chimp.seen[Key(v)].at < Ring
Candidate(t, v) == t.chimp.seen[Key(v)].at % Ring
SharesTail(far) == far = 0 \/ TrailingZeros(far) > Threshold

\* What v is compared with: that value if it shares the tail of v, or the newest.
Reference(t, v) ==
    IF Usable(t, v) /\ SharesTail(Xor(v, t.chimp.stored[Candidate(t, v)]))
    THEN [far |-> TRUE, slot |-> Candidate(t, v), x |-> Xor(v, t.chimp.stored[Candidate(t, v)])]
    ELSE [far |-> FALSE, slot |-> t.index % Ring, x |-> Xor(v, Newest(t))]

FarFields(slot, x, code, sig) ==
    <<<<((Ring + slot) * 2 ^ LeadField + code - 1) * 2 ^ SigField + sig, RingField + 2 + LeadField + SigField>>,
      <<Shr(x, TrailingZeros(x)), sig>>>>
NearFields(x, code, lead) ==
    <<IF LeadRounds[code] = lead THEN <<2, 2>> ELSE <<3 * 2 ^ LeadField + code - 1, 2 + LeadField>>,
      <<x, WordBits - LeadRounds[code]>>>>

Pushed(t, v, lead, fields) ==
    [chimp |-> Remember(t.chimp, (t.index + 1) % Ring, t.index + 1, v),
     index |-> t.index + 1, lead |-> lead, fields |-> t.fields \o fields]

ChimpDelta(t, v, r, code) ==
    CASE r.x = 0 -> Pushed(t, v, NoLead, <<<<r.slot, RingField + 2>>>>)
      [] r.x # 0 /\ r.far ->
           Pushed(t, v, NoLead,
                  FarFields(r.slot, r.x, code, WordBits - LeadRounds[code] - TrailingZeros(r.x)))
      [] OTHER -> Pushed(t, v, LeadRounds[code], NearFields(r.x, code, t.lead))

ChimpAgainst(t, v, r) == ChimpDelta(t, v, r, LeadCode(r.x))
ChimpStep(t, v) == ChimpAgainst(t, v, Reference(t, v))

ChimpEnd(s, chimp) ==
    IF Len(s) < 2 THEN [chimp |-> chimp, fields |-> <<>>]
    ELSE Steps(LAMBDA t, k : ChimpStep(t, s[k + 1]),
               [chimp |-> Remember(NextEpoch(chimp), 0, 0, s[1]), index |-> 0, lead |-> NoLead,
                fields |-> <<>>], Len(s) - 1)

\* The units, and the window the encoder keeps.
ChimpFrame(s, end) == [units |-> XorFrame("chimp", "f64", s, BitStream(end.fields)), chimp |-> end.chimp]
WriteChimp(s, chimp) == ChimpFrame(s, ChimpEnd(s, chimp))

\* A lookup of count bits: in the word window, refilled at the byte of base
\* before each long field, or by the bit reader.
Look(in, fast, base, at, count) ==
    IF fast THEN WindowBits(in, base \div ByteBits, at, count) ELSE ReadBits(in, at, count)

ChimpPush(t, v, end, lead) ==
    [ok |-> TRUE, at |-> end, lead |-> lead, out |-> Append(t.out, v),
     stored |-> [t.stored EXCEPT ![Len(t.out) % Ring] = v]]

\* sig bits behind the zeros of an earlier value, its code and sig read before.
ChimpFar(in, t, fast, at, ref, code, sig) ==
    LET tz == WordBits - LeadRounds[code + 1] - sig IN
    IF sig = 0 \/ tz <= Threshold \/ ~HasBits(in, at, sig) THEN [t EXCEPT !.ok = FALSE]
    ELSE ChimpPush(t, Xor(t.stored[ref], Shl(Look(in, fast, at, at, sig), tz)), at + sig, NoLead)

\* count bits that may exceed the window are read in halves.
LookLong(in, fast, at, count) ==
    LET half == WordBits \div 2 IN
    IF fast /\ count > WordBits - ByteBits + 1
    THEN Look(in, fast, at, at, half) * 2 ^ half + Look(in, fast, at + half, at + half, half)
    ELSE Look(in, fast, at, at, count)

ChimpNear(in, t, fast, at, lead) ==
    IF lead = NoLead \/ ~HasBits(in, at, WordBits - lead) THEN [t EXCEPT !.ok = FALSE]
    ELSE ChimpPush(t, Xor(t.stored[(Len(t.out) - 1) % Ring], LookLong(in, fast, at, WordBits - lead)),
                   at + WordBits - lead, lead)

\* What follows the two bits of a flag.
ChimpFlagged(in, t, fast, flag) ==
    LET at == t.at + 2
        Bits(i, count) == Look(in, fast, t.at, i, count)
    IN IF ~HasBits(in, at, CASE flag = 0 -> RingField [] flag = 1 -> RingField + LeadField + SigField
                             [] flag = 2 -> 0 [] flag = 3 -> LeadField) THEN [t EXCEPT !.ok = FALSE]
       ELSE CASE flag = 0 -> ChimpPush(t, t.stored[Bits(at, RingField)], at + RingField, NoLead)
              [] flag = 1 -> ChimpFar(in, t, fast, at + RingField + LeadField + SigField,
                                      Bits(at, RingField), Bits(at + RingField, LeadField),
                                      Bits(at + RingField + LeadField, SigField))
              [] flag = 2 -> ChimpNear(in, t, fast, at, t.lead)
              [] flag = 3 -> ChimpNear(in, t, fast, at + LeadField, LeadRounds[Bits(at, LeadField) + 1])

ChimpValue(in, t, fast) ==
    IF ~t.ok \/ ~HasBits(in, t.at, 2) THEN [t EXCEPT !.ok = FALSE]
    ELSE ChimpFlagged(in, t, fast, Look(in, fast, t.at, t.at, 2))

\* The window while four words from the byte a value starts in lie in the body.
ChimpValues(h) ==
    Steps(LAMBDA t, k : ChimpValue(h.body, t, t.at \div ByteBits + 4 * WordBytes <= Len(h.body)),
          [ok |-> TRUE, at |-> 0, lead |-> NoLead, out |-> <<h.first>>,
           stored |-> [r \in 0 .. Ring - 1 |-> IF r = 0 THEN h.first ELSE 0]], h.n - 1)

ReadChimp(w, i, cap, scratch) ==
    Then(XorHeader(w, i, "chimp", cap), LAMBDA h : XorGot(h, ChimpValues(h), scratch))

-----------------------------------------------------------------------------
(* ALP: decimals as integers, what does not come back as an exception *)

\* The arithmetic of floats.  A pattern counts hundredths; those of the upper
\* quarter have no short decimal form; multiplying by an inverse that is not
\* exact misses some of the others.
Decimal(x, kind) == x < 3 * 2 ^ (Width(kind) - 2)
Tenfold(d) == IF d >= 2 THEN 1 ELSE 10 ^ (2 - d)
Mantissa(x, d, kind) == IF ~Decimal(x, kind) THEN 0 ELSE (x + Tenfold(d) \div 2) \div Tenfold(d)
FromMantissa(iv, d, exact) ==
    (iv * Tenfold(d) + (IF ~exact /\ d > 0 /\ iv % 5 = 3 THEN 1 ELSE 0)) % Word

RoundTrips(x, d, exact, kind) == FromMantissa(Mantissa(x, d, kind), d, exact) = x

\* Width, reference and exceptions of one way to reconstruct.
AlpRange(s, d, exact, kind) ==
    LET good == {Mantissa(s[k], d, kind) : k \in {j \in DOMAIN s : RoundTrips(s[j], d, exact, kind)}}
        mn == IF good = {} THEN 0 ELSE CHOOSE x \in good : \A y \in good : x <= y
        mx == IF good = {} THEN 0 ELSE CHOOSE x \in good : \A y \in good : x >= y
    IN [d |-> d, exact |-> exact, forMin |-> mn, width |-> BitsForDelta(mx - mn),
        exc |-> Len(SelectSeq(s, LAMBDA x : ~RoundTrips(x, d, exact, kind)))]

\* Two ways to reconstruct: a division, and where it costs no more a multiplication.
AlpCost(n, p, each) == BytesFor(p.width * n) + p.exc * each
AlpChoice(kind, n, div, mul) ==
    IF kind = "f64" /\ AlpCost(n, div, 5 + WordBytes) < AlpCost(n, mul, 5 + WordBytes) THEN div ELSE mul
AlpScore(s, d, kind) ==
    AlpChoice(kind, Len(s), AlpRange(s, d, TRUE, kind), AlpRange(s, d, FALSE, kind))

AlpSampled(s) ==
    LET step == LargerOf(Len(s) \div AlpSample, 1)
    IN [k \in 1 .. (Len(s) + step - 1) \div step |-> s[(k - 1) * step + 1]]

AlpExponent(sample, kind) ==
    Best([k \in 1 .. MaxExp + 1 |->
             [d |-> k - 1,
              cost |-> AlpCost(Len(sample), AlpScore(sample, k - 1, kind),
                               2 + (Width(kind) \div ByteBits))]]).d

AlpPriced(n, kind, p) ==
    [ok |-> p.width <= MaxBits /\ p.exc < n, plan |-> p,
     cost |-> 4 + UvarintLen(n) + UvarintLen(Zigzag(p.forMin)) + UvarintLen(p.exc)
                + AlpCost(n, p, 5 + (Width(kind) \div ByteBits))]

AlpPlan(s, kind) ==
    IF s = <<>> THEN [ok |-> TRUE, cost |-> 3]
    ELSE AlpPriced(Len(s), kind, AlpScore(s, AlpExponent(AlpSampled(s), kind), kind))

\* The exceptions of a column, at the places of at, keep a slot of 0 in the
\* packed part.
AlpUnits(kind, s, p, at) ==
    <<B("alp"), B(kind), V(Len(s)), B(2 * p.d + (IF p.exact THEN 1 ELSE 0)), V(Zigzag(p.forMin)), B(p.width)>>
    \o Bytes(PackColumn([k \in DOMAIN s |->
                            IF RoundTrips(s[k], p.d, p.exact, kind) THEN Mantissa(s[k], p.d, kind) - p.forMin
                            ELSE 0], p.width))
    \o <<V(Len(at))>> \o Flat(Len(at), LAMBDA k : <<V(at[k] - 1), RawWord(kind, s[at[k]])>>)

WriteAlp(kind, s, p) ==
    IF s = <<>> THEN <<B("alp"), B(kind), V(0)>>
    ELSE AlpUnits(kind, s, p, SelectSeq([k \in DOMAIN s |-> k],
                                        LAMBDA k : ~RoundTrips(s[k], p.d, p.exact, kind)))

\* Exceptions <<position, word>> at i patch vals; also where the value ends.
AlpExceptions(w, i, n) == w[i][2] <= n /\ i + 2 * w[i][2] <= Len(w)
Patch(w, i, vals, Restore(_, _)) ==
    [k \in DOMAIN vals |->
        LET hits == {j \in 1 .. w[i][2] : w[i + 2 * j - 1][2] = k - 1}
        IN IF hits = {} THEN vals[k]
           ELSE Restore(k, w[i + 2 * (CHOOSE j \in hits : \A l \in hits : l <= j)][2])]

AlpValues(w, at, vals, scratch) == Got(Patch(w, at, vals, LAMBDA k, x : x), at + 1 + 2 * w[at][2], scratch)

AlpUnpacked(w, at, forMin, d, exact, grown, packed) ==
    AlpValues(w, at, [k \in DOMAIN packed |-> FromMantissa(forMin + packed[k], d, exact)],
              Overwrite(grown, 0, packed))

ReadAlp(w, i, kind, cap, scratch, vector) ==
    LET n == w[i + 2][2]
        d == w[i + 3][2] \div 2  exact == w[i + 3][2] % 2 = 1
        forMin == Unzigzag(w[i + 4][2])
        width == w[i + 5][2]
        at == i + 6 + BytesFor(n * width)
        grown == Scratch(scratch, n)
    IN CASE w[i + 1] # B(kind) -> Refused
         [] w[i + 1] = B(kind) /\ n = 0 -> Got(<<>>, i + 3, scratch)
         [] OTHER ->
              IF ~LenOK(n, cap) \/ d > MaxExp \/ width > MaxBits \/ ~HasBody(w, i + 6, n, width) THEN Refused
              ELSE IF ~AlpExceptions(w, at, n) \/ \E j \in 1 .. w[at][2] : w[at + 2 * j - 1][2] >= n
              THEN Refused
              ELSE IF width = 0
              THEN AlpValues(w, at, [k \in 1 .. n |-> FromMantissa(forMin, d, exact)], scratch)
              ELSE AlpUnpacked(w, at, forMin, d, exact, grown,
                               Unpack(SubSeq(grown, 1, n), Body(w, i + 6, n, width), width, vector))

-----------------------------------------------------------------------------
(* ALP-RD: the left bits from a dictionary, the right bits packed *)

RdTag(kind) == IF kind = "f64" THEN "rd64" ELSE "rd32"
CodeBits(d) == BitsForDistinct(d)

\* The left parts of a sample by how often they occur, at most MaxLefts; of
\* those that occur as often, the one that came first.
TopOf(t, lefts) ==
    LET Count(x) == Len(SelectSeq(lefts, LAMBDA y : y = x))
        Ahead(j) == Cardinality({k \in DOMAIN t : \/ Count(t[k]) > Count(t[j])
                                                  \/ Count(t[k]) = Count(t[j]) /\ k < j})
        top == SmallerOf(Len(t), MaxLefts)
    IN [r \in 1 .. top |-> t[CHOOSE j \in DOMAIN t : Ahead(j) = r - 1]]

TopLefts(lefts) == TopOf(Distinct(lefts), lefts)

Lefts(s, kind, left) == [k \in DOMAIN s |-> Shr(s[k], Width(kind) - left)]
Among(x, t) == \E j \in DOMAIN t : t[j] = x

Missed(lefts, dict) == Len(SelectSeq(lefts, LAMBDA x : ~Among(x, dict)))

CutSampled(s) ==
    LET stride == IF Len(s) > LeftSample THEN Len(s) \div LeftSample ELSE 1
    IN [k \in 1 .. SmallerOf((Len(s) + stride - 1) \div stride, 2 * LeftSample) |-> s[(k - 1) * stride + 1]]

\* A cut, with its projected bits a value as its cost.
CutWith(kind, left, lefts, dict) ==
    [left |-> left, dict |-> dict,
     cost |-> (((CodeBits(Len(dict)) + Width(kind) - left) * Len(lefts) + Missed(lefts, dict) * 4 * ByteBits) * 1024)
              \div Len(lefts)]
CutOf(kind, left, lefts) == CutWith(kind, left, lefts, TopLefts(lefts))

ChooseCut(sample, kind) ==
    Best([k \in 1 .. LeftMax - LeftMin + 1 |->
             CutOf(kind, LeftMin + k - 1, Lefts(sample, kind, LeftMin + k - 1))])

RdCost(n, right, dict, exc) ==
    4 + UvarintLen(n) + 2 * Len(dict) + BytesFor(CodeBits(Len(dict)) * n)
      + BytesFor(right * n) + UvarintLen(exc) + exc * (5 + 2)

RdPriced(n, kind, p, cost) ==
    [ok |-> CodeBits(Len(p.dict)) < p.left - 1 /\ cost < RawSize(kind, n), plan |-> p, cost |-> cost]

RdOf(s, kind, p) ==
    RdPriced(Len(s), kind, p,
             RdCost(Len(s), Width(kind) - p.left, p.dict, Missed(Lefts(s, kind, p.left), p.dict)))

AlpRDPlan(s, kind) ==
    IF Len(s) < 16 THEN [ok |-> FALSE] ELSE RdOf(s, kind, ChooseCut(CutSampled(s), kind))

RdUnits(kind, s, p, lefts, at) ==
    LET right == Width(kind) - p.left IN
    <<B("alp"), B(RdTag(kind)), V(Len(s)), B(p.left), B(Len(p.dict))>>
    \o [j \in DOMAIN p.dict |-> Short(p.dict[j])]
    \o Bytes(PackColumn([k \in DOMAIN s |-> IF Among(lefts[k], p.dict)
                                            THEN (CHOOSE j \in DOMAIN p.dict : p.dict[j] = lefts[k]) - 1 ELSE 0],
                        CodeBits(Len(p.dict))))
    \o Bytes(PackColumn([k \in DOMAIN s |-> s[k] % 2 ^ right], right))
    \o <<V(Len(at))>> \o Flat(Len(at), LAMBDA k : <<V(at[k] - 1), Short(lefts[at[k]])>>)

RdOfLefts(kind, s, p, lefts) ==
    RdUnits(kind, s, p, lefts, SelectSeq([k \in DOMAIN s |-> k], LAMBDA k : ~Among(lefts[k], p.dict)))

WriteAlpRD(kind, s, p) == RdOfLefts(kind, s, p, Lefts(s, kind, p.left))

\* One scratch carries both halves: the codes, then the right parts.
RdJoined(w, i, end, right, dictN, grown, codes, rights) ==
    IF \E k \in DOMAIN codes : codes[k] >= dictN THEN Refused
    ELSE Got(Patch(w, end, [k \in DOMAIN codes |-> w[i + codes[k]][2] * 2 ^ right + rights[k]],
                   LAMBDA k, left : left * 2 ^ right + rights[k]),
             end + 1 + 2 * w[end][2], Overwrite(grown, 0, codes \o rights))

ReadAlpRD(w, i, kind, cap, scratch, vector) ==
    LET n == w[i + 2][2]
        rest == WireLen(SubSeq(w, i + 3, Len(w)))
        left == w[i + 3][2]
        dictN == w[i + 4][2]
        right == Width(kind) - left
        cbits == CodeBits(dictN)
        at == i + 5 + dictN
        then == at + BytesFor(cbits * n)
        end == then + BytesFor(right * n)
        grown == Scratch(scratch, 2 * n)
        Packed(from, i1, i2, bits) == Unpack(SubSeq(grown, from + 1, from + n), Payload(w, i1, i2 - i1), bits, vector)
    IN CASE w[i + 1] # B(RdTag(kind)) \/ ~LenOK(n, cap)
            \/ n > (rest * ByteBits) \div (Width(kind) - LeftMax) + 1 -> Refused
         [] OTHER ->
              IF n = 0 THEN Got(<<>>, i + 3, scratch)
              ELSE IF left \notin LeftMin .. LeftMax \/ dictN \notin 1 .. MaxLefts \/ end > Len(w) THEN Refused
              ELSE IF ~AlpExceptions(w, end, n) \/ \E j \in 1 .. w[end][2] : w[end + 2 * j - 1][2] >= n
              THEN Refused
              ELSE RdJoined(w, i + 5, end, right, dictN, grown,
                            Packed(0, at, then, cbits), Packed(n, then, end, right))

-----------------------------------------------------------------------------
(* The picker *)

Probe(s) == SmallerOf(XorProbe, Len(s) - 1)

\* pickF64Codec, pickF32Codec: worth an attempt below three quarters of raw.
GorillaBits(kind, x) ==
    IF x = 0 THEN 1
    ELSE Width(kind) - LeadingZeros(x, Width(kind)) - TrailingZeros(x) + GorillaControl[kind]
ChimpBits(x) == IF x = 0 THEN RingField + 2 ELSE LeadField + 2 + WordBits - LeadRounds[LeadCode(x)]

GorillaLikely(kind, s) ==
    /\ Len(s) >= 8
    /\ SumUpTo(Probe(s), LAMBDA k : GorillaBits(kind, Xor(s[k], s[k + 1]))) \div Probe(s) + 1
         < (3 * Width(kind)) \div 4

ChimpLikely(s) ==
    Len(s) >= 8 /\ SumUpTo(Probe(s), LAMBDA k : ChimpBits(Xor(s[k], s[k + 1]))) \div Probe(s) < ChimpGate

\* Mutant of RollBack: the header latch stays set.
MutRollBack(e, tried) == [tried EXCEPT !.buf = e.buf]

\* An attempt leaves its bytes in the buffer; one that does not win is rolled
\* back to the buffer and the latch of before, and only the window stays.
RollBack(e, tried) == [tried EXCEPT !.buf = e.buf, !.header = e.header]

\* Chimp is emitted first, Gorilla over it when it is likely too; the smaller
\* stays.  Sizes count what the attempt appended.
ChimpAttempt(e, c) == Put([e EXCEPT !.chimp = c.chimp], c.units)
OverChimp(e, s, chimp) ==
    IF GorillaLikely("f64", s) THEN Shorter(chimp, Put(RollBack(e, chimp), WriteGorilla("f64", s))) ELSE chimp

TryXor(e, kind, s) ==
    IF kind = "f32" THEN Put(e, WriteGorilla(kind, s))
    ELSE OverChimp(e, s, ChimpAttempt(e, WriteChimp(s, e.chimp)))

\* The decimal form that is priced, if any, and its price.
Decimals(raw, alp, rd) ==
    IF alp.ok THEN [form |-> "alp", by |-> alp, cost |-> alp.cost]
    ELSE IF rd.ok THEN [form |-> "rd", by |-> rd, cost |-> rd.cost] ELSE [form |-> "raw", cost |-> raw]
DecimalPlan(kind, s) == Decimals(RawSize(kind, Len(s)), AlpPlan(s, kind), AlpRDPlan(s, kind))

EmitFloats(kind, s, p) ==
    CASE p.cost < RawSize(kind, Len(s)) /\ p.form = "alp" -> WriteAlp(kind, s, p.by.plan)
      [] p.cost < RawSize(kind, Len(s)) /\ p.form = "rd" -> WriteAlpRD(kind, s, p.by.plan)
      [] OTHER -> WriteRaw(kind, s)

\* An attempt of size bytes is kept: it beats raw, and the decimal form where
\* that beats raw.
XorKept(size, cost, raw) == size < raw /\ (cost >= raw \/ cost >= size)

XorLikely(kind, s) == GorillaLikely(kind, s) \/ (kind = "f64" /\ ChimpLikely(s))

Weighed(e, kind, s, p, tried) ==
    IF XorKept(WireLen(tried.buf) - WireLen(e.buf), p.cost, RawSize(kind, Len(s))) THEN tried
    ELSE Put(RollBack(e, tried), EmitFloats(kind, s, p))

WriteFloats(e, kind, s) ==
    \* the plan is bound before it is used
    CHOOSE r \in {IF XorLikely(kind, s) THEN Weighed(e, kind, s, p, TryXor(e, kind, s))
                  ELSE Put(e, EmitFloats(kind, s, p)) : p \in {DecimalPlan(kind, s)}} : TRUE

ReadFloats(w, i, kind, cap, scratch, vector) ==
    CASE w[i] = B("raw") -> ReadRaw(w, i, kind, scratch)
      [] w[i] = B("gorilla") -> IF kind = "f64" /\ w[i + 1] = B("chimp") THEN ReadChimp(w, i, cap, scratch)
                                ELSE ReadGorilla(w, i, kind, cap, scratch)
      [] w[i] = B("alp") -> IF w[i + 1] = B(RdTag(kind)) THEN ReadAlpRD(w, i, kind, cap, scratch, vector)
                            ELSE ReadAlp(w, i, kind, cap, scratch, vector)
      [] OTHER -> Refused

-----------------------------------------------------------------------------
(* Skip *)

SkipXor(w, i) ==
    LET n == w[i + 2][2] IN
    IF n = 0 THEN i + 3
    ELSE LET next == i + 5 + BytesFor(w[i + 4][2]) IN IF next > Len(w) + 1 THEN 0 ELSE next

SkipAlp(w, i) ==
    LET n == w[i + 2][2]
        at == i + 6 + BytesFor(n * w[i + 5][2])
    IN IF n = 0 THEN i + 3
       ELSE IF w[i + 5][2] > MaxBits \/ at > Len(w) THEN 0
       ELSE IF AlpExceptions(w, at, n) THEN at + 1 + 2 * w[at][2] ELSE 0

SkipAlpRD(w, i, kind) ==
    LET n == w[i + 2][2]
        left == w[i + 3][2]
        dictN == w[i + 4][2]
        at == i + 5 + dictN + BytesFor(CodeBits(dictN) * n) + BytesFor((Width(kind) - left) * n)
    IN IF n = 0 THEN i + 3
       ELSE IF n > (WireLen(SubSeq(w, i + 3, Len(w))) * ByteBits) \div (Width("f32") - LeftMax) + 1
               \/ left \notin LeftMin .. LeftMax \/ dictN \notin 1 .. MaxLefts \/ at > Len(w) THEN 0
       ELSE IF AlpExceptions(w, at, n) THEN at + 1 + 2 * w[at][2] ELSE 0

SkipFloats(w, i) ==
    CASE w[i] = B("raw") -> SkipRaw(w, i)
      [] w[i] = B("gorilla") -> SkipXor(w, i)
      [] w[i] = B("alp") -> IF w[i + 1] \in {B("f64"), B("f32")} THEN SkipAlp(w, i)
                            ELSE SkipAlpRD(w, i, IF w[i + 1] = B(RdTag("f64")) THEN "f64" ELSE "f32")
      [] OTHER -> 0
=============================================================================
