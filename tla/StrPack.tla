------------------------------- MODULE StrPack -------------------------------
(***************************************************************************)
(* The string columns of a columnar value: a dictionary (plain, front      *)
(* coded, or with a packed index), FSST, characters packed by alphabet,    *)
(* the difference to the row before, raw, one constant, or value by value. *)
(* They are tried in that order and the first that claims to be smaller is *)
(* written.                                                                *)
(*                                                                         *)
(* A string is a sequence of characters, one byte each.  An encoder's      *)
(* record e also has the options dense and fsst, the interned strings, and *)
(* the symbol table FSST was last trained to with the columns it served;   *)
(* a decoder's record has deltaScratch and its own interned strings.       *)
(***************************************************************************)
EXTENDS BlockPack, FiniteSets

CONSTANTS
    MinIntern,          \* minIntern: length from which a value is interned
    StrMin,             \* elements below which no column form is tried
    StrMaxDistinct,     \* qpackStrDictMaxDistinct
    StrSample,          \* rows the cardinality of a column is judged by
    StrSamplePct,       \* distinct rows per cent past which it is high
    MaxAlphabet,        \* qpackStrAlphaMaxAlphabet
    FrontMin,           \* frontDeltaMinElems
    FrontBlock,         \* frontDeltaBlock
    FrontSample,        \* frontDeltaSampleN
    FrontMargin,        \* 2 ^ frontDeltaMinGainShift
    FsstInterval        \* fsstReuseInterval

ASSUME StrPackAssumption ==
    /\ MinIntern \in Nat /\ StrMin \in Nat \ {0} /\ StrSample \in Nat \ {0} /\ StrSamplePct \in 0 .. 100
    /\ StrMaxDistinct \in Nat \ {0, 1} /\ MaxAlphabet \in 2 .. Byte
    /\ FrontMin \in Nat \ {0} /\ FrontBlock \in Nat \ {0} /\ FrontSample \in Nat \ {0}
    /\ FrontMargin \in Nat \ {0} /\ FsstInterval \in Nat

Str(s) == <<V(Len(s))>> \o Bytes(s)
StrSize(s) == UvarintLen(Len(s)) + Len(s)
RawFloor(strs) == SumUpTo(Len(strs), LAMBDA k : StrSize(strs[k]))

CommonPrefix(a, b) ==
    LET n == SmallerOf(Len(a), Len(b)) IN
    CHOOSE k \in 0 .. n : (\A j \in 1 .. k : a[j] = b[j]) /\ (k < n => a[k + 1] # b[k + 1])

\* The first skip characters belong to the prefix already.
CommonSuffix(a, b, skip) ==
    LET n == LargerOf(SmallerOf(Len(a), Len(b)) - skip, 0) IN
    CHOOSE k \in 0 .. n : /\ \A j \in 0 .. k - 1 : a[Len(a) - j] = b[Len(b) - j]
                          /\ k < n => a[Len(a) - k] # b[Len(b) - k]

MostlyDistinct(sample) == Len(Distinct(sample)) * 100 > Len(sample) * StrSamplePct

\* dictSampleHighCard
HighCard(strs) == MostlyDistinct(SubSeq(strs, 1, SmallerOf(StrSample, Len(strs))))

-----------------------------------------------------------------------------
(* Value by value *)

\* WriteString: interned from MinIntern on when the encoder is dense.
WriteValue(e, s) ==
    IF ~e.dense \/ Len(s) < MinIntern THEN Put(e, <<<<"fixstr", Len(s)>>>> \o Bytes(s))
    ELSE IF \E k \in DOMAIN e.strings : e.strings[k] = s
    THEN Put(e, <<<<"ref", CHOOSE k \in DOMAIN e.strings : e.strings[k] = s>>>>)
    ELSE [Put(e, <<B("str")>> \o Str(s)) EXCEPT !.strings = Append(@, s)]

WriteValues(e, strs) == Steps(LAMBDA t, k : WriteValue(t, strs[k]), e, Len(strs))

ReadValue(w, r) ==
    LET i == r.next
        unit == w[i]
        fresh == Payload(w, i + 2, w[i + 1][2])
    IN IF ~r.ok THEN r
       ELSE IF i > Len(w) THEN Refused
       ELSE CASE unit[1] = "fixstr" ->
                   [r EXCEPT !.vals = Append(@, Payload(w, i + 1, unit[2])), !.next = i + 1 + unit[2]]
              [] unit[1] = "ref" ->
                   IF unit[2] \in DOMAIN r.strings
                   THEN [r EXCEPT !.vals = Append(@, r.strings[unit[2]]), !.next = i + 1] ELSE Refused
              [] unit = B("str") ->
                   [r EXCEPT !.vals = Append(@, fresh), !.next = i + 2 + w[i + 1][2],
                             !.strings = Append(@, fresh)]
              [] OTHER -> Refused

\* What value by value costs: a repeat of an interned value a byte at least.
ValuesSize(strs) ==
    SumUpTo(Len(strs), LAMBDA k :
        IF Len(strs[k]) < MinIntern THEN 1 + Len(strs[k])
        ELSE IF \E j \in 1 .. k - 1 : strs[j] = strs[k] THEN 1 ELSE 1 + StrSize(strs[k]))

-----------------------------------------------------------------------------
(* Dictionary *)

\* The distinct values and each row's index, unless the probe gives up: too
\* many of them, mostly distinct in the sample, fewer than two, or an index
\* that is no smaller than a byte a row.
ProbeTable(strs, t) ==
    LET n == Len(strs)
        d == Len(t)
        body == BytesFor(n * BitsForDistinct(d))
    IN IF \/ n < StrMin \/ d > StrMaxDistinct \/ d < 2
          \/ n >= StrSample /\ MostlyDistinct(SubSeq(strs, 1, StrSample))
       THEN [ok |-> FALSE]
       ELSE IF body + 1 + UvarintLen(d) + UvarintLen(n) >= n THEN [ok |-> FALSE]
       ELSE [ok |-> TRUE, table |-> t, body |-> body,
             idx |-> [k \in 1 .. n |-> (CHOOSE j \in 1 .. d : t[j] = strs[k]) - 1]]

DictProbe(strs) == ProbeTable(strs, Distinct(strs))

Before(a, b) == LET k == CommonPrefix(a, b) IN
                k < Len(b) /\ (k = Len(a) \/ (k < Len(a) /\ a[SmallerOf(k + 1, Len(a))] < b[k + 1]))

\* The table in order, and the rank of each of its entries.
Rank(t, j) == Cardinality({k \in DOMAIN t : Before(t[k], t[j])})
InOrder(t) == [r \in DOMAIN t |-> t[CHOOSE j \in DOMAIN t : Rank(t, j) = r - 1]]
Shared(s, k) == IF k = 1 THEN 0 ELSE CommonPrefix(s[k - 1], s[k])

FrontCoded(s) ==
    Flat(Len(s), LAMBDA k : <<V(Shared(s, k)), V(Len(s[k]) - Shared(s, k))>>
                            \o Bytes(SubSeq(s[k], Shared(s, k) + 1, Len(s[k]))))

FlatIndex(idx, d) == <<V(Len(idx))>> \o Bytes(PackColumn(idx, BitsForDistinct(d)))

\* The index packed flat, or as a column of numbers where that is smaller.
PlainDict(p, q) ==
    LET t == p.table
        table == <<V(Len(t))>> \o Flat(Len(t), LAMBDA k : Str(t[k]))
    IN IF q.cost < p.body /\ ~ConstantOverCap(Len(p.idx), q)
       THEN <<B("dictQ")>> \o table \o Emit("uint", p.idx, q)
       ELSE <<B("strdict")>> \o table \o FlatIndex(p.idx, Len(t))

DictUnits(p, front) ==
    LET t == p.table IN
    IF /\ Least([k \in DOMAIN t |-> CommonPrefix(t[1], t[k])]) >= 2
       /\ WireLen(front) < RawFloor(t)
    THEN <<B("dictFC"), V(Len(t))>> \o front
         \o FlatIndex([k \in DOMAIN p.idx |-> Rank(t, p.idx[k] + 1)], Len(t))
    ELSE PlainDict(p, Pick("uint", p.idx))

WriteStrDict(p) == DictUnits(p, FrontCoded(InOrder(p.table)))

\* Strings k = 1, 2, ... from i on: their units, each read by One(i, strings).
Chain(i, count, One(_, _)) ==
    Steps(LAMBDA r, k :
              Then(r, LAMBDA before :
                   Then(One(before.next, before.vals),
                        LAMBDA o : [ok |-> TRUE, next |-> o.next, vals |-> Append(before.vals, o.val)])),
          [ok |-> TRUE, next |-> i, vals |-> <<>>], count)

One(w, i) == LET l == w[i][2] IN
             IF i > Len(w) THEN Refused
             ELSE IF i + l > Len(w) THEN Refused
             ELSE [ok |-> TRUE, val |-> Payload(w, i + 1, l), next |-> i + 1 + l]

OneFront(w, i, before) ==
    LET prev == IF before = <<>> THEN <<>> ELSE before[Len(before)]
    IN IF i + 1 > Len(w) THEN Refused
       ELSE IF w[i][2] > Len(prev) THEN Refused
       ELSE Then(One(w, i + 1), LAMBDA o : [o EXCEPT !.val = SubSeq(prev, 1, w[i][2]) \o @])

Indexed(next, grown, idx) == ThroughScratch(idx, next, grown, idx)

\* A flat index: the row count, then the packed numbers, through deltaScratch.
ReadIndex(w, i, n, d, scratch, vector) ==
    LET b == BitsForDistinct(d)
        grown == Scratch(scratch, n)
    IN IF w[i][2] # n \/ ~HasBody(w, i + 1, n, b) THEN Refused
       ELSE Indexed(i + 1 + BytesFor(n * b), grown,
                    Unpack(SubSeq(grown, 1, n), Body(w, i + 1, n, b), b, vector))

\* The rows, from the table t and the indices r.
Looked(n, t, r) ==
    IF Len(r.vals) # n \/ \E k \in DOMAIN r.vals : r.vals[k] >= Len(t) THEN Refused
    ELSE [r EXCEPT !.vals = [k \in 1 .. n |-> t[@[k] + 1]]]

ReadStrDict(w, i, n, dec, vector) ==
    LET d == w[i + 1][2] IN
    IF d \notin 2 .. StrMaxDistinct THEN Refused
    ELSE Then(Chain(i + 2, d, LAMBDA at, before :
                  IF w[i] = B("dictFC") THEN OneFront(w, at, before) ELSE One(w, at)),
              LAMBDA t :
                  Then(IF w[i] = B("dictQ") THEN ReadInt(w, t.next, "uint", n, dec.scratch, vector)
                       ELSE ReadIndex(w, t.next, n, d, dec.scratch, vector),
                       LAMBDA r : Looked(n, t.vals, r)))

-----------------------------------------------------------------------------
(* FSST: a table of symbols, each a code of one byte, and an escape *)

EscapeCode == Byte - 1

StartsWith(s, i, sym) == i + Len(sym) - 1 <= Len(s) /\ SubSeq(s, i, i + Len(sym) - 1) = sym

\* The longest symbol that s goes on with at i, 0 for none.
Match(t, s, i) ==
    LET hits == {k \in DOMAIN t : StartsWith(s, i, t[k])} IN
    IF hits = {} THEN 0
    ELSE CHOOSE k \in hits : \A l \in hits : Len(t[k]) > Len(t[l]) \/ (Len(t[k]) = Len(t[l]) /\ k <= l)

Coded(t, r, i, char, k) ==
    IF k = 0 THEN [next |-> i + 1, codes |-> r.codes \o <<EscapeCode, char>>]
    ELSE [next |-> i + Len(t[k]), codes |-> Append(r.codes, k - 1)]

Compress(t, s) ==
    Steps(LAMBDA r, i : IF i < r.next THEN r ELSE Coded(t, r, i, s[i], Match(t, s, i)),
          [next |-> 1, codes |-> <<>>], Len(s)).codes

\* Decompress up to limit characters: not past it, nor a code without symbol
\* or an escape at the end.
Unescaped(t, r, code) ==
    CASE r.escaped -> [r EXCEPT !.escaped = FALSE, !.val = Append(@, code)]
      [] ~r.escaped /\ code = EscapeCode -> [r EXCEPT !.escaped = TRUE]
      [] ~r.escaped /\ code < Len(t) -> [r EXCEPT !.val = @ \o t[code + 1]]
      [] OTHER -> [r EXCEPT !.ok = FALSE]

Decompress(t, codes, limit) ==
    Then(Steps(LAMBDA r, i : Unescaped(t, r, codes[i]),
               [ok |-> TRUE, escaped |-> FALSE, val |-> <<>>], Len(codes)),
         LAMBDA end : IF end.escaped \/ Len(end.val) > limit THEN Refused ELSE end)

\* The table in use, trained anew to trained when the last one has served
\* its interval.
Retrain(e, trained) ==
    IF e.table # <<>> /\ e.served < FsstInterval THEN [e EXCEPT !.served = @ + 1]
    ELSE [e EXCEPT !.table = trained, !.served = 0]

Characters(strs) == SumUpTo(Len(strs), LAMBDA k : Len(strs[k]))

FsstUnits(t, strs) ==
    <<B("fsst"), V(Len(t))>> \o Flat(Len(t), LAMBDA k : <<B(Len(t[k]))>> \o Bytes(t[k]))
    \o <<V(Len(strs)), V(Characters(strs))>> \o Flat(Len(strs), LAMBDA k : Str(Compress(t, strs[k])))

\* The encoder after the attempt, which keeps its table whether or not it won.
FsstWith(t, strs, units) ==
    IF WireLen(units) >= Characters(strs) + Len(strs) THEN [ok |-> FALSE, e |-> t]
    ELSE [ok |-> TRUE, e |-> Put(t, units)]
FsstBy(t, strs) == FsstWith(t, strs, FsstUnits(t.table, strs))

TryFsst(e, strs, trained) ==
    IF ~e.fsst \/ Len(strs) < StrMin THEN [ok |-> FALSE, e |-> e] ELSE FsstBy(Retrain(e, trained), strs)

\* A row; all of them have to fit into total characters.
OneFsst(w, at, t, total, before) ==
    Then(One(w, at), LAMBDA o :
         Then(Decompress(t, o.val, total - Characters(before)), LAMBDA s : [o EXCEPT !.val = s.val]))

ReadFsst(w, i, n, dec) ==
    Then(Chain(i + 2, w[i + 1][2], LAMBDA at, before : One(w, at)),
         LAMBDA t :
             IF w[t.next][2] # n THEN Refused
             ELSE Then(Chain(t.next + 2, n, LAMBDA at, before : OneFsst(w, at, t.vals, w[t.next + 1][2], before)),
                       LAMBDA rows : Got(rows.vals, rows.next, dec.scratch)))

-----------------------------------------------------------------------------
(* Characters packed by alphabet *)

Chars(strs) == Flat(Len(strs), LAMBDA k : strs[k])
SameLength(strs) == \A k \in DOMAIN strs : Len(strs[k]) = Len(strs[1])

AlphaBy(strs, chars, a) ==
    <<B("alpha"), V(Len(a))>> \o Bytes(a) \o <<V(Len(strs)), B(SameLength(strs))>>
    \o (IF SameLength(strs) THEN <<V(Len(strs[1]))>> ELSE [k \in DOMAIN strs |-> V(Len(strs[k]))])
    \o Bytes(PackColumn([k \in DOMAIN chars |-> (CHOOSE j \in DOMAIN a : a[j] = chars[k]) - 1],
                        BitsForDistinct(Len(a))))

AlphaUnits(strs) == AlphaBy(strs, Chars(strs), Distinct(Chars(strs)))

\* Mutant of AlphaClaims: the size is not compared.
MutAlphaClaims(strs, units) ==
    /\ Len(strs) >= StrMin /\ HighCard(strs)
    /\ Len(Distinct(Chars(strs))) \in 2 .. MaxAlphabet

AlphaClaims(strs, units) ==
    /\ Len(strs) >= StrMin /\ HighCard(strs)
    /\ Len(Distinct(Chars(strs))) \in 2 .. MaxAlphabet
    /\ WireLen(units) < RawFloor(strs)

AlphaRows(w, i, n, a, lens, next, grown, codes) ==
    LET off[k \in 0 .. n] == IF k = 0 THEN 0 ELSE off[k - 1] + lens[k]
    IN IF \E k \in DOMAIN codes : codes[k] >= a THEN Refused
       ELSE ThroughScratch([k \in 1 .. n |-> [j \in 1 .. lens[k] |-> w[i + codes[off[k - 1] + j]][2]]],
                           next, grown, codes)

ReadAlpha(w, i, n, dec, vector) ==
    LET a == w[i + 1][2]
        at == i + 2 + a
        fixed == w[at + 1][2]
        lens == [k \in 1 .. n |-> IF fixed THEN w[at + 2][2] ELSE w[at + 1 + k][2]]
        total == SumUpTo(n, LAMBDA k : lens[k])
        b == BitsForDistinct(a)
        body == at + 2 + (IF fixed THEN 1 ELSE n)
        grown == Scratch(dec.scratch, total)

    IN IF a \notin 2 .. MaxAlphabet \/ at + 1 > Len(w) \/ w[at][2] # n \/ ~HasBody(w, body, total, b)
       THEN Refused
       ELSE AlphaRows(w, i + 2, n, a, lens, body + BytesFor(total * b), grown,
                      Unpack(SubSeq(grown, 1, total), Body(w, body, total, b), b, vector))

-----------------------------------------------------------------------------
(* The difference to the row before, within blocks of FrontBlock rows *)

\* Row k as prefix and suffix shared with the row before, none at an anchor.
FrontRow(strs, k, suffix) ==
    LET prev == IF (k - 1) % FrontBlock = 0 THEN <<>> ELSE strs[k - 1]
        p == CommonPrefix(strs[k], prev)
        q == IF suffix THEN CommonSuffix(strs[k], prev, p) ELSE 0
    IN [p |-> p, q |-> q, mid |-> SubSeq(strs[k], p + 1, Len(strs[k]) - q)]

FrontLens(r, suffix) ==
    <<V(r.p)>> \o (IF suffix THEN <<V(r.q)>> ELSE <<>>) \o <<V(Len(r.mid))>>

FrontRows(strs, suffix) == [k \in DOMAIN strs |-> FrontRow(strs, k, suffix)]

FrontSize(rows, suffix) ==
    SumUpTo(Len(rows), LAMBDA k : WireLen(FrontLens(rows[k], suffix)) + Len(rows[k].mid))

FrontFrame(rows, suffix, mids) ==
    <<B("front"), V(Len(rows)), B(suffix), V(Len(mids))>>
    \o Flat(Len(rows), LAMBDA k : FrontLens(rows[k], suffix)) \o Bytes(mids)
FrontOf(rows, suffix) == FrontFrame(rows, suffix, Flat(Len(rows), LAMBDA k : rows[k].mid))
FrontUnits(strs, suffix) == FrontOf(FrontRows(strs, suffix), suffix)

\* Both modes are scored on a sample; the better has to clear a margin.
Margin(best, raw) == best + raw \div FrontMargin < raw
FrontScored(sample, front, back) ==
    [suffix |-> back < front, ok |-> Margin(SmallerOf(front, back), RawFloor(sample))]
FrontSampled(sample) ==
    FrontScored(sample, FrontSize(FrontRows(sample, FALSE), FALSE), FrontSize(FrontRows(sample, TRUE), TRUE))
FrontMode(strs) == FrontSampled(SubSeq(strs, 1, SmallerOf(Len(strs), FrontSample)))

FrontClaims(strs, m, units) ==
    Len(strs) >= FrontMin /\ HighCard(strs) /\ m.ok /\ WireLen(units) < RawFloor(strs)

\* A row between p characters and q of the row before.
Between(prev, p, q, mid) ==
    IF p + q > Len(prev) THEN Refused
    ELSE [ok |-> TRUE, val |-> SubSeq(prev, 1, p) \o mid \o SubSeq(prev, Len(prev) - q + 1, Len(prev))]

\* The rows: fields as a function of row and place, mids from body on.
OneBehind(w, body, fields, off, at, before, k) ==
    Then(Between(IF (k - 1) % FrontBlock = 0 THEN <<>> ELSE before[k - 1],
                 fields[k].p, fields[k].q, Payload(w, body + off[k - 1], fields[k].m)),
         LAMBDA r : [ok |-> TRUE, next |-> at, val |-> r.val])

FrontFields(w, i, n, suffix, width) ==
    [k \in 1 .. n |-> [p |-> w[i + (k - 1) * width][2],
                       q |-> IF suffix THEN w[i + (k - 1) * width + 1][2] ELSE 0,
                       m |-> w[i + k * width - 1][2]]]

ReadFrontRows(w, n, body, total, fields, dec) ==
    LET off[k \in 0 .. n] == IF k = 0 THEN 0 ELSE off[k - 1] + fields[k].m
    IN IF off[n] # total \/ body + total - 1 > Len(w) THEN Refused
       ELSE Then(Chain(body, n, LAMBDA at, before :
                                    OneBehind(w, body, fields, off, at, before, Len(before) + 1)),
                 LAMBDA rows : Got(rows.vals, body + total, dec.scratch))

ReadFront(w, i, n, cap, dec) ==
    LET suffix == w[i + 2][2]
        width == IF suffix THEN 3 ELSE 2
        body == i + 4 + n * width
    IN IF ~LenOK(w[i + 1][2], cap) \/ w[i + 1][2] # n \/ body - 1 > Len(w) THEN Refused
       ELSE ReadFrontRows(w, n, body, w[i + 3][2], FrontFields(w, i + 4, n, suffix, width), dec)

-----------------------------------------------------------------------------
(* Raw and constant *)

RawUnits(strs) ==
    <<B("strraw"), V(Len(strs)), V(Characters(strs))>> \o Flat(Len(strs), LAMBDA k : Str(strs[k]))

RawClaims(strs) == Len(strs) >= StrMin /\ WireLen(RawUnits(strs)) <= ValuesSize(strs)

ReadStrRaw(w, i, n, dec) ==
    IF w[i + 1][2] # n THEN Refused
    ELSE Then(Chain(i + 3, n, LAMBDA at, before :
                  Then(One(w, at), LAMBDA o :
                       IF Characters(before) + Len(o.val) > w[i + 2][2] THEN Refused ELSE o)),
              LAMBDA rows : Got(rows.vals, rows.next, dec.scratch))

AllSame(strs) == Len(strs) >= 2 /\ \A k \in DOMAIN strs : strs[k] = strs[1]

ReadConst(w, i, n, dec) ==
    Then(One(w, i + 1), LAMBDA o :
         IF w[o.next][2] # n THEN Refused ELSE Got([k \in 1 .. n |-> o.val], o.next + 1, dec.scratch))

-----------------------------------------------------------------------------
(* The column *)

\* The forms that are tried once the others have not claimed the column.
WriteLast(e, strs) ==
    CASE RawClaims(strs) -> Put(e, RawUnits(strs))
      [] ~RawClaims(strs) /\ (e.dense \/ strs = <<>>) -> WriteValues(e, strs)
      [] OTHER -> Put(e, IF AllSame(strs) THEN <<B("strconst")>> \o Str(strs[1]) \o <<V(Len(strs))>>
                         ELSE RawUnits(strs))

WriteFront(e, strs, m, units) == IF FrontClaims(strs, m, units) THEN Put(e, units) ELSE WriteLast(e, strs)
WriteFrontBy(e, strs, m) == WriteFront(e, strs, m, FrontUnits(strs, m.suffix))

WriteAlpha(e, strs, units) ==
    IF AlphaClaims(strs, units) THEN Put(e, units) ELSE WriteFrontBy(e, strs, FrontMode(strs))

\* f is FSST's attempt.
WriteAfterFsst(f, strs) == IF f.ok THEN f.e ELSE WriteAlpha(f.e, strs, AlphaUnits(strs))

\* writeStringColumn.  trained is what FSST's trainer would return.
WriteProbed(e, strs, trained, p) ==
    IF p.ok THEN Put(e, WriteStrDict(p)) ELSE WriteAfterFsst(TryFsst(e, strs, trained), strs)
WriteStrings(e, strs, trained) == WriteProbed(e, strs, trained, DictProbe(strs))

\* The reader of a column form by its tag.
ReadTagged(w, i, n, dec, vector) ==
    CASE w[i] \in {B("strdict"), B("dictFC"), B("dictQ")} -> ReadStrDict(w, i, n, dec, vector)
      [] w[i] = B("fsst") -> ReadFsst(w, i, n, dec)
      [] w[i] = B("alpha") -> ReadAlpha(w, i, n, dec, vector)
      [] w[i] = B("front") -> ReadFront(w, i, n, n, dec)
      [] w[i] = B("strraw") -> ReadStrRaw(w, i, n, dec)
      [] w[i] = B("strconst") -> ReadConst(w, i, n, dec)

StringForms == {"strdict", "dictFC", "dictQ", "fsst", "alpha", "front", "strraw", "strconst"}

\* readStringColumn: the row count is that of the columnar header.
ReadStrings(w, i, n, dec, vector) ==
    IF n > 0 /\ i <= Len(w) /\ w[i] \in {B(t) : t \in StringForms}
    THEN Then(ReadTagged(w, i, n, dec, vector),
              LAMBDA r : [ok |-> TRUE, vals |-> r.vals, next |-> r.next, scratch |-> r.scratch,
                          strings |-> dec.strings])
    ELSE Steps(LAMBDA r, k : ReadValue(w, r),
               [ok |-> TRUE, vals |-> <<>>, next |-> i, scratch |-> dec.scratch, strings |-> dec.strings], n)
=============================================================================
