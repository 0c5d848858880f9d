------------------------------ MODULE IntPack ------------------------------
(***************************************************************************)
(* The QPack codecs of []uint64 and []int64: raw words, frame of reference *)
(* (FOR), deltas over FOR, run lengths, a dictionary, FOR with exceptions  *)
(* (PFOR), and columns cut into blocks that pick a codec each.  A picker   *)
(* prices every codec from statistics of the column; the writer of the     *)
(* cheapest then has to spend what the picker said.                        *)
(*                                                                         *)
(* A column is a record [kind, vals]: "uint" and "int" are words, "u32"    *)
(* and "i32" half words.  The wire is a sequence of units: a byte, a       *)
(* varint, a fixed word.  Positions count units, sizes count bytes.  An    *)
(* error of a reader is the result Refused.                                *)
(***************************************************************************)
EXTENDS BitPack

CONSTANTS
    GroupBits,      \* payload bits in a byte of a varint
    HeaderLen,      \* streamHeaderLen
    MaxDistinct,    \* qpackDictMaxDistinct
    ProbeLen,       \* elements the run probe looks at
    MaxStandalone,  \* qpackMaxStandaloneCount
    BlockLen,       \* blockSizeSmall
    GateWindow,     \* blockGateWindow
    GateSamples,    \* blockGateSamples
    GateWide,       \* blockGateWideBits
    GateSpread      \* blockGateBitsSpread

ASSUME IntPackAssumption ==
    /\ GroupBits \in Nat \ {0} /\ HeaderLen \in Nat /\ MaxDistinct \in Nat \ {0} /\ ProbeLen \in Nat
    /\ MaxStandalone \in Nat
    /\ BlockLen \in Nat \ {0} /\ GateWindow \in 1 .. BlockLen
    /\ GateSamples \in Nat \ {0} /\ GateWide \in Nat /\ GateSpread \in Nat

-----------------------------------------------------------------------------
(* Units of the wire *)

B(x) == <<"byte", x>>
V(x) == <<"varint", x>>
Fixed(x) == <<"word", x>>
Half(x) == <<"half", x>>              \* a 32-bit word
Short(x) == <<"short", x>>            \* a 16-bit word
Header == <<"header">>                \* the header of the stream
Bytes(s) == [i \in DOMAIN s |-> B(s[i])]

UvarintLen(v) ==
    CHOOSE k \in 1 .. WordBits : v < 2 ^ (k * GroupBits) /\ (k > 1 => v >= 2 ^ ((k - 1) * GroupBits))

UnitLen(u) == CASE u[1] = "byte" -> 1
                [] u[1] = "varint" -> UvarintLen(u[2])
                [] u[1] = "word" -> WordBytes
                [] u[1] = "half" -> WordBytes \div 2
                [] u[1] = "short" -> 2
                [] u[1] = "header" -> HeaderLen
                [] OTHER -> 1             \* a tag with its operand in it

WireLen(w) == Steps(LAMBDA n, i : n + UnitLen(w[i]), 0, Len(w))

\* An error of a reader ends it; Cont goes on from a result without one.
Refused == [ok |-> FALSE]
Then(r, Cont(_)) == IF r.ok THEN Cont(r) ELSE Refused

\* An encoder's buffer and latch: the header goes out before the first write.
Put(e, units) ==
    [e EXCEPT !.buf = @ \o (IF e.header THEN <<>> ELSE <<Header>>) \o units, !.header = TRUE]

Is(w, i, unit) == i \in DOMAIN w /\ w[i][1] = unit
Payload(w, i, n) == [j \in 1 .. n |-> w[i + j - 1][2]]

-----------------------------------------------------------------------------
(* Words and signs *)

AsSigned(x) == IF x >= Word \div 2 THEN x - Word ELSE x
HalfWord == 2 ^ (WordBits \div 2)
Narrow(kind) == kind \in {"u32", "i32", "f32"}
Wide(kind) == CASE kind = "u32" -> "uint" [] kind = "i32" -> "int" [] OTHER -> kind
Zigzag(v) == IF v >= 0 THEN 2 * v ELSE -2 * v - 1
Unzigzag(u) == IF u % 2 = 0 THEN u \div 2 ELSE -((u + 1) \div 2)

\* How a value of the kind travels, and comes back.
OnWire(kind, v) == IF kind = "int" THEN Zigzag(v) ELSE v
OffWire(kind, u) == IF kind = "int" THEN Unzigzag(u) ELSE u
Value(kind, word) ==
    CASE kind = "int" -> AsSigned(word % Word)
      [] kind = "i32" -> LET h == word % HalfWord IN IF 2 * h >= HalfWord THEN h - HalfWord ELSE h
      [] Narrow(kind) /\ kind # "i32" -> word % HalfWord
      [] OTHER -> word % Word

Least(s) == LET m == {s[i] : i \in DOMAIN s} IN CHOOSE x \in m : \A y \in m : x <= y
Greatest(s) == LET m == {s[i] : i \in DOMAIN s} IN CHOOSE x \in m : \A y \in m : x >= y

\* Differences of neighbours, in wrapping arithmetic, as signed numbers.
Deltas(s) == [i \in 1 .. Len(s) - 1 |-> AsSigned((s[i + 1] - s[i]) % Word)]

Above(s, least) == [i \in DOMAIN s |-> (s[i] - least) % Word]

\* The runs of a column, and its distinct values in order of appearance.
Runs(s) ==
    Steps(LAMBDA rs, i : IF i > 1 /\ s[i] = s[i - 1]
                         THEN [rs EXCEPT ![Len(rs)].len = @ + 1]
                         ELSE Append(rs, [val |-> s[i], len |-> 1]),
          <<>>, Len(s))

Distinct(s) ==
    Steps(LAMBDA t, i : IF \E j \in DOMAIN t : t[j] = s[i] THEN t ELSE Append(t, s[i]), <<>>, Len(s))

BitsForDistinct(count) == IF count <= 1 THEN 0 ELSE BitsForDelta(count - 1)

Flat(n, Part(_)) == Steps(LAMBDA w, i : w \o Part(i), <<>>, n)
SumUpTo(n, Size(_)) == Steps(LAMBDA t, i : t + Size(i), 0, n)

-----------------------------------------------------------------------------
(* The picker *)

ForSize(kind, n, b, mn) ==
    3 + UvarintLen(OnWire(kind, mn)) + UvarintLen(n) + BytesFor(n * b)

DeltaForSize(kind, n, b, first, minDelta) ==
    3 + UvarintLen(OnWire(kind, first)) + UvarintLen(Zigzag(minDelta)) + UvarintLen(n)
      + BytesFor((n - 1) * b)

RLESize(kind, rs, n) ==
    2 + UvarintLen(n)
      + SumUpTo(Len(rs), LAMBDA i : UvarintLen(OnWire(kind, rs[i].val)) + UvarintLen(rs[i].len))

DictSize(kind, t, n) ==
    2 + UvarintLen(Len(t)) + SumUpTo(Len(t), LAMBDA i : UvarintLen(OnWire(kind, t[i]))) + UvarintLen(n)
      + BytesFor(n * BitsForDistinct(Len(t)))

\* At least two elements a run, over the first ProbeLen of them.
RunsLikely(s) ==
    LET probeN == SmallerOf(ProbeLen, Len(s)) IN 2 * Len(Runs(SubSeq(s, 1, probeN))) <= probeN

PForIsException(d, b) == d # 0 /\ (b = 0 \/ Shr(d, b) # 0)

\* Mutant of PForCost: an exception is priced as two bytes.
MutPForCost(kind, n, mn, b, wide, exc) ==
    3 + UvarintLen(n) + UvarintLen(OnWire(kind, mn)) + BytesFor(n * b) + UvarintLen(wide) + 2 * wide

PForCost(kind, n, mn, b, wide, exc) ==
    3 + UvarintLen(n) + UvarintLen(OnWire(kind, mn)) + BytesFor(n * b) + UvarintLen(wide) + wide * exc

\* The first of the cheapest.
Best(cands) ==
    cands[CHOOSE i \in DOMAIN cands :
              \A j \in DOMAIN cands :
                  cands[i].cost < cands[j].cost \/ (cands[i].cost = cands[j].cost /\ i <= j)]

\* The width that minimises an upper bound of the size, the largest of them:
\* every gap is priced as the count, every exception as the largest difference.
PForBest(kind, ds, mn, forBits, exc) ==
    Best([k \in 1 .. forBits |->
             [ok |-> TRUE, b |-> forBits - k,
              cost |-> PForCost(kind, Len(ds), mn, forBits - k,
                                Len(SelectSeq(ds, LAMBDA d : PForIsException(d, forBits - k))), exc)]])

PForPlan(kind, ds, mn, forBits) ==
    IF Len(ds) < 8 \/ forBits < 2 \/ forBits > MaxBits THEN [ok |-> FALSE]
    ELSE PForBest(kind, ds, mn, forBits, UvarintLen(Len(ds)) + UvarintLen(Greatest(ds)))

\* What the picker knows of a column: its minimum, its first value and least
\* difference, and the widths they leave.
Stats(s) ==
    LET mn == Least(s)
        ds == Deltas(s)
        deltas == Len(s) >= 4
    IN [mn |-> mn, forBits |-> BitsForDelta((Greatest(s) - mn) % Word),
        first |-> IF deltas THEN s[1] ELSE 0,
        minDelta |-> IF deltas THEN Least(ds) ELSE 0,
        deltaBits |-> IF deltas THEN BitsForDelta((Greatest(ds) - Least(ds)) % Word) ELSE 0]

RawSize(kind, n) == 2 + UvarintLen(n) + (IF Narrow(kind) THEN WordBytes \div 2 ELSE WordBytes) * n

\* The candidates that need no plan of their own, in the order they are tried.
Candidates(kind, s, st) ==
    LET n == Len(s)
        cand(codec, cost) == <<[codec |-> codec, cost |-> cost]>>
    IN cand("raw", RawSize(kind, n))
       \o (IF st.forBits <= MaxBits THEN cand("for", ForSize(kind, n, st.forBits, st.mn)) ELSE <<>>)
       \o (IF n >= 4 /\ st.deltaBits <= MaxBits
           THEN cand("deltaFor", DeltaForSize(kind, n, st.deltaBits, st.first, st.minDelta)) ELSE <<>>)
       \o (IF n >= 8 /\ RunsLikely(s) THEN cand("rle", RLESize(kind, Runs(s), n)) ELSE <<>>)
       \o (IF n >= 8 /\ Len(Distinct(s)) <= MaxDistinct
           THEN cand("dict", DictSize(kind, Distinct(s), n)) ELSE <<>>)

\* Below this the picker does not plan exceptions at all.
PForGate(kind, s, mn) ==
    3 + UvarintLen(Len(s)) + UvarintLen(OnWire(kind, mn)) + Len(s) \div ByteBits

Picked(st, codec, pforBits, cost) ==
    [codec |-> codec, mn |-> st.mn, forBits |-> st.forBits, first |-> st.first,
     minDelta |-> st.minDelta, deltaBits |-> st.deltaBits, pforBits |-> pforBits, cost |-> cost]

\* The best of the candidates, unless FOR with exceptions beats it.
Settle(st, best, gate, plan) ==
    IF best.cost > gate /\ plan.ok /\ plan.cost < best.cost
    THEN Picked(st, "pfor", plan.b, plan.cost) ELSE Picked(st, best.codec, 0, best.cost)

PickBy(kind, s, st) ==
    Settle(st, Best(Candidates(kind, s, st)), PForGate(kind, s, st.mn), PForPlan(kind, Above(s, st.mn), st.mn, st.forBits))

Pick(kind, s) ==
    IF s = <<>> THEN Picked([mn |-> 0, forBits |-> 0, first |-> 0, minDelta |-> 0, deltaBits |-> 0], "raw", 0, 0)
    ELSE PickBy(kind, s, Stats(s))

-----------------------------------------------------------------------------
(* Writers *)

RawWord(kind, x) == IF Narrow(kind) THEN Half(x % HalfWord) ELSE Fixed(x % Word)

WriteRaw(kind, s) ==
    <<B("raw"), B(kind), V(Len(s))>> \o [i \in DOMAIN s |-> RawWord(kind, s[i])]

WriteFor(kind, s, mn, b) ==
    <<B("for"), B(kind), B(b), V(OnWire(kind, mn)), V(Len(s))>> \o Bytes(PackColumn(Above(s, mn), b))

WriteDeltaFor(kind, s, first, minDelta, b) ==
    <<B("deltaFor"), B(kind), B(b), V(OnWire(kind, first)), V(Zigzag(minDelta)), V(Len(s))>>
    \o Bytes(PackColumn(Above(Deltas(s), minDelta), b))

WriteRLE(kind, s, rs) ==
    <<B("rle"), B(kind), V(Len(s))>>
    \o Flat(Len(rs), LAMBDA i : <<V(OnWire(kind, rs[i].val)), V(rs[i].len)>>)

WriteDict(kind, s, t) ==
    IF t = <<>> \/ Len(t) > MaxDistinct THEN WriteRaw(kind, s)
    ELSE <<B("dict"), B(kind), V(Len(t))>> \o [k \in DOMAIN t |-> V(OnWire(kind, t[k]))]
         \o <<V(Len(s))>>
         \o Bytes(PackColumn([i \in DOMAIN s |-> (CHOOSE k \in DOMAIN t : t[k] = s[i]) - 1],
                             BitsForDistinct(Len(t))))

\* The packed part keeps the low bits of an exception; its position travels
\* as the distance from the exception before it.
WritePFor(kind, s, mn, b) ==
    LET ds == Above(s, mn)
        at == SelectSeq([i \in DOMAIN s |-> i], LAMBDA i : PForIsException(ds[i], b))
    IN <<B("pfor"), B(kind), V(Len(s)), B(b), V(OnWire(kind, mn))>>
       \o Bytes(PackColumn([i \in DOMAIN ds |-> ds[i] % 2 ^ b], b)) \o <<V(Len(at))>>
       \o Flat(Len(at), LAMBDA k : <<V(at[k] - (IF k = 1 THEN 1 ELSE at[k - 1])), V(ds[at[k]])>>)

\* A body that does not grow with the count is refused past MaxStandalone.
ConstantOverCap(n, p) ==
    /\ n > MaxStandalone
    /\ \/ p.codec = "for" /\ p.forBits = 0
       \/ p.codec = "deltaFor" /\ p.deltaBits = 0
       \/ p.codec = "pfor" /\ p.pforBits = 0
       \/ p.codec \in {"rle", "dict"}

Emit(kind, s, p) ==
    CASE ConstantOverCap(Len(s), p) -> WriteRaw(kind, s)
      [] p.codec = "for" -> WriteFor(kind, s, p.mn, p.forBits)
      [] p.codec = "deltaFor" -> WriteDeltaFor(kind, s, p.first, p.minDelta, p.deltaBits)
      [] p.codec = "rle" -> WriteRLE(kind, s, Runs(s))
      [] p.codec = "dict" -> WriteDict(kind, s, Distinct(s))
      [] p.codec = "pfor" -> WritePFor(kind, s, p.mn, p.pforBits)
      [] OTHER -> WriteRaw(kind, s)
=============================================================================
