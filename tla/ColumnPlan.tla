------------------------------ MODULE ColumnPlan ------------------------------
(***************************************************************************)
(* Which container a slice of structs gets.  A type is a sequence of       *)
(* fields [name, kind, null, of]; a row is a sequence of its values, <<>>  *)
(* or <<v>> for an optional field.  Fields that transpose become columns,  *)
(* the others stay residual.  The encoder prices both forms on a sample,   *)
(* and where a batch would be transposed anyway, demotes the columns that  *)
(* lose: the plan for that batch is a scratch the encoder reuses.          *)
(***************************************************************************)
EXTENDS Integers, Sequences, FiniteSets

CONSTANTS
    MinElems,       \* columnarMinElems
    ProbeSample,    \* columnarProbeSample
    HeaderCost,     \* hybridColumnHeaderCost
    GainPct,        \* columnarMinGainPct
    AwareGainPct    \* columnarMinGainPctInternAware

Transposed == {"int", "uint", "float", "float32", "bool", "string", "bytes", "time"}

\* A []byte column is a string column on the wire; an optional []byte is none.
HasColumn(f) == f.kind \in Transposed /\ ~(f.null /\ f.kind = "bytes")
ColKind(f) == [base |-> IF f.kind = "bytes" THEN "string" ELSE f.kind, null |-> f.null]
ResidualKind == [base |-> "residual", null |-> FALSE]

\* A field with its place in the row.
Slots(type) == [i \in DOMAIN type |-> [f |-> type[i], at |-> i]]
IsString(s) == s.f.kind = "string" /\ ~s.f.null
ValuesOf(s) == {s[i] : i \in DOMAIN s}

BuildPlan(type) ==
    [cols |-> SelectSeq(Slots(type), LAMBDA s : HasColumn(s.f)),
     residual |-> SelectSeq(Slots(type), LAMBDA s : ~HasColumn(s.f)),
     names |-> [i \in DOMAIN type |-> type[i].name],
     kinds |-> [i \in DOMAIN type |-> IF HasColumn(type[i]) THEN ColKind(type[i]) ELSE ResidualKind],
     strings |-> \E s \in ValuesOf(Slots(type)) : IsString(s)]

Pure(plan) == plan.residual = <<>>
NoPlan == [cols |-> <<>>, residual |-> <<>>, names |-> <<>>, kinds |-> <<>>, strings |-> FALSE]

-----------------------------------------------------------------------------
(* The probe *)

BitLen(x) == CHOOSE b \in 0 .. 30 : x < 2 ^ b /\ (b = 0 \/ x >= 2 ^ (b - 1))
UvarintLen(x) == IF x = 0 THEN 1 ELSE (BitLen(x) + 6) \div 7
Zigzag(v) == IF v >= 0 THEN 2 * v ELSE (-2 * v) - 1
IntRowCost(v) == IF v >= 0 THEN UvarintLen(v) ELSE IF v >= -8 THEN 1 ELSE IF v >= -128 THEN 2 ELSE 3
Bytes(bits) == (bits + 7) \div 8
Lesser(a, b) == IF a < b THEN a ELSE b
Least(S) == CHOOSE x \in S : \A y \in S : x <= y
Most(S) == CHOOSE x \in S : \A y \in S : x >= y
Total(costs) ==
    LET upTo[i \in 0 .. Len(costs)] == IF i = 0 THEN 0 ELSE upTo[i - 1] + costs[i] IN upTo[Len(costs)]

Spread(S) == BitLen(Most(S) - Least(S))
IndexBits(d) == BitLen(d - 1)

IntCost(s) ==
    LET d == Cardinality(ValuesOf(s))
        packed == 3 + Bytes(Spread(ValuesOf(s)) * Len(s))
    IN IF d > 16 THEN packed ELSE Lesser(packed, 3 + 8 * d + Bytes(IndexBits(d) * Len(s)))

Fresh(s, i) == \A j \in 1 .. i - 1 : s[j] # s[i]

StringCost(s) ==
    Lesser(Total([i \in DOMAIN s |-> IF i > 1 /\ s[i] = s[i - 1] THEN 1 ELSE 2 + Len(s[i])]),
           Total([i \in DOMAIN s |-> IF Fresh(s, i) THEN 2 + Len(s[i]) ELSE 0])
           + Bytes(IndexBits(Cardinality(ValuesOf(s))) * Len(s)))

\* aware: a repeated string costs a state reference, as row-major interns it.
StringRowCost(s, aware) ==
    Total([i \in DOMAIN s |-> IF aware /\ ~Fresh(s, i) THEN 1 ELSE 2 + Len(s[i])])

PresentCost(base, v) ==
    CASE base = "int" -> UvarintLen(Zigzag(v)) [] base = "uint" -> UvarintLen(v)
      [] base = "float" -> 8 [] base = "float32" -> 4 [] base = "bool" -> 1 [] base = "time" -> 12
      [] OTHER -> 0

NullPrice(n, present) == [col |-> Bytes(n) + present, row |-> n + present]

\* Both prices of one column over the sample s: [col, row].
ProbeColumn(kind, s, aware) ==
    LET n == Len(s) IN
    IF kind.null
    THEN NullPrice(n, Total([i \in 1 .. n |-> IF s[i] = <<>> THEN 0 ELSE PresentCost(kind.base, s[i][1])]))
    ELSE CASE kind.base = "int" -> [col |-> IntCost(s), row |-> Total([i \in 1 .. n |-> IntRowCost(s[i])])]
           [] kind.base = "uint" -> [col |-> IntCost(s), row |-> Total([i \in 1 .. n |-> UvarintLen(s[i])])]
           [] kind.base = "float" -> [col |-> 8 * n, row |-> 8 * n]
           [] kind.base = "float32" -> [col |-> 4 * n, row |-> 5 * n]
           [] kind.base = "bool" -> [col |-> Bytes(n), row |-> n]
           [] kind.base = "time" ->
                [col |-> 6 + Bytes(Spread({s[i][1] : i \in DOMAIN s}) * n) + Bytes(30 * n), row |-> 12 * n]
           [] kind.base = "string" -> [col |-> StringCost(s), row |-> StringRowCost(s, aware)]

Probe(plan, rows, aware) ==
    [c \in DOMAIN plan.cols |->
        ProbeColumn(ColKind(plan.cols[c].f),
                    [i \in 1 .. Lesser(Len(rows), ProbeSample) |-> rows[i][plan.cols[c].at]], aware)]

-----------------------------------------------------------------------------
(* The decision.  A plan is named by where it lives: with the type, in the *)
(* encoder's scratch, or on its own.                                       *)

OwnedBy(place, plan) == [place |-> place, plan |-> plan]
RowMajor == OwnedBy("none", NoPlan)

\* What the encoder sees through a reference it took earlier.
Deref(e, ref) == IF ref.place = "scratch" THEN e.scratch ELSE ref.plan

SlotAt(plan, i) == CHOOSE s \in ValuesOf(plan.cols) \cup ValuesOf(plan.residual) : s.at = i

\* The losers join the residual block, in the place they have in the shape.
Demoting(plan, all, kept) ==
    [cols |-> SelectSeq(all, LAMBDA s : s.at \in kept),
     residual |-> SelectSeq(all, LAMBDA s : s.at \notin kept),
     names |-> plan.names,
     kinds |-> [i \in DOMAIN plan.kinds |-> IF i \in kept THEN plan.kinds[i] ELSE ResidualKind],
     strings |-> \E i \in kept : IsString(all[i])]
PartialPlan(plan, keep) ==
    Demoting(plan, [i \in DOMAIN plan.names |-> SlotAt(plan, i)],
             {plan.cols[c].at : c \in {x \in DOMAIN plan.cols : keep[x]}})

\* Mutants: every derive takes the scratch, a nested one included; a declared
\* shape keeps the scratch that it was taken from instead of a copy.
MutDeriveInScratch(e, plan, keep) ==
    LET out == PartialPlan(plan, keep)
    IN [e |-> [e EXCEPT !.scratch = out, !.depth = @ + 1], ref |-> OwnedBy("scratch", NoPlan)]
MutShapeInScratch(e, plan, keep) ==
    LET out == PartialPlan(plan, keep)
        Over(s) == [i \in DOMAIN s |-> IF i \in DOMAIN out.kinds THEN out.kinds[i] ELSE s[i]]
        Rewritten(h) == IF h.kinds = e.scratch.kinds THEN [h EXCEPT !.kinds = Over(@)] ELSE h
    IN IF e.depth = 0
       THEN [e |-> [e EXCEPT !.scratch = out, !.depth = @ + 1,
                             !.hybrids = [i \in DOMAIN @ |-> Rewritten(@[i])]],
             ref |-> OwnedBy("scratch", NoPlan)]
       ELSE [e |-> [e EXCEPT !.depth = @ + 1], ref |-> OwnedBy("own", out)]

\* The outermost derive takes the scratch, a nested one a plan of its own.
InPlace(e, out) ==
    IF e.depth = 0
    THEN [e |-> [e EXCEPT !.scratch = out, !.depth = @ + 1], ref |-> OwnedBy("scratch", NoPlan)]
    ELSE [e |-> [e EXCEPT !.depth = @ + 1], ref |-> OwnedBy("own", out)]
Derive(e, plan, keep) == InPlace(e, PartialPlan(plan, keep))

Overhead(plan, won) ==
    won * HeaderCost + Total([i \in DOMAIN plan.names |-> 2 + Len(plan.names[i])])

\* col and row are the prices of all columns, keep the columns that win.
Decide(e, plan, col, row, keep, gain) ==
    LET won == Cardinality({c \in DOMAIN keep : keep[c]})
        Stay == [e |-> e, ref |-> RowMajor]
        Whole == [e |-> e, ref |-> OwnedBy("type", plan)]
    IN IF row = 0 \/ won = 0 \/ col * 100 > row * (100 - gain) THEN Stay
       ELSE IF won = Len(plan.cols) \/ Pure(plan) THEN Whole
       ELSE IF (row - col) * 100 <= Overhead(plan, won) * (100 + gain) THEN Stay
       ELSE Derive(e, plan, keep)

Weigh(e, plan, price, gain) ==
    Decide(e, plan, Total([c \in DOMAIN price |-> price[c].col]), Total([c \in DOMAIN price |-> price[c].row]),
           [c \in DOMAIN price |-> price[c].col < price[c].row], gain)

Select(e, plan, rows, aware) ==
    Weigh(e, plan, Probe(plan, rows, aware), IF aware THEN AwareGainPct ELSE GainPct)

\* The gate of the slice encoder.
SelectPlan(e, plan, rows) ==
    LET aware == ~Pure(plan) /\ ~e.fsst /\ plan.strings IN
    IF plan.cols # <<>> /\ Len(rows) >= MinElems /\ (Pure(plan) \/ e.fsst \/ aware)
    THEN Select(e, plan, rows, aware)
    ELSE [e |-> e, ref |-> RowMajor]
SelectFor(e, type, rows) == SelectPlan(e, BuildPlan(type), rows)
=============================================================================
