------------------------------- MODULE ZoneQuery -------------------------------
(***************************************************************************)
(* Zone-chunked columns and the predicates pushed down to them.  A column  *)
(* is cut into zones of ZoneLen rows, each with its least and greatest     *)
(* value, or, for a sorted integer column, with one line that predicts the *)
(* position of a value.  A predicate with bounds decodes only the zones    *)
(* that can hold a match.  Rows are numbered from 1, positions from 0; a   *)
(* mask is the set of its rows.                                            *)
(***************************************************************************)
EXTENDS Integers, Sequences, FiniteSets

CONSTANTS
    ZoneLen,        \* blockSizeSmall
    ModelBytes,     \* the two floats of a linear zone map
    NaN,            \* stands for a NaN among the integers that model floats
    Lowest,         \* stand for the least and greatest value of a kind,
    Highest         \*   and for the infinities

LOCAL Smallest(S) == CHOOSE x \in S : \A y \in S : x <= y
LOCAL Largest(S) == CHOOSE x \in S : \A y \in S : x >= y
LOCAL Sum(f, n) == LET upTo[i \in 0 .. n] == IF i = 0 THEN 0 ELSE upTo[i - 1] + f[i] IN upTo[n]
LOCAL UpTo(a, b) == IF a < b THEN a ELSE b

-----------------------------------------------------------------------------
(* Zone chunks *)

Zones(s) == (Len(s) + ZoneLen - 1) \div ZoneLen
Zone(s, z) == SubSeq(s, (z - 1) * ZoneLen + 1, UpTo(z * ZoneLen, Len(s)))
ZoneOf(row) == ((row - 1) \div ZoneLen) + 1

NoLine == [ok |-> FALSE, slope |-> 0, at |-> 0, scale |-> 1, eps |-> 0]

\* pos = (slope * value + at) / scale, within eps positions: least squares.
LOCAL Distance(a, b) == IF a < b THEN b - a ELSE a - b
WithBound(line, worst) ==
    LET eps == ((worst + line.scale - 1) \div line.scale) + 1
    IN IF eps > ZoneLen THEN NoLine ELSE [line EXCEPT !.eps = eps]
Bounding(line, s) ==
    WithBound(line, Largest({Distance((i - 1) * line.scale, line.slope * s[i] + line.at) : i \in DOMAIN s}))
LineOf(s, n, sx, sy, denom, p) ==
    IF denom <= 0 \/ p <= 0 THEN NoLine
    ELSE Bounding([ok |-> TRUE, slope |-> p * n, at |-> sy * denom - p * sx, scale |-> denom * n, eps |-> 0], s)
LeastSquares(s, n, sx, sy) ==
    LineOf(s, n, sx, sy, n * Sum([i \in 1 .. n |-> s[i] * s[i]], n) - sx * sx,
           n * Sum([i \in 1 .. n |-> s[i] * (i - 1)], n) - sx * sy)
FitLinear(s) ==
    IF Len(s) < 2 \/ (\E i \in 2 .. Len(s) : s[i] < s[i - 1]) THEN NoLine
    ELSE LeastSquares(s, Len(s), Sum(s, Len(s)), Sum([i \in DOMAIN s |-> i - 1], Len(s)))

Finite(s) == {s[i] : i \in {j \in DOMAIN s : s[j] # NaN}}
BoundsOf(kind, s) ==
    IF kind # "float" THEN [lo |-> Smallest({s[i] : i \in DOMAIN s}), hi |-> Largest({s[i] : i \in DOMAIN s})]
    ELSE IF Finite(s) = {} THEN [lo |-> Highest, hi |-> Lowest]
    ELSE [lo |-> Smallest(Finite(s)), hi |-> Largest(Finite(s))]

LOCAL VarLen(kind, v) == IF (IF kind = "int" THEN (IF v < 0 THEN -v ELSE v) < 64 ELSE v < 128) THEN 1 ELSE 2

\* The line stands for the bounds when it is the shorter of the two.
Shorter(kind, line, bounds) ==
    IF line.ok /\ ModelBytes + 1 < Sum([z \in DOMAIN bounds |-> VarLen(kind, bounds[z].lo) + VarLen(kind, bounds[z].hi)],
                                       Len(bounds))
    THEN line ELSE NoLine
ZoneChunk(kind, s, line, bounds) ==
    [kind |-> kind, n |-> Len(s), line |-> Shorter(kind, line, bounds), bounds |-> bounds,
     zones |-> [z \in 1 .. Zones(s) |-> Zone(s, z)]]
WriteZoneChunk(kind, s) ==
    ZoneChunk(kind, s, IF kind = "float" THEN NoLine ELSE FitLinear(s),
              [z \in 1 .. Zones(s) |-> BoundsOf(kind, Zone(s, z))])

\* Mutant: the line is taken at its word.
MutZoneRange(line, lo, hi, n) ==
    LET last == (n - 1) * line.scale
        Pos(p) == (IF p < 0 THEN 0 ELSE IF p > last THEN last ELSE p) \div line.scale
        At(v) == line.slope * v + line.at
    IN IF At(hi) < 0 \/ At(lo) > last THEN {}
       ELSE (Pos(At(lo)) \div ZoneLen) + 1 .. (Pos(At(hi)) \div ZoneLen) + 1

\* The zones a range of values can fall into, through the line.
ZoneRange(line, lo, hi, n) ==
    LET pLo == line.slope * lo + line.at - line.eps * line.scale
        pHi == line.slope * hi + line.at + line.eps * line.scale
        last == (n - 1) * line.scale
        Pos(p) == (IF p < 0 THEN 0 ELSE IF p > last THEN last ELSE p) \div line.scale
    IN IF pHi < 0 \/ pLo > last THEN {}
       ELSE (Pos(pLo) \div ZoneLen) + 1 .. (Pos(pHi) \div ZoneLen) + 1

NeededZones(chunk, term) ==
    IF chunk.line.ok THEN ZoneRange(chunk.line, term.lo, term.hi, chunk.n) \cap DOMAIN chunk.zones
    ELSE {z \in DOMAIN chunk.zones : chunk.bounds[z].hi >= term.lo /\ chunk.bounds[z].lo <= term.hi}

RowsOfZone(chunk, z) == {(z - 1) * ZoneLen + i : i \in DOMAIN chunk.zones[z]}
ZoneValue(chunk, row) == chunk.zones[ZoneOf(row)][row - (ZoneOf(row) - 1) * ZoneLen]

-----------------------------------------------------------------------------
(* Predicates.  A term is [id, field, want, form, op, val, lo, hi, bounded,*)
(* accepts]; id tells the calls that built it apart.                       *)

Term(id, field, want, form) ==
    [id |-> id, field |-> field, want |-> want, form |-> form, op |-> {}, val |-> 0,
     lo |-> Lowest, hi |-> Highest, bounded |-> FALSE, accepts |-> {}]

IsFloat(want) == want \in {"float", "float32"}

\* op is a subset of {"lt", "eq", "gt"}.
WhereCmp(id, field, want, op, val) ==
    IF IsFloat(want) /\ val = NaN THEN Term(id, field, want, "never")
    ELSE [Term(id, field, want, "cmp") EXCEPT
            !.op = op, !.val = val, !.bounded = TRUE,
            !.lo = IF "lt" \in op THEN Lowest ELSE val,
            !.hi = IF "gt" \in op THEN Highest ELSE val]

WhereRange(id, field, want, lo, hi) ==
    [Term(id, field, want, "range") EXCEPT !.lo = lo, !.hi = hi, !.bounded = TRUE]

Where(id, field, want, accepts) == [Term(id, field, want, "func") EXCEPT !.accepts = accepts]

Accepts(t, v) ==
    CASE t.form = "never" -> FALSE
      [] t.form = "func" -> v \in t.accepts
      [] t.form = "range" -> v # NaN /\ t.lo # NaN /\ t.hi # NaN /\ v >= t.lo /\ v <= t.hi
      [] t.form = "cmp" -> v # NaN /\ (IF v < t.val THEN "lt" ELSE IF v > t.val THEN "gt" ELSE "eq") \in t.op

-----------------------------------------------------------------------------
(* Trees of predicates *)

NoTerm == Term(0, "", "none", "never")
Leaf(t) == [op |-> "leaf", term |-> t, kids |-> <<>>, err |-> FALSE]
SelectOption == [op |-> "select", term |-> NoTerm, kids |-> <<>>, err |-> FALSE]
NoCond == [op |-> "none", term |-> NoTerm, kids |-> <<>>, err |-> FALSE]

LOCAL IsNode(o) == o.op # "select"
Combine(op, opts) ==
    [op |-> op, term |-> NoTerm, kids |-> SelectSeq(opts, IsNode),
     err |-> \E i \in DOMAIN opts : ~IsNode(opts[i])]

RECURSIVE Concat(_)
Concat(ss) == IF ss = <<>> THEN <<>> ELSE Head(ss) \o Concat(Tail(ss))

RECURSIVE HasError(_)
HasError(n) == n.err \/ \E i \in DOMAIN n.kids : HasError(n.kids[i])

\* A leaf that repeats a sibling goes.
Distinct(kids) ==
    LET Keep(i) == kids[i].op # "leaf" \/
                   \A j \in 1 .. i - 1 : kids[j].op # "leaf" \/ kids[j].term.id # kids[i].term.id
        kept == SelectSeq([i \in DOMAIN kids |-> i], Keep)
    IN [i \in DOMAIN kept |-> kids[kept[i]]]

RECURSIVE Simplify(_)
Simplify(n) ==
    IF n.op \in {"leaf", "none"} \/ (n.op = "not" /\ n.kids = <<>>) THEN n
    ELSE IF n.op = "not"
    THEN LET c == Simplify(n.kids[1])
         IN IF c.op = "not" /\ c.kids # <<>> THEN c.kids[1] ELSE [n EXCEPT !.kids = <<c>>]
    ELSE LET kids == [i \in DOMAIN n.kids |-> Simplify(n.kids[i])]
             Same(i) == kids[i].op = n.op
             err == n.err \/ \E i \in DOMAIN kids : Same(i) /\ kids[i].err
             out == Distinct(Concat([i \in DOMAIN kids |-> IF Same(i) THEN kids[i].kids ELSE <<kids[i]>>]))
         IN IF Len(out) = 1 /\ ~err THEN out[1] ELSE [n EXCEPT !.kids = out, !.err = err]

\* Several conditions of one call are an And.
PlanQuery(opts) ==
    LET nodes == SelectSeq(opts, IsNode)
    IN CASE nodes = <<>> -> NoCond
         [] Len(nodes) = 1 -> Simplify(nodes[1])
         [] OTHER -> Simplify(Combine("and", nodes))

RECURSIVE Leaves(_)
Leaves(n) ==
    CASE n.op = "none" -> <<>>
      [] n.op = "leaf" -> <<n.term>>
      [] OTHER -> Concat([i \in DOMAIN n.kids |-> Leaves(n.kids[i])])

\* The single leaf on a column, when it carries bounds.
BoundedLeaves(cond, field) ==
    LET On(t) == t.field = field
        on == SelectSeq(Leaves(cond), On)
    IN IF Len(on) = 1 /\ on[1].bounded THEN on ELSE <<>>

-----------------------------------------------------------------------------
(* Evaluation.  cv maps a field to its column, [done, mask] when the zones *)
(* gave the mask already, or [vals, null].  The result is the rows where   *)
(* the node is true and where it is false; nil says that the second is the *)
(* complement of the first.                                                *)

Masks(t, f, nil) == [t |-> t, f |-> f, nil |-> nil]
FalseOf(m, rows) == IF m.nil THEN rows \ m.t ELSE m.f

EvalLeaf(term, col, rows) ==
    IF col.done THEN Masks(col.mask, {}, TRUE)
    ELSE IF ~col.null THEN Masks({r \in rows : Accepts(term, col.vals[r])}, {}, TRUE)
    ELSE LET present == {r \in rows : col.vals[r] # <<>>}
             t == {r \in present : Accepts(term, col.vals[r][1])}
         IN Masks(t, present \ t, FALSE)

RECURSIVE Unknown(_, _)
Unknown(n, cv) ==
    IF n.op = "leaf" THEN ~cv[n.term.field].done /\ cv[n.term.field].null
    ELSE \E i \in DOMAIN n.kids : Unknown(n.kids[i], cv)

RECURSIVE EvalCond(_, _, _)
EvalCond(n, cv, rows) ==
    IF n.op = "leaf" THEN EvalLeaf(n.term, cv[n.term.field], rows)
    ELSE LET m == [i \in DOMAIN n.kids |-> EvalCond(n.kids[i], cv, rows)]
             unk == Unknown(n, cv)
             false == [i \in DOMAIN m |-> FalseOf(m[i], rows)]
         IN CASE n.op = "not" -> Masks(false[1], m[1].t, ~unk)
              [] n.op = "and" -> Masks({r \in rows : \A i \in DOMAIN m : r \in m[i].t},
                                       {r \in rows : \E i \in DOMAIN m : r \in false[i]}, ~unk)
              [] n.op = "or" -> Masks({r \in rows : \E i \in DOMAIN m : r \in m[i].t},
                                      {r \in rows : \A i \in DOMAIN m : r \in false[i]}, ~unk)

Matched(cond, cv, rows) == IF cond.op = "none" THEN rows ELSE EvalCond(cond, cv, rows).t
=============================================================================
