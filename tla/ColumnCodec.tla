------------------------------ MODULE ColumnCodec ------------------------------
(***************************************************************************)
(* Slices of structs on the wire: transposed (every field a column),       *)
(* hybrid (columns, then the residual fields row by row) or row-major, one *)
(* inside another through residual fields.  The buffer is a sequence of    *)
(* units [tag, v] after a header whose v says that columns carry lengths.  *)
(* Numbers travel in one unit, whatever codec packs them; strings, block   *)
(* or value by value, go through the table that both sides grow.           *)
(***************************************************************************)
EXTENDS ColumnPlan, ZoneQuery

CONSTANTS
    MinIntern,      \* the shortest string that is interned
    StrMin          \* rows from which a string column may take a block form

Unit(tag, v) == [tag |-> tag, v |-> v]
Put(e, units) == [e EXCEPT !.buf = @ \o units]
IndexIn(t, x) == IF \E i \in DOMAIN t : t[i] = x THEN CHOOSE i \in DOMAIN t : t[i] = x ELSE 0
Column(rows, at) == [i \in DOMAIN rows |-> rows[i][at]]

-----------------------------------------------------------------------------
(* Encoding a column *)

WriteString(e, s) ==
    LET id == IndexIn(e.strings, s) IN
    IF Len(s) < MinIntern THEN Put(e, <<Unit("inline", s)>>)
    ELSE IF id # 0 THEN Put(e, <<Unit("ref", id)>>)
    ELSE [Put(e, <<Unit("intern", s)>>) EXCEPT !.strings = Append(@, s)]

RECURSIVE WriteStrings(_, _)
WriteStrings(e, s) == IF s = <<>> THEN e ELSE WriteStrings(WriteString(e, Head(s)), Tail(s))

\* A block pays where values repeat; what it takes is the packers' matter.
BlockPays(s) == Len(s) >= StrMin /\ 2 * Cardinality(ValuesOf(s)) <= Len(s)

WriteStringColumn(e, s) ==
    IF BlockPays(s) THEN Put(e, <<Unit("strblock", s)>>) ELSE WriteStrings(e, s)

Pack(kind, s, blocked) == Unit("pack", [kind |-> kind, vals |-> s, blocked |-> blocked])

WritePack(e, kind, s) ==
    Put(e, <<Pack(kind, s, e.blocks /\ kind # "float" /\ Len(s) >= 2 * ZoneLen)>>)

\* zonable: a column of its own, not the dense part of an optional one.
WriteNumbers(e, kind, s, zonable) ==
    IF zonable /\ e.zonemap /\ Len(s) >= 2 * ZoneLen
    THEN Put(e, <<Unit("zone", WriteZoneChunk(kind, s))>>)
    ELSE WritePack(e, kind, s)

WriteValues(e, f, s, zonable) ==
    CASE f.kind \in {"int", "uint", "float"} -> WriteNumbers(e, f.kind, s, zonable)
      [] f.kind = "float32" -> WritePack(e, "uint", s)
      [] f.kind = "bool" -> Put(e, <<Pack("bool", s, FALSE)>>)
      [] f.kind = "string" -> WriteStringColumn(e, s)
      [] f.kind = "bytes" -> WriteStrings(e, s)
      [] f.kind = "time" -> WritePack(WritePack(e, "int", Column(s, 1)), "uint", Column(s, 2))

Present(s) == {i \in DOMAIN s : s[i] # <<>>}

\* An optional column is the mask of its rows, then the values that are there.
Masked(e, f, s) == IF f.null THEN Put(e, <<Unit("mask", Present(s))>>) ELSE e
Filled(f, s) == IF f.null THEN Column(SelectSeq(s, LAMBDA v : v # <<>>), 1) ELSE s
EncodeSlot(e, f, s) == WriteValues(Masked(e, f, s), f, Filled(f, s), ~f.null)
EncodeColumn(e, slot, rows) == EncodeSlot(e, slot.f, Column(rows, slot.at))

-----------------------------------------------------------------------------
(* Encoding a slice *)

RECURSIVE WriteFields(_, _, _)
WriteFields(e, names, kinds) ==
    IF names = <<>> THEN e
    ELSE WriteFields(Put(WriteString(e, Head(names)), <<Unit("kind", Head(kinds))>>), Tail(names), Tail(kinds))

\* table is "shapes" or "hybrids": their numbers are independent.
Declare(e, table, shape) ==
    [WriteFields(Put(e, <<Unit("count", Len(shape.names))>>), shape.names, shape.kinds)
        EXCEPT ![table] = Append(@, shape)]
WriteShape(e, table, n, shape) ==
    LET id == IndexIn(e[table], shape)
        head == Put(e, <<Unit(table, n), Unit("id", id)>>)
    IN IF id # 0 THEN head ELSE Declare(head, table, shape)
ShapeOf(plan) == [names |-> plan.names, kinds |-> plan.kinds]

\* index is the place of the lengths in the buffer, 0 without lengths.
Measured(e, before, index) ==
    IF index = 0 THEN e ELSE [e EXCEPT !.buf[index].v = Append(@, Len(e.buf) - before)]

RECURSIVE WriteColumns(_, _, _, _)
WriteColumns(e, cols, rows, index) ==
    IF cols = <<>> THEN e
    ELSE WriteColumns(Measured(EncodeColumn(e, Head(cols), rows), Len(e.buf), index), Tail(cols), rows, index)

StartIndex(e) == IF e.index THEN [Put(e, <<Unit("index", <<>>)>>) EXCEPT !.buf[1].v = TRUE] ELSE e
IndexedColumns(e, cols, rows) == WriteColumns(e, cols, rows, IF e.index THEN Len(e.buf) ELSE 0)
EncodeColumnar(e, plan, rows) ==
    IndexedColumns(StartIndex(WriteShape(e, "shapes", Len(rows), ShapeOf(plan))), plan.cols, rows)

RECURSIVE EncodeSlice(_, _, _), EncodeField(_, _, _), EncodeStruct(_, _, _, _), EncodeRows(_, _, _),
          EncodeResidual(_, _, _, _, _), ResidualRows(_, _, _), EncodeBy(_, _, _, _), EncodeSelected(_, _, _)

EncodeField(e, f, v) ==
    CASE f.null /\ v = <<>> -> Put(e, <<Unit("nil", 0)>>)
      [] f.null /\ v # <<>> -> EncodeField(e, [f EXCEPT !.null = FALSE], v[1])
      [] ~f.null /\ f.kind = "list" -> EncodeSlice(e, f.of, v)
      [] ~f.null /\ f.kind = "vec" -> Put(e, <<Pack("int", v, FALSE)>>)
      [] ~f.null /\ f.kind \in {"string", "bytes"} -> WriteString(e, v)
      [] OTHER -> Put(e, <<Unit("scalar", v)>>)

\* The row loop reads the plan anew at every field.
EncodeResidual(e, ref, row, r, count) ==
    IF r > count THEN e
    ELSE LET slot == Deref(e, ref).residual[r]
         IN EncodeResidual(EncodeField(e, slot.f, row[slot.at]), ref, row, r + 1, count)

ResidualRows(e, ref, rows) ==
    IF rows = <<>> THEN e
    ELSE ResidualRows(EncodeResidual(e, ref, Head(rows), 1, Len(Deref(e, ref).residual)), ref, Tail(rows))

EncodeHybrid(e, ref, rows) ==
    LET plan == Deref(e, ref) IN
    ResidualRows(WriteColumns(WriteShape(e, "hybrids", Len(rows), ShapeOf(plan)), plan.cols, rows, 0), ref, rows)

EncodeStruct(e, type, row, k) ==
    IF k > Len(type) THEN e ELSE EncodeStruct(EncodeField(e, type[k], row[k]), type, row, k + 1)

EncodeRows(e, type, rows) ==
    IF rows = <<>> THEN e
    ELSE LET names == [i \in DOMAIN type |-> type[i].name]
         IN EncodeRows(EncodeStruct(Put(e, <<Unit("struct", names)>>), type, Head(rows), 1), type, Tail(rows))

\* A derived plan holds its level until the slice is written.
Release(e, ref) == IF ref.place = "type" THEN e ELSE [e EXCEPT !.depth = @ - 1]

EncodeBy(e, ref, type, rows) ==
    IF ref.place = "none" THEN EncodeRows(Put(e, <<Unit("array", Len(rows))>>), type, rows)
    ELSE LET plan == Deref(e, ref)
         IN Release(IF Pure(plan) THEN EncodeColumnar(e, plan, rows) ELSE EncodeHybrid(e, ref, rows), ref)
EncodeSelected(sel, type, rows) == EncodeBy(sel.e, sel.ref, type, rows)
EncodeSlice(e, type, rows) == EncodeSelected(SelectFor(e, type, rows), type, rows)

-----------------------------------------------------------------------------
(* Reading units.  A read returns [d, v], with d.ok FALSE when refused.    *)

At(b, d) == IF d.ok /\ d.i \in DOMAIN b THEN b[d.i] ELSE Unit("end", 0)
Refuse(d) == [d |-> [d EXCEPT !.ok = FALSE], v |-> <<>>]
Give(d, v) == [d |-> d, v |-> v]
Past(d) == [d EXCEPT !.i = @ + 1]
\* What follows a read, unless it was refused.
Then(r, Rest(_)) == IF r.d.ok THEN Rest(r) ELSE Refuse(r.d)

ReadUnit(b, d, tag) == IF At(b, d).tag = tag THEN Give(Past(d), At(b, d).v) ELSE Refuse(d)

\* The length of a column codec is bounded by the rows, when a bound is set.
LenOK(d, n) == d.cap = 0 \/ n <= d.cap

ReadNumbers(b, d, kind) ==
    LET u == At(b, d) IN
    CASE u.tag = "pack" /\ u.v.kind = kind /\ LenOK(d, Len(u.v.vals)) -> Give(Past(d), u.v.vals)
      [] u.tag = "zone" /\ u.v.kind = kind /\ LenOK(d, u.v.n) -> Give(Past(d), Concat(u.v.zones))
      [] OTHER -> Refuse(d)

OfLength(r, n) == IF r.d.ok /\ Len(r.v) # n THEN Refuse(r.d) ELSE r
ReadNumbersN(b, d, kind, n) == OfLength(ReadNumbers(b, d, kind), n)

ReadString(b, d) ==
    LET u == At(b, d) IN
    CASE u.tag = "inline" -> Give(Past(d), u.v)
      [] u.tag = "intern" -> Give([Past(d) EXCEPT !.strings = Append(@, u.v)], u.v)
      [] u.tag = "ref" /\ u.v \in DOMAIN d.strings -> Give(Past(d), d.strings[u.v])
      [] OTHER -> Refuse(d)

\* n strings more, after s.
RECURSIVE ReadStrings(_, _, _, _)
ReadStrings(b, d, n, s) ==
    IF n = 0 THEN Give(d, s)
    ELSE Then(ReadString(b, d), LAMBDA r : ReadStrings(b, r.d, n - 1, Append(s, r.v)))

-----------------------------------------------------------------------------
(* Column values as the decoder holds them: [pool, vals, null, mask].      *)
(* pool 0 is a slice of their own, another the generation of the decoder's *)
(* string scratch they lie in.                                             *)

Held(pool, vals) == [pool |-> pool, vals |-> vals, null |-> FALSE, mask |-> {}]

\* The scratch is written over when it is large enough, replaced when not.
TakeScratch(d, s) ==
    IF d.nopool THEN Give(d, Held(0, s))
    ELSE LET fits == Len(s) <= Len(d.scratch.vals)
             gen == d.scratch.gen + (IF fits THEN 0 ELSE 1)
             rest == IF fits THEN SubSeq(d.scratch.vals, Len(s) + 1, Len(d.scratch.vals)) ELSE <<>>
         IN Give([d EXCEPT !.scratch = [gen |-> gen, vals |-> s \o rest]], Held(gen, s))

\* What is there when the values are used.
Dense(d, h) ==
    IF h.pool # 0 /\ h.pool = d.scratch.gen THEN SubSeq(d.scratch.vals, 1, Len(h.vals)) ELSE h.vals
HeldAt(d, h, i) ==
    IF ~h.null THEN Dense(d, h)[i]
    ELSE IF i \in h.mask THEN <<Dense(d, h)[Cardinality({j \in h.mask : j <= i})]>> ELSE <<>>

IsBlock(b, d) == At(b, d).tag = "strblock"

ReadStringColumn(b, d, n) ==
    Then(OfLength(IF n > 0 /\ IsBlock(b, d) THEN ReadUnit(b, d, "strblock") ELSE ReadStrings(b, d, n, <<>>), n),
         LAMBDA r : TakeScratch(r.d, r.v))

Values(r) == IF r.d.ok THEN Give(r.d, Held(0, r.v)) ELSE r

ReadTimes(b, d, n) ==
    Then(ReadNumbersN(b, d, "int", n), LAMBDA s :
    Then(ReadNumbersN(b, s.d, "uint", n), LAMBDA t : Give(t.d, [i \in 1 .. n |-> <<s.v[i], t.v[i]>>])))

\* The values of a base kind, n of them.
ReadValues(b, d, base, n) ==
    CASE base \in {"int", "uint", "float", "float32", "bool"} ->
           Values(ReadNumbersN(b, d, IF base = "float32" THEN "uint" ELSE base, n))
      [] base = "time" -> Values(ReadTimes(b, d, n))
      [] base = "string" -> IF IsBlock(b, d) THEN ReadStringColumn(b, d, n) ELSE Values(ReadStrings(b, d, n, <<>>))
      [] OTHER -> Refuse(d)

Own(r) == IF r.d.ok THEN Give(r.d, [r.v EXCEPT !.pool = 0]) ELSE r

\* Mutant: the switch stays on.
MutPooling(r) == r

\* Fields of an optional string column point into the slice that was read.
NoPool(d) == [d EXCEPT !.nopool = TRUE]
Pooling(r) == [r EXCEPT !.d.nopool = FALSE]

\* Retained, they are copied.
ReadPresent(b, d, base, k, retain) ==
    IF base # "string" THEN ReadValues(b, d, base, k)
    ELSE IF retain THEN Own(ReadStringColumn(b, d, k))
    ELSE Pooling(ReadStringColumn(b, NoPool(d), k))

ReadOptional(b, d, base, n, retain) ==
    Then(ReadUnit(b, d, "mask"), LAMBDA m :
    Then(ReadPresent(b, m.d, base, Cardinality(m.v), retain), LAMBDA r :
         Give(r.d, [r.v EXCEPT !.null = TRUE, !.mask = m.v])))

\* Into the fields of the rows, which copies.
ReadColumn(b, d, kind, n) ==
    IF kind.null THEN ReadOptional(b, d, kind.base, n, FALSE) ELSE Own(ReadValues(b, d, kind.base, n))

\* Held until a predicate has chosen the rows.
RetainColumn(b, d, kind, n) ==
    IF kind.null THEN ReadOptional(b, d, kind.base, n, TRUE) ELSE ReadValues(b, d, kind.base, n)

\* Mutant: strings passed over are not remembered.
MutSkipColumn(b, d, kind, n) ==
    LET m == ReadUnit(b, d, "mask")
        r == IF ~kind.null THEN ReadValues(b, d, kind.base, n).d
             ELSE IF m.d.ok THEN ReadValues(b, m.d, kind.base, Cardinality(m.v)).d ELSE m.d
    IN [r EXCEPT !.strings = d.strings]

\* How many values a column holds.
ReadCount(b, d, kind, n) ==
    IF ~kind.null THEN Give(d, n) ELSE Then(ReadUnit(b, d, "mask"), LAMBDA m : Give(m.d, Cardinality(m.v)))
SkipColumn(b, d, kind, n) ==
    Then(ReadCount(b, d, kind, n), LAMBDA m : ReadValues(b, m.d, kind.base, m.v)).d

\* With the index, past the column without reading it.
PassColumn(b, d, sh, c) ==
    CASE sh.lens = <<>> -> Give(SkipColumn(b, d, sh.kinds[c], sh.n), <<>>)
      [] sh.lens # <<>> /\ d.i + sh.lens[c] <= Len(b) + 1 -> Give([d EXCEPT !.i = @ + sh.lens[c]], <<>>)
      [] OTHER -> Refuse(d)
=============================================================================
