------------------------------ MODULE ColumnDecode ------------------------------
(***************************************************************************)
(* Reading slices of structs back: into a type whose fields are matched by *)
(* name, into maps of names to values, or through a query that keeps some  *)
(* rows and columns.  Every read refuses (d.ok FALSE) where the code       *)
(* returns an error.                                                       *)
(***************************************************************************)
EXTENDS ColumnCodec

CONSTANT Nil    \* what a map holds for an absent optional value

RECURSIVE ReadFields(_, _, _, _, _)
ReadFields(b, d, count, names, kinds) ==
    IF count = 0 THEN Give(d, [names |-> names, kinds |-> kinds])
    ELSE Then(ReadString(b, d), LAMBDA s :
         Then(ReadUnit(b, s.d, "kind"), LAMBDA k :
              ReadFields(b, k.d, count - 1, Append(names, s.v), Append(kinds, k.v))))

Shaped(n, s) == [n |-> n, names |-> s.names, kinds |-> s.kinds, lens |-> <<>>]
DeclareShape(d, table, n, s) == Give([d EXCEPT ![table] = Append(@, s)], Shaped(n, s))

\* The header of a container: [n, names, kinds, lens].
ReadShape(b, d, table) ==
    Then(ReadUnit(b, d, table), LAMBDA n :
    Then(ReadUnit(b, n.d, "id"), LAMBDA id :
         IF id.v = 0
         THEN Then(ReadUnit(b, id.d, "count"), LAMBDA count :
              Then(ReadFields(b, count.d, count.v, <<>>, <<>>), LAMBDA r :
                   DeclareShape(r.d, table, n.v, r.v)))
         ELSE IF id.v \in DOMAIN d[table] THEN Give(id.d, Shaped(n.v, d[table][id.v])) ELSE Refuse(d)))

\* With the lengths of the columns, when the message says they are there.
ReadIndex(b, sh) ==
    IF b[1].v THEN Then(ReadUnit(b, sh.d, "index"), LAMBDA x : Give(x.d, [sh.v EXCEPT !.lens = x.v])) ELSE sh
ReadColShape(b, d) == Then(ReadShape(b, d, "shapes"), LAMBDA sh : ReadIndex(b, sh))

Bound(d, n) == [d EXCEPT !.cap = n]
Unbound(r) == [r EXCEPT !.d.cap = 0]

-----------------------------------------------------------------------------
(* Into a type *)

SlotNamed(slots, name) ==
    IF \E i \in DOMAIN slots : slots[i].f.name = name
    THEN slots[CHOOSE i \in DOMAIN slots : slots[i].f.name = name].at ELSE 0

Zero(f) ==
    CASE f.null \/ f.kind \in {"vec", "list"} -> <<>>
      [] ~f.null /\ f.kind \in {"string", "bytes"} -> ""
      [] ~f.null /\ f.kind = "bool" -> FALSE
      [] ~f.null /\ f.kind = "time" -> <<0, 0>>
      [] OTHER -> 0

\* held maps the place of a field to its column.
With(f, x, v) == [y \in DOMAIN f \cup {x} |-> IF y = x THEN v ELSE f[y]]

\* A column into the field at its place, past it when there is none.
ColumnAt(b, d, sh, c, target, at, held) ==
    CASE at = 0 -> Then(PassColumn(b, d, sh, c), LAMBDA r : Give(r.d, held))
      [] at # 0 /\ sh.kinds[c] = ColKind(target[at]) ->
           Then(ReadColumn(b, d, sh.kinds[c], sh.n), LAMBDA r : Give(r.d, With(held, at, r.v)))
      [] OTHER -> Refuse(d)

RECURSIVE ColumnsInto(_, _, _, _, _, _)
ColumnsInto(b, d, sh, target, c, held) ==
    IF c > Len(sh.kinds) THEN Give(d, held)
    ELSE IF sh.kinds[c] = ResidualKind THEN ColumnsInto(b, d, sh, target, c + 1, held)
    ELSE Then(ColumnAt(b, d, sh, c, target, SlotNamed(BuildPlan(target).cols, sh.names[c]), held),
              LAMBDA r : ColumnsInto(b, r.d, sh, target, c + 1, r.v))

RowsFrom(d, held, target, n) ==
    [i \in 1 .. n |-> [k \in DOMAIN target |-> IF k \in DOMAIN held THEN HeldAt(d, held[k], i) ELSE Zero(target[k])]]

\* The columns of a container as rows of the target.
TransposedInto(b, d, sh, target) ==
    Then(ColumnsInto(b, Bound(d, sh.n), sh, target, 1, <<>>), LAMBDA r : Give(r.d, RowsFrom(r.d, r.v, target, sh.n)))

ReadColumnar(b, d, target) ==
    Then(ReadColShape(b, d), LAMBDA sh : Unbound(TransposedInto(b, sh.d, sh.v, target)))

RECURSIVE ReadAny(_, _), ReadAnyRows(_, _, _, _), AnyFields(_, _, _, _), AnyResidual(_, _, _, _, _), HybridAny(_, _)

RECURSIVE ReadSliceInto(_, _, _), ReadField(_, _, _), FieldInto(_, _, _, _), ReadStruct(_, _, _, _, _),
          ReadRows(_, _, _, _, _), ResidualInto(_, _, _, _, _, _), ResidualBlock(_, _, _, _, _), ReadHybrid(_, _, _)

ReadField(b, d, f) ==
    CASE f.null -> IF At(b, d).tag = "nil" THEN Give(Past(d), <<>>)
                   ELSE Then(ReadField(b, d, [f EXCEPT !.null = FALSE]), LAMBDA r : Give(r.d, <<r.v>>))
      [] ~f.null /\ f.kind = "list" -> ReadSliceInto(b, d, f.of)
      [] ~f.null /\ f.kind = "vec" -> ReadNumbers(b, d, "int")
      [] ~f.null /\ f.kind \in {"string", "bytes"} -> ReadString(b, d)
      [] OTHER -> ReadUnit(b, d, "scalar")

\* Fields the target lacks are skipped, which reads them all the same.
FieldInto(b, d, target, at) == IF at = 0 THEN ReadAny(b, d) ELSE ReadField(b, d, target[at])
Placed(row, at, v) == IF at = 0 THEN row ELSE [row EXCEPT ![at] = v]

\* names are the fields left of one row, in the order of the wire.
ReadStruct(b, d, target, names, row) ==
    IF names = <<>> THEN Give(d, row)
    ELSE LET at == SlotNamed(Slots(target), Head(names)) IN
         Then(FieldInto(b, d, target, at),
              LAMBDA r : ReadStruct(b, r.d, target, Tail(names), Placed(row, at, r.v)))

ZeroRow(target) == [k \in DOMAIN target |-> Zero(target[k])]

\* n rows more, after rows.
ReadRows(b, d, target, n, rows) ==
    IF n = 0 THEN Give(d, rows)
    ELSE Then(ReadUnit(b, d, "struct"), LAMBDA names :
         Then(ReadStruct(b, names.d, target, names.v, ZeroRow(target)), LAMBDA r :
              ReadRows(b, r.d, target, n - 1, Append(rows, r.v))))

\* A demoted column reads into the field that the target calls a column.
ResidualInto(b, d, target, names, rows, i) ==
    IF i > Len(rows) THEN Give(d, rows)
    ELSE Then(ReadStruct(b, d, target, names, rows[i]), LAMBDA r :
              ResidualInto(b, r.d, target, names, [rows EXCEPT ![i] = r.v], i + 1))

ResidualNames(sh) ==
    LET at == SelectSeq([c \in DOMAIN sh.kinds |-> c], LAMBDA c : sh.kinds[c] = ResidualKind)
    IN [i \in DOMAIN at |-> sh.names[at[i]]]

\* Residual values are not columns: the bound on lengths is lifted first.
ResidualBlock(b, d, target, sh, rows) == ResidualInto(b, Bound(d, 0), target, ResidualNames(sh), rows, 1)

ReadHybrid(b, d, target) ==
    Then(ReadShape(b, d, "hybrids"), LAMBDA sh :
         Unbound(Then(TransposedInto(b, sh.d, sh.v, target), LAMBDA r :
                      ResidualBlock(b, r.d, target, sh.v, r.v))))

ReadSliceInto(b, d, target) ==
    CASE At(b, d).tag = "shapes" -> ReadColumnar(b, d, target)
      [] At(b, d).tag = "hybrids" -> ReadHybrid(b, d, target)
      [] OTHER -> Then(ReadUnit(b, d, "array"), LAMBDA n : ReadRows(b, n.d, target, n.v, <<>>))

-----------------------------------------------------------------------------
(* Into maps.  d.select keeps some columns of a transposed container.      *)

Wanted(d, name) == d.select = {} \/ name \in d.select

AnyAt(d, h, i) ==
    IF ~h.null THEN HeldAt(d, h, i) ELSE IF i \in h.mask THEN HeldAt(d, h, i)[1] ELSE Nil

\* rows are the maps so far.
WithColumn(rows, d, name, h) == [i \in DOMAIN rows |-> With(rows[i], name, AnyAt(d, h, i))]

\* A selection drops columns of a container without residual fields.
Dropped(d, sh, c) == ResidualNames(sh) = <<>> /\ ~Wanted(d, sh.names[c])

AnyColumn(b, d, sh, c, rows) ==
    IF Dropped(d, sh, c) THEN Then(PassColumn(b, d, sh, c), LAMBDA r : Give(r.d, rows))
    ELSE Then(Own(RetainColumn(b, d, sh.kinds[c], sh.n)), LAMBDA r :
              Give(r.d, WithColumn(rows, r.d, sh.names[c], r.v)))

RECURSIVE AnyColumns(_, _, _, _, _)
AnyColumns(b, d, sh, c, rows) ==
    IF c > Len(sh.kinds) THEN Give(d, rows)
    ELSE IF sh.kinds[c] = ResidualKind THEN AnyColumns(b, d, sh, c + 1, rows)
    ELSE Then(AnyColumn(b, d, sh, c, rows), LAMBDA r : AnyColumns(b, r.d, sh, c + 1, r.v))

TransposedAny(b, d, sh) == AnyColumns(b, Bound(d, sh.n), sh, 1, [i \in 1 .. sh.n |-> <<>>])

AnyFields(b, d, names, row) ==
    IF names = <<>> THEN Give(d, row)
    ELSE Then(ReadAny(b, d), LAMBDA r : AnyFields(b, r.d, Tail(names), With(row, Head(names), r.v)))

AnyResidual(b, d, names, rows, i) ==
    IF i > Len(rows) THEN Give(d, rows)
    ELSE Then(AnyFields(b, d, names, rows[i]), LAMBDA r :
              AnyResidual(b, r.d, names, [rows EXCEPT ![i] = r.v], i + 1))

ReadAnyRows(b, d, n, rows) ==
    IF n = 0 THEN Give(d, rows)
    ELSE Then(ReadUnit(b, d, "struct"), LAMBDA names :
         Then(AnyFields(b, names.d, names.v, <<>>), LAMBDA r :
              ReadAnyRows(b, r.d, n - 1, Append(rows, r.v))))

ColumnarAny(b, d) == Then(ReadColShape(b, d), LAMBDA sh : Unbound(TransposedAny(b, sh.d, sh.v)))

HybridAny(b, d) ==
    Then(ReadShape(b, d, "hybrids"), LAMBDA sh :
         Unbound(Then(TransposedAny(b, sh.d, sh.v), LAMBDA r :
                      AnyResidual(b, Bound(r.d, 0), ResidualNames(sh.v), r.v, 1))))

\* A value of any kind, as decodeAny finds it from its tag; Skip drops it.
ReadAny(b, d) ==
    LET tag == At(b, d).tag
    IN CASE tag = "shapes" -> ColumnarAny(b, d)
         [] tag = "hybrids" -> HybridAny(b, d)
         [] tag = "array" -> Then(ReadUnit(b, d, "array"), LAMBDA n : ReadAnyRows(b, n.d, n.v, <<>>))
         [] tag = "pack" -> ReadNumbers(b, d, "int")
         [] tag \in {"inline", "intern", "ref"} -> ReadString(b, d)
         [] tag = "nil" -> Give(Past(d), Nil)
         [] OTHER -> ReadUnit(b, d, "scalar")

-----------------------------------------------------------------------------
(* Through a query: [cond, select], select {} for all columns *)

\* What the forward pass leaves of a column it has not decoded.
Mask(m) == [done |-> TRUE, mask |-> m, null |-> FALSE, vals |-> <<>>]
Later(form, start) == [pool |-> 0, vals |-> <<>>, null |-> FALSE, mask |-> {}, form |-> form, start |-> start]
Now(h) == [pool |-> h.pool, vals |-> h.vals, null |-> h.null, mask |-> h.mask, form |-> "now", start |-> 0]

ZoneMask(chunk, term) ==
    {row \in UNION {RowsOfZone(chunk, z) : z \in NeededZones(chunk, term)} : Accepts(term, ZoneValue(chunk, row))}

RefusedLeaf(sh, t) ==
    LET at == IndexIn(sh.names, t.field) IN at = 0 \/ (at # 0 /\ sh.kinds[at].base # t.want)

Zonable(kind) == ~kind.null /\ kind.base \in {"int", "uint", "float"}
Blockable(kind) == ~kind.null /\ kind.base \in {"int", "uint"}

\* What a query makes of column c: projected, named by a leaf, bounded by one.
ColumnUse(sh, c, cond, projected) ==
    [proj |-> sh.names[c] \in projected,
     ref |-> \E t \in ValuesOf(Leaves(cond)) : t.field = sh.names[c],
     leaf |-> BoundedLeaves(cond, sh.names[c])]

\* How the pass treats it; u is the unit it begins with.
Treatment(sh, c, u, use) ==
    LET zoned == sh.lens # <<>> /\ Zonable(sh.kinds[c]) /\ u.tag = "zone"
        blocked == sh.lens # <<>> /\ Blockable(sh.kinds[c]) /\ u.tag = "pack" /\ u.v.blocked
    IN CASE ~use.proj /\ ~use.ref -> "pass"
         [] use.ref /\ zoned /\ use.leaf # <<>> -> "mask"
         [] use.proj /\ ~use.ref /\ zoned -> "zone"
         [] use.proj /\ ~use.ref /\ blocked -> "block"
         [] OTHER -> "read"

Treat(b, d, sh, c, how) ==
    CASE how = "read" -> RetainColumn(b, d, sh.kinds[c], sh.n)
      [] how = "mask" /\ At(b, d).v.n # sh.n -> Refuse(d)
      [] OTHER -> PassColumn(b, d, sh, c)

\* What it leaves for the rows: the values, or a place to come back to; and for
\* the leaves: the values, or the mask.
Kept(d, how, v) == IF how = "read" THEN Now(v) ELSE Later(IF how = "block" THEN "block" ELSE "zone", d.i)
LeftToTest(u, how, leaf, v) == IF how = "mask" THEN Mask(ZoneMask(u.v, leaf[1])) ELSE Now(v)
Seen(b, d, c, use, how, v, seen) ==
    [kept |-> IF use.proj THEN With(seen.kept, c, Kept(d, how, v)) ELSE seen.kept,
     tested |-> IF use.ref THEN With(seen.tested, c, LeftToTest(At(b, d), how, use.leaf, v)) ELSE seen.tested]

PassOver(b, d, sh, c, use, how, seen) ==
    Then(Treat(b, d, sh, c, how), LAMBDA r : Give(r.d, Seen(b, d, c, use, how, r.v, seen)))
UsePass(b, d, sh, c, use, seen) == PassOver(b, d, sh, c, use, Treatment(sh, c, At(b, d), use), seen)

\* One pass over the columns: [kept, tested], by column.
RECURSIVE ForwardPass(_, _, _, _, _, _, _)
ForwardPass(b, d, sh, cond, projected, c, seen) ==
    IF c > Len(sh.kinds) THEN Give(d, seen)
    ELSE Then(UsePass(b, d, sh, c, ColumnUse(sh, c, cond, projected), seen),
              LAMBDA r : ForwardPass(b, r.d, sh, cond, projected, c + 1, r.v))

\* Only the zones, or blocks, of the rows that matched are decoded.
Fill(b, h, n, matched) ==
    LET u == b[h.start].v
        need == {ZoneOf(r) : r \in matched}
    IN CASE h.form = "zone" ->
              Held(0, [r \in 1 .. n |-> IF ZoneOf(r) \in need THEN ZoneValue(u, r) ELSE 0])
         [] h.form = "block" -> Held(0, [r \in 1 .. n |-> IF r \in matched THEN u.vals[r] ELSE 0])
         [] h.form = "now" -> [pool |-> h.pool, vals |-> h.vals, null |-> h.null, mask |-> h.mask]

\* What a leaf is evaluated on, once the pass is over.
Tested(d, t, n) ==
    IF "done" \in DOMAIN t THEN t
    ELSE LET h == Held(t.pool, t.vals)
         IN [done |-> FALSE, mask |-> {}, null |-> t.null,
             vals |-> [i \in 1 .. n |-> HeldAt(d, [h EXCEPT !.null = t.null, !.mask = t.mask], i)]]

Ascending(S) ==
    [i \in 1 .. Cardinality(S) |-> CHOOSE x \in S : Cardinality({y \in S : y <= x}) = i]

\* The columns of the rows that matched: [matched, held], held by column.
Operands(d, sh, tested) ==
    [f \in {sh.names[c] : c \in DOMAIN tested} |-> Tested(d, tested[IndexIn(sh.names, f)], sh.n)]
Selected(b, sh, kept, matched) ==
    [matched |-> Ascending(matched), held |-> [c \in DOMAIN kept |-> Fill(b, kept[c], sh.n, matched)]]
RunQuery(b, d, sh, cond, projected) ==
    IF \E t \in ValuesOf(Leaves(cond)) : RefusedLeaf(sh, t) THEN Refuse(d)
    ELSE Then(ForwardPass(b, d, sh, cond, projected, 1, [kept |-> <<>>, tested |-> <<>>]), LAMBDA r :
              Give(r.d, Selected(b, sh, r.v.kept, Matched(cond, Operands(r.d, sh, r.v.tested), 1 .. sh.n))))

Projected(sh, select) == {sh.names[c] : c \in {x \in DOMAIN sh.names : select = {} \/ sh.names[x] \in select}}

\* The rows of an answer r, as rows of the target or as maps.
RowsInto(r, sh, target) ==
    LET Source(k) == IndexIn(sh.names, target[k].name) IN
    [i \in DOMAIN r.v.matched |-> [k \in DOMAIN target |->
        IF Source(k) \in DOMAIN r.v.held THEN HeldAt(r.d, r.v.held[Source(k)], r.v.matched[i]) ELSE Zero(target[k])]]
RowsAny(r, sh) ==
    [i \in DOMAIN r.v.matched |-> [n \in {sh.names[c] : c \in DOMAIN r.v.held} |->
        AnyAt(r.d, r.v.held[IndexIn(sh.names, n)], r.v.matched[i])]]

\* The columns kept are fields of the target, and of their kind.
Fits(sh, held, target) ==
    \A c \in DOMAIN held : sh.kinds[c] = ColKind(target[SlotNamed(BuildPlan(target).cols, sh.names[c])])

QueryInto(b, d, target, q) ==
    Then(ReadColShape(b, d), LAMBDA sh :
         Unbound(Then(RunQuery(b, Bound(sh.d, sh.v.n), sh.v, q.cond,
                               {n \in Projected(sh.v, q.select) : SlotNamed(BuildPlan(target).cols, n) # 0}),
                      LAMBDA r : IF Fits(sh.v, r.v.held, target) THEN Give(r.d, RowsInto(r, sh.v, target))
                                 ELSE Refuse(r.d))))

QueryAny(b, d, q) ==
    Then(ReadColShape(b, d), LAMBDA sh :
         Unbound(Then(RunQuery(b, Bound(sh.d, sh.v.n), sh.v, q.cond, Projected(sh.v, q.select)),
                      LAMBDA r : Give(r.d, RowsAny(r, sh.v)))))

\* Predicates are pushed down to the transposed container only.
Queried(b, d, q, R) == IF HasError(q.cond) \/ At(b, d).tag # "shapes" THEN Refuse(d) ELSE R
=============================================================================
