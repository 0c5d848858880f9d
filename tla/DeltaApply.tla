------------------------------ MODULE DeltaApply ------------------------------
(***************************************************************************)
(* Applying a patch: the body is read against the base and stored into it  *)
(* as it is read, so an error leaves what was stored before it.  A         *)
(* container names its places first; every operation then finds its own.   *)
(***************************************************************************)
EXTENDS DeltaDiff
LOCAL INSTANCE SequencesExt

RECURSIVE ApplyValue(_, _, _, _)

\* What the selector at place i of the wire names within v, the content of a
\* container: a field, an index, or the key of a map.
Named(at, to) == [ok |-> TRUE, at |-> at, to |-> to]
NoPlace == [ok |-> FALSE, at |-> 0, to |-> 1]

ByPlace(t, w, i, v) ==
    LET at == IF t.kind \in {"slice", "array"} /\ Has(w, i, {LongIndex}) THEN i + 1 ELSE i
    IN CASE t.kind = "map" /\ Has(w, at, 0 .. Width - 1) -> Named(at + 1, w[at])
         [] IsStruct(t) /\ Has(w, at, 0 .. Len(t.fields) - 1) -> Named(at + 1, w[at] + 1)
         [] t.kind \in {"slice", "array"} /\ Has(w, at, 0 .. Len(v) - 1) -> Named(at + 1, w[at] + 1)
         [] OTHER -> NoPlace

\* Or the identity of an element, whose place is the one order gives it.
NoOrder == [keyed |-> FALSE, keys |-> <<>>]
Order(keys) == [keyed |-> TRUE, keys |-> keys]

PlaceOf(r, keys) ==
    LET Slots == {j \in DOMAIN keys : keys[j] = r.v}
    IN IF r.ok /\ Slots # {} THEN Named(r.at, CHOOSE j \in Slots : TRUE) ELSE NoPlace
ByKey(t, w, i, keys) ==
    LET key == t.elem.fields[t.elem.key] IN PlaceOf(ReadAs(key, w, i, Zero(key)), keys)

Selected(t, w, i, v, order) ==
    IF order.keyed THEN ByKey(t, w, i, order.keys) ELSE ByPlace(t, w, i, v)

TypeAt(t, to) == IF IsStruct(t) THEN t.fields[to] ELSE t.elem
\* A key that is new to a map starts from a zero value.
Target(t, v, to) == IF to \in DOMAIN v THEN v[to] ELSE Zero(t.elem)

\* The value of a map entry is a copy, put back when it is complete.
PutBack(t, v, to, r) == IF r.ok \/ t.kind # "map" THEN [r EXCEPT !.v = Stored(v, to, @)] ELSE Failed(v)
ApplyAt(t, w, v, p) ==
    IF p.ok THEN PutBack(t, v, p.to, ApplyValue(TypeAt(t, p.to), w, p.at, Target(t, v, p.to))) ELSE Failed(v)

\* n operations from place i of the wire.
RECURSIVE ApplyOps(_, _, _, _, _, _)
ApplyOps(t, n, w, i, v, order) ==
    IF n = 0 THEN Got(i, v)
    ELSE Then(ApplyAt(t, w, v, Selected(t, w, i, v, order)),
              LAMBDA r : ApplyOps(t, n - 1, w, r.at, r.v, order))

\* The number of operations at place i, at most limit, and then those.
ApplyCounted(t, limit, w, i, v, order) ==
    IF Has(w, i, 0 .. limit) THEN ApplyOps(t, w[i], w, i + 1, v, order) ELSE Failed(v)

\* What is left to read: a bound on every count.
Left(w, i) == Len(w) - i + 1

ApplyFields(t, w, i, base) ==
    IF Has(w, i, {StructPatch}) THEN ApplyCounted(t, Left(w, i + 1), w, i + 1, base, NoOrder)
    ELSE Failed(base)

\* Cut to the new length, or grown with zero elements.
Resized(elem, s, n) == [j \in 1 .. n |-> IF j <= Len(s) THEN s[j] ELSE Zero(elem)]

\* applySlice, and applyArray, whose length is that of the type.
ApplyElems(t, w, i, base) ==
    LET lengths == IF t.kind = "array" THEN {t.len} ELSE 0 .. Len(base) + Left(w, i + 2)
    IN IF Has(w, i, {SlicePatch}) /\ Has(w, i + 1, lengths)
       THEN ApplyCounted(t, w[i + 1], w, i + 2, Resized(t.elem, base, w[i + 1]), NoOrder)
       ELSE Failed(base)

Without(m, keys) == [k \in DOMAIN m \ keys |-> m[k]]

ApplyDeletes(w, at, m) ==
    IF Has(w, at, 0 .. Left(w, at)) /\ Room(w, at + 1, w[at])
    THEN Got(at + 1 + w[at], Without(m, {w[j] : j \in at + 1 .. at + w[at]})) ELSE Failed(m)

ApplyMap(t, w, i, base) ==
    IF Has(w, i, {MapPatch})
    THEN Then(ApplyCounted(t, Left(w, i + 1), w, i + 1, base, NoOrder), LAMBDA r : ApplyDeletes(w, r.at, r.v))
    ELSE Failed(base)

-----------------------------------------------------------------------------
(* By identity *)

\* A listed key that the base does not have needs an operation of its own.
Filled(elem, base, keys, after) ==
    \A j \in DOMAIN keys : Matches(elem, base, keys[j]) # {} \/ KeyOf(elem, after[j]) = keys[j]

\* The element of a key as the base has it, or a zero one.
Carried(elem, base, k) ==
    IF Matches(elem, base, k) = {} THEN Zero(elem) ELSE base[CHOOSE j \in Matches(elem, base, k) : TRUE]

ReadKeys(key, n, w, i) == ReadAll([j \in 1 .. n |-> key], w, i, [j \in 1 .. n |-> Zero(key)])

WhenFilled(elem, base, keys, r) == IF r.ok /\ Filled(elem, base, keys, r.v) THEN r ELSE Failed(base)
Rebuilt(t, w, i, base, keys) ==
    IF \E j, k \in DOMAIN keys : j # k /\ keys[j] = keys[k] THEN Failed(base)
    ELSE WhenFilled(t.elem, base, keys,
                    ApplyCounted(t, Left(w, i), w, i, Each(keys, LAMBDA k : Carried(t.elem, base, k)), Order(keys)))

ApplyKeyedSlice(t, w, i, base) ==
    CASE Has(w, i + 1, {SameOrder}) ->
           ApplyCounted(t, Left(w, i + 2), w, i + 2, base, Order(Each(base, LAMBDA v : KeyOf(t.elem, v))))
      \* the new slice is put in place last: an error leaves the old one
      [] Has(w, i + 1, {OrderChanged}) /\ Has(w, i + 2, 0 .. Left(w, i + 3)) ->
           Complete(Then(ReadKeys(t.elem.fields[t.elem.key], w[i + 2], w, i + 3),
                         LAMBDA r : Rebuilt(t, w, r.at, base, r.v)), base)
      [] OTHER -> Failed(base)

-----------------------------------------------------------------------------
(* By column *)

\* The type a cell is read as, and what it leaves in the field.
CellType(f) == IF f.kind = "bytes" THEN Text ELSE f
CellValue(f, v) == IF f.kind = "bytes" THEN (IF v = <<>> THEN Nil ELSE Seq1(v)) ELSE v

Plus(f, a, d) == (a + d) % (IF f.kind = "bool" THEN 2 ELSE Width)

\* The rows a sparse column names: gaps added up, each row after the last.
RowsFrom(gaps) ==
    LET at[j \in 0 .. Len(gaps)] == IF j = 0 THEN 1 ELSE at[j - 1] + gaps[j]
    IN [j \in DOMAIN gaps |-> at[j]]

\* One cell is moved by a difference or replaced; then those of some rows.
NewCell(f, mode, was, v) == IF mode = Delta THEN Plus(f, was, v) ELSE CellValue(f, v)
Scatter(f, c, mode, base, rows, cells) ==
    [j \in DOMAIN base |->
        IF \E x \in DOMAIN rows : rows[x] = j
        THEN [base[j] EXCEPT ![c] = NewCell(f, mode, @, cells[CHOOSE x \in DOMAIN rows : rows[x] = j])]
        ELSE base[j]]

ReadCells(f, n, w, i) == ReadAll([j \in 1 .. n |-> CellType(f)], w, i, [j \in 1 .. n |-> Zero(CellType(f))])
CellsInto(f, c, mode, w, i, base, rows) ==
    Complete(Then(ReadCells(f, Len(rows), w, i), LAMBDA r : Got(r.at, Scatter(f, c, mode, base, rows, r.v))), base)

GapsInto(f, c, w, i, base, gaps) ==
    IF /\ \A j \in 2 .. Len(gaps) : gaps[j] > 0
       /\ \A j \in DOMAIN gaps : RowsFrom(gaps)[j] <= Len(base)
    THEN CellsInto(f, c, Sparse, w, i, base, RowsFrom(gaps)) ELSE Failed(base)
ApplySparse(f, c, w, i, base) ==
    IF Has(w, i, 1 .. Len(base)) /\ Room(w, i + 1, w[i])
    THEN GapsInto(f, c, w, i + 1 + w[i], base, SubSeq(w, i + 1, i + w[i])) ELSE Failed(base)

ApplyColumn(f, c, w, i, base) ==
    CASE Has(w, i, {Sparse}) -> ApplySparse(f, c, w, i + 1, base)
      [] Has(w, i, {Whole}) \/ (Has(w, i, {Delta}) /\ f.kind \in {"int", "bool"}) ->
           CellsInto(f, c, w[i], w, i + 1, base, Indexes(base))
      [] OTHER -> Failed(base)

\* The columns in ascending order, the last one at prev.
RECURSIVE ApplyColumns(_, _, _, _, _, _)
ApplyColumns(elem, k, w, i, prev, base) ==
    CASE k = 0 -> Got(i, base)
      [] k > 0 /\ Has(w, i, prev + 1 .. Len(elem.fields) - 1) ->
           Then(ApplyColumn(elem.fields[w[i] + 1], w[i] + 1, w, i + 1, base),
                LAMBDA r : ApplyColumns(elem, k - 1, w, r.at, w[i], r.v))
      [] OTHER -> Failed(base)

ApplyColSlice(elem, w, i, base) ==
    IF Has(w, i + 1, {Len(base)}) /\ Has(w, i + 2, 0 .. Len(elem.fields))
    THEN ApplyColumns(elem, w[i + 2], w, i + 3, -1, base)
    ELSE Failed(base)

-----------------------------------------------------------------------------
ApplySlice(t, w, i, base) ==
    CASE Has(w, i, {KeyedPatch}) /\ Keyed(t.elem) -> ApplyKeyedSlice(t, w, i, base)
      [] Has(w, i, {ColPatch}) /\ Flat(t.elem) -> ApplyColSlice(t.elem, w, i, base)
      [] OTHER -> ApplyElems(t, w, i, base)

Merge(t, w, i, base) ==
    LET In(r) == [r EXCEPT !.v = Seq1(@)]
        To(r) == [r EXCEPT !.v = <<@>>]
    IN CASE IsStruct(t) -> ApplyFields(t, w, i, base)
         [] t.kind = "array" -> ApplyElems(t, w, i, base)
         [] t.kind = "slice" -> In(ApplySlice(t, w, i, base.s))
         [] t.kind = "map" -> In(ApplyMap(t, w, i, base.s))
         [] t.kind = "pointer" /\ base # <<>> -> To(ApplyFields(t.elem, w, i, base[1]))
         [] OTHER -> Failed(base)

ApplyValue(t, w, i, base) ==
    CASE Has(w, i, {OpReplace}) -> ReadAs(t, w, i + 1, base)
      [] Has(w, i, {OpMerge}) -> Merge(t, w, i + 1, base)
      [] OTHER -> Failed(base)
=============================================================================
