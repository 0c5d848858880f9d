------------------------------ MODULE BatchDecode ------------------------------
(***************************************************************************)
(* A slice of structs into a batch: rows without pointers, whose strings   *)
(* are handles into one slab of bodies.  A slab is [bodies, rows]; handle  *)
(* 0 is the empty string.  A transposed container and plain rows are read  *)
(* straight into the slab, anything else through ordinary rows.            *)
(***************************************************************************)
EXTENDS ColumnDecode

NewSlab == [bodies |-> <<>>, rows |-> <<>>]

\* Taken from the pool, a slab forgets its bodies and keeps its memory.
Taken(slab) == [slab EXCEPT !.bodies = <<>>]

ZeroCell(f) == IF f.kind \in {"string", "bytes"} THEN 0 ELSE Zero(f)

\* Mutant: memory that is large enough is taken as it is.
MutTakeRows(slab, target, n) ==
    [slab EXCEPT !.rows = [i \in 1 .. n |->
        IF i \in DOMAIN slab.rows /\ Len(slab.rows[i]) = Len(target) THEN slab.rows[i]
        ELSE [k \in DOMAIN target |-> ZeroCell(target[k])]]]

\* The rows of the next batch: the memory of the last one, cleared.
TakeRows(slab, target, n) ==
    [slab EXCEPT !.rows = [i \in 1 .. n |-> [k \in DOMAIN target |-> ZeroCell(target[k])]]]

\* [slab, cells]
Stored(slab, cells) == [slab |-> slab, cells |-> cells]

RECURSIVE StoreEach(_, _, _)
StoreEach(slab, s, cells) ==
    IF s = <<>> THEN Stored(slab, cells)
    ELSE IF Head(s) = "" THEN StoreEach(slab, Tail(s), Append(cells, 0))
    ELSE StoreEach([slab EXCEPT !.bodies = Append(@, Head(s))], Tail(s), Append(cells, Len(slab.bodies) + 1))

\* A block form stores each distinct string once.
StoreBlock(slab, s) ==
    LET First(i) == s[i] # "" /\ Fresh(s, i)
        firsts == SelectSeq([i \in DOMAIN s |-> i], First)
        Place(x) == CHOOSE k \in DOMAIN firsts : s[firsts[k]] = x
    IN Stored([slab EXCEPT !.bodies = @ \o [k \in DOMAIN firsts |-> s[firsts[k]]]],
              [i \in DOMAIN s |-> IF s[i] = "" THEN 0 ELSE Len(slab.bodies) + Place(s[i])])

\* One field of all rows, or of one.
WithCells(s, at) == [s.slab EXCEPT !.rows = [i \in DOMAIN @ |-> [@[i] EXCEPT ![at] = s.cells[i]]]]
WithCell(s, row, at) == [s.slab EXCEPT !.rows[row][at] = s.cells[1]]
StoreField(slab, f, v) ==
    IF f.kind \in {"string", "bytes"} THEN StoreEach(slab, <<v>>, <<>>) ELSE Stored(slab, <<v>>)

-----------------------------------------------------------------------------
(* Each way of reading gives [d, v] with v the slab.                       *)

StoreColumn(slab, base, s, block) ==
    CASE base = "string" /\ block -> StoreBlock(slab, s)
      [] base = "string" /\ ~block -> StoreEach(slab, s, <<>>)
      [] OTHER -> Stored(slab, s)
BatchColumn(b, d, slab, kind, n, at) ==
    Then(ReadValues(b, d, kind.base, n), LAMBDA r :
         Give(r.d, WithCells(StoreColumn(slab, kind.base, r.v.vals, IsBlock(b, d)), at)))

BatchColumnAt(b, d, slab, sh, target, c, at) ==
    CASE at = 0 -> Then(PassColumn(b, d, sh, c), LAMBDA r : Give(r.d, slab))
      [] at # 0 /\ sh.kinds[c] = ColKind(target[at]) -> BatchColumn(b, d, slab, sh.kinds[c], sh.n, at)
      [] OTHER -> Refuse(d)

RECURSIVE BatchColumns(_, _, _, _, _, _)
BatchColumns(b, d, slab, sh, target, c) ==
    IF c > Len(sh.kinds) THEN Give(d, slab)
    ELSE Then(BatchColumnAt(b, d, slab, sh, target, c, SlotNamed(Slots(target), sh.names[c])),
              LAMBDA r : BatchColumns(b, r.d, r.v, sh, target, c + 1))

\* No rows, no bodies to read: the columns of an empty slice stay unread.
BatchColumnar(b, d, slab, target) ==
    Then(ReadColShape(b, d), LAMBDA sh :
         IF sh.v.n = 0 THEN Give(sh.d, TakeRows(slab, target, 0))
         ELSE Unbound(BatchColumns(b, Bound(sh.d, sh.v.n), TakeRows(slab, target, sh.v.n), sh.v, target, 1)))

RECURSIVE BatchFields(_, _, _, _, _, _)
BatchFields(b, d, slab, target, names, row) ==
    IF names = <<>> THEN Give(d, slab)
    ELSE LET at == SlotNamed(Slots(target), Head(names)) IN
         Then(FieldInto(b, d, target, at), LAMBDA r :
              BatchFields(b, r.d,
                          IF at = 0 THEN slab ELSE WithCell(StoreField(slab, target[at], r.v), row, at),
                          target, Tail(names), row))

RECURSIVE BatchRows(_, _, _, _, _, _)
BatchRows(b, d, slab, target, row, n) ==
    IF row > n THEN Give(d, slab)
    ELSE Then(ReadUnit(b, d, "struct"), LAMBDA names :
         Then(BatchFields(b, names.d, slab, target, names.v, row), LAMBDA r :
              BatchRows(b, r.d, r.v, target, row + 1, n)))

\* Ordinary rows, field by field into the slab.
RECURSIVE CopyRows(_, _, _, _, _)
CopyRows(slab, target, rows, i, k) ==
    IF i > Len(rows) THEN slab
    ELSE IF k > Len(target) THEN CopyRows(slab, target, rows, i + 1, 1)
    ELSE CopyRows(WithCell(StoreField(slab, target[k], rows[i][k]), i, k), target, rows, i, k + 1)

BatchMirror(b, d, slab, target) ==
    Then(ReadSliceInto(b, d, target),
         LAMBDA r : Give(r.d, CopyRows(TakeRows(slab, target, Len(r.v)), target, r.v, 1, 1)))

\* An optional column, or a shape declared before, is the mirror's matter.
AllPresent(sh) == sh.d.ok => \A c \in DOMAIN sh.v.kinds : ~sh.v.kinds[c].null
Direct(b, d) ==
    At(b, d).tag = "shapes" /\ At(b, Past(d)).v = 0 /\ AllPresent(ReadShape(b, d, "shapes"))

ReadBatch(b, d, slab, target) ==
    CASE Direct(b, d) -> BatchColumnar(b, d, slab, target)
      [] At(b, d).tag = "array" ->
           Then(ReadUnit(b, d, "array"), LAMBDA n : BatchRows(b, n.d, TakeRows(slab, target, n.v), target, 1, n.v))
      [] OTHER -> BatchMirror(b, d, slab, target)
=============================================================================
