------------------------------ MODULE DeltaDiff ------------------------------
(***************************************************************************)
(* The body of a patch: one operation per changed place, each behind the   *)
(* index, key or column that selects it.  A slice has three bodies: by     *)
(* position, by the identity of its elements, by column; the picker keeps  *)
(* the shortest.  A body is a sequence of tokens, each counted as a byte;  *)
(* the tables that interning would move, which a trial puts back, are in   *)
(* ShapeTrials, and the codec of a column in PackedColumns.                *)
(***************************************************************************)
EXTENDS DeltaValues
LOCAL INSTANCE SequencesExt

CONSTANTS
    MinElems,           \* columnarMinElems
    ShortIndexes,       \* indexes that take one byte, 128 in the code
    SparseDen           \* colDiffSparseDen: sparse up to one changed row in so many

ASSUME ColumnAssumption ==
    MinElems \in Nat /\ ShortIndexes \in Nat /\ SparseDen \in Nat \ {0}

OpReplace == 1
OpMerge == 2

StructPatch == 1
SlicePatch == 2
MapPatch == 3
KeyedPatch == 4
ColPatch == 5

SameOrder == 0
OrderChanged == 1

Sparse == 0
Delta == 1
Whole == 2

\* Indexes on the wire count from zero.
Places(s, Is(_)) == SelectSeq(Indexes(s), Is)

\* A long index takes one byte more; that is what an identity can be shorter than.
LongIndex == 99
Index(i) == IF i <= ShortIndexes THEN <<i - 1>> ELSE <<LongIndex, i - 1>>

Replace(t, new, down) == <<OpReplace>> \o Written(t, new, down)

-----------------------------------------------------------------------------
(* The body by column: a slice of flat structs that kept its length *)

\* An optional []byte is no column.
Transposes(f) ==
    \/ f.kind \in {"int", "bool", "string", "bytes"}
    \/ f.kind = "pointer" /\ f.elem.kind \in {"int", "bool", "string"}

Flat(elem) == IsStruct(elem) /\ \A i \in DOMAIN elem.fields : Transposes(elem.fields[i])

ColumnEligible(elem, old, new) ==
    /\ Len(old) = Len(new) /\ Len(old) >= MinElems
    /\ Flat(elem)

\* colKindColumnDiffSupported: an optional string would go through interning.
Supported(f) == ~(f.kind = "pointer" /\ f.elem.kind = "string")

\* colCellEqual: a []byte cell is compared by its content.
CellEqual(f, a, b) == IF f.kind = "bytes" THEN a.s = b.s ELSE a = b

ChangedRows(f, c, old, new) == Places(new, LAMBDA i : ~CellEqual(f, old[i][c], new[i][c]))

ColMode(f, changed, n) ==
    IF f.kind # "pointer" /\ changed * SparseDen <= n THEN Sparse
    ELSE IF f.kind \in {"int", "bool"} THEN Delta ELSE Whole

\* A []byte travels as a string: nil and empty are one.
Cell(f, v) ==
    CASE f.kind = "string" -> Sized(v)
      [] f.kind = "bytes" -> Sized(v.s)
      [] f.kind = "pointer" -> Written(f, v, FALSE)
      [] OTHER -> <<v>>

Gaps(rows) == [j \in DOMAIN rows |-> IF j = 1 THEN rows[1] - 1 ELSE rows[j] - rows[j - 1]]

\* Integers wrap at the width of the field; a boolean is a flip.
Minus(f, b, a) == (b - a) % (IF f.kind = "bool" THEN 2 ELSE Width)

ColumnOf(f, c, rows, old, new) ==
    LET mode == ColMode(f, Len(rows), Len(new))
        Cells(places) == Joined(places, LAMBDA i : Cell(f, new[i][c]))
    IN <<c - 1, mode>>
       \o (CASE mode = Sparse -> Sized(Gaps(rows)) \o Cells(rows)
             [] mode = Delta -> [i \in DOMAIN new |-> Minus(f, new[i][c], old[i][c])]
             [] mode = Whole -> Cells(Indexes(new)))

\* cols are the columns with a changed row, rows those rows by column.
ColumnsOf(elem, cols, rows, old, new) ==
    [ok |-> \A j \in DOMAIN cols : Supported(elem.fields[cols[j]]),
     body |-> <<ColPatch, Len(new), Len(cols)>>
              \o Joined(cols, LAMBDA c : ColumnOf(elem.fields[c], c, rows[c], old, new))]
ChangedColumns(elem, rows, old, new) ==
    ColumnsOf(elem, Places(rows, LAMBDA c : rows[c] # <<>>), rows, old, new)
ColumnBody(elem, old, new) ==
    ChangedColumns(elem, [c \in DOMAIN elem.fields |-> ChangedRows(elem.fields[c], c, old, new)], old, new)

-----------------------------------------------------------------------------
(* The body by identity *)

Keyed(elem) == IsStruct(elem) /\ elem.key # 0
KeyOf(elem, v) == v[elem.key]
Matches(elem, s, k) == {i \in DOMAIN s : KeyOf(elem, s[i]) = k}
Ambiguous(elem, s) == \E i \in DOMAIN s : Cardinality(Matches(elem, s, KeyOf(elem, s[i]))) > 1

\* Mutant of Reordered: only the length is compared.
MutReordered(elem, old, new) == Len(old) # Len(new)

Reordered(elem, old, new) ==
    \/ Len(old) # Len(new)
    \/ \E i \in DOMAIN new : KeyOf(elem, old[i]) # KeyOf(elem, new[i])

-----------------------------------------------------------------------------
RECURSIVE DiffValue(_, _, _, _)

\* A count, then the operations, one for each of places.
Operations(places, Op(_)) == <<Len(places)>> \o Joined(places, Op)

DiffFields(t, old, new, down) ==
    <<StructPatch>>
    \o Operations(Places(t.fields, LAMBDA i : ~Equal(t.fields[i], old[i], new[i])),
                  LAMBDA i : <<i - 1>> \o DiffValue(t.fields[i], old[i], new[i], down))

\* Elements without pointers are compared by their memory, all of it.
DiffPositional(elem, old, new, down) ==
    LET Changed(i) == \/ i > Len(old)
                      \/ IF Pod(elem) THEN old[i] # new[i] ELSE ~Equal(elem, old[i], new[i])
    IN <<SlicePatch, Len(new)>>
       \o Operations(Places(new, Changed),
                     LAMBDA i : Index(i) \o (IF i > Len(old) THEN Replace(elem, new[i], down)
                                             ELSE DiffValue(elem, old[i], new[i], down)))

Shorter(body, other) == IF Len(body) < Len(other) THEN body ELSE other

OrColumns(elem, old, new, column, positional) ==
    IF ColumnEligible(elem, old, new) /\ column.ok THEN Shorter(column.body, positional) ELSE positional
DiffElems(elem, old, new, down) ==
    OrColumns(elem, old, new, ColumnBody(elem, old, new), DiffPositional(elem, old, new, down))

KeyedBody(elem, old, new, down) ==
    LET Key(i) == Written(elem.fields[elem.key], KeyOf(elem, new[i]), down)
        Before(i) == Matches(elem, old, KeyOf(elem, new[i]))
        At(i) == old[CHOOSE j \in Before(i) : TRUE]
        Changed(i) == Before(i) = {} \/ ~Equal(elem, At(i), new[i])
    IN <<KeyedPatch>>
       \o (IF Reordered(elem, old, new) THEN <<OrderChanged>> \o Operations(Indexes(new), Key) ELSE <<SameOrder>>)
       \o Operations(Places(new, Changed),
                     LAMBDA i : Key(i) \o (IF Before(i) = {} THEN Replace(elem, new[i], down)
                                           ELSE DiffValue(elem, At(i), new[i], down)))

\* The body by identity, where keys name elements and it is shorter than the other.
DiffKeyedSlice(elem, old, new, down, other) ==
    IF Ambiguous(elem, old) \/ Ambiguous(elem, new) THEN other
    ELSE Shorter(KeyedBody(elem, old, new, down), other)

OrKeyed(elem, old, new, down, other) ==
    IF Keyed(elem) THEN DiffKeyedSlice(elem, old, new, down, other) ELSE other
DiffSlice(elem, old, new, down) == OrKeyed(elem, old, new, down, DiffElems(elem, old, new, down))

Tombstones(old, new) == DOMAIN old \ DOMAIN new

DiffMap(elem, old, new, down) ==
    <<MapPatch>>
    \o Operations(SelectSeq(KeysOf(new, down), LAMBDA k : k \notin DOMAIN old \/ ~Equal(elem, old[k], new[k])),
                  LAMBDA k : <<k>> \o (IF k \in DOMAIN old THEN DiffValue(elem, old[k], new[k], down)
                                       ELSE Replace(elem, new[k], down)))
    \o Sized(SelectSeq(KeysOf(old, down), LAMBDA k : k \in Tombstones(old, new)))

\* What changed within a container of type t, or how a whole value replaces it.
Changes(t, old, new, down) ==
    CASE IsStruct(t) -> <<OpMerge>> \o DiffFields(t, old, new, down)
      [] t.kind = "array" -> <<OpMerge>> \o DiffPositional(t.elem, old, new, down)
      [] t.kind = "slice" /\ old.nil = new.nil -> <<OpMerge>> \o DiffSlice(t.elem, old.s, new.s, down)
      [] t.kind = "map" /\ old.nil = new.nil -> <<OpMerge>> \o DiffMap(t.elem, old.s, new.s, down)
      [] t.kind = "pointer" /\ Len(old) = 1 /\ Len(new) = 1 /\ IsStruct(t.elem) ->
           <<OpMerge>> \o DiffFields(t.elem, old[1], new[1], down)
      [] OTHER -> Replace(t, new, down)

\* Nothing at all, where the comparison sees no change.
DiffValue(t, old, new, down) ==
    IF Equal(t, old, new) THEN <<>> ELSE Changes(t, old, new, down)
=============================================================================
