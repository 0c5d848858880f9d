----------------------------- MODULE DeltaValues -----------------------------
(***************************************************************************)
(* The values a delta patch is about: how two are compared, what goes into *)
(* the base fingerprint and how one is shipped whole.  A type is a record; *)
(* a pointer is <<>> or <<v>>, a slice or a map knows whether it is nil.   *)
(* A struct is the sequence of its fields, with one more place for what    *)
(* the codec does not see: an unexported field, or the gap between two.    *)
(* The fingerprint is the sequence hashed: a hash tells no more apart.     *)
(***************************************************************************)
EXTENDS Integers, Sequences, FiniteSets
LOCAL INSTANCE SequencesExt

CONSTANT Width          \* values of an integer: the type holds 0 .. Width - 1

ASSUME WidthAssumption == Width \in Nat \ {0}

Int2 == [kind |-> "int"]
Bool == [kind |-> "bool"]
Text == [kind |-> "string"]
Bytes == [kind |-> "bytes"]
PointerTo(t) == [kind |-> "pointer", elem |-> t]
SliceOf(t) == [kind |-> "slice", elem |-> t]
ArrayOf(n, t) == [kind |-> "array", len |-> n, elem |-> t]
MapOf(t) == [kind |-> "map", elem |-> t]
\* key: the field tagged as identity, or 0.  hidden: "none", "field" or "gap".
StructOf(fields, key, hidden) ==
    [kind |-> "struct", fields |-> fields, key |-> key, hidden |-> hidden]

Seq1(s) == [nil |-> FALSE, s |-> s]
Nil == [nil |-> TRUE, s |-> <<>>]

IsStruct(t) == t.kind = "struct"
Indexes(s) == [i \in DOMAIN s |-> i]
Each(s, Op(_)) == [i \in DOMAIN s |-> Op(s[i])]
Joined(s, Op(_)) == FlattenSeq([i \in DOMAIN s |-> Op(s[i])])
\* The iteration order of a map is any order: down takes the keys backwards.
KeysOf(m, down) ==
    SetToSortSeq(DOMAIN m, LAMBDA a, b : IF down THEN a > b ELSE a < b)

RECURSIVE Pod(_)        \* noPointersWalk
Pod(t) ==
    CASE t.kind \in {"int", "bool"} -> TRUE
      [] t.kind = "array" -> Pod(t.elem)
      [] IsStruct(t) -> \A i \in DOMAIN t.fields : Pod(t.fields[i])
      [] OTHER -> FALSE

RECURSIVE TightPod(_)
TightPod(t) ==
    CASE t.kind \in {"int", "bool"} -> TRUE
      [] t.kind = "array" -> TightPod(t.elem)
      [] IsStruct(t) -> t.hidden # "gap" /\ \A i \in DOMAIN t.fields : TightPod(t.fields[i])
      [] OTHER -> FALSE

RECURSIVE Zero(_)
Zero(t) ==
    CASE t.kind \in {"int", "bool"} -> 0
      [] t.kind \in {"string", "pointer"} -> <<>>
      [] t.kind = "array" -> [i \in 1 .. t.len |-> Zero(t.elem)]
      [] IsStruct(t) -> Each(t.fields, Zero) \o (IF t.hidden = "none" THEN <<>> ELSE <<0>>)
      [] OTHER -> Nil

-----------------------------------------------------------------------------
(* Comparing *)

RECURSIVE Equal(_, _, _)        \* equalValue
Equal(t, a, b) ==
    LET Pairwise(u, s, r) == Len(s) = Len(r) /\ \A i \in DOMAIN s : Equal(u, s[i], r[i])
        Elements(s, r) == IF Pod(t.elem) THEN s = r ELSE Pairwise(t.elem, s, r)
    IN CASE t.kind \in {"int", "bool", "string", "bytes"} -> a = b
         [] t.kind = "slice" -> a.nil = b.nil /\ Elements(a.s, b.s)
         [] t.kind = "array" -> Elements(a, b)
         [] t.kind = "pointer" -> Pairwise(t.elem, a, b)
         [] t.kind = "map" -> /\ a.nil = b.nil
                              /\ DOMAIN a.s = DOMAIN b.s
                              /\ \A k \in DOMAIN a.s : Equal(t.elem, a.s[k], b.s[k])
         [] IsStruct(t) -> \A i \in DOMAIN t.fields : Equal(t.fields[i], a[i], b[i])

\* What the codec carries of a value: the reference the properties compare by.
RECURSIVE Visible(_, _)
Visible(t, v) ==
    CASE t.kind \in {"int", "bool", "string", "bytes"} -> v
      [] t.kind \in {"pointer", "array"} -> [i \in DOMAIN v |-> Visible(t.elem, v[i])]
      [] t.kind \in {"slice", "map"} -> [v EXCEPT !.s = [i \in DOMAIN @ |-> Visible(t.elem, @[i])]]
      [] IsStruct(t) -> [i \in DOMAIN t.fields |-> Visible(t.fields[i], v[i])]

Same(t, a, b) == Visible(t, a) = Visible(t, b)

-----------------------------------------------------------------------------
(* The base fingerprint *)

RECURSIVE Span(_, _)            \* the bytes of a pointer-free value
Span(t, v) ==
    CASE t.kind = "array" -> Joined(v, LAMBDA x : Span(t.elem, x))
      [] IsStruct(t) -> Joined(Indexes(t.fields), LAMBDA i : Span(t.fields[i], v[i]))
                        \o SubSeq(v, Len(t.fields) + 1, Len(v))
      [] OTHER -> <<v>>

\* Mutant of Header: a nil slice or map hashes as an empty one.
MutHeader(v, n) == <<1, n>>
Header(v, n) == IF v.nil THEN <<0>> ELSE <<1, n>>

EntryStart == -1
EntryEnd == -2

RECURSIVE ReflectHash(_, _)     \* fpHashReflect: what a map holds
ReflectHash(t, v) ==
    LET Elems(s) == Joined(s, LAMBDA x : ReflectHash(t.elem, x))
    IN CASE t.kind \in {"int", "bool"} -> <<v>>
         [] t.kind = "string" -> <<Len(v)>> \o v
         [] t.kind = "bytes" -> Header(v, Len(v.s)) \o v.s
         [] t.kind = "slice" -> Header(v, Len(v.s)) \o Elems(v.s)
         [] t.kind = "array" -> <<1, t.len>> \o Elems(v)
         [] t.kind = "pointer" -> <<Len(v)>> \o Elems(v)
         [] t.kind = "map" ->
              Joined(KeysOf(v.s, FALSE), LAMBDA k : <<EntryStart, k>> \o ReflectHash(t.elem, v.s[k]) \o <<EntryEnd>>)
         [] IsStruct(t) ->
              Joined(Indexes(t.fields), LAMBDA i : ReflectHash(t.fields[i], v[i]))
              \o (IF t.hidden = "field" THEN <<v[Len(v)]>> ELSE <<>>)

RECURSIVE Fingerprint(_, _)     \* fpHash: a string goes in without its length
Fingerprint(t, v) ==
    LET Elems(s) == Joined(s, LAMBDA x : Fingerprint(t.elem, x))
    IN CASE TightPod(t) -> Span(t, v)
         [] t.kind = "string" -> v
         [] t.kind = "bytes" -> Header(v, Len(v.s)) \o v.s
         [] t.kind = "slice" -> Header(v, Len(v.s)) \o Elems(v.s)
         [] t.kind = "array" -> Elems(v)
         [] t.kind = "pointer" -> <<Len(v)>> \o Elems(v)
         \* the hashes of the entries are added up in one word, in any order
         [] t.kind = "map" ->
              IF v.nil THEN <<0>>
              ELSE <<1>> \o Joined(KeysOf(v.s, FALSE),
                                   LAMBDA k : <<EntryStart, k>> \o ReflectHash(t.elem, v.s[k]) \o <<EntryEnd>>)
         [] IsStruct(t) -> Joined(Indexes(t.fields), LAMBDA i : Fingerprint(t.fields[i], v[i]))

-----------------------------------------------------------------------------
(* Whole values: the codec of the type *)

Sized(s) == <<Len(s)>> \o s
NilOr(v, body) == IF v.nil THEN <<0>> ELSE <<1>> \o body

RECURSIVE Written(_, _, _)
Written(t, v, down) ==
    LET Elems(s) == Joined(s, LAMBDA x : Written(t.elem, x, down))
        Entries(keys) == <<Len(keys)>> \o Joined(keys, LAMBDA k : <<k>> \o Written(t.elem, v.s[k], down))
    IN CASE t.kind \in {"int", "bool"} -> <<v>>
         [] t.kind = "string" -> Sized(v)
         [] t.kind = "bytes" -> NilOr(v, Sized(v.s))
         [] t.kind = "slice" -> NilOr(v, <<Len(v.s)>> \o Elems(v.s))
         [] t.kind = "array" -> Elems(v)
         [] t.kind = "pointer" -> <<Len(v)>> \o Elems(v)
         [] t.kind = "map" -> NilOr(v, Entries(KeysOf(v.s, down)))
         [] IsStruct(t) -> Joined(Indexes(t.fields), LAMBDA i : Written(t.fields[i], v[i], down))

\* A read that ends before place at, with what it leaves in the target; or an
\* error, which leaves there what was stored before it.
Got(at, v) == [ok |-> TRUE, at |-> at, v |-> v]
Failed(v) == [ok |-> FALSE, at |-> 0, v |-> v]

\* A token of S at place i of the wire.
Has(w, i, S) == i \in DOMAIN w /\ w[i] \in S
Room(w, i, n) == i + n - 1 <= Len(w)
Counts(w, i) == 0 .. Len(w) - i

\* What follows a read that succeeded.
Then(r, Rest(_)) == IF r.ok THEN Rest(r) ELSE r
\* A value that is put in place when it is complete.
Complete(r, into) == IF r.ok THEN r ELSE Failed(into)
Content(r) == [r EXCEPT !.v = Seq1(@)]
InPlace(r, into, k) == [r EXCEPT !.v = [into EXCEPT ![k] = r.v]]

ReadText(w, i) ==
    IF Has(w, i, Counts(w, i)) /\ Room(w, i + 1, w[i]) THEN Got(i + 1 + w[i], SubSeq(w, i + 1, i + w[i]))
    ELSE Failed(<<>>)

Stored(v, to, x) == [k \in DOMAIN v \cup {to} |-> IF k = to THEN x ELSE v[k]]

\* The values of ts from place i, each into its place of the sequence into, the
\* first k of them read.
RECURSIVE ReadAs(_, _, _, _), ReadFrom(_, _, _, _, _), ReadEntries(_, _, _, _, _)
ReadFrom(ts, w, i, k, into) ==
    IF k = Len(ts) THEN Got(i, into)
    ELSE Then(InPlace(ReadAs(ts[k + 1], w, i, into[k + 1]), into, k + 1),
              LAMBDA r : ReadFrom(ts, w, r.at, k + 1, r.v))
ReadAll(ts, w, i, into) == ReadFrom(ts, w, i, 0, into)

\* n entries more of a map, which takes each when its value is complete.
ReadEntries(elem, w, n, i, m) ==
    IF n = 0 THEN Got(i, m)
    ELSE Then(Complete(ReadAs(Int2, w, i, 0), m), LAMBDA k :
         Then(Complete(ReadAs(elem, w, k.at, Zero(elem)), m), LAMBDA v :
              ReadEntries(elem, w, n - 1, v.at, Stored(m, k.v, v.v))))

ReadAs(t, w, i, into) ==
    LET Many(n, k, zero) == ReadAll([j \in 1 .. n |-> t.elem], w, k, [j \in 1 .. n |-> zero])
    IN CASE t.kind = "int" -> IF Has(w, i, 0 .. Width - 1) THEN Got(i + 1, w[i]) ELSE Failed(into)
         [] t.kind = "bool" -> IF Has(w, i, 0 .. 1) THEN Got(i + 1, w[i]) ELSE Failed(into)
         [] t.kind = "string" -> Complete(ReadText(w, i), into)
         [] t.kind = "array" -> ReadAll([j \in 1 .. t.len |-> t.elem], w, i, into)
         [] IsStruct(t) -> ReadAll(t.fields, w, i, into)
         [] ~Has(w, i, 0 .. 1) -> Failed(into)
         [] w[i] = 0 -> Got(i + 1, IF t.kind = "pointer" THEN <<>> ELSE Nil)
         [] t.kind = "pointer" /\ into # <<>> -> Many(1, i + 1, into[1])
         [] t.kind = "pointer" /\ into = <<>> -> Complete(Many(1, i + 1, Zero(t.elem)), into)
         [] t.kind = "bytes" -> Complete(Content(ReadText(w, i + 1)), into)
         [] ~Has(w, i + 1, Counts(w, i + 1)) -> Failed(into)
         [] t.kind = "slice" -> Content(Many(w[i + 1], i + 2, Zero(t.elem)))
         [] t.kind = "map" -> Content(ReadEntries(t.elem, w, w[i + 1], i + 2, <<>>))

\* A copy of v that went over the wire: what is hidden stays behind.
Copied(t, v) == ReadAs(t, Written(t, v, FALSE), 1, Zero(t)).v
=============================================================================
