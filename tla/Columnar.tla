-------------------------------- MODULE Columnar --------------------------------
(***************************************************************************)
(* Slices of structs through one encoder and one decoder.  A message is a  *)
(* list of slices under one set of options; the encoder writes them in     *)
(* order, the decoder reads each into a type of its own choice, into maps, *)
(* or past it.  A message of one slice can also be queried, read by column *)
(* or read into batches that share a pool of slabs.                        *)
(***************************************************************************)
EXTENDS BatchDecode

CONSTANTS
    Messages,       \* [index, zonemap, fsst, blocks, slices], slices of [type, rows]
    Targets,        \* the types that are read into
    QueryTargets,   \* the types that queries fill
    BatchTargets,   \* the types of batches, without optional fields
    Selections,     \* sets of names read into maps, {} for all
    Queries,        \* [opts, select]
    Slabs           \* the slabs the pool can hold

ASSUME SizesAreNatural ==
    {MinElems, ProbeSample, HeaderCost, GainPct, AwareGainPct, ZoneLen, ModelBytes, MinIntern, StrMin} \subseteq Nat

VARIABLES
    msg,        \* the message
    enc,        \* the encoder
    sent,       \* per slice written, the encoder after it
    dec,        \* the decoder
    got,        \* how the last read went: [how, arg, at, ok, rows]
    slabs,      \* the memory of each slab
    pool,       \* how often the pool holds each slab
    batch       \* the caller's two batch variables

vars == <<msg, enc, sent, dec, got, slabs, pool, batch>>
Reading == <<msg, enc, sent>>
Batches == <<slabs, pool, batch>>
Holders == 1 .. 2

NewEncoder(m) ==
    [buf |-> <<Unit("header", FALSE)>>, strings |-> <<>>, shapes |-> <<>>, hybrids |-> <<>>,
     scratch |-> NoPlan, depth |-> 0,
     index |-> m.index, zonemap |-> m.zonemap, fsst |-> m.fsst, blocks |-> m.blocks]

NewDecoder ==
    [i |-> 2, ok |-> TRUE, strings |-> <<>>, shapes |-> <<>>, hybrids |-> <<>>, cap |-> 0,
     scratch |-> [gen |-> 1, vals |-> <<>>], nopool |-> FALSE, select |-> {}]

Nothing == [how |-> "none", arg |-> <<>>, at |-> 0, ok |-> TRUE, rows |-> <<>>]
NoBatch == [slab |-> 0, n |-> 0, target |-> <<>>]

Init ==
    /\ msg \in Messages
    /\ enc = NewEncoder(msg)
    /\ sent = <<>>
    /\ dec = NewDecoder
    /\ got = Nothing
    /\ slabs = [s \in Slabs |-> NewSlab]
    /\ pool = [s \in Slabs |-> 1]
    /\ batch = [h \in Holders |-> NoBatch]

-----------------------------------------------------------------------------
(* Writing *)

Encode ==
    /\ Len(sent) < Len(msg.slices)
    /\ LET slice == msg.slices[Len(sent) + 1]
       IN enc' = EncodeSlice(enc, slice.type, slice.rows)
    /\ sent' = Append(sent, enc')
    /\ UNCHANGED <<msg, dec, got, Batches>>

-----------------------------------------------------------------------------
(* Reading.  A read of type Into, Any or Skip follows the one before it; a *)
(* read from the top of the message is a call of its own, and so is a      *)
(* batch: such calls share nothing but the pools, so a message is read in  *)
(* batches or else in the other ways.                                      *)

Complete == Len(sent) = Len(msg.slices)
Unbatched == \A s \in Slabs : slabs[s] = NewSlab
Following == Unbatched /\ Complete /\ dec.ok /\ got.at < Len(sent) /\ got.how \in {"none", "into", "any", "skip"}
Top == Unbatched /\ Complete /\ Len(sent) = 1 /\ got.at = 0

\* Fields meet by name: kinds agree, and so do the elements of lists.
RECURSIVE Compatible(_, _)
Compatible(type, target) ==
    \A i \in DOMAIN type, k \in DOMAIN target :
        type[i].name = target[k].name =>
            /\ type[i].kind = target[k].kind /\ type[i].null = target[k].null
            /\ type[i].kind = "list" => Compatible(type[i].of, target[k].of)

Read(how, arg, r) ==
    /\ dec' = r.d
    /\ got' = [how |-> how, arg |-> arg, at |-> got.at + 1, ok |-> r.d.ok, rows |-> r.v]
    /\ UNCHANGED <<Reading, Batches>>

Into(target) ==
    /\ Following
    /\ Compatible(msg.slices[got.at + 1].type, target)
    /\ \E r \in {ReadSliceInto(enc.buf, dec, target)} : Read("into", target, r)

AsAny == Following /\ \E r \in {ReadAny(enc.buf, dec)} : Read("any", {}, r)

\* Skip reads the same units and drops what they hold.
Skip == Following /\ \E r \in {ReadAny(enc.buf, dec)} : Read("skip", {}, [r EXCEPT !.v = <<>>])

\* A promise about columnar payloads only: the names filter nothing else.
UnmarshalColumns(select) ==
    /\ Top /\ enc.buf[2].tag = "shapes"
    /\ \E r \in {ReadAny(enc.buf, [dec EXCEPT !.select = select])} :
         Read("columns", select, [r EXCEPT !.d.select = {}])

Planned(q) == [cond |-> PlanQuery(q.opts), select |-> q.select]

Query(target, q) ==
    /\ Top
    /\ Compatible(msg.slices[1].type, target)
    /\ \E r \in {Queried(enc.buf, dec, Planned(q), QueryInto(enc.buf, dec, target, Planned(q)))} :
         Read("query", [target |-> target, q |-> q], r)

QueryMaps(q) ==
    /\ Top
    /\ \E r \in {Queried(enc.buf, dec, Planned(q), QueryAny(enc.buf, dec, Planned(q)))} :
         Read("queryany", q, r)

-----------------------------------------------------------------------------
(* Batches *)

UnmarshalBatch(target, h) ==
    /\ Complete /\ Len(sent) = 1 /\ got.at = 0 /\ batch[h].slab = 0
    /\ Compatible(msg.slices[1].type, target)
    /\ \E s \in {x \in Slabs : pool[x] > 0} : \E r \in {ReadBatch(enc.buf, NewDecoder, Taken(slabs[s]), target)} :
         IF r.d.ok
         THEN /\ slabs' = [slabs EXCEPT ![s] = r.v]
              /\ pool' = [pool EXCEPT ![s] = @ - 1]
              /\ batch' = [batch EXCEPT ![h] = [slab |-> s, n |-> Len(r.v.rows), target |-> target]]
              /\ UNCHANGED <<Reading, dec, got>>
         ELSE /\ got' = [how |-> "batch", arg |-> target, at |-> 1, ok |-> FALSE, rows |-> <<>>]
              /\ UNCHANGED <<Reading, dec, Batches>>

\* The variable forgets its slab: a second release of it does nothing.
ReleaseBatch(h) ==
    /\ Complete /\ Len(sent) = 1
    /\ pool' = IF batch[h].slab = 0 THEN pool ELSE [pool EXCEPT ![batch[h].slab] = @ + 1]
    /\ batch' = [batch EXCEPT ![h] = NoBatch]
    /\ UNCHANGED <<Reading, dec, got, slabs>>

Next ==
    \/ Encode
    \/ \E target \in Targets : Into(target)
    \/ AsAny
    \/ Skip
    \/ \E select \in Selections : UnmarshalColumns(select)
    \/ \E target \in QueryTargets, q \in Queries : Query(target, q)
    \/ \E q \in Queries : QueryMaps(q)
    \/ \E target \in BatchTargets, h \in Holders : UnmarshalBatch(target, h)
    \/ \E h \in Holders : ReleaseBatch(h)

Spec == Init /\ [][Next]_vars

-----------------------------------------------------------------------------
(* What a read promises, from the rows that were written *)

RECURSIVE Project(_, _, _)
Project(type, target, rows) ==
    LET Value(k, row) ==
            LET at == SlotNamed(Slots(type), target[k].name) IN
            IF at = 0 THEN Zero(target[k])
            ELSE IF target[k].kind = "list" THEN Project(type[at].of, target[k].of, row[at])
            ELSE row[at]
    IN [i \in DOMAIN rows |-> [k \in DOMAIN target |-> Value(k, rows[i])]]

RECURSIVE AsMaps(_, _, _)
AsMaps(type, names, rows) ==
    LET Value(f, v) ==
            CASE f.null -> IF v = <<>> THEN Nil ELSE v[1]
              [] ~f.null /\ f.kind = "list" -> AsMaps(f.of, {f.of[k].name : k \in DOMAIN f.of}, v)
              [] OTHER -> v
        at(name) == SlotNamed(Slots(type), name)
    IN [i \in DOMAIN rows |->
          [name \in {n \in names : at(n) # 0} |-> Value(type[at(name)], rows[i][at(name)])]]

Names(type) == {type[k].name : k \in DOMAIN type}

\* Three-valued truth of the conditions as the caller wrote them.
RECURSIVE Truth(_, _, _)
Truth(n, type, row) ==
    LET kid == {Truth(n.kids[i], type, row) : i \in DOMAIN n.kids}
        at == SlotNamed(Slots(type), n.term.field)
    IN CASE n.op = "leaf" -> IF type[at].null
                             THEN IF row[at] = <<>> THEN "unknown"
                                  ELSE IF Accepts(n.term, row[at][1]) THEN "true" ELSE "false"
                             ELSE IF Accepts(n.term, row[at]) THEN "true" ELSE "false"
         [] n.op = "not" -> IF kid = {"true"} THEN "false" ELSE IF kid = {"false"} THEN "true" ELSE "unknown"
         [] n.op = "and" -> IF "false" \in kid THEN "false" ELSE IF "unknown" \in kid THEN "unknown" ELSE "true"
         [] n.op = "or" -> IF "true" \in kid THEN "true" ELSE IF "unknown" \in kid THEN "unknown" ELSE "false"

RECURSIVE Misused(_), Terms(_)
Misused(n) == n.err \/ \E i \in DOMAIN n.kids : Misused(n.kids[i])
Terms(n) == (IF n.op = "leaf" THEN {n.term} ELSE {}) \cup UNION {Terms(n.kids[i]) : i \in DOMAIN n.kids}

Conditions(q) == {q.opts[i] : i \in {j \in DOMAIN q.opts : q.opts[j].op # "select"}}

\* A query answers when the slice is transposed and its terms fit the fields.
Answers(q, type) ==
    /\ enc.buf[2].tag = "shapes"
    /\ \A n \in Conditions(q) :
         /\ ~Misused(n)
         /\ \A t \in Terms(n) : LET at == SlotNamed(Slots(type), t.field)
                                IN at # 0 /\ (at # 0 => ColKind(type[at]).base = t.want)

Chosen(q, type, rows) ==
    LET Keep(row) == \A n \in Conditions(q) : Truth(n, type, row) = "true" IN SelectSeq(rows, Keep)

\* Columns outside a projection keep their zero.
Narrowed(type, names) ==
    LET In(f) == names = {} \/ f.name \in names IN SelectSeq(type, In)
OnlyColumns(type, names, rows) ==
    LET In(s) == names = {} \/ s.f.name \in names
        slots == SelectSeq(Slots(type), In)
    IN [i \in DOMAIN rows |-> [k \in DOMAIN slots |-> rows[i][slots[k].at]]]

\* A batch as the caller sees it through its handles.
Resolved(x) ==
    LET slab == slabs[x.slab]
        Cell(f, v) == IF f.kind \notin {"string", "bytes"} THEN v
                      ELSE IF v \in DOMAIN slab.bodies THEN slab.bodies[v] ELSE ""
    IN [i \in 1 .. x.n |-> [k \in DOMAIN x.target |-> Cell(x.target[k], slab.rows[i][k])]]

-----------------------------------------------------------------------------
(* Properties *)

\* Both sides hold the state the code gives them.
TypeOK ==
    /\ msg \in Messages
    /\ Len(sent) <= Len(msg.slices)
    /\ DOMAIN enc = DOMAIN NewEncoder(msg) /\ enc.depth \in Nat
    /\ DOMAIN dec = DOMAIN NewDecoder /\ dec.i \in 1 .. Len(enc.buf) + 1 /\ dec.cap \in Nat
    /\ DOMAIN got = DOMAIN Nothing /\ got.at \in 0 .. Len(sent)
    /\ DOMAIN slabs = Slabs /\ pool \in [Slabs -> Nat]
    /\ \A h \in Holders : batch[h].slab \in Slabs \cup {0}

\* Whatever container each slice took, with whatever columns demoted, and
\* whatever was read or passed over before it, a slice reads back as the rows
\* that were written: into any type by field name, and into maps.
Lossless ==
    got.how \in {"into", "any", "skip", "columns"} =>
        LET slice == msg.slices[got.at]
        IN /\ got.ok
           /\ CASE got.how = "into" -> got.rows = Project(slice.type, got.arg, slice.rows)
                [] got.how = "any" -> got.rows = AsMaps(slice.type, Names(slice.type), slice.rows)
                [] got.how = "skip" -> got.rows = <<>>
                [] got.how = "columns" ->
                     got.rows = AsMaps(slice.type, IF got.arg = {} THEN Names(slice.type) ELSE got.arg, slice.rows)

\* A query gives the rows for which its conditions are true in three-valued
\* logic, whatever the tree was simplified to, whichever zones the bounds ruled
\* out and whichever columns were decoded late; it refuses what it cannot answer.
QueryExact ==
    got.how \in {"query", "queryany"} =>
        LET slice == msg.slices[1]
            q == IF got.how = "query" THEN got.arg.q ELSE got.arg
            rows == Chosen(q, slice.type, slice.rows)
            type == Narrowed(slice.type, q.select)
        IN IF ~Answers(q, slice.type) THEN ~got.ok
           ELSE /\ got.ok
                /\ got.rows = IF got.how = "query"
                              THEN Project(type, got.arg.target, OnlyColumns(slice.type, q.select, rows))
                              ELSE AsMaps(slice.type, IF q.select = {} THEN Names(slice.type) ELSE q.select, rows)

\* After each slice the decoder stands where the encoder stood, with the same
\* strings, shapes and hybrid shapes under the same numbers.  The shapes of
\* partial plans included: they are declared from a scratch that the plan of a
\* later slice, or of a list inside the same rows, writes over.
TablesInStep ==
    got.how \in {"into", "any", "skip"} =>
        LET e == sent[got.at]
        IN dec.i = Len(e.buf) + 1 /\ dec.strings = e.strings /\ dec.shapes = e.shapes /\ dec.hybrids = e.hybrids

\* Between slices neither side keeps anything of a slice: no level of plans, no
\* bound on lengths, no switch on how strings are read.
NothingLeftBehind == enc.depth = 0 /\ dec.cap = 0 /\ ~dec.nopool /\ dec.select = {}

\* A batch that its caller has not released resolves to the rows it was decoded
\* from, whatever other batches were decoded and released meanwhile; an absent
\* field is zero although its memory held an earlier batch.  No batch is refused.
BatchIntact ==
    /\ got.how # "batch"
    /\ \A h \in Holders : batch[h].slab # 0 =>
         Resolved(batch[h]) = Project(msg.slices[1].type, batch[h].target, msg.slices[1].rows)

=============================================================================
