-------------------------- MODULE DenseCodecProofs --------------------------
(***************************************************************************)
(* What the operators of DenseCodec preserve: the types of the tables, and *)
(* the two facts the lockstep of encoder and decoder rests on.  A form the *)
(* encoder writes, read in the encoder's own tables, gives the string back *)
(* and leaves the tables the encoder left (StateRefInStep, StringInStep);  *)
(* and a decoder whose tables mirror the encoder's reads it just the same  *)
(* (ReadInStep).                                                           *)
(***************************************************************************)
EXTENDS DenseCodec, SequenceTheorems, TLAPS

-----------------------------------------------------------------------------
(* Types *)

\* A slot of the ring holds an id or nothing.
LEMMA RingIndex ==
    ASSUME NEW t \in Tables, NEW r \in RingSlots
    PROVE  MruAt(t, r) \in OptId
<1>1. (t.mruHead + MruRingSize - 1 - r) % MruRingSize \in RingSlots
  BY CodecAssumption, SMT DEF Tables, RingSlots
<1>2. t.mruRing \in [RingSlots -> OptId]
  BY DEF Tables
<1> QED
  BY <1>1, <1>2 DEF MruAt

\* Pushing an id moves the ring and nothing else.
LEMMA MruPushType ==
    ASSUME NEW t \in Tables, NEW id \in Ids
    PROVE  /\ MruPush(t, id) \in Tables
           /\ MruPush(t, id).values = t.values
           /\ MruPush(t, id).lastID = t.lastID
           /\ MruPush(t, id).pairPred = t.pairPred
<1>1. (t.mruHead + 1) % MruRingSize \in RingSlots
  BY CodecAssumption, SMT DEF Tables, RingSlots
<1> QED
  BY <1>1 DEF MruPush, Tables, OptId

\* Recording a transition moves the successor table and nothing else.
LEMMA PairRecordType ==
    ASSUME NEW t \in Tables, NEW prev \in OptId, NEW id \in Ids
    PROVE  /\ PairRecord(t, prev, id) \in Tables
           /\ PairRecord(t, prev, id).values = t.values
           /\ PairRecord(t, prev, id).lastID = t.lastID
           /\ PairRecord(t, prev, id).mruRing = t.mruRing
           /\ PairRecord(t, prev, id).mruHead = t.mruHead
  BY DEF PairRecord, Tables, OptId, NoId

LEMMA ForgetLastType ==
    ASSUME NEW t \in Tables
    PROVE  /\ ForgetLast(t) \in Tables
           /\ ForgetLast(t).values = t.values
  BY DEF ForgetLast, Tables, OptId

LEMMA EmptyTablesType == EmptyTables \in Tables
<1>1. <<>> \in Seq(Strings)
  OBVIOUS
<1>2. 0 \in RingSlots
  BY CodecAssumption DEF RingSlots
<1> QED
  BY <1>1, <1>2 DEF EmptyTables, Tables, OptId

\* What an emit of id ends on: the ring pushed, the transition recorded when
\* predicted or recorded is set, lastID moved.
LEMMA EmitType ==
    ASSUME NEW t \in Tables, NEW id \in Ids, NEW o
    PROVE  /\ [EncPair(MruPush(t, id), t.lastID, id, o) EXCEPT !.lastID = id] \in Tables
           /\ [EncPair(MruPush(t, id), t.lastID, id, o) EXCEPT !.lastID = id].values
                = t.values
<1>1. MruPush(t, id) \in Tables /\ MruPush(t, id).values = t.values
  BY MruPushType
<1>2. t.lastID \in OptId
  BY DEF Tables
<1>3. PairRecord(MruPush(t, id), t.lastID, id) \in Tables
      /\ PairRecord(MruPush(t, id), t.lastID, id).values = t.values
  BY <1>1, <1>2, PairRecordType
<1>4. EncPair(MruPush(t, id), t.lastID, id, o) \in Tables
      /\ EncPair(MruPush(t, id), t.lastID, id, o).values = t.values
  BY <1>1, <1>3 DEF EncPair
<1> QED
  BY <1>4 DEF Tables, OptId

LEMMA StateRefType ==
    ASSUME NEW t \in Tables, NEW id \in Ids, NEW o
    PROVE  /\ AfterStateRef(t, id, o) \in Tables
           /\ AfterStateRef(t, id, o).values = t.values
           /\ StateRefForm(t, id, o) \in Forms
<1>1. CASE t.lastID = id
  <2>1. PairRecord(t, id, id) \in Tables /\ PairRecord(t, id, id).values = t.values
    BY PairRecordType DEF OptId
  <2>2. RefForm("repeat", 0) \in Forms
    BY DEF RefForm, Forms
  <2> QED
    BY <1>1, <2>1, <2>2 DEF AfterStateRef, StateRefForm, EncPair
<1>2. CASE t.lastID # id
  <2>1. AfterStateRef(t, id, o) \in Tables /\ AfterStateRef(t, id, o).values = t.values
    BY <1>2, EmitType DEF AfterStateRef
  <2>2. RefForm("ref", id) \in Forms /\ RefForm("pair", 0) \in Forms
    BY DEF RefForm, Forms, Ids
  <2>3. ASSUME \E r \in RingSlots : MruRankIs(t, id, r)
        PROVE  RefForm("mtf", CHOOSE r \in RingSlots : MruRankIs(t, id, r)) \in Forms
    BY <2>3 DEF RefForm, Forms, RingSlots
  <2>4. StateRefForm(t, id, o) \in Forms
    BY <1>2, <2>2, <2>3 DEF StateRefForm
  <2> QED
    BY <2>1, <2>4
<1> QED
  BY <1>1, <1>2

LEMMA InternType ==
    ASSUME NEW t \in Tables, NEW s \in Strings, NEW o,
           Len(t.values) < MaxInternEntries
    PROVE  /\ AfterIntern(t, s, o) \in Tables
           /\ AfterIntern(t, s, o).values = Append(t.values, s)
           /\ InternForm(s) \in Forms
<1> DEFINE reg == [t EXCEPT !.values = Append(t.values, s)]
<1>1. Len(t.values) \in Ids
  BY CodecAssumption DEF Tables, Ids
<1>2. reg \in Tables /\ reg.values = Append(t.values, s) /\ reg.lastID = t.lastID
  <2>1. Append(t.values, s) \in Seq(Strings)
    BY DEF Tables
  <2> QED
    BY <2>1 DEF Tables
<1>3. AfterIntern(t, s, o)
        = [EncPair(MruPush(reg, Len(t.values)), reg.lastID, Len(t.values), o)
             EXCEPT !.lastID = Len(t.values)]
  BY <1>2 DEF AfterIntern
<1> HIDE DEF reg
<1>4. AfterIntern(t, s, o) \in Tables /\ AfterIntern(t, s, o).values = reg.values
  BY <1>1, <1>2, <1>3, EmitType
<1>5. InternForm(s) \in Forms
  BY DEF InternForm, Forms
<1> QED
  BY <1>2, <1>4, <1>5

\* An interned string is found under a registered id.
LEMMA IdOfRegistered ==
    ASSUME NEW t, NEW s, Interned(t, s)
    PROVE  IdOf(t, s) \in Ids /\ Registered(t, IdOf(t, s)) /\ ValueOf(t, IdOf(t, s)) = s
  BY DEF Interned, IdOf

\* WriteString keeps the types, and only ever appends to the table.
LEMMA StringType ==
    ASSUME NEW t \in Tables, NEW s \in Strings, NEW o
    PROVE  /\ AfterString(t, s, o) \in Tables
           /\ AfterString(t, s, o).values = t.values
              \/ AfterString(t, s, o).values = Append(t.values, s)
           /\ StringForm(t, s, o) \in Forms
<1>1. CASE ~Internable(t, s)
  <2>1. InlineForm(s) \in Forms
    BY DEF InlineForm, Forms
  <2> QED
    BY <1>1, <2>1, ForgetLastType DEF AfterString, StringForm
<1>2. CASE Internable(t, s) /\ Interned(t, s)
  BY <1>2, IdOfRegistered, StateRefType DEF AfterString, StringForm
<1>3. CASE Internable(t, s) /\ ~Interned(t, s)
  <2>1. Len(t.values) < MaxInternEntries
    BY <1>3, CodecAssumption DEF Internable, Tables
  <2> QED
    BY <1>3, <2>1, InternType DEF AfterString, StringForm
<1> QED
  BY <1>1, <1>2, <1>3

\* Reading a form that the decoder takes keeps the types.
LEMMA ReadType ==
    ASSUME NEW t \in Tables, NEW lru, NEW f \in Forms, Readable(t, lru, f)
    PROVE  /\ AfterRead(t, lru, f) \in Tables
           /\ ReadValue(t, lru, f) \in Strings
<1> DEFINE id == ReadId(t, lru, f)
<1>1. CASE f.tag = "inline"
  <2>1. f.str \in Strings
    BY <1>1 DEF Forms
  <2>2. AfterRead(t, lru, f) = ForgetLast(t) /\ ReadValue(t, lru, f) = f.str
    BY <1>1 DEF AfterRead, ReadValue
  <2> QED
    BY <2>1, <2>2, ForgetLastType
<1>2. CASE f.tag = "intern"
  <2> DEFINE o == [pairPred |-> TRUE]
  <2>1. f.str \in Strings /\ Len(t.values) < MaxInternEntries
    BY <1>2 DEF Forms, Readable
  <2>2. AfterRead(t, lru, f) = AfterIntern(t, f.str, o)
    <3>1. t.lastID = [t EXCEPT !.values = Append(t.values, f.str)].lastID
      BY DEF Tables
    <3> QED
      BY <1>2, <3>1 DEF AfterRead, AfterIntern, ReadId, EncPair
  <2>3. ReadValue(t, lru, f) = f.str
    BY <1>2 DEF ReadValue
  <2> QED
    BY <2>1, <2>2, <2>3, InternType
<1>3. CASE f.tag \in {"ref", "mtf", "pair", "repeat"}
  <2>1. id = ResolveId(t, lru, f) /\ Registered(t, id)
    BY <1>3 DEF Readable, ReadId
  <2>2. id \in Ids /\ id + 1 \in 1 .. Len(t.values)
    BY <2>1 DEF Registered, Ids, Tables
  <2>3. ReadValue(t, lru, f) \in Strings
    BY <1>3, <2>1, <2>2 DEF ReadValue, ValueOf, Tables
  <2>4. CASE f.tag = "repeat"
    <3>1. AfterRead(t, lru, f) = PairRecord(t, id, id)
      BY <2>4 DEF AfterRead
    <3> QED
      BY <2>2, <2>3, <3>1, PairRecordType DEF OptId
  <2>5. CASE f.tag # "repeat"
    <3> DEFINE o == [pairPred |-> TRUE]
    <3>1. AfterRead(t, lru, f)
            = [EncPair(MruPush(t, id), t.lastID, id, o) EXCEPT !.lastID = id]
      BY <1>3, <2>5 DEF AfterRead, EncPair
    <3> HIDE DEF id, o
    <3> QED
      BY <2>2, <2>3, <3>1, EmitType
  <2> QED
    BY <2>4, <2>5
<1> QED
  BY <1>1, <1>2, <1>3 DEF Forms

\* lruAddFresh and lruMoveToFront keep the shape of the links.
LEMMA LruType ==
    ASSUME NEW lru \in Lrus, NEW id \in Ids
    PROVE  LruAddFresh(lru, id) \in Lrus /\ LruMoveToFront(lru, id) \in Lrus
<1>1. ASSUME NEW l \in Lrus PROVE LruAddFresh(l, id) \in Lrus
  BY DEF LruAddFresh, Lrus, OptId, NoId
<1>2. LruUnlink(lru, id) \in Lrus
  BY DEF LruUnlink, Lrus, OptId
<1> QED
  BY <1>1, <1>2 DEF LruMoveToFront

LEMMA LruReadType ==
    ASSUME NEW t \in Tables, NEW lru \in Lrus, NEW f \in Forms, Readable(t, lru, f)
    PROVE  LruAfterRead(t, lru, f) \in Lrus
<1>1. CASE f.tag = "intern"
  <2>1. Len(t.values) \in Ids
    BY <1>1, CodecAssumption DEF Readable, Tables, Ids
  <2> QED
    BY <1>1, <2>1, LruType DEF LruAfterRead, ReadId
<1>2. CASE f.tag \in {"ref", "mtf", "pair"}
  <2>1. ReadId(t, lru, f) \in Ids
    BY <1>2 DEF ReadId, Readable, Registered
  <2> QED
    BY <1>2, <2>1, LruType DEF LruAfterRead
<1>3. CASE f.tag \in {"inline", "repeat"}
  BY <1>3 DEF LruAfterRead
<1> QED
  BY <1>1, <1>2, <1>3 DEF Forms

LEMMA EmptyLruType == EmptyLru \in Lrus
  BY DEF EmptyLru, Lrus, OptId

\* A registered id keeps its value while the table only grows.
LEMMA IdsKept ==
    ASSUME NEW t \in Tables, NEW u \in Tables, NEW id \in Ids,
           u.values = t.values \/ \E s \in Strings : u.values = Append(t.values, s),
           Registered(t, id)
    PROVE  Registered(u, id) /\ ValueOf(u, id) = ValueOf(t, id)
<1>1. t.values \in Seq(Strings)
  BY DEF Tables
<1>2. /\ Len(u.values) \in Nat /\ Len(u.values) >= Len(t.values)
      /\ \A k \in 1 .. Len(t.values) : u.values[k] = t.values[k]
  BY <1>1 DEF Tables
<1>3. id \in Int /\ id >= 0 /\ id < Len(t.values) /\ Len(t.values) \in Nat
  BY <1>1, CodecAssumption DEF Registered, Ids
<1>4. id + 1 \in 1 .. Len(t.values)
  BY <1>3
<1> QED
  BY <1>2, <1>3, <1>4 DEF Registered, ValueOf

-----------------------------------------------------------------------------
(* The wire as a sequence of items, and the values it carries *)

LEMMA EmptyIffNoLen == ASSUME NEW S, NEW q \in Seq(S)
                       PROVE  q = <<>> <=> Len(q) = 0
  OBVIOUS

\* A sequence without its oldest element.
LEMMA TailOfSeq ==
    ASSUME NEW S, NEW q \in Seq(S), q # <<>>
    PROVE  /\ Len(q) \in Nat /\ Len(q) > 0
           /\ Tail(q) \in Seq(S)
           /\ Len(Tail(q)) = Len(q) - 1
           /\ \A i \in 1 .. Len(Tail(q)) : Tail(q)[i] = q[i + 1]
           /\ Tail(q) = <<>> <=> Len(q) = 1
<1>1. /\ Len(q) \in Nat /\ Len(q) > 0
      /\ Tail(q) \in Seq(S)
      /\ Len(Tail(q)) = Len(q) - 1
  OBVIOUS
<1>2. \A i \in 1 .. Len(Tail(q)) : Tail(q)[i] = q[i + 1]
  BY <1>1
<1>3. Tail(q) = <<>> <=> Len(q) = 1
  <2>1. Tail(q) = <<>> <=> Len(Tail(q)) = 0
    BY <1>1, EmptyIffNoLen
  <2> QED
    BY <1>1, <2>1
<1> QED
  BY <1>1, <1>2, <1>3

\* What was written, in the order of the wire: the abstract queue.
ValuesOf(q) == [i \in 1 .. Len(q) |-> q[i].wrote]

LEMMA ValuesType ==
    ASSUME NEW S, NEW W, \A x \in S : x.wrote \in W, NEW q \in Seq(S)
    PROVE  /\ ValuesOf(q) \in Seq(W)
           /\ Len(ValuesOf(q)) = Len(q)
           /\ \A i \in 1 .. Len(q) : ValuesOf(q)[i] = q[i].wrote
<1>1. Len(q) \in Nat
  OBVIOUS
<1>2. ASSUME NEW i \in 1 .. Len(q) PROVE q[i].wrote \in W
  <2>1. q[i] \in S
    OBVIOUS
  <2> QED
    BY <2>1
<1> QED
  BY <1>1, <1>2 DEF ValuesOf

LEMMA ValuesAppend ==
    ASSUME NEW S, NEW W, \A y \in S : y.wrote \in W, NEW q \in Seq(S), NEW x \in S
    PROVE  ValuesOf(Append(q, x)) = Append(ValuesOf(q), x.wrote)
<1> DEFINE a == Append(q, x)
           b == Append(ValuesOf(q), x.wrote)
<1>1. a \in Seq(S) /\ Len(a) = Len(q) + 1 /\ Len(q) \in Nat
      /\ a[Len(q) + 1] = x /\ \A i \in 1 .. Len(q) : a[i] = q[i]
  OBVIOUS
<1>3. ValuesOf(q) \in Seq(W) /\ Len(ValuesOf(q)) = Len(q)
      /\ \A i \in 1 .. Len(q) : ValuesOf(q)[i] = q[i].wrote
  BY ValuesType
<1>4. ValuesOf(a) \in Seq(W) /\ Len(ValuesOf(a)) = Len(a)
      /\ \A i \in 1 .. Len(a) : ValuesOf(a)[i] = a[i].wrote
  BY <1>1, ValuesType
<1>5. b \in Seq(W) /\ Len(b) = Len(q) + 1 /\ b[Len(q) + 1] = x.wrote
      /\ \A i \in 1 .. Len(q) : b[i] = ValuesOf(q)[i]
  BY <1>1, <1>3
<1> HIDE DEF a, b
<1>6. \A i \in 1 .. Len(q) + 1 : ValuesOf(a)[i] = b[i]
  <2> SUFFICES ASSUME NEW i \in 1 .. Len(q) + 1 PROVE ValuesOf(a)[i] = b[i]
    OBVIOUS
  <2>1. i \in 1 .. Len(q) \/ i = Len(q) + 1
    BY <1>1
  <2> QED
    BY <1>1, <1>3, <1>4, <1>5, <2>1
<1>7. ValuesOf(a) = b
  BY <1>1, <1>4, <1>5, <1>6, SeqEqual
<1> QED
  BY <1>7 DEF a, b

LEMMA ValuesTail ==
    ASSUME NEW S, NEW W, \A x \in S : x.wrote \in W, NEW q \in Seq(S), q # <<>>
    PROVE  /\ ValuesOf(q) # <<>>
           /\ Head(ValuesOf(q)) = q[1].wrote
           /\ ValuesOf(Tail(q)) = Tail(ValuesOf(q))
<1> DEFINE a == Tail(q)
           v == ValuesOf(q)
           b == Tail(v)
<1>1. a \in Seq(S) /\ Len(a) = Len(q) - 1 /\ Len(q) \in Nat /\ Len(q) > 0
      /\ \A i \in 1 .. Len(a) : a[i] = q[i + 1]
  BY TailOfSeq
<1>2. v \in Seq(W) /\ Len(v) = Len(q)
      /\ \A i \in 1 .. Len(q) : v[i] = q[i].wrote
  BY ValuesType
<1>3. ValuesOf(a) \in Seq(W) /\ Len(ValuesOf(a)) = Len(a)
      /\ \A i \in 1 .. Len(a) : ValuesOf(a)[i] = a[i].wrote
  BY <1>1, ValuesType
<1> HIDE DEF v
<1>4. v # <<>> /\ Head(v) = q[1].wrote
  BY <1>1, <1>2
<1>5. b \in Seq(W) /\ Len(b) = Len(q) - 1
      /\ \A i \in 1 .. Len(b) : b[i] = v[i + 1]
  BY <1>1, <1>2, <1>4, TailOfSeq
<1> HIDE DEF a, b
<1>6. ASSUME NEW i \in 1 .. Len(a) PROVE ValuesOf(a)[i] = b[i]
  <2>1. i \in 1 .. Len(b) /\ i + 1 \in 1 .. Len(q)
    BY <1>1, <1>5
  <2> QED
    BY <1>1, <1>2, <1>3, <1>5, <2>1
<1>7. ValuesOf(a) = b
  BY <1>1, <1>3, <1>5, <1>6, SeqEqual
<1> QED
  BY <1>4, <1>7 DEF a, b, v

-----------------------------------------------------------------------------
(* Lockstep *)

\* emitStateRef: whichever of the four forms it picks, the form names id in
\* the encoder's own tables, and reading it there does what the encoder did.
LEMMA StateRefInStep ==
    ASSUME NEW t \in Tables, NEW id, NEW o, Registered(t, id)
    PROVE  LET f == StateRefForm(t, id, o)
           IN  /\ Faithful(f, ValueOf(t, id), t, o)
               /\ Mirrors(AfterRead(t, EmptyLru, f), AfterStateRef(t, id, o), o)
<1> DEFINE f == StateRefForm(t, id, o)
<1>1. id \in Ids /\ id # NoId
  BY DEF Registered, Ids, NoId
<1>2. f.tag \in {"ref", "mtf", "pair", "repeat"}
      /\ (f.tag = "repeat" <=> t.lastID = id)
      /\ (f.tag = "ref" => f.n = id)
      /\ (f.tag = "pair" => o.pairPred /\ t.lastID # NoId /\ t.pairPred[t.lastID] = id)
      /\ (f.tag = "mtf" => f.n \in RingSlots /\ MruRankIs(t, id, f.n))
  <2>1. CASE t.lastID = id
    BY <2>1 DEF StateRefForm, RefForm
  <2>2. CASE t.lastID # id /\ ~(\E r \in RingSlots : MruRankIs(t, id, r)
                                     /\ UvarintLen(r) < UvarintLen(id))
    BY <2>2 DEF StateRefForm, RefForm
  <2>3. CASE t.lastID # id /\ \E r \in RingSlots : MruRankIs(t, id, r)
                                     /\ UvarintLen(r) < UvarintLen(id)
    <3> DEFINE rank == CHOOSE r \in RingSlots : MruRankIs(t, id, r)
    <3>1. rank \in RingSlots /\ MruRankIs(t, id, rank)
      BY <2>3
    <3> QED
      BY <2>3, <3>1 DEF StateRefForm, RefForm
  <2> QED
    BY <2>1, <2>2, <2>3
<1>3. f.tag = "mtf" => MruAt(t, f.n) = id /\ MruAt(t, f.n) # NoId
  BY <1>1, <1>2 DEF MruRankIs
<1>4. ResolveId(t, EmptyLru, f) = id
  BY <1>2, <1>3 DEF ResolveId, IdAtRank
<1>5. Faithful(f, ValueOf(t, id), t, o)
  BY <1>2, <1>3, <1>4 DEF Faithful
<1>6. CASE t.lastID = id
  <2>1. AfterRead(t, EmptyLru, f) = PairRecord(t, id, id)
    BY <1>2, <1>4, <1>6 DEF AfterRead, ReadId
  <2>2. AfterStateRef(t, id, o) = IF o.pairPred THEN PairRecord(t, id, id) ELSE t
    BY <1>6 DEF AfterStateRef, EncPair
  <2>3. Mirrors(PairRecord(t, id, id), t, [pairPred |-> FALSE])
    BY <1>1, PairRecordType DEF Mirrors, OptId
  <2> QED
    BY <1>5, <2>1, <2>2, <2>3 DEF Mirrors
<1>7. CASE t.lastID # id
  <2> DEFINE m == MruPush(t, id)
  <2>1. AfterRead(t, EmptyLru, f) = [PairRecord(m, t.lastID, id) EXCEPT !.lastID = id]
    BY <1>2, <1>4, <1>7 DEF AfterRead, ReadId
  <2>2. AfterStateRef(t, id, o)
          = [(IF o.pairPred THEN PairRecord(m, t.lastID, id) ELSE m) EXCEPT !.lastID = id]
    BY <1>7 DEF AfterStateRef, EncPair
  <2>3. m \in Tables
    BY <1>1, MruPushType
  <2> HIDE DEF m
  <2>4. t.lastID \in OptId
    BY DEF Tables
  <2>5. /\ PairRecord(m, t.lastID, id) \in Tables
        /\ PairRecord(m, t.lastID, id).values = m.values
        /\ PairRecord(m, t.lastID, id).mruRing = m.mruRing
        /\ PairRecord(m, t.lastID, id).mruHead = m.mruHead
    BY <1>1, <2>3, <2>4, PairRecordType
  <2>6. Mirrors(AfterRead(t, EmptyLru, f), AfterStateRef(t, id, o), o)
    <3>1. CASE o.pairPred
      BY <2>1, <2>2, <3>1 DEF Mirrors
    <3>2. CASE ~o.pairPred
      BY <2>1, <2>2, <2>3, <2>5, <3>2 DEF Mirrors, Tables
    <3> QED
      BY <3>1, <3>2
  <2> QED
    BY <1>5, <2>6
<1> QED
  BY <1>6, <1>7

\* An intern record registers on both sides under the same id.
LEMMA InternInStep ==
    ASSUME NEW t \in Tables, NEW s \in Strings, NEW o,
           Len(t.values) < MaxInternEntries
    PROVE  /\ Faithful(InternForm(s), s, t, o)
           /\ Mirrors(AfterRead(t, EmptyLru, InternForm(s)), AfterIntern(t, s, o), o)
<1> DEFINE reg == [t EXCEPT !.values = Append(t.values, s)]
           id  == Len(t.values)
           m   == MruPush(reg, id)
<1>1. id \in Ids
  BY CodecAssumption DEF Tables, Ids
<1>2. reg \in Tables /\ reg.lastID = t.lastID
  <2>1. Append(t.values, s) \in Seq(Strings)
    BY DEF Tables
  <2> QED
    BY <2>1 DEF Tables
<1>3. AfterRead(t, EmptyLru, InternForm(s))
        = [PairRecord(m, t.lastID, id) EXCEPT !.lastID = id]
  BY <1>2 DEF AfterRead, ReadId, InternForm
<1>4. AfterIntern(t, s, o)
        = [(IF o.pairPred THEN PairRecord(m, t.lastID, id) ELSE m) EXCEPT !.lastID = id]
  BY <1>2 DEF AfterIntern, EncPair
<1> HIDE DEF reg, id
<1>5. m \in Tables
  BY <1>1, <1>2, MruPushType
<1> HIDE DEF m
<1>6. t.lastID \in OptId
  BY DEF Tables
<1>7. /\ PairRecord(m, t.lastID, id) \in Tables
      /\ PairRecord(m, t.lastID, id).values = m.values
      /\ PairRecord(m, t.lastID, id).mruRing = m.mruRing
      /\ PairRecord(m, t.lastID, id).mruHead = m.mruHead
  BY <1>1, <1>5, <1>6, PairRecordType
<1>8. Mirrors(AfterRead(t, EmptyLru, InternForm(s)), AfterIntern(t, s, o), o)
  <2>1. CASE o.pairPred
    BY <1>3, <1>4, <2>1 DEF Mirrors
  <2>2. CASE ~o.pairPred
    BY <1>3, <1>4, <1>5, <1>7, <2>2 DEF Mirrors, Tables
  <2> QED
    BY <2>1, <2>2
<1>9. Faithful(InternForm(s), s, t, o)
  BY DEF Faithful, InternForm
<1> QED
  BY <1>8, <1>9

\* A string sent in line drops lastID on both sides.
LEMMA InlineInStep ==
    ASSUME NEW t \in Tables, NEW s \in Strings, NEW o
    PROVE  /\ Faithful(InlineForm(s), s, t, o)
           /\ Mirrors(AfterRead(t, EmptyLru, InlineForm(s)), ForgetLast(t), o)
  BY DEF Faithful, InlineForm, Mirrors, AfterRead

\* WriteString and WriteBytes: what they emit gives the string back, and
\* takes a decoder in the encoder's place to the encoder's new place.
LEMMA StringInStep ==
    ASSUME NEW t \in Tables, NEW s \in Strings, NEW o
    PROVE  /\ Faithful(StringForm(t, s, o), s, t, o)
           /\ Mirrors(AfterRead(t, EmptyLru, StringForm(t, s, o)), AfterString(t, s, o), o)
<1>1. CASE ~Internable(t, s)
  BY <1>1, InlineInStep DEF StringForm, AfterString
<1>2. CASE Internable(t, s) /\ Interned(t, s)
  <2>1. Registered(t, IdOf(t, s)) /\ ValueOf(t, IdOf(t, s)) = s
    BY <1>2, IdOfRegistered
  <2>2. /\ Faithful(StateRefForm(t, IdOf(t, s), o), s, t, o)
        /\ Mirrors(AfterRead(t, EmptyLru, StateRefForm(t, IdOf(t, s), o)),
                   AfterStateRef(t, IdOf(t, s), o), o)
    BY <2>1, StateRefInStep
  <2> QED
    BY <1>2, <2>2 DEF StringForm, AfterString
<1>3. CASE Internable(t, s) /\ ~Interned(t, s)
  <2>1. Len(t.values) < MaxInternEntries
    BY <1>3, CodecAssumption DEF Internable, Tables
  <2> QED
    BY <1>3, <2>1, InternInStep DEF StringForm, AfterString
<1> QED
  BY <1>1, <1>2, <1>3

\* readStringBytesRaw: a decoder whose tables mirror the encoder's takes every
\* faithful form, whatever its LRU chain, returns the string, and mirrors
\* what reading in the encoder's own tables gives.
LEMMA ReadInStep ==
    ASSUME NEW d \in Tables, NEW e \in Tables, NEW lru, NEW o, NEW v,
           NEW f \in Forms,
           Mirrors(d, e, o), Faithful(f, v, e, o)
    PROVE  /\ Readable(d, lru, f)
           /\ ReadValue(d, lru, f) = v
           /\ Mirrors(AfterRead(d, lru, f), AfterRead(e, EmptyLru, f), o)
<1>1. CASE f.tag = "inline"
  BY <1>1 DEF Readable, ReadValue, AfterRead, Mirrors, Faithful, ForgetLast, Tables
<1>2. CASE f.tag = "intern"
  BY <1>2 DEF Readable, ReadValue, AfterRead, ReadId, Mirrors, Faithful, PairRecord,
              MruPush, Tables
<1>3. CASE f.tag \in {"ref", "mtf", "pair", "repeat"}
  <2> DEFINE id == ResolveId(e, EmptyLru, f)
  <2>1. /\ Registered(e, id) /\ ValueOf(e, id) = v
        /\ f.tag = "mtf" => f.n \in RingSlots /\ MruAt(e, f.n) # NoId
        /\ f.tag = "pair" => o.pairPred
    BY <1>3 DEF Faithful
  <2>2. ResolveId(d, lru, f) = id
    <3>1. CASE f.tag = "mtf"
      <4>1. MruAt(d, f.n) = MruAt(e, f.n)
        BY DEF Mirrors, MruAt
      <4> QED
        BY <2>1, <3>1, <4>1 DEF ResolveId, IdAtRank
    <3>2. CASE f.tag # "mtf"
      BY <1>3, <2>1, <3>2 DEF ResolveId, Mirrors
    <3> QED
      BY <3>1, <3>2
  <2>3. Readable(d, lru, f) /\ ReadValue(d, lru, f) = v
    BY <1>3, <2>1, <2>2 DEF Readable, ReadValue, Registered, ValueOf, Mirrors
  <2>4. ReadId(d, lru, f) = id /\ ReadId(e, EmptyLru, f) = id
    BY <1>3, <2>2 DEF ReadId
  <2> HIDE DEF id
  <2>5. id \in Ids
    BY <2>1 DEF Registered
  <2>6. Mirrors(AfterRead(d, lru, f), AfterRead(e, EmptyLru, f), o)
    <3>1. CASE f.tag = "repeat"
      BY <1>3, <2>4, <2>5, <3>1 DEF AfterRead, PairRecord, Mirrors, Tables
    <3>2. CASE f.tag # "repeat"
      BY <1>3, <2>4, <2>5, <3>2 DEF AfterRead, PairRecord, MruPush, Mirrors, Tables
    <3> QED
      BY <3>1, <3>2
  <2> QED
    BY <2>3, <2>6
<1> QED
  BY <1>1, <1>2, <1>3 DEF Forms
=============================================================================
