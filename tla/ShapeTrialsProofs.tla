------------------------- MODULE ShapeTrialsProofs -------------------------
(***************************************************************************)
(* ShapeTrials, for every set of strings and shapes, every cap and bound,  *)
(* where a struct declares its shape outside a chain of references and the *)
(* keys of a keyed body are strings: the shape ids and the tables stay in  *)
(* step through every trial, and everything is read back as it was         *)
(* written.  What a string does to the tables is proved in                 *)
(* DenseCodecProofs; this module is about trials and shapes.               *)
(***************************************************************************)
EXTENDS ShapeTrials, DenseCodecProofs, NaturalsInduction, WellFoundedInduction

-----------------------------------------------------------------------------
(* The names a body declares *)

\* The less-than relation on the naturals is well founded, as a set of pairs.
LEMMA NatLessWellFounded ==
    ASSUME NEW R, R = {p \in Nat \X Nat : p[1] < p[2]}
    PROVE  IsWellFoundedOn(R, Nat)
<1>1. R = OpToRel(<, Nat)
  BY DEF OpToRel
<1> QED BY <1>1, NatLessThanWellFounded

\* A set of naturals that is not empty has a least element, and the number
\* before that one, if there is any, is not in the set.
LEMMA Least ==
    ASSUME NEW S \in SUBSET Nat, S # {}
    PROVE  \E m \in S : m = 0 \/ (m - 1 \in Nat /\ m - 1 \notin S)
<1>1. PICK R : R = {p \in Nat \X Nat : p[1] < p[2]}
  OBVIOUS
<1>2. PICK m \in S : \A n \in S : ~ (<<n, m>> \in R)
  BY <1>1, NatLessWellFounded, WFMin
<1>3. ASSUME m # 0 PROVE m - 1 \in Nat /\ m - 1 \notin S
  <2>1. m - 1 \in Nat /\ m - 1 < m
    BY <1>3
  <2>2. <<m - 1, m>> \in R
    BY <1>1, <2>1
  <2> QED BY <1>2, <2>1, <2>2
<1> QED BY <1>3

\* The names among the first n writes of a body, given those among the first
\* n - 1.
More(g, body, n) ==
    IF body[n].kind = "string" THEN g[n - 1] ELSE Append(g[n - 1], body[n].name)

Counts(g, body, n) ==
    g = [k \in 0 .. n |-> IF k = 0 THEN <<>> ELSE More(g, body, k)]

LEMMA NamesCounted ==
    ASSUME NEW L \in Nat, NEW body,
           \A k \in 1 .. L : body[k].kind = "string" \/ body[k].name \in Strings
    PROVE  \E g \in [0 .. L -> Seq(Strings)] : Counts(g, body, L)
<1> DEFINE Short == {n \in 0 .. L : ~ \E g \in [0 .. n -> Seq(Strings)] : Counts(g, body, n)}
<1>1. Short = {}
  <2> SUFFICES ASSUME Short # {} PROVE FALSE
    OBVIOUS
  <2>1. PICK m \in Short : m = 0 \/ (m - 1 \in Nat /\ m - 1 \notin Short)
    <3>1. Short \in SUBSET Nat
      OBVIOUS
    <3> HIDE DEF Short
    <3> QED BY <3>1, Least
  <2>2. CASE m = 0
    <3> DEFINE h == [k \in 0 .. 0 |-> <<>>]
    <3>1. h \in [0 .. 0 -> Seq(Strings)]
      OBVIOUS
    <3>2. Counts(h, body, 0)
      BY DEF Counts
    <3> HIDE DEF h
    <3> QED BY <2>2, <3>1, <3>2
  <2>3. CASE m # 0
    <3>1. m \in 1 .. L /\ m - 1 \in 0 .. L /\ m - 1 \notin Short
      BY <2>1, <2>3
    <3>2. PICK g \in [0 .. m - 1 -> Seq(Strings)] : Counts(g, body, m - 1)
      BY <3>1
    <3> DEFINE h == [k \in 0 .. m |-> IF k = m THEN More(g, body, m) ELSE g[k]]
    <3>3. More(g, body, m) \in Seq(Strings)
      BY <3>1, <3>2 DEF More
    <3>4. h \in [0 .. m -> Seq(Strings)]
      BY <3>1, <3>2, <3>3
    <3>5. h[0] = <<>> /\ \A k \in 0 .. m - 1 : h[k] = g[k]
      BY <3>1, <3>2 DEF Counts
    <3>6. ASSUME NEW k \in 1 .. m PROVE h[k] = More(h, body, k)
      <4>1. k - 1 \in 0 .. m - 1 /\ h[k - 1] = g[k - 1]
        BY <3>1, <3>5
      <4>2. More(h, body, k) = More(g, body, k)
        BY <4>1 DEF More
      <4>3. CASE k = m
        BY <4>2, <4>3
      <4>4. CASE k # m
        <5>1. k \in 0 .. m - 1 /\ k # 0
          BY <3>1, <4>4
        <5>2. g[k] = More(g, body, k)
          BY <3>2, <5>1 DEF Counts
        <5> QED BY <3>5, <4>2, <5>1, <5>2
      <4> QED BY <4>3, <4>4
    <3>7. Counts(h, body, m)
      <4>1. ASSUME NEW k \in 0 .. m
            PROVE  h[k] = IF k = 0 THEN <<>> ELSE More(h, body, k)
        <5> HIDE DEF h
        <5>1. k # 0 => k \in 1 .. m
          BY <3>1
        <5>2. h[0] = <<>>
          BY <3>5
        <5> QED BY <3>6, <5>1, <5>2
      <4>2. DOMAIN h = 0 .. m /\ h = [k \in 0 .. m |-> h[k]]
        OBVIOUS
      <4> HIDE DEF h
      <4> QED BY <4>1, <4>2 DEF Counts
    <3> HIDE DEF h
    <3> QED BY <3>1, <3>4, <3>7
  <2> QED BY <2>2, <2>3
<1>2. L \in 0 .. L
  OBVIOUS
<1> QED BY <1>1, <1>2

LEMMA CountedNames ==
    ASSUME NEW L \in Nat, NEW body, NEW g, Counts(g, body, L),
           \A k \in 1 .. L : body[k].kind = "string" \/ body[k].name \in Strings
    PROVE  g[L] \in Seq(Strings)
<1> DEFINE Odd == {n \in 0 .. L : g[n] \notin Seq(Strings)}
<1>1. Odd = {}
  <2> SUFFICES ASSUME Odd # {} PROVE FALSE
    OBVIOUS
  <2>1. PICK m \in Odd : m = 0 \/ (m - 1 \in Nat /\ m - 1 \notin Odd)
    <3>1. Odd \in SUBSET Nat
      OBVIOUS
    <3> HIDE DEF Odd
    <3> QED BY <3>1, Least
  <2>2. CASE m = 0
    BY <2>2 DEF Counts
  <2>3. CASE m # 0
    <3>1. m \in 1 .. L /\ g[m - 1] \in Seq(Strings)
      BY <2>1, <2>3
    <3>2. g[m] = More(g, body, m)
      BY <3>1 DEF Counts
    <3>3. More(g, body, m) \in Seq(Strings)
      BY <3>1 DEF More
    <3> QED BY <3>2, <3>3
  <2> QED BY <2>2, <2>3
<1>2. L \in 0 .. L
  OBVIOUS
<1> QED BY <1>1, <1>2

\* The names of a body are names of shapes, and an empty body has none.
LEMMA DeclaredType ==
    ASSUME NEW body \in Bodies
    PROVE  Declared(body) \in Seq(Strings) /\ (body = <<>> => Declared(body) = <<>>)
<1> DEFINE L == Len(body)
<1>1. PICK n \in Nat : body \in [1 .. n -> Ops]
  BY DEF Bodies
<1>2. L \in Nat /\ \A k \in 1 .. L : body[k] \in Ops
  BY <1>1
<1>3. \A op \in Ops : op.kind = "string" \/ op.name \in Strings
  BY TrialAssumption DEF Ops
<1>4. PICK names : names = CHOOSE g : g = [k \in 0 .. L |->
          IF k = 0 THEN <<>>
          ELSE IF body[k].kind = "string" THEN g[k - 1]
          ELSE Append(g[k - 1], body[k].name)]
  OBVIOUS
<1>5. Declared(body) = names[L]
  BY <1>4 DEF Declared
<1>6. \A k \in 1 .. L : body[k].kind = "string" \/ body[k].name \in Strings
  BY <1>2, <1>3
<1> HIDE DEF L
<1>7. PICK g \in [0 .. L -> Seq(Strings)] : Counts(g, body, L)
  BY <1>2, <1>6, NamesCounted
<1>8. Counts(names, body, L)
  BY <1>4, <1>7 DEF Counts, More
<1>9. names[L] \in Seq(Strings)
  BY <1>2, <1>6, <1>8, CountedNames
<1>10. body = <<>> => names[L] = <<>>
  BY <1>2, <1>8 DEF Counts, L
<1> QED BY <1>5, <1>9, <1>10

-----------------------------------------------------------------------------
(* The inductive invariant *)

\* What reading an item does to a decoder with tables d and shape names n,
\* when it gives the value that was written.
HeaderRead(item, d2, n2) ==
    /\ item.tag = "header" /\ item.wrote = Header
    /\ d2 = EmptyTables /\ n2 = <<>>

CodecRead(d, item, d2) ==
    Readable(d, EmptyLru, item.form) /\ d2 = AfterRead(d, EmptyLru, item.form)

StringRead(d, n, item, d2, n2) ==
    /\ item.tag = "string" /\ CodecRead(d, item, d2)
    /\ item.wrote = StringValue(ReadValue(d, EmptyLru, item.form))
    /\ n2 = n

DeclareRead(d, n, item, d2, n2) ==
    /\ item.tag = "declare" /\ CodecRead(d, item, d2)
    /\ item.wrote = ShapeValue(ReadValue(d, EmptyLru, item.form))
    /\ n2 = Append(n, ReadValue(d, EmptyLru, item.form))

ShapeRead(d, n, item, d2, n2) ==
    /\ item.tag = "shape" /\ item.form.n \in DOMAIN n
    /\ item.wrote = ShapeValue(n[item.form.n])
    /\ d2 = d /\ n2 = n

PatchRead(d, n, item, d2, n2) ==
    /\ item.tag = "patch"
    /\ \E body \in Bodies :
        /\ item.wrote = PatchValue(body)
        /\ d2 = IF body = <<>> THEN d ELSE ForgetLast(d)
        /\ n2 = n \o Declared(body)

Reads(d, n, item, d2, n2) ==
    \/ HeaderRead(item, d2, n2)
    \/ StringRead(d, n, item, d2, n2)
    \/ DeclareRead(d, n, item, d2, n2)
    \/ ShapeRead(d, n, item, d2, n2)
    \/ PatchRead(d, n, item, d2, n2)

\* Before item i of w is read, the decoder stands at ts[i] and ns[i].
Path(w, ts, ns) ==
    /\ Len(ts) = Len(w) + 1 /\ Len(ns) = Len(w) + 1
    /\ \A i \in 1 .. Len(w) : Reads(ts[i], ns[i], w[i], ts[i + 1], ns[i + 1])

\* A decoder at t and n stands where the encoder does: its tables mirror the
\* encoder's, it has counted as many shapes, and a bound id names its shape.
AtEnd(t, n, e, count, ids) ==
    /\ Mirrors(t, e, Opts)
    /\ Len(n) = count
    /\ \A s \in Shapes : ids[s] # 0 => ids[s] \in DOMAIN n /\ n[ids[s]] = s

\* A decoder at d and n that reads the items of w gets every value as it was
\* written and ends where the encoder is.
InStep(w, d, n, e, count, ids) ==
    \E ts \in Seq(Tables), ns \in Seq(Seq(Strings)) :
        /\ Path(w, ts, ns)
        /\ ts[1] = d /\ ns[1] = n
        /\ AtEnd(ts[Len(w) + 1], ns[Len(w) + 1], e, count, ids)

IInv ==
    /\ TypeOK
    /\ InStep(wire, dec, shapes, enc, shapeCount, bound)
    /\ ~failed

-----------------------------------------------------------------------------
(* The wire grows at one end and shrinks at the other *)

LEMMA NothingInFlight ==
    ASSUME NEW d \in Tables, NEW n \in Seq(Strings), NEW e, NEW count, NEW ids
    PROVE  InStep(<<>>, d, n, e, count, ids) <=> AtEnd(d, n, e, count, ids)
<1>1. ASSUME InStep(<<>>, d, n, e, count, ids) PROVE AtEnd(d, n, e, count, ids)
  BY <1>1 DEF InStep
<1>2. ASSUME AtEnd(d, n, e, count, ids) PROVE InStep(<<>>, d, n, e, count, ids)
  <2> DEFINE ts == <<d>>
             ns == <<n>>
  <2>1. ts \in Seq(Tables) /\ Len(ts) = 1 /\ ts[1] = d
    OBVIOUS
  <2>2. ns \in Seq(Seq(Strings)) /\ Len(ns) = 1 /\ ns[1] = n
    OBVIOUS
  <2> HIDE DEF ts, ns
  <2>3. Path(<<>>, ts, ns)
    BY <2>1, <2>2 DEF Path
  <2> QED
    BY <1>2, <2>1, <2>2, <2>3 DEF InStep
<1> QED
  BY <1>1, <1>2

\* What the decoder makes of the oldest item leaves it in step with the rest.
LEMMA OldestInStep ==
    ASSUME NEW w \in Seq(Items), w # <<>>, NEW d, NEW n, NEW e, NEW count, NEW ids,
           InStep(w, d, n, e, count, ids)
    PROVE  \E d2 \in Tables, n2 \in Seq(Strings) :
               Reads(d, n, w[1], d2, n2) /\ InStep(Tail(w), d2, n2, e, count, ids)
<1>1. PICK ts \in Seq(Tables), ns \in Seq(Seq(Strings)) :
        /\ Path(w, ts, ns)
        /\ ts[1] = d /\ ns[1] = n
        /\ AtEnd(ts[Len(w) + 1], ns[Len(w) + 1], e, count, ids)
  BY DEF InStep
<1>2. /\ Len(w) \in Nat /\ Len(w) > 0 /\ Len(Tail(w)) = Len(w) - 1
      /\ \A i \in 1 .. Len(Tail(w)) : Tail(w)[i] = w[i + 1]
  BY TailOfSeq
<1>3. Len(ts) = Len(w) + 1 /\ Len(ns) = Len(w) + 1
  BY <1>1 DEF Path
<1>4. ts # <<>> /\ ns # <<>>
  BY <1>2, <1>3
<1>5. /\ Tail(ts) \in Seq(Tables) /\ Len(Tail(ts)) = Len(w)
      /\ \A i \in 1 .. Len(w) : Tail(ts)[i] = ts[i + 1]
  BY <1>2, <1>3, <1>4, TailOfSeq
<1>6. /\ Tail(ns) \in Seq(Seq(Strings)) /\ Len(Tail(ns)) = Len(w)
      /\ \A i \in 1 .. Len(w) : Tail(ns)[i] = ns[i + 1]
  BY <1>2, <1>3, <1>4, TailOfSeq
<1>7. ts[2] \in Tables /\ ns[2] \in Seq(Strings) /\ Reads(d, n, w[1], ts[2], ns[2])
  <2>1. 1 \in 1 .. Len(w) /\ 2 \in 1 .. Len(ts) /\ 2 \in 1 .. Len(ns)
    BY <1>2, <1>3
  <2>2. Reads(ts[1], ns[1], w[1], ts[1 + 1], ns[1 + 1])
    BY <1>1, <2>1 DEF Path
  <2> QED
    BY <1>1, <2>1, <2>2
<1>8. Path(Tail(w), Tail(ts), Tail(ns))
  <2> SUFFICES ASSUME NEW i \in 1 .. Len(Tail(w))
               PROVE  Reads(Tail(ts)[i], Tail(ns)[i], Tail(w)[i],
                            Tail(ts)[i + 1], Tail(ns)[i + 1])
    BY <1>2, <1>5, <1>6 DEF Path
  <2>1. i \in 1 .. Len(w) /\ i + 1 \in 1 .. Len(w)
    BY <1>2
  <2>2. Reads(ts[i + 1], ns[i + 1], w[i + 1], ts[i + 1 + 1], ns[i + 1 + 1])
    BY <1>1, <2>1 DEF Path
  <2> QED
    BY <1>2, <1>5, <1>6, <2>1, <2>2
<1>9. Tail(ts)[1] = ts[2] /\ Tail(ns)[1] = ns[2]
  BY <1>2, <1>5, <1>6
<1>10. AtEnd(Tail(ts)[Len(Tail(w)) + 1], Tail(ns)[Len(Tail(w)) + 1], e, count, ids)
  <2>1. Len(w) \in 1 .. Len(w) /\ Len(Tail(w)) + 1 = Len(w)
    BY <1>2
  <2> QED
    BY <1>1, <1>5, <1>6, <2>1
<1> QED
  BY <1>5, <1>6, <1>7, <1>8, <1>9, <1>10 DEF InStep

\* An item that takes every decoder from where the encoder was to where it
\* goes leaves the wire in step.
LEMMA NewestInStep ==
    ASSUME NEW w \in Seq(Items), NEW item \in Items, NEW d, NEW n,
           NEW e, NEW count, NEW ids, NEW e2, NEW count2, NEW ids2,
           InStep(w, d, n, e, count, ids),
           \A t \in Tables, m \in Seq(Strings) : AtEnd(t, m, e, count, ids) =>
               \E t2 \in Tables, m2 \in Seq(Strings) :
                   Reads(t, m, item, t2, m2) /\ AtEnd(t2, m2, e2, count2, ids2)
    PROVE  InStep(Append(w, item), d, n, e2, count2, ids2)
<1> DEFINE k == Len(w)
           v == Append(w, item)
<1>1. PICK ts \in Seq(Tables), ns \in Seq(Seq(Strings)) :
        /\ Path(w, ts, ns)
        /\ ts[1] = d /\ ns[1] = n
        /\ AtEnd(ts[k + 1], ns[k + 1], e, count, ids)
  BY DEF InStep
<1>2. k \in Nat /\ Len(ts) = k + 1 /\ Len(ns) = k + 1
  BY <1>1 DEF Path
<1>3. /\ v \in Seq(Items) /\ Len(v) = k + 1 /\ v[k + 1] = item
      /\ \A i \in 1 .. k : v[i] = w[i]
  OBVIOUS
<1>4. ts[k + 1] \in Tables /\ ns[k + 1] \in Seq(Strings)
  BY <1>2
<1>5. PICK t2 \in Tables, m2 \in Seq(Strings) :
        Reads(ts[k + 1], ns[k + 1], item, t2, m2) /\ AtEnd(t2, m2, e2, count2, ids2)
  BY <1>1, <1>4
<1> DEFINE us == Append(ts, t2)
           ms == Append(ns, m2)
<1>6. /\ us \in Seq(Tables) /\ Len(us) = k + 2 /\ us[k + 2] = t2
      /\ \A i \in 1 .. k + 1 : us[i] = ts[i]
  BY <1>2
<1>7. /\ ms \in Seq(Seq(Strings)) /\ Len(ms) = k + 2 /\ ms[k + 2] = m2
      /\ \A i \in 1 .. k + 1 : ms[i] = ns[i]
  BY <1>2
<1> HIDE DEF us, ms, v
<1>8. Path(v, us, ms)
  <2> SUFFICES ASSUME NEW i \in 1 .. k + 1
               PROVE  Reads(us[i], ms[i], v[i], us[i + 1], ms[i + 1])
    BY <1>2, <1>3, <1>6, <1>7 DEF Path
  <2>1. CASE i \in 1 .. k
    <3>1. Reads(ts[i], ns[i], w[i], ts[i + 1], ns[i + 1])
      BY <1>1, <2>1 DEF Path
    <3>2. i + 1 \in 1 .. k + 1
      BY <1>2, <2>1
    <3> QED
      BY <1>3, <1>6, <1>7, <2>1, <3>1, <3>2
  <2>2. CASE i = k + 1
    <3>1. i + 1 = k + 2
      BY <1>2, <2>2
    <3> QED
      BY <1>3, <1>5, <1>6, <1>7, <2>2, <3>1
  <2> QED
    BY <1>2, <2>1, <2>2
<1>9. us[1] = d /\ ms[1] = n
  BY <1>1, <1>2, <1>6, <1>7
<1>10. AtEnd(us[Len(v) + 1], ms[Len(v) + 1], e2, count2, ids2)
  <2>1. Len(v) + 1 = k + 2
    BY <1>2, <1>3
  <2> QED
    BY <1>5, <1>6, <1>7, <2>1
<1> QED
  BY <1>6, <1>7, <1>8, <1>9, <1>10 DEF InStep, v

-----------------------------------------------------------------------------
(* Reading *)

\* A read of the oldest item does what Reads says of it, and gives the value
\* that was written.
LEMMA ReadFollows ==
    ASSUME wire # <<>>, Head(wire) = wire[1], NEW d2, NEW n2,
           Reads(dec, shapes, wire[1], d2, n2),
           ReadHeader \/ ReadString \/ ReadDeclare \/ ReadShape \/ ReadPatch
    PROVE  dec' = d2 /\ shapes' = n2 /\ latest' = wire[1].wrote /\ failed' = failed
<1> DEFINE item == wire[1]
<1> USE DEF Reads, HeaderRead, StringRead, DeclareRead, ShapeRead, PatchRead
<1>1. CASE ReadHeader
  <2>1. item.tag = "header" /\ HeaderRead(item, d2, n2)
    BY <1>1 DEF ReadHeader, NextItem
  <2> QED BY <1>1, <2>1 DEF ReadHeader
<1>2. CASE ReadString
  <2>1. StringRead(dec, shapes, item, d2, n2)
    BY <1>2 DEF ReadString, NextItem
  <2> QED BY <1>2, <2>1 DEF ReadString, ReadForm, CodecRead
<1>3. CASE ReadDeclare
  <2>1. DeclareRead(dec, shapes, item, d2, n2)
    BY <1>3 DEF ReadDeclare, NextItem
  <2> QED BY <1>3, <2>1 DEF ReadDeclare, ReadForm, CodecRead
<1>4. CASE ReadShape
  <2>1. ShapeRead(dec, shapes, item, d2, n2)
    BY <1>4 DEF ReadShape, NextItem
  <2> QED BY <1>4, <2>1 DEF ReadShape
<1>5. CASE ReadPatch
  <2>1. PatchRead(dec, shapes, item, d2, n2)
    BY <1>5 DEF ReadPatch, NextItem
  <2>2. PICK body \in Bodies :
            /\ item.wrote = PatchValue(body)
            /\ d2 = IF body = <<>> THEN dec ELSE ForgetLast(dec)
            /\ n2 = shapes \o Declared(body)
    BY <2>1
  <2>3. item.wrote.of = body
    BY <2>2 DEF PatchValue
  <2> QED BY <1>5, <2>2, <2>3 DEF ReadPatch
<1> QED BY <1>1, <1>2, <1>3, <1>4, <1>5

LEMMA ReadKeeps ==
    ASSUME IInv, ReadHeader \/ ReadString \/ ReadDeclare \/ ReadShape \/ ReadPatch
    PROVE  IInv' /\ wire # <<>> /\ wire' = Tail(wire) /\ latest' = wire[1].wrote
<1>1. wire # <<>> /\ wire' = Tail(wire) /\ UNCHANGED encVars
  BY DEF ReadHeader, ReadString, ReadDeclare, ReadShape, ReadPatch, NextItem
<1>2. wire \in Seq(Items) /\ TypeOK /\ ~failed
  BY DEF IInv, TypeOK
<1>3. Head(wire) = wire[1] /\ wire[1] \in Items /\ wire' \in Seq(Items)
  BY <1>1, <1>2, TailOfSeq
<1>4. PICK d2 \in Tables, n2 \in Seq(Strings) :
        /\ Reads(dec, shapes, wire[1], d2, n2)
        /\ InStep(Tail(wire), d2, n2, enc, shapeCount, bound)
  BY <1>1, <1>2, OldestInStep DEF IInv
<1>5. dec' = d2 /\ shapes' = n2 /\ latest' = wire[1].wrote /\ failed' = failed
  BY <1>1, <1>3, <1>4, ReadFollows
<1>6. InStep(wire', dec', shapes', enc', shapeCount', bound')
  BY <1>1, <1>4, <1>5 DEF encVars
<1>7. TypeOK'
  <2>1. wire[1].wrote \in Values
    BY <1>3 DEF Items
  <2> QED BY <1>1, <1>2, <1>3, <1>5, <2>1 DEF TypeOK, encVars
<1> QED BY <1>1, <1>2, <1>5, <1>6, <1>7 DEF IInv

-----------------------------------------------------------------------------
(* Writing *)

LEMMA WriteKeeps ==
    ASSUME IInv, NEW item \in Items, Emit(item), UNCHANGED decVars,
           enc' \in Tables, shapeCount' \in Nat, bound' \in [Shapes -> Nat],
           \A t \in Tables, m \in Seq(Strings) : AtEnd(t, m, enc, shapeCount, bound) =>
               \E t2 \in Tables, m2 \in Seq(Strings) :
                   Reads(t, m, item, t2, m2) /\ AtEnd(t2, m2, enc', shapeCount', bound')
    PROVE  IInv'
<1>1. wire \in Seq(Items) /\ wire' = Append(wire, item) /\ TypeOK /\ ~failed
  BY DEF IInv, TypeOK, Emit
<1>2. wire' \in Seq(Items)
  BY <1>1
<1>3. InStep(wire', dec, shapes, enc', shapeCount', bound')
  BY <1>1, NewestInStep DEF IInv
<1>4. UNCHANGED <<dec, shapes, latest, failed>>
  BY DEF decVars
<1>5. TypeOK'
  BY <1>1, <1>2, <1>4 DEF TypeOK
<1> QED BY <1>1, <1>3, <1>4, <1>5 DEF IInv

\* A form that is faithful where the encoder stood is read by a decoder that
\* mirrors it.
LEMMA FormRead ==
    ASSUME NEW t \in Tables, NEW e \in Tables, NEW e2, NEW s, NEW f \in Forms,
           Mirrors(t, e, Opts), Faithful(f, s, e, Opts),
           Mirrors(AfterRead(e, EmptyLru, f), e2, Opts)
    PROVE  /\ Readable(t, EmptyLru, f) /\ ReadValue(t, EmptyLru, f) = s
           /\ AfterRead(t, EmptyLru, f) \in Tables
           /\ Mirrors(AfterRead(t, EmptyLru, f), e2, Opts)
<1>1. /\ Readable(t, EmptyLru, f) /\ ReadValue(t, EmptyLru, f) = s
      /\ Mirrors(AfterRead(t, EmptyLru, f), AfterRead(e, EmptyLru, f), Opts)
  BY ReadInStep
<1>2. AfterRead(t, EmptyLru, f) \in Tables
  BY <1>1, ReadType
<1>3. Mirrors(AfterRead(t, EmptyLru, f), e2, Opts)
  BY <1>1 DEF Mirrors
<1> QED BY <1>1, <1>2, <1>3

LEMMA StringFormRead ==
    ASSUME NEW t \in Tables, NEW e \in Tables, NEW s \in Strings, NEW f,
           f = StringForm(e, s, Opts), Mirrors(t, e, Opts)
    PROVE  /\ Readable(t, EmptyLru, f) /\ ReadValue(t, EmptyLru, f) = s
           /\ AfterRead(t, EmptyLru, f) \in Tables
           /\ Mirrors(AfterRead(t, EmptyLru, f), AfterString(e, s, Opts), Opts)
<1>1. /\ f \in Forms
      /\ Faithful(f, s, e, Opts)
      /\ Mirrors(AfterRead(e, EmptyLru, f), AfterString(e, s, Opts), Opts)
  BY StringType, StringInStep
<1> QED BY <1>1, FormRead

LEMMA ItemType ==
    ASSUME NEW v \in Values, NEW f \in Forms,
           NEW tag \in {"header", "string", "declare", "shape", "patch"}
    PROVE  /\ Item(v, tag, f) \in Items
           /\ Item(v, tag, f).wrote = v /\ Item(v, tag, f).tag = tag
           /\ Item(v, tag, f).form = f
  BY DEF Item, Items

LEMMA ValueTypes ==
    /\ Header \in Values
    /\ \A s \in Strings : StringValue(s) \in Values /\ ShapeValue(s) \in Values
    /\ \A body \in Bodies : PatchValue(body) \in Values
    /\ NoForm \in Forms
    /\ \A n \in Nat : RefForm("ref", n) \in Forms
    /\ \A s \in Strings : InlineForm(s) \in Forms
    /\ Shapes \subseteq Strings
<1>1. \A s \in Strings : StringValue(s) \in Values /\ ShapeValue(s) \in Values
  BY DEF StringValue, ShapeValue, Values
<1>2. \A body \in Bodies : PatchValue(body) \in Values
  BY DEF PatchValue, Values
<1>3. \A n \in Nat : RefForm("ref", n) \in Forms
  BY DEF RefForm, Forms
<1>4. \A s \in Strings : InlineForm(s) \in Forms
  BY DEF InlineForm, Forms
<1>5. Shapes \subseteq Strings
  BY TrialAssumption DEF Shapes
<1> QED BY <1>1, <1>2, <1>3, <1>4, <1>5 DEF Values, NoForm

LEMMA StringKeeps ==
    ASSUME IInv, NEW s \in Strings, WriteString(s)
    PROVE  IInv'
<1> DEFINE f == StringForm(enc, s, Opts)
           item == Item(StringValue(s), "string", f)
<1>1. enc \in Tables /\ shapeCount \in Nat /\ bound \in [Shapes -> Nat]
  BY DEF IInv, TypeOK
<1>2. /\ Emit(item) /\ enc' = AfterString(enc, s, Opts)
      /\ UNCHANGED <<shapeCount, bound, decVars>>
  BY DEF WriteString
<1>3. f \in Forms /\ enc' \in Tables
  BY <1>1, <1>2, StringType
<1>4. /\ item \in Items /\ item.wrote = StringValue(s) /\ item.tag = "string"
      /\ item.form = f
  BY <1>3, ItemType, ValueTypes
<1> HIDE DEF item
<1>5. ASSUME NEW t \in Tables, NEW m \in Seq(Strings),
             AtEnd(t, m, enc, shapeCount, bound)
      PROVE  \E t2 \in Tables, m2 \in Seq(Strings) :
                 Reads(t, m, item, t2, m2) /\ AtEnd(t2, m2, enc', shapeCount', bound')
  <2>1. /\ Readable(t, EmptyLru, f) /\ ReadValue(t, EmptyLru, f) = s
        /\ AfterRead(t, EmptyLru, f) \in Tables
        /\ Mirrors(AfterRead(t, EmptyLru, f), enc', Opts)
    BY <1>1, <1>2, <1>5, StringFormRead DEF AtEnd
  <2> HIDE DEF f
  <2>2. Reads(t, m, item, AfterRead(t, EmptyLru, f), m)
    BY <1>4, <2>1 DEF Reads, StringRead, CodecRead
  <2>3. AtEnd(AfterRead(t, EmptyLru, f), m, enc', shapeCount', bound')
    BY <1>2, <1>5, <2>1 DEF AtEnd
  <2> QED BY <2>1, <2>2, <2>3
<1> QED BY <1>1, <1>2, <1>3, <1>4, <1>5, WriteKeeps

LEMMA BoundKeeps ==
    ASSUME IInv, NEW s \in Shapes, WriteBound(s)
    PROVE  IInv'
<1> DEFINE f == RefForm("ref", bound[s])
           item == Item(ShapeValue(s), "shape", f)
<1>1. /\ enc \in Tables /\ shapeCount \in Nat /\ bound \in [Shapes -> Nat]
      /\ s \in Strings
  BY ValueTypes DEF IInv, TypeOK
<1>2. Emit(item) /\ bound[s] # 0 /\ UNCHANGED <<enc, shapeCount, bound, decVars>>
  BY DEF WriteBound, encVars
<1>3. f \in Forms /\ f.n = bound[s]
  BY <1>1, ValueTypes DEF RefForm
<1>4. /\ item \in Items /\ item.wrote = ShapeValue(s) /\ item.tag = "shape"
      /\ item.form = f
  BY <1>1, <1>3, ItemType, ValueTypes
<1> HIDE DEF item, f
<1>5. ASSUME NEW t \in Tables, NEW m \in Seq(Strings),
             AtEnd(t, m, enc, shapeCount, bound)
      PROVE  \E t2 \in Tables, m2 \in Seq(Strings) :
                 Reads(t, m, item, t2, m2) /\ AtEnd(t2, m2, enc', shapeCount', bound')
  <2>1. bound[s] \in DOMAIN m /\ m[bound[s]] = s
    BY <1>2, <1>5 DEF AtEnd
  <2>2. Reads(t, m, item, t, m)
    BY <1>3, <1>4, <2>1 DEF Reads, ShapeRead
  <2>3. AtEnd(t, m, enc', shapeCount', bound')
    BY <1>2, <1>5 DEF AtEnd
  <2> QED BY <2>2, <2>3
<1> QED BY <1>1, <1>2, <1>4, <1>5, WriteKeeps

\* A declaration appends its name at both ends.
LEMMA NamesGrow ==
    ASSUME NEW m \in Seq(Strings), NEW s \in Shapes, NEW count, NEW ids,
           ids \in [Shapes -> Nat], Len(m) = count, ids[s] = 0,
           \A z \in Shapes : ids[z] # 0 => ids[z] \in DOMAIN m /\ m[ids[z]] = z,
           NEW m2, m2 = Append(m, s), NEW ids2, ids2 = [ids EXCEPT ![s] = count + 1]
    PROVE  /\ m2 \in Seq(Strings) /\ Len(m2) = count + 1
           /\ \A z \in Shapes : ids2[z] # 0 => ids2[z] \in DOMAIN m2 /\ m2[ids2[z]] = z
<1>1. s \in Strings
  BY ValueTypes
<1>2. /\ m2 \in Seq(Strings) /\ Len(m2) = count + 1 /\ count \in Nat
      /\ m2[count + 1] = s /\ \A i \in 1 .. count : m2[i] = m[i]
      /\ DOMAIN m2 = 1 .. count + 1 /\ DOMAIN m = 1 .. count
  BY <1>1
<1>3. ASSUME NEW z \in Shapes, ids2[z] # 0
      PROVE  ids2[z] \in DOMAIN m2 /\ m2[ids2[z]] = z
  <2>1. CASE z = s
    BY <1>2, <2>1
  <2>2. CASE z # s
    <3>1. ids2[z] = ids[z]
      BY <2>2
    <3>2. ids[z] \in 1 .. count /\ m[ids[z]] = z
      BY <1>2, <1>3, <3>1
    <3> QED BY <1>2, <3>1, <3>2
  <2> QED BY <2>1, <2>2
<1> QED BY <1>2, <1>3

LEMMA DeclareKeeps ==
    ASSUME IInv, NEW s \in Shapes, NEW f \in Forms, Declare(s),
           Emit(Item(ShapeValue(s), "declare", f)), enc' \in Tables,
           \A t \in Tables : Mirrors(t, enc, Opts) =>
               /\ Readable(t, EmptyLru, f) /\ ReadValue(t, EmptyLru, f) = s
               /\ AfterRead(t, EmptyLru, f) \in Tables
               /\ Mirrors(AfterRead(t, EmptyLru, f), enc', Opts)
    PROVE  IInv'
<1> DEFINE item == Item(ShapeValue(s), "declare", f)
<1>1. /\ enc \in Tables /\ shapeCount \in Nat /\ bound \in [Shapes -> Nat]
      /\ s \in Strings
  BY ValueTypes DEF IInv, TypeOK
<1>2. /\ bound[s] = 0 /\ shapeCount' = shapeCount + 1
      /\ bound' = [bound EXCEPT ![s] = shapeCount + 1]
      /\ UNCHANGED decVars
  BY DEF Declare
<1>3. shapeCount' \in Nat /\ bound' \in [Shapes -> Nat]
  BY <1>1, <1>2
<1>4. /\ item \in Items /\ item.wrote = ShapeValue(s) /\ item.tag = "declare"
      /\ item.form = f
  BY <1>1, ItemType, ValueTypes
<1>5. Emit(item)
  OBVIOUS
<1> HIDE DEF item
<1>6. ASSUME NEW t \in Tables, NEW m \in Seq(Strings),
             AtEnd(t, m, enc, shapeCount, bound)
      PROVE  \E t2 \in Tables, m2 \in Seq(Strings) :
                 Reads(t, m, item, t2, m2) /\ AtEnd(t2, m2, enc', shapeCount', bound')
  <2> DEFINE t2 == AfterRead(t, EmptyLru, f)
             m2 == Append(m, s)
  <2>1. /\ Readable(t, EmptyLru, f) /\ ReadValue(t, EmptyLru, f) = s
        /\ t2 \in Tables /\ Mirrors(t2, enc', Opts)
    BY <1>6 DEF AtEnd
  <2>2. Reads(t, m, item, t2, m2)
    BY <1>4, <2>1 DEF Reads, DeclareRead, CodecRead
  <2>3. /\ m2 \in Seq(Strings) /\ Len(m2) = shapeCount'
        /\ \A z \in Shapes : bound'[z] # 0 =>
               bound'[z] \in DOMAIN m2 /\ m2[bound'[z]] = z
    <3>1. /\ Len(m) = shapeCount
          /\ \A z \in Shapes : bound[z] # 0 => bound[z] \in DOMAIN m /\ m[bound[z]] = z
      BY <1>6 DEF AtEnd
    <3> QED BY <1>1, <1>2, <3>1, NamesGrow
  <2> HIDE DEF t2, m2
  <2>4. AtEnd(t2, m2, enc', shapeCount', bound')
    BY <2>1, <2>3 DEF AtEnd
  <2> QED BY <2>1, <2>2, <2>3, <2>4
<1> QED BY <1>1, <1>2, <1>3, <1>4, <1>5, <1>6, WriteKeeps

\* A prebuilt header leaves lastID alone here and drops it in the decoder,
\* which is the same where there is none.
LEMMA TokenKeeps ==
    ASSUME IInv, NEW s \in TokenShapes, DeclareToken(s), DeclareInChain = FALSE
    PROVE  IInv'
<1>1. /\ enc \in Tables /\ s \in Shapes /\ s \in Strings
      /\ enc.lastID = NoId /\ enc' = enc
      /\ Declare(s) /\ Emit(Item(ShapeValue(s), "declare", InlineForm(s)))
  BY ValueTypes DEF IInv, TypeOK, DeclareToken, Shapes
<1> DEFINE f == InlineForm(s)
<1>2. /\ f \in Forms /\ Faithful(f, s, enc, Opts)
      /\ Mirrors(AfterRead(enc, EmptyLru, f), ForgetLast(enc), Opts)
  BY <1>1, InlineInStep, ValueTypes
<1>3. ForgetLast(enc) = enc
  BY <1>1 DEF ForgetLast, Tables
<1> HIDE DEF f
<1>4. \A t \in Tables : Mirrors(t, enc, Opts) =>
          /\ Readable(t, EmptyLru, f) /\ ReadValue(t, EmptyLru, f) = s
          /\ AfterRead(t, EmptyLru, f) \in Tables
          /\ Mirrors(AfterRead(t, EmptyLru, f), enc', Opts)
  BY <1>1, <1>2, <1>3, FormRead
<1> QED BY <1>1, <1>2, <1>4, DeclareKeeps DEF f

LEMMA NamedKeeps ==
    ASSUME IInv, NEW s \in MapShapes, DeclareNamed(s)
    PROVE  IInv'
<1> DEFINE f == StringForm(enc, s, Opts)
<1>1. /\ enc \in Tables /\ s \in Shapes /\ s \in Strings
      /\ enc' = AfterString(enc, s, Opts)
      /\ Declare(s) /\ Emit(Item(ShapeValue(s), "declare", f))
  BY ValueTypes DEF IInv, TypeOK, DeclareNamed, Shapes
<1>2. f \in Forms /\ enc' \in Tables
  BY <1>1, StringType
<1>3. \A t \in Tables : Mirrors(t, enc, Opts) =>
          /\ Readable(t, EmptyLru, f) /\ ReadValue(t, EmptyLru, f) = s
          /\ AfterRead(t, EmptyLru, f) \in Tables
          /\ Mirrors(AfterRead(t, EmptyLru, f), enc', Opts)
  BY <1>1, StringFormRead
<1> HIDE DEF f
<1> QED BY <1>1, <1>2, <1>3, DeclareKeeps

LEMMA MessageKeeps == ASSUME IInv, NextMessage PROVE IInv'
<1> DEFINE item == Item(Header, "header", NoForm)
<1>1. /\ Emit(item) /\ enc' = EmptyTables /\ shapeCount' = 0
      /\ bound' = [s \in Shapes |-> 0] /\ UNCHANGED decVars
  BY DEF NextMessage
<1>2. /\ item \in Items /\ item.wrote = Header /\ item.tag = "header"
  BY ItemType, ValueTypes
<1> HIDE DEF item
<1>3. /\ enc' \in Tables /\ shapeCount' \in Nat /\ bound' \in [Shapes -> Nat]
  BY <1>1, EmptyTablesType
<1>4. ASSUME NEW t \in Tables, NEW m \in Seq(Strings),
             AtEnd(t, m, enc, shapeCount, bound)
      PROVE  \E t2 \in Tables, m2 \in Seq(Strings) :
                 Reads(t, m, item, t2, m2) /\ AtEnd(t2, m2, enc', shapeCount', bound')
  <2>1. Reads(t, m, item, EmptyTables, <<>>)
    BY <1>2 DEF Reads, HeaderRead
  <2>2. AtEnd(EmptyTables, <<>>, enc', shapeCount', bound')
    BY <1>1 DEF AtEnd, Mirrors
  <2>3. <<>> \in Seq(Strings)
    OBVIOUS
  <2> QED BY <2>1, <2>2, <2>3, EmptyTablesType
<1> QED BY <1>1, <1>2, <1>3, <1>4, WriteKeeps

-----------------------------------------------------------------------------
(* Trials *)

\* A body that drops lastID before it declares in line leaves none, whatever
\* it holds: which is what the decoder assumes of every body but an empty one.
LEMMA BodyEnds ==
    ASSUME NEW body \in Bodies, NEW last
    PROVE  /\ body = <<>> => LastAfter(last, body) = last
           /\ last = NoId => LastAfter(last, body) = NoId
           /\ body # <<>> /\ OutOfChain(last, body) => LastAfter(last, body) = NoId
           /\ body # <<>> /\ body[1].kind = "string" => LastAfter(last, body) = NoId
<1>1. PICK n \in Nat : body \in [1 .. n -> Ops]
  BY DEF Bodies
<1>2. body # <<>> => 1 \in DOMAIN body
  BY <1>1
<1>3. body = <<>> => LastAfter(last, body) = last
  BY DEF LastAfter
<1>4. last = NoId => LastAfter(last, body) = NoId
  BY DEF LastAfter
<1>5. ASSUME body # <<>>, DropsLast(body[1]) PROVE LastAfter(last, body) = NoId
  BY <1>2, <1>5 DEF LastAfter
<1>6. ASSUME body # <<>>, OutOfChain(last, body) PROVE LastAfter(last, body) = NoId
  <2>1. CASE DropsLast(body[1])
    BY <1>5, <1>6, <2>1
  <2>2. CASE ~DropsLast(body[1])
    <3>1. body[1].kind = "token"
      BY <2>2 DEF DropsLast
    <3>2. last = NoId \/ \E j \in 1 .. 1 - 1 : DropsLast(body[j])
      BY <1>2, <1>6, <3>1 DEF OutOfChain
    <3> QED BY <1>4, <3>2
  <2> QED BY <2>1, <2>2
<1>7. body # <<>> /\ body[1].kind = "string" => LastAfter(last, body) = NoId
  BY <1>5 DEF DropsLast
<1> QED BY <1>3, <1>4, <1>6, <1>7

\* The body that is kept takes the decoder where the encoder puts itself back
\* to: the declarations of that body counted, and lastID as it left it.
LEMMA KeptBodyKeeps ==
    ASSUME IInv, NEW body \in Bodies, NEW last, NEW count,
           count = shapeCount + Len(Declared(body)),
           body = <<>> => last = enc.lastID,
           body # <<>> => last = NoId,
           Keep(body, last, count)
    PROVE  IInv'
<1> DEFINE item == Item(PatchValue(body), "patch", NoForm)
           names == Declared(body)
<1>1. enc \in Tables /\ shapeCount \in Nat /\ bound \in [Shapes -> Nat]
  BY DEF IInv, TypeOK
<1>2. /\ Emit(item) /\ enc' = [enc EXCEPT !.lastID = last]
      /\ shapeCount' = count /\ UNCHANGED <<bound, decVars>>
  BY DEF Keep
<1>3. names \in Seq(Strings) /\ Len(names) \in Nat
  BY DeclaredType
<1>4. enc' = IF body = <<>> THEN enc ELSE ForgetLast(enc)
  <2>1. enc = [enc EXCEPT !.lastID = enc.lastID]
    BY <1>1 DEF Tables
  <2> QED BY <1>2, <2>1 DEF ForgetLast
<1>5. enc' \in Tables
  BY <1>1, <1>4, ForgetLastType
<1>6. item \in Items /\ item.wrote = PatchValue(body) /\ item.tag = "patch"
  BY ItemType, ValueTypes
<1>7. count \in Nat /\ count = shapeCount + Len(names)
  BY <1>1, <1>3
<1> HIDE DEF item, names
<1>8. ASSUME NEW t \in Tables, NEW m \in Seq(Strings),
             AtEnd(t, m, enc, shapeCount, bound)
      PROVE  \E t2 \in Tables, m2 \in Seq(Strings) :
                 Reads(t, m, item, t2, m2) /\ AtEnd(t2, m2, enc', shapeCount', bound')
  <2> DEFINE t2 == IF body = <<>> THEN t ELSE ForgetLast(t)
             m2 == m \o names
  <2>1. t2 \in Tables
    BY ForgetLastType
  <2>2. Mirrors(t, enc, Opts)
    BY <1>8 DEF AtEnd
  <2>3. Mirrors(t2, enc', Opts)
    <3>1. CASE body = <<>>
      BY <1>4, <2>2, <3>1
    <3>2. CASE body # <<>>
      BY <1>1, <1>4, <2>2, <3>2 DEF Mirrors, ForgetLast, Tables
    <3> QED BY <3>1, <3>2
  <2>4. /\ m2 \in Seq(Strings) /\ Len(m2) = Len(m) + Len(names)
        /\ \A i \in DOMAIN m : i \in DOMAIN m2 /\ m2[i] = m[i]
    BY <1>3 DEF names
  <2>5. Reads(t, m, item, t2, m2)
    BY <1>6 DEF Reads, PatchRead, names
  <2> HIDE DEF t2, m2
  <2>6. AtEnd(t2, m2, enc', shapeCount', bound')
    BY <1>2, <1>7, <1>8, <2>3, <2>4 DEF AtEnd
  <2> QED BY <2>1, <2>4, <2>5, <2>6
<1> QED BY <1>1, <1>2, <1>5, <1>6, <1>7, <1>8, WriteKeeps

LEMMA KeyedKeeps ==
    ASSUME IInv, NEW p \in KeyedPairs, NEW wins \in BOOLEAN,
           KeyedTrial(p[1], p[2], wins),
           DeclareInChain = FALSE, NonStringKeys = FALSE
    PROVE  IInv'
<1> DEFINE pos == p[1]
           keyed == p[2]
           posEnd == LastAfter(enc.lastID, pos)
           afterPos == shapeCount + Len(Declared(pos))
           end == afterPos + Len(Declared(keyed))
<1>1. /\ pos \in Bodies /\ keyed \in Bodies
      /\ (pos = <<>> /\ keyed = <<>>) \/ (keyed # <<>> /\ keyed[1].kind = "string")
  BY DEF KeyedPairs
<1>2. /\ OutOfChain(enc.lastID, pos)
      /\ wins => Keep(keyed, LastAfter(posEnd, keyed), shapeCount + (end - afterPos))
      /\ ~wins => Keep(pos, posEnd, afterPos)
  BY DEF KeyedTrial
<1>3. Len(Declared(pos)) \in Nat /\ Len(Declared(keyed)) \in Nat /\ shapeCount \in Nat
  BY <1>1, DeclaredType DEF IInv, TypeOK
<1>4. shapeCount + (end - afterPos) = shapeCount + Len(Declared(keyed))
  BY <1>3
<1>5. /\ pos = <<>> => posEnd = enc.lastID
      /\ pos # <<>> => posEnd = NoId
  BY <1>1, <1>2, BodyEnds
<1>6. /\ keyed = <<>> => LastAfter(posEnd, keyed) = enc.lastID
      /\ keyed # <<>> => LastAfter(posEnd, keyed) = NoId
  BY <1>1, <1>5, BodyEnds
<1> HIDE DEF pos, keyed, posEnd
<1>7. CASE wins
  BY <1>1, <1>2, <1>4, <1>6, <1>7, KeptBodyKeeps
<1>8. CASE ~wins
  BY <1>1, <1>2, <1>5, <1>8, KeptBodyKeeps
<1> QED BY <1>7, <1>8

LEMMA ColumnarKeeps ==
    ASSUME IInv, NEW pos \in Bodies, NEW wins \in BOOLEAN, ColumnarTrial(pos, wins),
           DeclareInChain = FALSE
    PROVE  IInv'
<1> DEFINE posEnd == LastAfter(enc.lastID, pos)
           none == <<>>
<1>1. /\ OutOfChain(enc.lastID, pos)
      /\ wins => Keep(none, enc.lastID, shapeCount)
      /\ ~wins => Keep(pos, posEnd, shapeCount + Len(Declared(pos)))
  BY DEF ColumnarTrial
<1>2. none \in Bodies
  <2>1. none \in [1 .. 0 -> Ops]
    OBVIOUS
  <2>2. 0 \in 0 .. MaxBody
    BY TrialAssumption
  <2> HIDE DEF none
  <2> QED BY <2>1, <2>2 DEF Bodies
<1>3. shapeCount = shapeCount + Len(Declared(none))
  <2>1. Declared(none) = <<>>
    BY <1>2, DeclaredType
  <2>2. Len(Declared(none)) = 0 /\ shapeCount \in Nat
    BY <2>1 DEF IInv, TypeOK
  <2> HIDE DEF none
  <2> QED BY <2>2
<1>4. /\ pos = <<>> => posEnd = enc.lastID
      /\ pos # <<>> => posEnd = NoId
  BY <1>1, BodyEnds
<1>5. CASE wins
  <2>1. Keep(none, enc.lastID, shapeCount) /\ none = <<>>
    BY <1>1, <1>5
  <2> HIDE DEF none
  <2> QED BY <1>2, <1>3, <2>1, KeptBodyKeeps
<1>6. CASE ~wins
  BY <1>1, <1>4, <1>6, KeptBodyKeeps
<1> QED BY <1>5, <1>6

-----------------------------------------------------------------------------
(* The invariant is inductive *)

LEMMA InitInv == Init => IInv
<1> SUFFICES ASSUME Init PROVE IInv
  OBVIOUS
<1>1. /\ wire = <<>> /\ enc = EmptyTables /\ dec = EmptyTables /\ ~failed
      /\ shapes = <<>> /\ shapeCount = 0 /\ bound = [s \in Shapes |-> 0]
      /\ latest = Header
  BY DEF Init
<1>2. shapes \in Seq(Strings) /\ wire \in Seq(Items) /\ Len(shapes) = 0
  BY <1>1
<1>3. TypeOK
  <2>1. /\ bound \in [Shapes -> Nat] /\ shapeCount \in Nat /\ failed \in BOOLEAN
        /\ enc \in Tables /\ dec \in Tables /\ latest \in Values
    <3>1. bound \in [Shapes -> Nat] /\ shapeCount \in Nat
      BY <1>1
    <3>2. enc \in Tables /\ dec \in Tables /\ latest \in Values
      BY <1>1, EmptyTablesType, ValueTypes
    <3>3. failed \in BOOLEAN
      BY DEF Init
    <3> QED BY <3>1, <3>2, <3>3
  <2> QED BY <1>2, <2>1 DEF TypeOK
<1>4. AtEnd(dec, shapes, enc, shapeCount, bound)
  BY <1>1, <1>2 DEF AtEnd, Mirrors
<1>5. InStep(wire, dec, shapes, enc, shapeCount, bound)
  BY <1>1, <1>2, <1>4, EmptyTablesType, NothingInFlight
<1> QED BY <1>1, <1>3, <1>5 DEF IInv

LEMMA StepInv ==
    DeclareInChain = FALSE /\ NonStringKeys = FALSE /\ IInv /\ [Next]_vars => IInv'
<1> SUFFICES ASSUME DeclareInChain = FALSE, NonStringKeys = FALSE, IInv, [Next]_vars
             PROVE  IInv'
  OBVIOUS
<1>1. ASSUME NEW s \in Plain, WriteString(s) PROVE IInv'
  BY <1>1, StringKeeps, TrialAssumption
<1>2. ASSUME NEW s \in Shapes, WriteBound(s) PROVE IInv'
  BY <1>2, BoundKeeps
<1>3. ASSUME NEW s \in TokenShapes, DeclareToken(s) PROVE IInv'
  BY <1>3, TokenKeeps
<1>4. ASSUME NEW s \in MapShapes, DeclareNamed(s) PROVE IInv'
  BY <1>4, NamedKeeps
<1>5. ASSUME NEW p \in KeyedPairs, NEW wins \in BOOLEAN, KeyedTrial(p[1], p[2], wins)
      PROVE  IInv'
  BY <1>5, KeyedKeeps
<1>6. ASSUME NEW pos \in Bodies, NEW wins \in BOOLEAN, ColumnarTrial(pos, wins)
      PROVE  IInv'
  BY <1>6, ColumnarKeeps
<1>7. CASE NextMessage
  BY <1>7, MessageKeeps
<1>8. CASE ReadHeader \/ ReadString \/ ReadDeclare \/ ReadShape \/ ReadPatch
  BY <1>8, ReadKeeps
<1>9. CASE UNCHANGED vars
  BY <1>9 DEF vars, encVars, decVars, IInv, TypeOK
<1> QED BY <1>1, <1>2, <1>3, <1>4, <1>5, <1>6, <1>7, <1>8, <1>9 DEF Next

\* The invariant holds in every state.
THEOREM InvariantHolds ==
    ASSUME DeclareInChain = FALSE, NonStringKeys = FALSE PROVE Spec => []IInv
<1>1. IInv /\ [Next]_vars => IInv'
  BY StepInv
<1> QED BY <1>1, InitInv, PTL DEF Spec

LEMMA CaughtUp == IInv /\ wire = <<>> => AtEnd(dec, shapes, enc, shapeCount, bound)
  BY NothingInFlight DEF IInv, TypeOK

\* Every variable keeps its type, whatever candidates are tried and dropped.
THEOREM TypesHold ==
    ASSUME DeclareInChain = FALSE, NonStringKeys = FALSE PROVE Spec => []TypeOK
<1>1. IInv => TypeOK
  BY DEF IInv
<1> QED BY <1>1, InvariantHolds, PTL

\* No read fails: no struct, map or patch refers to a shape or string that the
\* decoder was never given.
THEOREM NoReadFails ==
    ASSUME DeclareInChain = FALSE, NonStringKeys = FALSE PROVE Spec => []~failed
<1>1. IInv => ~failed
  BY DEF IInv
<1> QED BY <1>1, InvariantHolds, PTL

\* A candidate body that was thrown away leaves no trace in the shape ids: a
\* decoder that has caught up has as many shapes as the encoder counts, and
\* under every id the encoder may still write the shape it was bound for.
THEOREM ShapeIdsStayRight ==
    ASSUME DeclareInChain = FALSE, NonStringKeys = FALSE PROVE Spec => []ShapeIdsInStep
<1>1. IInv => ShapeIdsInStep
  BY CaughtUp DEF ShapeIdsInStep, AtEnd
<1> QED BY <1>1, InvariantHolds, PTL

\* Nor in the tables: lastID, the successors, the ring and the interned
\* strings are the same at both ends once the decoder has caught up.
THEOREM TablesStayInStep ==
    ASSUME DeclareInChain = FALSE, NonStringKeys = FALSE PROVE Spec => []TablesInStep
<1>1. IInv => TablesInStep
  BY CaughtUp DEF TablesInStep, AtEnd
<1> QED BY <1>1, InvariantHolds, PTL

-----------------------------------------------------------------------------
(* Refinement: strings, structs, maps and patches are a lossless queue *)

QueueVars == <<ValuesOf(wire), latest>>

LEMMA ItemValues == \A x \in Items : x.wrote \in Values
  BY DEF Items

\* A step that puts one item on the wire and reads nothing sends its value.
LEMMA EmitSends ==
    ASSUME TypeOK, NEW item \in Items, Emit(item), UNCHANGED decVars
    PROVE  Queue!Next
<1>1. wire \in Seq(Items) /\ wire' = Append(wire, item) /\ item.wrote \in Values
  BY ItemValues DEF TypeOK, Emit
<1>2. ValuesOf(wire') = Append(ValuesOf(wire), item.wrote)
  BY <1>1, ItemValues, ValuesAppend
<1> QED BY <1>1, <1>2 DEF Queue!Next, Queue!Send, ValuesOf, decVars

LEMMA KeepSends ==
    ASSUME TypeOK, NEW body \in Bodies, NEW last, NEW count, Keep(body, last, count)
    PROVE  Queue!Next
<1>1. Item(PatchValue(body), "patch", NoForm) \in Items
  BY ItemType, ValueTypes
<1> QED BY <1>1, EmitSends DEF Keep

LEMMA TrialSends ==
    ASSUME TypeOK,
           \/ \E p \in KeyedPairs, wins \in BOOLEAN : KeyedTrial(p[1], p[2], wins)
           \/ \E pos \in Bodies, wins \in BOOLEAN : ColumnarTrial(pos, wins)
    PROVE  Queue!Next
<1>1. <<>> \in Bodies
  <2>1. <<>> \in [1 .. 0 -> Ops]
    OBVIOUS
  <2>2. 0 \in 0 .. MaxBody
    BY TrialAssumption
  <2> QED BY <2>1, <2>2 DEF Bodies
<1>2. ASSUME NEW p \in KeyedPairs, NEW wins \in BOOLEAN, KeyedTrial(p[1], p[2], wins)
      PROVE  \E body \in Bodies : \E last, count : Keep(body, last, count)
  <2>1. p[1] \in Bodies /\ p[2] \in Bodies
    BY DEF KeyedPairs
  <2> QED BY <1>2, <2>1 DEF KeyedTrial
<1>3. ASSUME NEW pos \in Bodies, NEW wins \in BOOLEAN, ColumnarTrial(pos, wins)
      PROVE  \E body \in Bodies : \E last, count : Keep(body, last, count)
  BY <1>1, <1>3 DEF ColumnarTrial
<1> QED BY <1>2, <1>3, KeepSends

LEMMA WriteSends ==
    ASSUME TypeOK,
           \/ \E s \in Plain : WriteString(s)
           \/ \E s \in Shapes : WriteBound(s)
           \/ \E s \in TokenShapes : DeclareToken(s)
           \/ \E s \in MapShapes : DeclareNamed(s)
           \/ NextMessage
    PROVE  Queue!Next
<1>1. /\ enc \in Tables /\ bound \in [Shapes -> Nat]
      /\ Plain \subseteq Strings /\ TokenShapes \subseteq Strings /\ MapShapes \subseteq Strings
  BY TrialAssumption DEF TypeOK
<1>2. \A s \in Strings : StringForm(enc, s, Opts) \in Forms
  BY <1>1, StringType
<1>3. ASSUME NEW s \in Plain, WriteString(s) PROVE Queue!Next
  <2>1. Item(StringValue(s), "string", StringForm(enc, s, Opts)) \in Items
    BY <1>1, <1>2, ItemType, ValueTypes
  <2> QED BY <1>3, <2>1, EmitSends DEF WriteString
<1>4. ASSUME NEW s \in Shapes, WriteBound(s) PROVE Queue!Next
  <2>1. Item(ShapeValue(s), "shape", RefForm("ref", bound[s])) \in Items
    BY <1>1, ItemType, ValueTypes
  <2> QED BY <1>4, <2>1, EmitSends DEF WriteBound
<1>5. ASSUME NEW s \in TokenShapes, DeclareToken(s) PROVE Queue!Next
  <2>1. Item(ShapeValue(s), "declare", InlineForm(s)) \in Items
    BY <1>1, ItemType, ValueTypes
  <2> QED BY <1>5, <2>1, EmitSends DEF DeclareToken, Declare
<1>6. ASSUME NEW s \in MapShapes, DeclareNamed(s) PROVE Queue!Next
  <2>1. Item(ShapeValue(s), "declare", StringForm(enc, s, Opts)) \in Items
    BY <1>1, <1>2, ItemType, ValueTypes
  <2> QED BY <1>6, <2>1, EmitSends DEF DeclareNamed, Declare
<1>7. CASE NextMessage
  <2>1. Item(Header, "header", NoForm) \in Items
    BY ItemType, ValueTypes
  <2> QED BY <1>7, <2>1, EmitSends DEF NextMessage
<1> QED BY <1>3, <1>4, <1>5, <1>6, <1>7

LEMMA QueueStep ==
    ASSUME IInv, [Next]_vars
    PROVE  [Queue!Next]_QueueVars
<1>1. TypeOK
  BY DEF IInv
<1>2. CASE ReadHeader \/ ReadString \/ ReadDeclare \/ ReadShape \/ ReadPatch
  <2>1. wire # <<>> /\ wire' = Tail(wire) /\ latest' = wire[1].wrote
    BY <1>2, ReadKeeps
  <2>2. /\ ValuesOf(wire) # <<>> /\ Head(ValuesOf(wire)) = wire[1].wrote
        /\ ValuesOf(wire') = Tail(ValuesOf(wire))
    BY <1>1, <2>1, ItemValues, ValuesTail DEF TypeOK
  <2> QED BY <2>1, <2>2 DEF Queue!Next, Queue!Receive, ValuesOf
<1>3. CASE UNCHANGED vars
  BY <1>3 DEF vars, decVars, QueueVars, ValuesOf
<1> QED BY <1>1, <1>2, <1>3, WriteSends, TrialSends DEF Next

LEMMA QueueInit == Init => Queue!Init
  BY ValueTypes DEF Init, Queue!Init

\* Whatever bodies were tried and thrown away before it: every string, struct,
\* map and patch is read once, unchanged and in the order it was written.
THEOREM TrialsLossless ==
    ASSUME DeclareInChain = FALSE, NonStringKeys = FALSE PROVE Spec => Lossless
<1>1. IInv /\ [Next]_vars => [Queue!Next]_QueueVars
  BY QueueStep
<1> QED
  BY <1>1, InvariantHolds, QueueInit, PTL
     DEF Spec, Lossless, Queue!Spec, QueueVars, ValuesOf
=============================================================================
