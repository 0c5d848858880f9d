------------------------- MODULE DenseStreamProofs -------------------------
(***************************************************************************)
(* DenseStream keeps its types, stays in lockstep, implements the lossless *)
(* queue and keeps the decoder's LRU chain in step with its ring, for      *)
(* every set of strings, every cap, every ring size and every bound: the   *)
(* part of the proof that is about steps.  What a step does to the tables  *)
(* is proved in DenseCodecProofs.                                          *)
(***************************************************************************)
EXTENDS DenseStream, DenseCodecProofs, FiniteSetTheorems

-----------------------------------------------------------------------------
(* Types *)

LEMMA ItemsGrow ==
    ASSUME TypeOK, NEW f \in Forms \cup {HeaderForm},
           NEW v \in Strings \cup {NewMessage}, Emit(f, v)
    PROVE  wire' \in Seq(Items)
<1>1. Item(f, v) \in Items
  BY DEF Item, Items, TypeOK
<1> QED
  BY <1>1 DEF Emit, TypeOK

LEMMA OptIdType == NoId \in OptId /\ Ids \subseteq OptId
  BY DEF OptId

\* Every action of the specification keeps the types.
LEMMA TypeStep == TypeOK /\ [Next]_vars => TypeOK'
<1> SUFFICES ASSUME TypeOK, [Next]_vars PROVE TypeOK'
  OBVIOUS
<1> USE DEF TypeOK
<1>1. ASSUME NEW o \in OptionSets, ApplyOpts(o) PROVE TypeOK'
  BY <1>1 DEF ApplyOpts, decVars
<1>2. ASSUME NEW s \in Identities, PreIntern(s) PROVE TypeOK'
  BY <1>2, OptIdType, StreamAssumption DEF PreIntern, decVars
<1>3. ASSUME NEW s \in Strings, WritePlain(s) PROVE TypeOK'
  <2>1. InlineForm(s) \in Forms
    BY DEF InlineForm, Forms
  <2> QED
    BY <1>3, <2>1, ItemsGrow DEF WritePlain, Count, decVars
<1>4. ASSUME NEW s \in Strings, WriteInline(s) PROVE TypeOK'
  <2>1. InlineForm(s) \in Forms
    BY DEF InlineForm, Forms
  <2> QED
    BY <1>4, <2>1, ItemsGrow, ForgetLastType DEF WriteInline, Count, decVars
<1>5. ASSUME NEW s \in Strings, WriteString(s) PROVE TypeOK'
  BY <1>5, ItemsGrow, StringType DEF WriteString, Count, decVars
<1>6. ASSUME NEW s \in Strings, WriteCached(s) PROVE TypeOK'
  BY <1>6, ItemsGrow, StateRefType DEF WriteCached, Count, decVars
<1>7. ASSUME NEW s \in Strings, WriteUnseen(s) PROVE TypeOK'
  <2>1. (IF Interned(enc, s) THEN IdOf(enc, s) ELSE Len(enc.values)) \in OptId
    <3>1. CASE Interned(enc, s)
      BY <3>1, IdOfRegistered, OptIdType
    <3>2. CASE ~Interned(enc, s)
      <4>1. Len(enc.values) \in Ids
        BY <1>7, CodecAssumption DEF WriteUnseen, Internable, Ids, Tables
      <4> QED
        BY <3>2, <4>1, OptIdType
    <3> QED
      BY <3>1, <3>2
  <2> QED
    BY <1>7, <2>1, ItemsGrow, StringType DEF WriteUnseen, Count, decVars
<1>8. ASSUME NEW o \in OptionSets, StartOver(o) PROVE TypeOK'
  BY <1>8, ItemsGrow, EmptyTablesType DEF StartOver, decVars
<1>9. ASSUME Take PROVE TypeOK'
  BY <1>9, ItemsGrow, EmptyTablesType DEF Take, decVars
<1>10. ASSUME ReadHeader PROVE TypeOK'
  BY <1>10, EmptyTablesType, EmptyLruType DEF ReadHeader, NextItem, encVars
<1>11. ASSUME ReadString PROVE TypeOK'
  <2> DEFINE f == Head(wire).form
  <2>1. f \in Forms
    <3>1. wire # <<>> /\ f.tag # "header"
      BY <1>11 DEF ReadString, NextItem
    <3>2. Head(wire) \in Items
      BY <3>1
    <3> QED
      BY <3>1, <3>2 DEF Items, HeaderForm
  <2>2. CASE Readable(dec, lru, f)
    BY <1>11, <2>1, <2>2, ReadType, LruReadType DEF ReadString, NextItem, encVars
  <2>3. CASE ~Readable(dec, lru, f)
    BY <1>11, <2>3 DEF ReadString, NextItem, encVars
  <2> QED
    BY <2>2, <2>3
<1>12. ASSUME SkipInline PROVE TypeOK'
  <2>1. Head(wire) = wire[1] /\ wire[1] \in Items /\ wire' \in Seq(Items)
    BY <1>12 DEF SkipInline, NextItem
  <2>2. wire[1].form.str \in Strings
    BY <1>12, <2>1 DEF SkipInline, Items, HeaderForm, Forms
  <2> QED
    BY <1>12, <2>1, <2>2 DEF SkipInline, NextItem, encVars
<1>14. CASE UNCHANGED vars
  BY <1>14 DEF vars, encVars, decVars
<1>13. OptSpeed \in OptionSets
  BY StreamAssumption DEF OptSpeed
<1> QED
  BY <1>1, <1>2, <1>3, <1>4, <1>5, <1>6, <1>7, <1>8, <1>9, <1>10, <1>11, <1>12, <1>13, <1>14
     DEF Next, Write, Reset, ResetForReuse

LEMMA InitType == Init => TypeOK
<1> SUFFICES ASSUME Init PROVE TypeOK
  OBVIOUS
<1>1. wire \in Seq(Items)
  BY DEF Init
<1>2. preIntern \in [Strings -> OptId \cup {NotListed}]
  BY Zenon DEF Init
<1>3. enc \in Tables /\ dec \in Tables /\ lru \in Lrus
  BY EmptyTablesType, EmptyLruType DEF Init
<1>4. written \in Nat /\ latest \in Strings \cup {NewMessage} /\ failed \in BOOLEAN
  BY DEF Init
<1> QED
  BY <1>1, <1>2, <1>3, <1>4 DEF Init, TypeOK

\* Whatever is written and read, every variable keeps its type; in particular
\* no id leaves the tables and no ring index leaves the ring.
THEOREM TypeCorrect == Spec => []TypeOK
  BY InitType, TypeStep, PTL DEF Spec

-----------------------------------------------------------------------------
(* Lockstep *)

\* A message that nothing was written to yet begins with its header, and its
\* tables are empty on both sides: only there may the options change.
Fresh ==
    written = 0 =>
        /\ enc = EmptyTables
        /\ IF wire = <<>> THEN dec = EmptyTables
           ELSE wire[Len(wire)].form.tag = "header"

\* Outside Dense mode the encoder's tables are never touched.
PlainIsEmpty == ~opts.dense => enc = EmptyTables

\* The inductive invariant: the types, the two halves of the lockstep, the
\* cached ids, and no error so far.
IInv ==
    /\ TypeOK
    /\ WireInStep
    /\ Lockstep
    /\ CachedIdsValid
    /\ Fresh
    /\ PlainIsEmpty
    /\ ~failed

LEMMA FormTags ==
    /\ \A f \in Forms : f.tag \in Tags /\ f.tag # "header"
    /\ HeaderForm.tag = "header"
  BY DEF Forms, Tags, HeaderForm

\* Appending an item that is in step keeps the whole wire in step: the item
\* remembers where the encoder stood, and that is where the last one went.
LEMMA WireGrows ==
    ASSUME TypeOK, WireInStep, opts' \in OptionSets,
           NEW f \in Forms \cup {HeaderForm}, NEW v \in Strings \cup {NewMessage},
           Emit(f, v),
           f.tag = "header" => v = NewMessage /\ enc' = EmptyTables,
           f.tag # "header" =>
                /\ Faithful(f, v, enc, opts)
                /\ Mirrors(AfterRead(enc, EmptyLru, f), enc', opts)
                /\ opts' = opts
    PROVE  WireInStep'
<1> DEFINE n == Len(wire)
<1>1. /\ n \in Nat
      /\ wire' \in Seq(Items) /\ Len(wire') = n + 1
      /\ \A i \in 1 .. n : wire'[i] = wire[i]
      /\ wire'[n + 1] = Item(f, v)
  <2>1. wire \in Seq(Items) /\ wire' = Append(wire, Item(f, v))
    BY DEF TypeOK, Emit
  <2>2. wire' \in Seq(Items)
    BY ItemsGrow
  <2> QED
    BY <2>1, <2>2
<1>2. Item(f, v).at = enc /\ Item(f, v).opts = opts /\ Item(f, v).form = f
      /\ Item(f, v).wrote = v
  BY DEF Item
<1> SUFFICES ASSUME NEW i \in 1 .. n + 1 PROVE ItemInStep(i)'
  BY <1>1 DEF WireInStep
<1>3. CASE i \in 1 .. n
  <2>1. ItemInStep(i)
    BY <1>3 DEF WireInStep
  <2>2. wire'[i] = wire[i]
    BY <1>1, <1>3
  <2>3. TablesAfter(i)' = TablesAfter(i) /\ OptsAfter(i)' = OptsAfter(i)
    BY <1>1, <1>2, <1>3 DEF TablesAfter, OptsAfter
  <2> QED
    BY <2>1, <2>2, <2>3 DEF ItemInStep
<1>4. CASE i = n + 1
  <2>1. TablesAfter(i)' = enc' /\ OptsAfter(i)' = opts'
    BY <1>1, <1>4 DEF TablesAfter, OptsAfter
  <2>2. wire'[i] = Item(f, v)
    BY <1>1, <1>4
  <2> QED
    BY <1>2, <2>1, <2>2 DEF ItemInStep
<1> QED
  BY <1>3, <1>4

\* A new item does not move the decoder, and the oldest item stays the oldest.
LEMMA LockstepGrows ==
    ASSUME TypeOK, Lockstep, UNCHANGED dec,
           NEW f \in Forms \cup {HeaderForm}, NEW v \in Strings \cup {NewMessage},
           Emit(f, v)
    PROVE  Lockstep'
<1>1. wire' = Append(wire, Item(f, v)) /\ wire \in Seq(Items)
  BY DEF Emit, TypeOK
<1>2. wire' # <<>>
  BY <1>1
<1>3. CASE wire = <<>>
  <2>1. wire'[1] = Item(f, v)
    BY <1>1, <1>3
  <2> QED
    BY <1>2, <1>3, <2>1 DEF Lockstep, Item
<1>4. CASE wire # <<>>
  <2>1. wire'[1] = wire[1]
    BY <1>1, <1>4
  <2> QED
    BY <1>2, <1>4, <2>1 DEF Lockstep
<1> QED
  BY <1>3, <1>4

LEMMA CachedGrows ==
    ASSUME TypeOK, CachedIdsValid, enc' \in Tables, UNCHANGED preIntern,
           \/ enc'.values = enc.values
           \/ \E s \in Strings : enc'.values = Append(enc.values, s)
    PROVE  CachedIdsValid'
<1> SUFFICES ASSUME NEW s \in Strings, preIntern'[s] \in Ids
             PROVE  Registered(enc', preIntern'[s]) /\ ValueOf(enc', preIntern'[s]) = s
  BY DEF CachedIdsValid
<1>1. enc \in Tables
  BY DEF TypeOK
<1>2. Registered(enc, preIntern[s]) /\ ValueOf(enc, preIntern[s]) = s
  BY DEF CachedIdsValid
<1> QED
  BY <1>1, <1>2, IdsKept

LEMMA TailFacts ==
    ASSUME TypeOK, wire # <<>>, wire' = Tail(wire)
    PROVE  /\ Len(wire) \in Nat /\ Len(wire) > 0
           /\ wire' \in Seq(Items)
           /\ Len(wire') = Len(wire) - 1
           /\ \A i \in 1 .. Len(wire') : wire'[i] = wire[i + 1]
           /\ wire' = <<>> <=> Len(wire) = 1
  BY TailOfSeq DEF TypeOK

\* Where the encoder stood after an item does not change when older ones go.
LEMMA AfterShifts ==
    ASSUME TypeOK, wire # <<>>, wire' = Tail(wire), UNCHANGED <<enc, opts>>,
           NEW i \in 1 .. Len(wire')
    PROVE  TablesAfter(i)' = TablesAfter(i + 1) /\ OptsAfter(i)' = OptsAfter(i + 1)
<1>1. Len(wire) \in Nat /\ i \in Nat /\ Len(wire') = Len(wire) - 1
  BY TailFacts
<1>2. CASE i < Len(wire')
  <2>1. i + 1 \in 1 .. Len(wire') /\ i + 1 < Len(wire)
    BY <1>1, <1>2
  <2>2. wire'[i + 1] = wire[i + 1 + 1]
    BY <2>1, TailFacts
  <2> QED
    BY <1>2, <2>1, <2>2 DEF TablesAfter, OptsAfter
<1>3. CASE ~(i < Len(wire'))
  <2>1. ~(i + 1 < Len(wire))
    BY <1>1, <1>3
  <2> QED
    BY <1>3, <2>1 DEF TablesAfter, OptsAfter
<1> QED
  BY <1>2, <1>3

\* Taking the oldest item moves every other one up by one.
LEMMA WireShrinks ==
    ASSUME TypeOK, WireInStep, wire # <<>>, wire' = Tail(wire),
           UNCHANGED <<enc, opts>>
    PROVE  WireInStep'
<1> SUFFICES ASSUME NEW i \in 1 .. Len(wire') PROVE ItemInStep(i)'
  BY DEF WireInStep
<1>1. i + 1 \in 1 .. Len(wire)
  BY TailFacts
<1>2. ItemInStep(i + 1)
  BY <1>1 DEF WireInStep
<1>3. wire'[i] = wire[i + 1]
  BY TailFacts
<1>4. TablesAfter(i)' = TablesAfter(i + 1) /\ OptsAfter(i)' = OptsAfter(i + 1)
  BY AfterShifts
<1> QED
  BY <1>2, <1>3, <1>4 DEF ItemInStep

\* The decoder that has followed the oldest item to where it went is in
\* lockstep with the rest.
LEMMA LockstepShrinks ==
    ASSUME TypeOK, wire # <<>>, wire' = Tail(wire), UNCHANGED <<enc, opts>>,
           Mirrors(dec', TablesAfter(1), OptsAfter(1))
    PROVE  Lockstep'
<1>1. CASE wire' = <<>>
  <2>1. Len(wire) = 1
    BY <1>1, TailFacts
  <2>2. TablesAfter(1) = enc /\ OptsAfter(1) = opts
    BY <2>1 DEF TablesAfter, OptsAfter
  <2> QED
    BY <1>1, <2>2 DEF Lockstep
<1>2. CASE wire' # <<>>
  <2>1. 1 \in 1 .. Len(wire') /\ 1 < Len(wire)
    BY <1>2, TailFacts
  <2>2. wire'[1] = wire[1 + 1]
    BY <2>1, TailFacts
  <2>3. TablesAfter(1) = wire'[1].at /\ OptsAfter(1) = wire'[1].opts
    BY <2>1, <2>2 DEF TablesAfter, OptsAfter
  <2> QED
    BY <1>2, <2>3 DEF Lockstep
<1> QED
  BY <1>1, <1>2

\* Only the last item decides whether a message was begun.
LEMMA FreshShrinks ==
    ASSUME TypeOK, Fresh, wire # <<>>, wire' = Tail(wire), UNCHANGED <<enc, written>>,
           wire[1].form.tag = "header" => dec' = EmptyTables
    PROVE  Fresh'
<1>1. CASE wire' = <<>>
  <2>1. Len(wire) = 1
    BY <1>1, TailFacts
  <2> QED
    BY <1>1, <2>1 DEF Fresh
<1>2. CASE wire' # <<>>
  <2>1. Len(wire') \in 1 .. Len(wire') /\ Len(wire') + 1 = Len(wire)
    BY <1>2, TailFacts
  <2>2. wire'[Len(wire')] = wire[Len(wire)]
    BY <2>1, TailFacts
  <2> QED
    BY <1>2, <2>2 DEF Fresh
<1> QED
  BY <1>1, <1>2

LEMMA OldestInStep == ASSUME TypeOK, WireInStep, wire # <<>> PROVE ItemInStep(1)
<1>1. 1 \in 1 .. Len(wire)
  BY DEF TypeOK
<1> QED
  BY <1>1 DEF WireInStep

\* Reading the oldest item when it is a string: it succeeds, gives the string
\* that was written, and follows the encoder.
LEMMA ReadOldest ==
    ASSUME TypeOK, WireInStep, Lockstep, wire # <<>>, wire[1].form.tag # "header"
    PROVE  LET f == wire[1].form
           IN  /\ f \in Forms
               /\ Readable(dec, lru, f)
               /\ ReadValue(dec, lru, f) = wire[1].wrote
               /\ Mirrors(AfterRead(dec, lru, f), TablesAfter(1), OptsAfter(1))
<1> DEFINE item == wire[1]
<1>1. item \in Items
  BY DEF TypeOK
<1>2. item.form \in Forms /\ item.at \in Tables
  BY <1>1 DEF Items, HeaderForm
<1>3. Mirrors(dec, item.at, item.opts)
  BY DEF Lockstep
<1>4. ItemInStep(1)
  BY OldestInStep
<1>5. /\ Faithful(item.form, item.wrote, item.at, item.opts)
      /\ Mirrors(AfterRead(item.at, EmptyLru, item.form), TablesAfter(1), item.opts)
      /\ OptsAfter(1) = item.opts
  BY <1>4 DEF ItemInStep
<1>6. dec \in Tables
  BY DEF TypeOK
<1>7. /\ Readable(dec, lru, item.form)
      /\ ReadValue(dec, lru, item.form) = item.wrote
      /\ Mirrors(AfterRead(dec, lru, item.form),
                 AfterRead(item.at, EmptyLru, item.form), item.opts)
  <2> HIDE DEF item
  <2> QED
    BY <1>2, <1>3, <1>5, <1>6, ReadInStep
<1>8. Mirrors(AfterRead(dec, lru, item.form), TablesAfter(1), item.opts)
  BY <1>5, <1>7 DEF Mirrors
<1> QED
  BY <1>2, <1>5, <1>7, <1>8

-----------------------------------------------------------------------------
(* The invariant is inductive.  Take with identities registered breaks it, *)
(* and so does Skip behind an id (TLC shows how in MCDenseStream.cfg with  *)
(* TakeWithIdentities or SkipsAfterReference TRUE), so the theorems assume *)
(* that no program does either.                                            *)

\* What the five ways to write a string share.
LEMMA WriteKeeps ==
    ASSUME IInv, TypeOK', NEW f \in Forms, NEW s \in Strings,
           Count, Emit(f, s), UNCHANGED <<opts, decVars>>,
           Faithful(f, s, enc, opts),
           Mirrors(AfterRead(enc, EmptyLru, f), enc', opts),
           CachedIdsValid',
           ~opts.dense => enc' = EmptyTables
    PROVE  IInv'
<1> USE DEF IInv
<1>1. s \in Strings \cup {NewMessage} /\ f.tag # "header"
  BY FormTags
<1>2. UNCHANGED dec
  BY DEF decVars
<1>3. WireInStep'
  <2>1. opts' \in OptionSets
    BY DEF TypeOK
  <2> QED
    BY <1>1, <2>1, WireGrows
<1>4. Lockstep'
  BY <1>1, <1>2, LockstepGrows
<1>5. Fresh'
  BY DEF Count, TypeOK, Fresh
<1>6. PlainIsEmpty' /\ ~failed'
  BY DEF PlainIsEmpty, decVars
<1> QED
  BY <1>3, <1>4, <1>5, <1>6

\* What Reset, ResetForReuse and Take share: a header, and empty tables.
LEMMA HeaderKeeps ==
    ASSUME IInv, TypeOK', Emit(HeaderForm, NewMessage), enc' = EmptyTables,
           written' = 0, UNCHANGED decVars, CachedIdsValid'
    PROVE  IInv'
<1> USE DEF IInv
<1>1. UNCHANGED dec
  BY DEF decVars
<1>2. WireInStep'
  <2>1. opts' \in OptionSets
    BY DEF TypeOK
  <2> QED
    BY <2>1, WireGrows, FormTags
<1>3. Lockstep'
  BY <1>1, LockstepGrows
<1>4. Fresh'
  <2>1. wire \in Seq(Items) /\ wire' = Append(wire, Item(HeaderForm, NewMessage))
    BY DEF TypeOK, Emit
  <2>2. wire' # <<>> /\ wire'[Len(wire')] = Item(HeaderForm, NewMessage)
    BY <2>1
  <2> QED
    BY <2>2, FormTags DEF Fresh, Item
<1>5. PlainIsEmpty' /\ ~failed'
  BY DEF PlainIsEmpty, decVars
<1> QED
  BY <1>2, <1>3, <1>4, <1>5

\* No ids are cached once no identity is registered.
LEMMA NoneListed ==
    ASSUME \A s \in Strings : preIntern'[s] \notin Ids
    PROVE  CachedIdsValid'
  BY DEF CachedIdsValid

LEMMA MarksAreNotIds == NotListed \notin Ids /\ NoId \notin Ids
  BY CodecAssumption DEF NotListed, NoId, Ids

\* Where lastID names nothing, forgetting it changes nothing.
LEMMA ForgetNothing ==
    ASSUME NEW t \in Tables, t.lastID = NoId PROVE ForgetLast(t) = t
  BY DEF ForgetLast, Tables

LEMMA InvStep ==
    ASSUME TakeWithIdentities = FALSE, SkipsAfterReference = FALSE, IInv, [Next]_vars
    PROVE  IInv'
<1> USE DEF IInv
<1>t. TypeOK'
  BY TypeStep
<1>1. ASSUME NEW o \in OptionSets, ApplyOpts(o) PROVE IInv'
  <2>1. enc = EmptyTables /\ written = 0
    BY <1>1 DEF ApplyOpts, Fresh
  <2>2. WireInStep'
    <3> SUFFICES ASSUME NEW i \in 1 .. Len(wire) PROVE ItemInStep(i)'
      BY <1>1 DEF ApplyOpts, WireInStep
    <3>1. ItemInStep(i)
      BY DEF WireInStep
    <3>2. TablesAfter(i)' = TablesAfter(i)
      BY <1>1 DEF ApplyOpts, TablesAfter
    <3>3. CASE wire[i].form.tag = "header"
      BY <1>1, <3>1, <3>2, <3>3 DEF ApplyOpts, ItemInStep
    <3>4. CASE wire[i].form.tag # "header"
      <4>1. wire # <<>> /\ i # Len(wire)
        BY <2>1, <3>4 DEF Fresh, TypeOK
      <4>2. i < Len(wire)
        BY <4>1 DEF TypeOK
      <4>3. OptsAfter(i)' = OptsAfter(i)
        BY <1>1, <4>2 DEF ApplyOpts, OptsAfter
      <4> QED
        BY <1>1, <3>1, <3>2, <4>3 DEF ApplyOpts, ItemInStep
    <3> QED
      BY <3>3, <3>4
  <2>3. Lockstep'
    BY <1>1, <2>1 DEF ApplyOpts, Lockstep, Fresh, Mirrors, decVars
  <2> QED
    BY <1>1, <1>t, <2>1, <2>2, <2>3
       DEF ApplyOpts, CachedIdsValid, Fresh, PlainIsEmpty, decVars
<1>2. ASSUME NEW s \in Identities, PreIntern(s) PROVE IInv'
  <2>1. CachedIdsValid'
    <3> SUFFICES ASSUME NEW x \in Strings, preIntern'[x] \in Ids
                 PROVE  Registered(enc, preIntern'[x]) /\ ValueOf(enc, preIntern'[x]) = x
      BY <1>2 DEF PreIntern, CachedIdsValid
    <3>1. x # s /\ preIntern'[x] = preIntern[x]
      BY <1>2, MarksAreNotIds, StreamAssumption DEF PreIntern, TypeOK
    <3> QED
      BY <3>1 DEF CachedIdsValid
  <2> QED
    BY <1>2, <1>t, <2>1
       DEF PreIntern, WireInStep, ItemInStep, TablesAfter, OptsAfter, Lockstep,
           Fresh, PlainIsEmpty, decVars
<1>3. ASSUME NEW s \in Strings, WritePlain(s) PROVE IInv'
  <2>1. enc = EmptyTables /\ enc' = EmptyTables /\ UNCHANGED <<opts, preIntern, decVars>>
    BY <1>3 DEF WritePlain, PlainIsEmpty
  <2>2. ForgetLast(enc) = enc'
    BY <2>1 DEF EmptyTables, ForgetLast
  <2>3. InlineForm(s) \in Forms
    BY DEF InlineForm, Forms
  <2>4. CachedIdsValid'
    BY <2>1 DEF CachedIdsValid
  <2>5. enc \in Tables
    BY DEF TypeOK
  <2>6. /\ Faithful(InlineForm(s), s, enc, opts)
        /\ Mirrors(AfterRead(enc, EmptyLru, InlineForm(s)), enc', opts)
    BY <2>2, <2>5, InlineInStep
  <2> QED
    BY <1>3, <1>t, <2>1, <2>3, <2>4, <2>6, WriteKeeps DEF WritePlain
<1>4. ASSUME NEW s \in Strings, WriteInline(s) PROVE IInv'
  <2>1. enc' = ForgetLast(enc) /\ enc \in Tables /\ enc' \in Tables
        /\ UNCHANGED <<opts, preIntern, decVars>> /\ opts.dense
    BY <1>4, <1>t DEF WriteInline, TypeOK
  <2>2. InlineForm(s) \in Forms
    BY DEF InlineForm, Forms
  <2>3. CachedIdsValid'
    BY <2>1, ForgetLastType, CachedGrows
  <2>4. /\ Faithful(InlineForm(s), s, enc, opts)
        /\ Mirrors(AfterRead(enc, EmptyLru, InlineForm(s)), enc', opts)
    BY <2>1, InlineInStep
  <2> QED
    BY <1>4, <1>t, <2>1, <2>2, <2>3, <2>4, WriteKeeps DEF WriteInline
<1>5. ASSUME NEW s \in Strings, WriteString(s) PROVE IInv'
  <2>1. enc' = AfterString(enc, s, opts) /\ enc \in Tables /\ enc' \in Tables
        /\ UNCHANGED <<opts, preIntern, decVars>> /\ opts.dense
    BY <1>5, <1>t DEF WriteString, TypeOK
  <2>2. CachedIdsValid'
    BY <2>1, StringType, CachedGrows
  <2> QED
    BY <1>5, <1>t, <2>1, <2>2, StringType, StringInStep, WriteKeeps DEF WriteString
<1>6. ASSUME NEW s \in Strings, WriteCached(s) PROVE IInv'
  <2> DEFINE id == preIntern[s]
  <2>1. enc' = AfterStateRef(enc, id, opts) /\ enc \in Tables /\ enc' \in Tables
        /\ UNCHANGED <<opts, preIntern, decVars>> /\ opts.dense /\ id \in Ids
    BY <1>6, <1>t DEF WriteCached, TypeOK
  <2>2. Registered(enc, id) /\ ValueOf(enc, id) = s
    BY <2>1 DEF CachedIdsValid
  <2>3. enc'.values = enc.values /\ StateRefForm(enc, id, opts) \in Forms
    BY <2>1, StateRefType
  <2>4. CachedIdsValid'
    BY <2>1, <2>3, CachedGrows
  <2>5. /\ Faithful(StateRefForm(enc, id, opts), s, enc, opts)
        /\ Mirrors(AfterRead(enc, EmptyLru, StateRefForm(enc, id, opts)), enc', opts)
    BY <2>1, <2>2, StateRefInStep
  <2> QED
    BY <1>6, <1>t, <2>1, <2>3, <2>4, <2>5, WriteKeeps DEF WriteCached
<1>7. ASSUME NEW s \in Strings, WriteUnseen(s) PROVE IInv'
  <2> DEFINE id == IF Interned(enc, s) THEN IdOf(enc, s) ELSE Len(enc.values)
  <2>1. enc' = AfterString(enc, s, opts) /\ enc \in Tables /\ enc' \in Tables
        /\ UNCHANGED <<opts, decVars>> /\ opts.dense /\ Internable(enc, s)
        /\ preIntern' = [preIntern EXCEPT ![s] = id]
    BY <1>7, <1>t DEF WriteUnseen, TypeOK
  <2>2. enc'.values = enc.values \/ enc'.values = Append(enc.values, s)
    BY <2>1, StringType
  <2>3. Registered(enc', id) /\ ValueOf(enc', id) = s
    <3>1. CASE Interned(enc, s)
      BY <2>1, <3>1, StateRefType, IdOfRegistered
         DEF AfterString, Registered, ValueOf
    <3>2. CASE ~Interned(enc, s)
      <4>1. enc.values \in Seq(Strings) /\ Len(enc.values) \in Nat
        BY <2>1 DEF Tables
      <4>2. Len(enc.values) < MaxInternEntries /\ Len(enc.values) \in Ids
        BY <2>1, <4>1, CodecAssumption DEF Internable, Ids
      <4>3. enc'.values = Append(enc.values, s)
        BY <2>1, <3>2, <4>2, InternType DEF AfterString
      <4> HIDE DEF id
      <4>4. id = Len(enc.values)
        BY <3>2 DEF id
      <4> QED
        BY <4>1, <4>2, <4>3, <4>4 DEF Registered, ValueOf
    <3> QED
      BY <3>1, <3>2
  <2>4. ASSUME NEW x \in Strings, preIntern'[x] \in Ids
        PROVE  Registered(enc', preIntern'[x]) /\ ValueOf(enc', preIntern'[x]) = x
    <3>1. CASE x = s
      BY <2>1, <2>3, <3>1 DEF TypeOK
    <3>2. CASE x # s
      <4>1. preIntern'[x] = preIntern[x]
        BY <2>1, <3>2 DEF TypeOK
      <4>2. Registered(enc, preIntern[x]) /\ ValueOf(enc, preIntern[x]) = x
        BY <2>4, <4>1 DEF CachedIdsValid
      <4>3. preIntern[x] \in Ids
        BY <2>4, <4>1
      <4> HIDE DEF id
      <4>4. Registered(enc', preIntern[x]) /\ ValueOf(enc', preIntern[x]) = x
        BY <2>1, <2>2, <4>2, <4>3, IdsKept
      <4> QED
        BY <4>1, <4>4
    <3> QED
      BY <3>1, <3>2
  <2>5. CachedIdsValid'
    BY <2>4 DEF CachedIdsValid
  <2> QED
    BY <1>7, <1>t, <2>1, <2>5, StringType, StringInStep, WriteKeeps DEF WriteUnseen
<1>8. ASSUME NEW o \in OptionSets, StartOver(o) PROVE IInv'
  <2>1. CachedIdsValid'
    BY <1>8, NoneListed, MarksAreNotIds DEF StartOver
  <2> QED
    BY <1>8, <1>t, <2>1, HeaderKeeps DEF StartOver
<1>9. ASSUME Take PROVE IInv'
  <2>1. \A s \in Strings : preIntern'[s] = NotListed
    BY <1>9 DEF Take, Listed
  <2>2. CachedIdsValid'
    BY <2>1, NoneListed, MarksAreNotIds
  <2> QED
    BY <1>9, <1>t, <2>2, HeaderKeeps DEF Take
<1>10. ASSUME ReadHeader PROVE IInv'
  <2>1. /\ wire # <<>> /\ wire' = Tail(wire) /\ UNCHANGED encVars
        /\ wire[1].form.tag = "header" /\ dec' = EmptyTables /\ UNCHANGED failed
    BY <1>10 DEF ReadHeader, NextItem, TypeOK
  <2>2. TablesAfter(1) = EmptyTables
    BY <2>1, OldestInStep DEF ItemInStep
  <2>3. WireInStep' /\ Fresh'
    BY <2>1, WireShrinks, FreshShrinks DEF encVars
  <2>4. Lockstep'
    <3>1. Mirrors(dec', TablesAfter(1), OptsAfter(1))
      BY <2>1, <2>2 DEF Mirrors
    <3> QED
      BY <2>1, <3>1, LockstepShrinks DEF encVars
  <2> QED
    BY <1>t, <2>1, <2>3, <2>4 DEF CachedIdsValid, PlainIsEmpty, encVars
<1>11. ASSUME ReadString PROVE IInv'
  <2>1. /\ wire # <<>> /\ wire' = Tail(wire) /\ UNCHANGED encVars
        /\ wire[1].form.tag # "header" /\ Head(wire).form = wire[1].form
    BY <1>11 DEF ReadString, NextItem, TypeOK
  <2>2. /\ Readable(dec, lru, wire[1].form)
        /\ Mirrors(AfterRead(dec, lru, wire[1].form), TablesAfter(1), OptsAfter(1))
    BY <2>1, ReadOldest
  <2>3. dec' = AfterRead(dec, lru, wire[1].form) /\ UNCHANGED failed
    BY <1>11, <2>1, <2>2 DEF ReadString
  <2>4. WireInStep' /\ Fresh'
    BY <2>1, WireShrinks, FreshShrinks DEF encVars
  <2>5. Lockstep'
    BY <2>1, <2>2, <2>3, LockstepShrinks DEF encVars
  <2> QED
    BY <1>t, <2>1, <2>3, <2>4, <2>5 DEF CachedIdsValid, PlainIsEmpty, encVars
<1>12. ASSUME SkipInline PROVE IInv'
  <2>1. /\ wire # <<>> /\ wire' = Tail(wire) /\ UNCHANGED <<encVars, dec, lru, failed>>
        /\ wire[1].form.tag = "inline" /\ Head(wire).form = wire[1].form
        /\ dec.lastID = NoId
    BY <1>12 DEF SkipInline, NextItem, TypeOK
  <2>2. Mirrors(AfterRead(dec, lru, wire[1].form), TablesAfter(1), OptsAfter(1))
    BY <2>1, ReadOldest
  <2>3. AfterRead(dec, lru, wire[1].form) = dec
    BY <2>1, ForgetNothing DEF AfterRead, TypeOK
  <2>4. WireInStep' /\ Fresh'
    BY <2>1, WireShrinks, FreshShrinks DEF encVars
  <2>5. Lockstep'
    BY <2>1, <2>2, <2>3, LockstepShrinks DEF encVars
  <2> QED
    BY <1>t, <2>1, <2>4, <2>5 DEF CachedIdsValid, PlainIsEmpty, encVars
<1>14. CASE UNCHANGED vars
  BY <1>t, <1>14
     DEF vars, encVars, decVars, WireInStep, ItemInStep, TablesAfter, OptsAfter,
         Lockstep, CachedIdsValid, Fresh, PlainIsEmpty
<1>13. OptSpeed \in OptionSets /\ opts \in OptionSets
  BY StreamAssumption DEF OptSpeed, TypeOK
<1> QED
  BY <1>1, <1>2, <1>3, <1>4, <1>5, <1>6, <1>7, <1>8, <1>9, <1>10, <1>11, <1>12, <1>13, <1>14
     DEF Next, Write, Reset, ResetForReuse

LEMMA InvInit == Init => IInv
<1> SUFFICES ASSUME Init PROVE IInv
  OBVIOUS
<1>1. TypeOK
  BY InitType
<1>2. wire = <<>> /\ enc = EmptyTables /\ dec = EmptyTables /\ ~failed
  BY DEF Init
<1>3. WireInStep
  BY <1>2 DEF WireInStep
<1>4. Lockstep /\ Fresh /\ PlainIsEmpty
  BY <1>2 DEF Lockstep, Mirrors, Fresh, PlainIsEmpty
<1>5. CachedIdsValid
  BY MarksAreNotIds DEF Init, CachedIdsValid
<1> QED
  BY <1>1, <1>2, <1>3, <1>4, <1>5 DEF IInv

\* The strengthened invariant holds in every reachable state.
THEOREM InvariantHolds ==
    ASSUME TakeWithIdentities = FALSE, SkipsAfterReference = FALSE
    PROVE  Spec => []IInv
<1>1. IInv /\ [Next]_vars => IInv'
  BY InvStep
<1> QED
  BY <1>1, InvInit, PTL DEF Spec

\* No read of what an encoder wrote fails: the decoder refuses no id, rank or
\* repeat, at any cap and after any reset.
THEOREM NoReadFails ==
    ASSUME TakeWithIdentities = FALSE, SkipsAfterReference = FALSE
    PROVE  Spec => []~failed
<1>1. IInv => ~failed
  BY DEF IInv
<1> QED
  BY <1>1, InvariantHolds, PTL

\* Every form an encoder emits, in whatever mode, at whatever cap, names its
\* string to a decoder standing where the encoder stood, and takes it where
\* the encoder went.
THEOREM WireStaysInStep ==
    ASSUME TakeWithIdentities = FALSE, SkipsAfterReference = FALSE
    PROVE  Spec => []WireInStep
<1>1. IInv => WireInStep
  BY DEF IInv
<1> QED
  BY <1>1, InvariantHolds, PTL

\* The decoder's tables mirror the encoder's as they were before the oldest
\* item in flight.
THEOREM TablesStayInLockstep ==
    ASSUME TakeWithIdentities = FALSE, SkipsAfterReference = FALSE
    PROVE  Spec => []Lockstep
<1>1. IInv => Lockstep
  BY DEF IInv
<1> QED
  BY <1>1, InvariantHolds, PTL

\* An id PreIntern cached never goes stale.
THEOREM CachedIdsStayValid ==
    ASSUME TakeWithIdentities = FALSE, SkipsAfterReference = FALSE
    PROVE  Spec => []CachedIdsValid
<1>1. IInv => CachedIdsValid
  BY DEF IInv
<1> QED
  BY <1>1, InvariantHolds, PTL

-----------------------------------------------------------------------------
(* Refinement: the pair implements the lossless queue *)

\* The queue of the values in flight, and the value read last.
QueueVars == <<ValuesOf(wire), latest>>

LEMMA ItemValues == \A x \in Items : x.wrote \in Strings \cup {NewMessage}
  BY DEF Items

\* A step that puts one item on the wire and reads nothing sends its value.
LEMMA EmitSends ==
    ASSUME TypeOK, NEW f \in Forms \cup {HeaderForm},
           NEW v \in Strings \cup {NewMessage}, Emit(f, v), UNCHANGED latest
    PROVE  Queue!Send(v)
<1>1. Item(f, v) \in Items /\ Item(f, v).wrote = v
  BY DEF Item, Items, TypeOK
<1>2. wire \in Seq(Items) /\ wire' = Append(wire, Item(f, v))
  BY DEF TypeOK, Emit
<1>3. ValuesOf(wire') = Append(ValuesOf(wire), v)
  BY <1>1, <1>2, ItemValues, ValuesAppend
<1> QED
  BY <1>3 DEF Queue!Send, ValuesOf

\* A step that takes the oldest item and gives its value receives it.
LEMMA TakeReceives ==
    ASSUME TypeOK, wire # <<>>, wire' = Tail(wire), latest' = wire[1].wrote
    PROVE  Queue!Receive
<1>1. wire \in Seq(Items)
  BY DEF TypeOK
<1>2. /\ ValuesOf(wire) # <<>>
      /\ Head(ValuesOf(wire)) = wire[1].wrote
      /\ ValuesOf(wire') = Tail(ValuesOf(wire))
  BY <1>1, ItemValues, ValuesTail
<1> QED
  BY <1>2 DEF Queue!Receive, ValuesOf

LEMMA QueueStep ==
    ASSUME IInv, [Next]_vars
    PROVE  [Queue!Next]_QueueVars
<1> USE DEF IInv
<1> DEFINE Sent == \E v \in Strings \cup {NewMessage} : Queue!Send(v)
<1>1. ASSUME UNCHANGED <<wire, latest>> PROVE UNCHANGED QueueVars
  BY <1>1 DEF QueueVars, ValuesOf
<1>2. ASSUME NEW o \in OptionSets, ApplyOpts(o) PROVE UNCHANGED QueueVars
  BY <1>1, <1>2 DEF ApplyOpts, decVars
<1>3. ASSUME NEW s \in Identities, PreIntern(s) PROVE UNCHANGED QueueVars
  BY <1>1, <1>3 DEF PreIntern, decVars
<1>4. ASSUME NEW s \in Strings, Write(s) PROVE Sent
  <2>1. /\ UNCHANGED latest
        /\ \E f \in Forms : Emit(f, s)
    <3>1. InlineForm(s) \in Forms /\ StringForm(enc, s, opts) \in Forms
      BY StringType DEF InlineForm, Forms, TypeOK
    <3>2. preIntern[s] \in Ids => StateRefForm(enc, preIntern[s], opts) \in Forms
      BY StateRefType DEF TypeOK
    <3> QED
      BY <1>4, <3>1, <3>2
         DEF Write, WritePlain, WriteInline, WriteString, WriteCached, WriteUnseen, decVars
  <2> QED
    BY <2>1, EmitSends
<1>5. ASSUME Take \/ \E o \in OptionSets : StartOver(o) PROVE Sent
  <2>1. UNCHANGED latest /\ Emit(HeaderForm, NewMessage)
    BY <1>5 DEF Take, StartOver, decVars
  <2> QED
    BY <2>1, EmitSends
<1>6. ASSUME ReadHeader PROVE Queue!Receive
  <2>1. wire # <<>> /\ wire' = Tail(wire) /\ latest' = NewMessage
        /\ wire[1].form.tag = "header"
    BY <1>6 DEF ReadHeader, NextItem, TypeOK
  <2>2. wire[1].wrote = NewMessage
    BY <2>1, OldestInStep DEF ItemInStep
  <2> QED
    BY <2>1, <2>2, TakeReceives
<1>7. ASSUME ReadString PROVE Queue!Receive
  <2>1. wire # <<>> /\ wire' = Tail(wire)
        /\ wire[1].form.tag # "header" /\ Head(wire).form = wire[1].form
    BY <1>7 DEF ReadString, NextItem, TypeOK
  <2>2. /\ Readable(dec, lru, wire[1].form)
        /\ ReadValue(dec, lru, wire[1].form) = wire[1].wrote
    BY <2>1, ReadOldest
  <2>3. latest' = wire[1].wrote
    BY <1>7, <2>1, <2>2 DEF ReadString
  <2> QED
    BY <2>1, <2>3, TakeReceives
<1>11. ASSUME SkipInline PROVE Queue!Receive
  <2>1. wire # <<>> /\ wire' = Tail(wire) /\ latest' = wire[1].form.str
        /\ wire[1].form.tag = "inline"
    BY <1>11 DEF SkipInline, NextItem, TypeOK
  <2>2. ReadValue(dec, lru, wire[1].form) = wire[1].wrote
    BY <2>1, ReadOldest
  <2>3. latest' = wire[1].wrote
    BY <2>1, <2>2 DEF ReadValue
  <2> QED
    BY <2>1, <2>3, TakeReceives
<1>8. CASE UNCHANGED vars
  BY <1>1, <1>8 DEF vars, decVars
<1>9. OptSpeed \in OptionSets /\ opts \in OptionSets
  BY StreamAssumption DEF OptSpeed, TypeOK
<1>10. CASE Next
  BY <1>2, <1>3, <1>4, <1>5, <1>6, <1>7, <1>9, <1>10, <1>11
     DEF Next, Reset, ResetForReuse, Queue!Next
<1> QED
  BY <1>8, <1>10

LEMMA QueueInit == Init => Queue!Init
  BY DEF Init, Queue!Init

\* The Encoder and the Decoder together are a lossless FIFO: every value
\* written comes out once, unchanged and in order, across every option change,
\* reset and message boundary, and no read of it ever fails.
THEOREM ImplementsQueue ==
    ASSUME TakeWithIdentities = FALSE, SkipsAfterReference = FALSE
    PROVE  Spec => Lossless
<1>1. IInv /\ [Next]_vars => [Queue!Next]_QueueVars
  BY QueueStep
<1> QED
  BY <1>1, QueueInit, InvariantHolds, PTL DEF Spec, Lossless, Queue!Spec, QueueVars, ValuesOf

-----------------------------------------------------------------------------
(* The LRU chain *)

\* The n ids are linked from the head in the order of their positions.
Linked(l, n, pos) ==
    /\ pos \in [0 .. n - 1 -> 0 .. n - 1]
    /\ \A i \in 0 .. n - 1, j \in 0 .. n - 1 : pos[i] = pos[j] => i = j
    /\ \A k \in 0 .. n - 1 : \E i \in 0 .. n - 1 : pos[i] = k
    /\ n = 0 => l.head = NoId
    /\ \A i \in 0 .. n - 1 :
          /\ pos[i] = 0 => l.head = i
          /\ pos[i] = n - 1 => l.next[i] = NoId
    /\ \A i \in 0 .. n - 1, j \in 0 .. n - 1 :
          pos[j] = pos[i] + 1 => l.next[i] = j /\ l.prev[j] = i

\* The emission r back is not one of those after it.
NewestOf(t, r) ==
    /\ MruAt(t, r) # NoId
    /\ \A q \in RingSlots : q < r => MruAt(t, q) # MruAt(t, r)

\* In front of an id that the ring holds stand the ids emitted after it.
ByRecency(t, n, pos) ==
    /\ \A r \in RingSlots : MruAt(t, r) \in (0 .. n - 1) \cup {NoId}
    /\ \A r \in RingSlots : NewestOf(t, r) =>
          \A i \in 0 .. n - 1 :
             pos[i] < pos[MruAt(t, r)] <=> \E q \in RingSlots : q < r /\ MruAt(t, q) = i

\* A new id in front of all others.
LEMMA LinkFresh ==
    ASSUME NEW n \in Nat, n < MaxInternEntries, NEW l \in Lrus, NEW pos, Linked(l, n, pos),
           NEW pos1, pos1 = [i \in 0 .. n |-> IF i = n THEN 0 ELSE pos[i] + 1]
    PROVE  Linked(LruAddFresh(l, n), n + 1, pos1)
<1> DEFINE m == LruAddFresh(l, n)
           M == 0 .. n - 1
           N == 0 .. n
<1>1. N = M \cup {n} /\ n \notin M /\ N \subseteq Ids /\ (n + 1) - 1 = n
  BY CodecAssumption DEF Ids
<1>2. pos \in [M -> M]
  BY DEF Linked
<1>3. /\ pos1 \in [N -> N] /\ pos1[n] = 0
      /\ \A i \in M : pos1[i] = pos[i] + 1
  BY <1>1, <1>2
<1>4. \A i \in N, j \in N : pos1[i] = pos1[j] => i = j
  <2> SUFFICES ASSUME NEW i \in N, NEW j \in N, pos1[i] = pos1[j] PROVE i = j
    OBVIOUS
  <2>1. \A k \in M : pos1[k] \in Nat /\ pos1[k] # 0
    BY <1>2, <1>3
  <2>2. CASE i \in M /\ j \in M
    <3>1. pos[i] \in M /\ pos[j] \in M /\ pos[i] = pos[j]
      BY <2>2, <1>2, <1>3
    <3> QED BY <2>2, <3>1 DEF Linked
  <2> QED BY <2>1, <2>2, <1>1, <1>3
<1>5. ASSUME NEW k \in N PROVE \E i \in N : pos1[i] = k
  <2>1. CASE k = 0
    BY <2>1, <1>1, <1>3
  <2>2. CASE k # 0
    <3>1. k - 1 \in M
      BY <2>2
    <3>2. PICK i \in M : pos[i] = k - 1
      BY <3>1 DEF Linked
    <3> QED BY <3>2, <1>1, <1>3
  <2> QED BY <2>1, <2>2
<1>6. /\ m.head = n /\ m.next = [l.next EXCEPT ![n] = l.head]
      /\ l.head # NoId => m.prev = [l.prev EXCEPT ![n] = NoId, ![l.head] = n]
  BY DEF LruAddFresh
<1>7. /\ l.next \in [Ids -> OptId] /\ l.prev \in [Ids -> OptId]
  BY DEF Lrus
<1>8. ASSUME NEW i \in N
      PROVE  /\ pos1[i] = 0 => m.head = i
             /\ pos1[i] = n => m.next[i] = NoId
  <2>1. CASE i = n
    BY <2>1, <1>1, <1>3, <1>6, <1>7 DEF Linked
  <2>2. CASE i \in M
    <3>1. pos1[i] = pos[i] + 1 /\ pos[i] \in M /\ m.next[i] = l.next[i]
      BY <2>2, <1>1, <1>2, <1>3, <1>6, <1>7
    <3>2. pos1[i] # 0 /\ (pos1[i] = n => pos[i] = n - 1)
      BY <3>1
    <3>3. pos[i] = n - 1 => l.next[i] = NoId
      BY <2>2 DEF Linked
    <3> QED BY <3>1, <3>2, <3>3
  <2> QED BY <2>1, <2>2, <1>1
<1>9. ASSUME NEW i \in N, NEW j \in N, pos1[j] = pos1[i] + 1
      PROVE  m.next[i] = j /\ m.prev[j] = i
  <2>1. pos1[i] \in N /\ j # n /\ j \in M /\ pos[j] \in M /\ pos1[j] = pos[j] + 1
    <3>1. pos1[i] \in N
      BY <1>3
    <3>2. pos1[j] # 0
      BY <3>1, <1>9
    <3>3. j # n /\ j \in M
      BY <3>2, <1>1, <1>3
    <3> QED BY <3>1, <3>3, <1>2, <1>3
  <2>2. 0 \in M /\ n # 0
    BY <2>1
  <2>3. PICK h \in M : pos[h] = 0
    BY <2>2 DEF Linked
  <2>4. l.head = h /\ l.head # NoId
    <3>1. l.head = h
      BY <2>3 DEF Linked
    <3>2. h \in Nat /\ NoId \notin Nat
      BY DEF NoId
    <3> QED BY <3>1, <3>2
  <2>5. CASE i = n
    <3>1. pos[j] = 0
      BY <2>1, <2>5, <1>3, <1>9
    <3>2. l.head = j
      BY <2>1, <3>1 DEF Linked
    <3> QED BY <2>1, <2>4, <2>5, <3>2, <1>1, <1>6, <1>7
  <2>6. CASE i \in M
    <3>1. pos[i] \in M /\ pos[j] = pos[i] + 1
      BY <2>1, <2>6, <1>2, <1>3, <1>9
    <3>2. l.next[i] = j /\ l.prev[j] = i
      BY <2>1, <2>6, <3>1 DEF Linked
    <3>3. j # h
      BY <2>3, <3>1
    <3> QED BY <2>1, <2>4, <2>6, <3>2, <3>3, <1>1, <1>6, <1>7
  <2> QED BY <2>5, <2>6, <1>1
<1>10. Linked(m, n + 1, pos1)
  <2>1. 0 .. (n + 1) - 1 = N /\ n + 1 # 0 /\ (n + 1) - 1 = n
    OBVIOUS
  <2> HIDE DEF m
  <2>2. /\ pos1 \in [0 .. (n + 1) - 1 -> 0 .. (n + 1) - 1]
        /\ \A i \in 0 .. (n + 1) - 1, j \in 0 .. (n + 1) - 1 : pos1[i] = pos1[j] => i = j
    BY <2>1, <1>3, <1>4, Zenon
  <2>3. \A k \in 0 .. (n + 1) - 1 : \E i \in 0 .. (n + 1) - 1 : pos1[i] = k
    BY <2>1, <1>5, Zenon
  <2>4. \A i \in 0 .. (n + 1) - 1 :
             pos1[i] = 0 => m.head = i
    BY <2>1, <1>8, Zenon
  <2>5. \A i \in 0 .. (n + 1) - 1 : pos1[i] = (n + 1) - 1 => m.next[i] = NoId
    BY <2>1, <1>8, Zenon
  <2>6. \A i \in 0 .. (n + 1) - 1, j \in 0 .. (n + 1) - 1 :
             pos1[j] = pos1[i] + 1 => m.next[i] = j /\ m.prev[j] = i
    BY <2>1, <1>9, Zenon
  <2> QED BY <2>1, <2>2, <2>3, <2>4, <2>5, <2>6, Zenon DEF Linked
<1> QED BY <1>10

\* An id taken to the front: those that stood before it move back by one.
LEMMA LinkMoved ==
    ASSUME NEW n \in Nat, n <= MaxInternEntries, NEW l \in Lrus, NEW pos, Linked(l, n, pos),
           NEW x \in 0 .. n - 1, NEW pos1,
           pos1 = [i \in 0 .. n - 1 |-> IF i = x THEN 0
                                        ELSE IF pos[i] < pos[x] THEN pos[i] + 1 ELSE pos[i]]
    PROVE  Linked(LruMoveToFront(l, x), n, pos1)
<1> DEFINE M == 0 .. n - 1
           m == LruMoveToFront(l, x)
<1>1. M \subseteq Ids /\ x \in M /\ 0 \in M /\ M \subseteq Nat /\ NoId \notin M /\ n # 0
      /\ \A i \in M : i # NoId
  BY CodecAssumption DEF Ids, NoId
<1>2. pos \in [M -> M] /\ \A i \in M : pos[i] \in M
  BY DEF Linked
<1>3. \A i \in M, j \in M : pos[i] = pos[j] => i = j
  BY DEF Linked
<1>4. PICK h \in M : pos[h] = 0
  BY <1>1 DEF Linked
<1>5. l.head = h
  BY <1>4 DEF Linked
<1>6. CASE h = x
  <2>1. \A i \in M : pos1[i] = pos[i]
    <3> SUFFICES ASSUME NEW i \in M PROVE pos1[i] = pos[i]
      OBVIOUS
    <3>1. pos[i] \in Nat
      BY <1>2
    <3> QED BY <3>1, <1>4, <1>6
  <2>2. pos1 = pos
    BY <2>1, <1>2
  <2> QED BY <2>2, <1>5, <1>6 DEF LruMoveToFront
<1>7. CASE h # x
  <2>1. pos[x] \in M /\ pos[x] # 0
    BY <1>1, <1>2, <1>3, <1>4, <1>7
  <2>2. PICK p \in Nat : p = pos[x] /\ p \in M /\ p # 0 /\ p - 1 \in M
    BY <2>1, <1>1
  <2>3. PICK pr \in M : pos[pr] = p - 1
    BY <2>2 DEF Linked
  <2>4. l.prev[x] = pr /\ l.next[pr] = x /\ pr # x
    <3>1. pos[x] = pos[pr] + 1 /\ pos[x] # pos[pr]
      BY <2>2, <2>3
    <3>2. l.prev[x] = pr /\ l.next[pr] = x
      BY <3>1 DEF Linked
    <3> QED BY <3>1, <3>2
  <2>5. PICK nx \in OptId :
          /\ l.next[x] = nx
          /\ nx = NoId => p = n - 1
          /\ nx # NoId => nx \in M /\ pos[nx] = p + 1
    <3>1. CASE p = n - 1
      BY <3>1, <1>1, <2>2 DEF Linked, OptId
    <3>2. CASE p # n - 1
      <4>1. p + 1 \in M
        BY <3>2, <2>2
      <4>2. PICK nx \in M : pos[nx] = p + 1
        BY <4>1 DEF Linked
      <4>3. l.next[x] = nx
        BY <4>2, <2>2, <1>1 DEF Linked
      <4>4. nx \in OptId
        BY <1>1 DEF OptId
      <4> QED BY <4>2, <4>3, <4>4, <1>1
    <3> QED BY <3>1, <3>2
  <2>6. /\ l.next \in [Ids -> OptId] /\ l.prev \in [Ids -> OptId]
        /\ x \in Ids /\ h \in Ids /\ pr \in Ids /\ h # NoId
    BY <1>1 DEF Lrus
  <2>7. PICK u : u = LruUnlink(l, x)
    OBVIOUS
  <2>8. /\ u.head = h
        /\ u.next = [l.next EXCEPT ![pr] = nx]
        /\ u.prev = IF nx = NoId THEN l.prev ELSE [l.prev EXCEPT ![nx] = pr]
    BY <2>4, <2>5, <2>7, <1>5 DEF LruUnlink, Lrus
  <2>9. /\ m.head = x
        /\ m.next = [u.next EXCEPT ![x] = h]
        /\ m.prev = [u.prev EXCEPT ![x] = NoId, ![h] = x]
    BY <2>6, <2>7, <2>8, <1>5, <1>7 DEF LruMoveToFront, LruAddFresh
  <2>10. /\ m.next[x] = h /\ m.next[pr] = nx
         /\ \A i \in M : i # x /\ i # pr => m.next[i] = l.next[i]
    BY <2>4, <2>6, <2>8, <2>9, <1>1
  <2>11. /\ m.prev[h] = x
         /\ nx # NoId => m.prev[nx] = pr
         /\ \A j \in M : j # x /\ j # h /\ j # nx => m.prev[j] = l.prev[j]
    <3>1. nx # NoId => nx # h /\ nx # x /\ nx \in Ids
      BY <1>1, <1>4, <2>2, <2>5
    <3> QED BY <3>1, <2>6, <2>8, <2>9, <1>1, <1>7
  <2> HIDE DEF m
  <2>12. /\ pos1[x] = 0
         /\ \A i \in M : i # x =>
              /\ pos[i] \in M /\ pos[i] # p
              /\ pos[i] < p => pos1[i] = pos[i] + 1
              /\ pos[i] > p => pos1[i] = pos[i]
    <3>1. \A i \in M : i # x => pos[i] \in M /\ pos[i] # p
      BY <1>2, <1>3, <2>2
    <3> QED BY <3>1, <1>1, <2>2
  <2>13. pos1 \in [M -> M]
    <3> SUFFICES ASSUME NEW i \in M PROVE pos1[i] \in M
      OBVIOUS
    <3> QED BY <2>2, <2>12, <1>1
  <2>14. ASSUME NEW i \in M, NEW j \in M, pos1[i] = pos1[j] PROVE i = j
    <3>1. CASE i = x \/ j = x
      BY <3>1, <2>2, <2>12, <2>14
    <3>2. CASE i # x /\ j # x
      <4>1. \A k \in M : k # x => pos[k] \in Nat /\ pos[k] # p
        BY <2>12, <1>1
      <4>2. PICK a \in Nat, b \in Nat : a = pos[i] /\ b = pos[j] /\ a # p /\ b # p
        <5> HIDE DEF M
        <5> QED BY <3>2, <4>1
      <4>3. /\ pos1[i] = IF a < p THEN a + 1 ELSE a
            /\ pos1[j] = IF b < p THEN b + 1 ELSE b
        BY <3>2, <4>2, <2>2, <2>12
      <4>4. pos[i] = pos[j]
        <5>1. (IF a < p THEN a + 1 ELSE a) = (IF b < p THEN b + 1 ELSE b)
          BY <4>3, <2>14
        <5>2. a = b
          BY <5>1, <4>2, p \in Nat
        <5> QED BY <5>2, <4>2
      <4> QED BY <4>4, <1>3
    <3> QED BY <3>1, <3>2
  <2>15. ASSUME NEW k \in M PROVE \E i \in M : pos1[i] = k
    <3>1. CASE k = 0
      BY <3>1, <2>12, <1>1
    <3>2. CASE k # 0 /\ k <= p
      <4>1. k - 1 \in M
        BY <3>2
      <4>2. PICK i \in M : pos[i] = k - 1
        BY <4>1 DEF Linked
      <4>3. i # x /\ pos[i] < p
        BY <3>2, <4>2, <2>2
      <4>4. pos1[i] = pos[i] + 1
        BY <4>3, <2>12
      <4>5. k \in Int
        OBVIOUS
      <4> QED BY <4>2, <4>4, <4>5
    <3>3. CASE k > p
      <4>1. PICK i \in M : pos[i] = k
        BY DEF Linked
      <4> QED BY <3>3, <4>1, <2>2, <2>12
    <3> QED BY <3>1, <3>2, <3>3, <2>2
  <2>16. ASSUME NEW i \in M, pos1[i] = 0 PROVE m.head = i
    BY <2>2, <2>9, <2>12, <2>16
  <2>17. ASSUME NEW i \in M, pos1[i] = n - 1 PROVE m.next[i] = NoId
    <3>1. n - 1 # 0 /\ i # x
      BY <2>2, <2>12, <2>17
    <3>2. CASE pos[i] < p
      <4>1. pos[i] = p - 1 /\ p = n - 1
        BY <3>1, <3>2, <2>2, <2>12, <2>17
      <4>2. i = pr
        BY <4>1, <2>3, <1>3
      <4>3. nx = NoId
        BY <4>1, <1>2, <2>5
      <4> QED BY <4>2, <4>3, <2>10
    <3>3. CASE pos[i] > p
      <4>1. pos[i] = n - 1 /\ i # pr
        BY <3>1, <3>3, <2>2, <2>3, <2>12, <2>17
      <4>2. l.next[i] = NoId
        BY <4>1 DEF Linked
      <4> QED BY <3>1, <4>1, <4>2, <2>10
    <3> QED BY <3>1, <3>2, <3>3, <2>2, <2>12
  <2>18. ASSUME NEW i \in M, NEW j \in M, pos1[j] = pos1[i] + 1
         PROVE  m.next[i] = j /\ m.prev[j] = i
    <3>1. j # x /\ pos1[i] \in M /\ pos[j] \in M /\ pos[j] # p
      BY <2>12, <2>13, <2>18
    <3>2. CASE i = x
      <4>1. pos[j] = 0
        BY <3>1, <3>2, <2>2, <2>12, <2>18
      <4>2. j = h
        BY <4>1, <1>3, <1>4
      <4> QED BY <3>2, <4>2, <2>10, <2>11
    <3>3. CASE i # x /\ pos[i] < p /\ pos[j] > p
      <4>1. pos[i] \in M /\ pos[i] = p - 1 /\ pos[j] = p + 1
        <5>1. pos[i] \in M /\ pos1[i] = pos[i] + 1 /\ pos1[j] = pos[j]
          BY <3>1, <3>3, <2>12
        <5>2. pos[i] \in Int /\ pos[j] \in Int /\ pos[j] = pos[i] + 2
          BY <5>1, <3>1, <2>18
        <5> QED BY <5>1, <5>2, <3>3, <2>2
      <4>2. i = pr
        BY <4>1, <2>3, <1>3
      <4>3. nx # NoId
        BY <4>1, <3>1, <2>2, <2>5
      <4>4. j = nx
        BY <4>1, <4>3, <2>5, <1>3
      <4> QED BY <4>2, <4>3, <4>4, <2>10, <2>11
    <3>4. CASE i # x /\ ~(pos[i] < p /\ pos[j] > p)
      <4>1. pos[i] \in M /\ pos[i] # p
        BY <3>4, <2>12
      <4>2. pos[j] = pos[i] + 1
        BY <3>1, <3>4, <4>1, <2>2, <2>12, <2>18
      <4>3. i # pr /\ j # h
        BY <3>1, <4>1, <4>2, <1>4, <2>2, <2>3
      <4>4. j # nx
        <5> SUFFICES ASSUME j = nx PROVE FALSE
          OBVIOUS
        <5>1. pos[j] = p + 1
          BY <1>1, <2>5
        <5> QED BY <5>1, <4>1, <4>2, <2>2
      <4>5. l.next[i] = j /\ l.prev[j] = i
        BY <4>2 DEF Linked
      <4> QED BY <3>1, <3>4, <4>3, <4>4, <4>5, <2>10, <2>11
    <3> QED BY <3>2, <3>3, <3>4
  <2>19. Linked(m, n, pos1)
    <3>1. \A i \in M, j \in M : pos1[i] = pos1[j] => i = j
      BY <2>14
    <3>2. \A k \in M : \E i \in M : pos1[i] = k
      BY <2>15
    <3>3. \A i \in M : (pos1[i] = 0 => m.head = i) /\ (pos1[i] = n - 1 => m.next[i] = NoId)
      BY <2>16, <2>17
    <3>4. \A i \in M, j \in M : pos1[j] = pos1[i] + 1 => m.next[i] = j /\ m.prev[j] = i
      BY <2>18
    <3> QED BY <1>1, <2>13, <3>1, <3>2, <3>3, <3>4, Zenon DEF Linked
  <2> QED BY <2>19 DEF m
<1> QED BY <1>6, <1>7

LEMMA NatLessWellFounded ==
    ASSUME NEW R, R = {p \in Nat \X Nat : p[1] < p[2]}
    PROVE  IsWellFoundedOn(R, Nat)
<1>1. R = OpToRel(<, Nat)
  BY DEF OpToRel
<1> QED BY <1>1, NatLessThanWellFounded

\* A set of numbers that is not empty has a least element.
LEMMA Least ==
    ASSUME NEW S \in SUBSET Nat, S # {}
    PROVE  \E m \in S : \A k \in S : m <= k
<1>1. PICK R : R = {p \in Nat \X Nat : p[1] < p[2]}
  OBVIOUS
<1>2. PICK m \in S : \A k \in S : ~ (<<k, m>> \in R)
  BY <1>1, NatLessWellFounded, WFMin
<1>3. ASSUME NEW k \in S PROVE m <= k
  <2>1. k \in Nat /\ m \in Nat /\ ~(k < m)
    BY <1>1, <1>2
  <2> QED BY <2>1
<1> QED BY <1>3

\* A walk of r links from the head.
Walks(l, r, w) ==
    w = [k \in 0 .. r |-> IF k = 0 THEN l.head
                          ELSE IF w[k - 1] = NoId THEN NoId ELSE l.next[w[k - 1]]]

\* The walk in a linked chain: at link k the id at position k, behind them none.
LEMMA WalkIs ==
    ASSUME NEW n \in Nat, NEW l, NEW pos, Linked(l, n, pos), NEW r \in 0 .. n, NEW w,
           Walks(l, r, w)
    PROVE  \A k \in 0 .. r : IF k < n THEN w[k] \in 0 .. n - 1 /\ pos[w[k]] = k
                             ELSE w[k] = NoId
<1> DEFINE Right(k) == IF k < n THEN w[k] \in 0 .. n - 1 /\ pos[w[k]] = k ELSE w[k] = NoId
           Odd == {k \in 0 .. r : ~Right(k)}
<1>1. \A k \in 0 .. r : w[k] = IF k = 0 THEN l.head
                               ELSE IF w[k - 1] = NoId THEN NoId ELSE l.next[w[k - 1]]
  BY DEF Walks
<1>2. Right(0)
  <2>1. w[0] = l.head
    BY <1>1
  <2>2. CASE n = 0
    BY <2>1, <2>2 DEF Linked
  <2>3. CASE n # 0
    <3>1. 0 \in 0 .. n - 1
      BY <2>3
    <3>2. PICK i \in 0 .. n - 1 : pos[i] = 0
      BY <3>1 DEF Linked
    <3>3. l.head = i
      BY <3>2 DEF Linked
    <3> QED BY <2>1, <2>3, <3>2, <3>3
  <2> QED BY <2>2, <2>3
<1>3. ASSUME NEW k \in 0 .. r, k # 0, Right(k - 1) PROVE Right(k)
  <2>1. k - 1 \in 0 .. r /\ k - 1 < n /\ k <= n
    BY <1>3
  <2>2. PICK i \in 0 .. n - 1 : w[k - 1] = i /\ pos[i] = k - 1
    BY <1>3, <2>1
  <2>3. i # NoId
    BY DEF NoId
  <2>4. w[k] = l.next[i]
    BY <1>1, <1>3, <2>2, <2>3
  <2>5. CASE k < n
    <3>1. k \in 0 .. n - 1
      BY <2>5
    <3>2. PICK j \in 0 .. n - 1 : pos[j] = k
      BY <3>1 DEF Linked
    <3>3. pos[j] = pos[i] + 1
      BY <2>2, <3>2
    <3>4. l.next[i] = j
      BY <3>3 DEF Linked
    <3> QED BY <2>4, <2>5, <3>2, <3>4
  <2>6. CASE ~(k < n)
    <3>1. pos[i] = n - 1
      BY <2>1, <2>2, <2>6
    <3>2. l.next[i] = NoId
      BY <3>1 DEF Linked
    <3> QED BY <2>4, <2>6, <3>2
  <2> QED BY <2>5, <2>6
<1>4. Odd = {}
  <2> SUFFICES ASSUME Odd # {} PROVE FALSE
    OBVIOUS
  <2>1. PICK m \in Odd : \A k \in Odd : m <= k
    <3>1. Odd \in SUBSET Nat
      OBVIOUS
    <3> HIDE DEF Odd
    <3> QED BY <3>1, Least
  <2>2. m \in 0 .. r /\ ~Right(m)
    OBVIOUS
  <2>3. m # 0
    BY <1>2, <2>2
  <2>4. m - 1 \in 0 .. r /\ ~(m <= m - 1)
    BY <2>2, <2>3
  <2>5. Right(m - 1)
    BY <2>1, <2>4
  <2> HIDE DEF Right
  <2> QED BY <1>3, <2>2, <2>3, <2>5
<1> QED BY <1>4

\* There is such a walk.
LEMMA WalkExists ==
    ASSUME NEW n \in Nat, NEW l, NEW pos, Linked(l, n, pos), NEW r \in 0 .. n
    PROVE  \E w : Walks(l, r, w)
<1> DEFINE At(k) == CHOOSE i \in 0 .. n - 1 : pos[i] = k
           w == [k \in 0 .. r |-> IF k < n THEN At(k) ELSE NoId]
<1>1. \A k \in 0 .. n - 1 : At(k) \in 0 .. n - 1 /\ pos[At(k)] = k
  BY DEF Linked
<1> HIDE DEF At
<1>2. ASSUME NEW k \in 0 .. r
      PROVE  w[k] = IF k = 0 THEN l.head
                    ELSE IF w[k - 1] = NoId THEN NoId ELSE l.next[w[k - 1]]
  <2>1. CASE k = 0
    <3>1. CASE n = 0
      BY <2>1, <3>1 DEF Linked
    <3>2. CASE n # 0
      <4>1. At(0) \in 0 .. n - 1 /\ pos[At(0)] = 0
        BY <1>1, <3>2
      <4>2. l.head = At(0)
        BY <4>1 DEF Linked
      <4> QED BY <2>1, <3>2, <4>2
    <3> QED BY <3>1, <3>2
  <2>2. CASE k # 0
    <3>1. k - 1 \in 0 .. n - 1 /\ k - 1 \in 0 .. r
      BY <2>2
    <3>2. PICK i \in 0 .. n - 1 : i = At(k - 1) /\ pos[i] = k - 1
      BY <1>1, <3>1
    <3>3. w[k - 1] = i /\ i # NoId
      BY <3>1, <3>2 DEF NoId
    <3>4. CASE k < n
      <4>1. k \in 0 .. n - 1
        BY <3>4
      <4>2. PICK j \in 0 .. n - 1 : j = At(k) /\ pos[j] = k
        BY <1>1, <4>1
      <4>3. pos[j] = pos[i] + 1
        BY <3>2, <4>2
      <4>4. l.next[i] = j
        BY <4>3 DEF Linked
      <4>5. w[k] = j
        BY <3>4, <4>2
      <4> HIDE DEF w
      <4> QED BY <2>2, <3>3, <4>4, <4>5
    <3>5. CASE ~(k < n)
      <4>1. pos[i] = n - 1
        BY <3>1, <3>2, <3>5
      <4>2. l.next[i] = NoId
        BY <4>1 DEF Linked
      <4>3. w[k] = NoId
        BY <3>5
      <4> HIDE DEF w
      <4> QED BY <2>2, <3>3, <4>2, <4>3
    <3> QED BY <3>4, <3>5
  <2> QED BY <2>1, <2>2
<1>3. Walks(l, r, w)
  BY <1>2 DEF Walks
<1> QED BY <1>3

\* lruIDAtRank finds the id at position r, and behind the last id nothing.
LEMMA AtPosition ==
    ASSUME NEW n \in Nat, NEW l, NEW pos, Linked(l, n, pos), NEW r \in 0 .. n
    PROVE  IF r < n THEN LruAt(l, r) \in 0 .. n - 1 /\ pos[LruAt(l, r)] = r
           ELSE LruAt(l, r) = NoId
<1>1. PICK w : w = CHOOSE v : v = [k \in 0 .. r |->
                                    IF k = 0 THEN l.head
                                    ELSE IF v[k - 1] = NoId THEN NoId ELSE l.next[v[k - 1]]]
  OBVIOUS
<1>2. Walks(l, r, w)
  <2>1. \E v : Walks(l, r, v)
    BY WalkExists
  <2> QED BY <1>1, <2>1, Zenon DEF Walks
<1>3. LruAt(l, r) = w[r]
  BY <1>1 DEF LruAt
<1>4. r \in 0 .. r
  OBVIOUS
<1> QED BY <1>2, <1>3, <1>4, WalkIs

-----------------------------------------------------------------------------
(* The ring behind the chain *)

LEMMA Turns ==
    ASSUME NEW R \in Nat \ {0}, NEW a \in Nat
    PROVE  /\ a < R => a % R = a
           /\ a >= R /\ a < 2 * R => a % R = a - R
  BY SMT

\* A push puts the id in front of what the ring held.
LEMMA PushShifts ==
    ASSUME NEW t \in Tables, NEW id \in Ids
    PROVE  /\ MruAt(MruPush(t, id), 0) = id
           /\ \A r \in RingSlots : r # 0 => MruAt(MruPush(t, id), r) = MruAt(t, r - 1)
<1>1. PICK R \in Nat \ {0} : R = MruRingSize
  BY CodecAssumption
<1>2. RingSlots = 0 .. R - 1
  BY <1>1 DEF RingSlots
<1>3. PICK h \in 0 .. R - 1 : h = t.mruHead
  BY <1>2 DEF Tables
<1>4. t.mruRing \in [0 .. R - 1 -> OptId]
  BY <1>2 DEF Tables
<1>5. PICK g : g = (h + 1) % R
  OBVIOUS
<1>6. g = (IF h + 1 < R THEN h + 1 ELSE 0) /\ g \in 0 .. R - 1
  <2>1. h + 1 \in Nat /\ h + 1 < 2 * R
    OBVIOUS
  <2>2. h + 1 < R => g = h + 1
    BY <1>5, <2>1, Turns
  <2>3. ~(h + 1 < R) => g = 0
    <3>1. ~(h + 1 < R) => (h + 1) % R = h + 1 - R
      BY <2>1, Turns
    <3>2. ~(h + 1 < R) => h + 1 - R = 0
      OBVIOUS
    <3> QED BY <1>5, <3>1, <3>2
  <2> QED BY <2>2, <2>3
<1>7. PICK u : u = MruPush(t, id)
  OBVIOUS
<1>8. u.mruHead = g /\ u.mruRing = [t.mruRing EXCEPT ![h] = id]
  BY <1>1, <1>3, <1>5, <1>7 DEF MruPush, Tables
<1>9. MruAt(u, 0) = id
  <2>1. g + R - 1 - 0 \in Nat /\ (g + R - 1 - 0) % R = h
    <3>1. CASE h + 1 < R
      <4>1. g + R - 1 - 0 = h + R /\ h + R \in Nat /\ h + R >= R /\ h + R < 2 * R
        BY <1>6, <3>1
      <4>2. (h + R) % R = h + R - R
        BY <4>1, Turns
      <4> QED BY <4>1, <4>2
    <3>2. CASE ~(h + 1 < R)
      <4>1. g + R - 1 - 0 = h /\ h \in Nat /\ h < R
        BY <1>6, <3>2
      <4>2. h % R = h
        BY <4>1, Turns
      <4> QED BY <4>1, <4>2
    <3> QED BY <3>1, <3>2
  <2> QED BY <2>1, <1>1, <1>4, <1>8 DEF MruAt
<1>10. ASSUME NEW r \in 0 .. R - 1, r # 0 PROVE MruAt(u, r) = MruAt(t, r - 1)
  <2>1. PICK s \in 0 .. R - 1 : /\ s = (g + R - 1 - r) % R
                                /\ s = (h + R - 1 - (r - 1)) % R
                                /\ s # h
    <3>1. h + R - 1 - (r - 1) = h + R - r /\ h + R - r \in Nat /\ h + R - r < 2 * R
      BY <1>10
    <3>4. PICK a \in Nat : a = h + R - r /\ a < 2 * R
      BY <3>1
    <3>5. a >= R => a % R = a - R
      BY <3>4, Turns
    <3>2. CASE h + 1 < R
      <4>1. g + R - 1 - r = h + R - r
        BY <1>6, <3>2
      <4>2. CASE h + R - r < R
        <5>1. (h + R - r) % R = h + R - r
          BY <3>1, <4>2, Turns
        <5>2. h + R - r \in 0 .. R - 1 /\ h + R - r # h
          BY <3>1, <4>2, <1>10
        <5> QED BY <3>1, <4>1, <5>1, <5>2
      <4>3. CASE ~(h + R - r < R)
        <5>1. (h + R - r) % R = h + R - r - R
          <6>1. a >= R
            BY <3>4, <4>3
          <6> QED BY <6>1, <3>4, <3>5
        <5>2. h + R - r - R \in 0 .. R - 1 /\ h + R - r - R # h
          BY <3>1, <4>3, <1>10
        <5> QED BY <3>1, <4>1, <5>1, <5>2
      <4> QED BY <4>2, <4>3
    <3>3. CASE ~(h + 1 < R)
      <4>1. h = R - 1 /\ g = 0
        BY <1>6, <3>3
      <4>2. g + R - 1 - r = R - 1 - r /\ R - 1 - r \in Nat /\ R - 1 - r < R
        BY <4>1
      <4>3. (R - 1 - r) % R = R - 1 - r
        BY <4>2, Turns
      <4>4. h + R - r >= R /\ h + R - r - R = R - 1 - r
        BY <4>1
      <4>5. (h + R - r) % R = R - 1 - r
        <5>1. a >= R
          BY <3>4, <4>4
        <5> QED BY <5>1, <3>4, <3>5, <4>4
      <4>6. R - 1 - r \in 0 .. R - 1 /\ R - 1 - r # h
        BY <4>1, <4>2, <1>10
      <4> QED BY <3>1, <4>2, <4>3, <4>5, <4>6
    <3> QED BY <3>2, <3>3
  <2>2. MruAt(u, r) = u.mruRing[s]
    BY <2>1, <1>1, <1>8 DEF MruAt
  <2>3. MruAt(t, r - 1) = t.mruRing[s]
    BY <2>1, <1>1, <1>3 DEF MruAt
  <2> QED BY <2>1, <2>2, <2>3, <1>4, <1>8
<1> QED BY <1>2, <1>7, <1>9, <1>10

\* An emission moves its id to the front of both, and leaves the order of the
\* others.
LEMMA RecencyKept ==
    ASSUME NEW n \in Nat, NEW n1 \in Nat, NEW x \in 0 .. n1 - 1,
           0 .. n1 - 1 = (0 .. n - 1) \cup {x},
           NEW t, NEW u, NEW pos, NEW pos1, ByRecency(t, n, pos),
           MruAt(u, 0) = x,
           \A r \in RingSlots : r # 0 => MruAt(u, r) = MruAt(t, r - 1),
           pos1 \in [0 .. n1 - 1 -> 0 .. n1 - 1], pos1[x] = 0,
           \A i \in 0 .. n - 1 : i # x => pos1[i] # 0,
           \A i \in 0 .. n - 1, j \in 0 .. n - 1 :
              i # x /\ j # x => (pos1[i] < pos1[j] <=> pos[i] < pos[j])
    PROVE  ByRecency(u, n1, pos1)
<1> DEFINE M == 0 .. n - 1
           N == 0 .. n1 - 1
<1>1. /\ \A r \in RingSlots : r \in Nat /\ (r # 0 => r - 1 \in RingSlots)
      /\ 0 \in RingSlots
  BY CodecAssumption DEF RingSlots
<1>2. \A r \in RingSlots : MruAt(t, r) \in M \cup {NoId}
  BY DEF ByRecency
<1>3. \A r \in RingSlots : MruAt(u, r) \in N \cup {NoId}
  <2> SUFFICES ASSUME NEW r \in RingSlots PROVE MruAt(u, r) \in N \cup {NoId}
    OBVIOUS
  <2>1. CASE r = 0
    BY <2>1
  <2>2. CASE r # 0
    BY <2>2, <1>1, <1>2
  <2> QED BY <2>1, <2>2
<1>4. ASSUME NEW r \in RingSlots, NewestOf(u, r), NEW i \in N
      PROVE  pos1[i] < pos1[MruAt(u, r)]
                <=> \E q \in RingSlots : q < r /\ MruAt(u, q) = i
  <2>1. CASE r = 0
    <3>1. ~(pos1[i] < pos1[MruAt(u, r)])
      <4>1. pos1[i] \in Nat /\ pos1[MruAt(u, r)] = 0
        BY <2>1
      <4> QED BY <4>1
    <3>2. \A q \in RingSlots : ~(q < r)
      BY <2>1, <1>1
    <3> QED BY <3>1, <3>2
  <2>2. CASE r # 0
    <3> DEFINE y == MruAt(t, r - 1)
    <3>1. r - 1 \in RingSlots /\ MruAt(u, r) = y /\ r \in Nat
      BY <2>2, <1>1
    <3>2. y # NoId /\ y \in M /\ y # x
      <4>1. y # NoId
        BY <1>4, <3>1 DEF NewestOf
      <4>2. 0 < r
        BY <2>2, <3>1
      <4>3. y # x
        BY <1>1, <1>4, <3>1, <4>2 DEF NewestOf
      <4> QED BY <4>1, <4>3, <1>2, <3>1
    <3>3. NewestOf(t, r - 1)
      <4> SUFFICES ASSUME NEW q \in RingSlots, q < r - 1 PROVE MruAt(t, q) # y
        BY <3>2 DEF NewestOf
      <4>1. q + 1 \in RingSlots /\ q + 1 < r /\ q + 1 # 0 /\ (q + 1) - 1 = q
        BY <3>1, <1>1, CodecAssumption DEF RingSlots
      <4>2. MruAt(u, q + 1) = MruAt(t, q)
        BY <4>1
      <4> QED BY <4>1, <4>2, <1>4, <3>1 DEF NewestOf
    <3>4. pos1[y] # 0 /\ pos1[y] \in Nat /\ y \in N
      BY <3>2
    <3>5. CASE i = x
      <4>1. 0 < r /\ MruAt(u, 0) = i
        BY <2>2, <3>1, <3>5
      <4>2. pos1[i] < pos1[y]
        BY <3>4, <3>5
      <4> QED BY <4>1, <4>2, <1>1, <3>1
    <3>6. CASE i # x
      <4>1. i \in M
        BY <3>6
      <4>2. pos1[i] < pos1[y] <=> pos[i] < pos[y]
        BY <3>2, <3>6, <4>1
      <4>3. pos[i] < pos[y] <=> \E q \in RingSlots : q < r - 1 /\ MruAt(t, q) = i
        BY <3>1, <3>3, <4>1 DEF ByRecency
      <4>4. ASSUME NEW q \in RingSlots, q < r - 1, MruAt(t, q) = i
            PROVE  \E k \in RingSlots : k < r /\ MruAt(u, k) = i
        <5>1. q + 1 \in RingSlots /\ q + 1 < r /\ q + 1 # 0 /\ (q + 1) - 1 = q
          BY <3>1, <4>4, <1>1, CodecAssumption DEF RingSlots
        <5>2. MruAt(u, q + 1) = MruAt(t, q)
          BY <5>1
        <5> QED BY <4>4, <5>1, <5>2
      <4>5. ASSUME NEW k \in RingSlots, k < r, MruAt(u, k) = i
            PROVE  \E q \in RingSlots : q < r - 1 /\ MruAt(t, q) = i
        <5>1. k # 0
          BY <3>6, <4>5
        <5>2. k - 1 \in RingSlots /\ k - 1 < r - 1 /\ MruAt(u, k) = MruAt(t, k - 1)
          BY <5>1, <4>5, <3>1, <1>1
        <5> QED BY <4>5, <5>2
      <4> QED BY <3>1, <4>2, <4>3, <4>4, <4>5
    <3> QED BY <3>5, <3>6
  <2> QED BY <2>1, <2>2
<1> QED BY <1>3, <1>4 DEF ByRecency

\* The ids emitted after the newest emission r back are as many as stand in
\* front of its id.
LEMMA NewerCount ==
    ASSUME NEW n \in Nat, NEW t, NEW l, NEW pos, Linked(l, n, pos), ByRecency(t, n, pos),
           NEW r \in RingSlots, NewestOf(t, r), NEW S,
           S = {q \in RingSlots : q < r /\ NewestOf(t, q)}
    PROVE  IsFiniteSet(S) /\ Cardinality(S) = pos[MruAt(t, r)]
<1>1. PICK y \in 0 .. n - 1 : y = MruAt(t, r)
  BY DEF ByRecency, NewestOf
<1>2. PICK p \in 0 .. n - 1 : p = pos[y]
  BY DEF Linked
<1>3. RingSlots \subseteq Nat
  BY CodecAssumption DEF RingSlots
<1>4. \A q \in S : q \in RingSlots /\ q < r /\ MruAt(t, q) \in 0 .. n - 1
                   /\ pos[MruAt(t, q)] \in 0 .. p - 1
  <2> SUFFICES ASSUME NEW q \in S
               PROVE  q \in RingSlots /\ q < r /\ MruAt(t, q) \in 0 .. n - 1
                      /\ pos[MruAt(t, q)] \in 0 .. p - 1
    OBVIOUS
  <2>1. q \in RingSlots /\ q < r /\ NewestOf(t, q)
    OBVIOUS
  <2>2. MruAt(t, q) \in 0 .. n - 1
    BY <2>1 DEF ByRecency, NewestOf
  <2>3. pos[MruAt(t, q)] < pos[y]
    BY <1>1, <2>1, <2>2 DEF ByRecency
  <2>4. pos[MruAt(t, q)] \in 0 .. n - 1
    BY <2>2 DEF Linked
  <2> QED BY <1>2, <2>1, <2>2, <2>3, <2>4
<1> DEFINE f == [q \in S |-> pos[MruAt(t, q)]]
<1>5. f \in [S -> 0 .. p - 1]
  BY <1>4
<1>6. ASSUME NEW a \in S, NEW b \in S, f[a] = f[b] PROVE a = b
  <2>1. MruAt(t, a) = MruAt(t, b)
    BY <1>4, <1>6 DEF Linked
  <2>2. NewestOf(t, a) /\ NewestOf(t, b) /\ a \in RingSlots /\ b \in RingSlots
    OBVIOUS
  <2>3. ~(a < b) /\ ~(b < a)
    <3>1. a < b => MruAt(t, a) # MruAt(t, b)
      BY <2>2 DEF NewestOf
    <3>2. b < a => MruAt(t, b) # MruAt(t, a)
      BY <2>2 DEF NewestOf
    <3> QED BY <2>1, <3>1, <3>2
  <2>4. a \in Nat /\ b \in Nat
    BY <2>2, <1>3
  <2> QED BY <2>3, <2>4
<1>7. ASSUME NEW k \in 0 .. p - 1 PROVE \E q \in S : f[q] = k
  <2>1. k \in 0 .. n - 1 /\ k < p
    BY <1>2
  <2>2. PICK i \in 0 .. n - 1 : pos[i] = k
    BY <2>1 DEF Linked
  <2> DEFINE Q == {q \in RingSlots : q < r /\ MruAt(t, q) = i}
  <2>3. Q # {}
    BY <1>1, <1>2, <2>1, <2>2 DEF ByRecency
  <2>4. PICK m \in Q : \A q \in Q : m <= q
    <3>1. Q \in SUBSET Nat
      BY <1>3
    <3> HIDE DEF Q
    <3> QED BY <3>1, <2>3, Least
  <2>5. m \in RingSlots /\ m < r /\ MruAt(t, m) = i /\ i # NoId
    BY DEF NoId
  <2>6. ASSUME NEW q \in RingSlots, q < m PROVE MruAt(t, q) # i
    <3>1. ~(m <= q) /\ q < r
      BY <2>5, <2>6, <1>3
    <3> QED BY <3>1, <2>4
  <2>7. NewestOf(t, m)
    BY <2>5, <2>6 DEF NewestOf
  <2>8. m \in S
    BY <2>5, <2>7
  <2> QED BY <2>2, <2>5, <2>8
<1>8. f \in Bijection(S, 0 .. p - 1)
  <2>1. \A a \in S, b \in S : f[a] = f[b] => a = b
    BY <1>6
  <2>2. \A k \in 0 .. p - 1 : \E q \in S : f[q] = k
    BY <1>7
  <2>3. DOMAIN f = S
    OBVIOUS
  <2> HIDE DEF f
  <2>4. f \in Injection(S, 0 .. p - 1)
    BY <1>5, <2>1, <2>3 DEF Injection, IsInjective
  <2>5. f \in Surjection(S, 0 .. p - 1)
    BY <1>5, <2>2, Zenon DEF Surjection
  <2> QED BY <2>4, <2>5 DEF Bijection
<1>9. IsFiniteSet(S)
  <2>1. S \in SUBSET (0 .. r)
    <3> SUFFICES ASSUME NEW q \in S PROVE q \in 0 .. r
      OBVIOUS
    <3>1. q \in RingSlots /\ q < r
      BY <1>4
    <3> QED BY <3>1, <1>3
  <2>2. 0 \in Int /\ r \in Int
    BY <1>3
  <2>3. IsFiniteSet(0 .. r)
    BY <2>2, FS_Interval
  <2> QED BY <2>1, <2>3, FS_Subset
<1>10. Cardinality(0 .. p - 1) = Cardinality(S)
  BY <1>8, <1>9, FS_Bijection DEF ExistsBijection
<1>11. Cardinality(0 .. p - 1) = p
  <2>1. 0 \in Int /\ p - 1 \in Int
    OBVIOUS
  <2>2. Cardinality(0 .. p - 1) = IF 0 > p - 1 THEN 0 ELSE p - 1 - 0 + 1
    BY <2>1, FS_Interval
  <2> QED BY <2>2
<1> QED BY <1>1, <1>2, <1>9, <1>10, <1>11
\* What a read leaves of the ring: an inline string and a repeat leave it, every
\* other form pushes its id.
LEMMA RingAfterRead ==
    ASSUME NEW t \in Tables, NEW l, NEW f \in Forms, Readable(t, l, f), NEW u,
           u = AfterRead(t, l, f)
    PROVE  IF f.tag \in {"inline", "repeat"}
           THEN /\ u.values = t.values /\ u.mruRing = t.mruRing /\ u.mruHead = t.mruHead
                /\ LruAfterRead(t, l, f) = l
           ELSE \E id \in Ids :
                /\ MruAt(u, 0) = id
                /\ \A r \in RingSlots : r # 0 => MruAt(u, r) = MruAt(t, r - 1)
                /\ IF f.tag = "intern"
                   THEN /\ id = Len(t.values) /\ Len(u.values) = id + 1
                        /\ LruAfterRead(t, l, f) = LruAddFresh(l, id)
                   ELSE /\ id < Len(t.values) /\ u.values = t.values
                        /\ LruAfterRead(t, l, f) = LruMoveToFront(l, id)
<1>1. PICK id : id = ReadId(t, l, f)
  OBVIOUS
<1>2. Len(t.values) \in Nat /\ t.values \in Seq(Strings) /\ t.lastID \in OptId
  BY DEF Tables
<1>3. CASE f.tag = "inline"
  BY <1>3 DEF AfterRead, ForgetLast, Tables, LruAfterRead
<1>4. CASE f.tag = "repeat"
  <2>1. id \in Ids
    BY <1>1, <1>4 DEF ReadId, Readable, Registered
  <2>2. u = PairRecord(t, id, id)
    BY <1>1, <1>4 DEF AfterRead
  <2> QED BY <1>4, <2>1, <2>2, PairRecordType, OptIdType DEF LruAfterRead
<1>5. CASE f.tag \in {"intern", "ref", "mtf", "pair"}
  <2> DEFINE reg == IF f.tag = "intern" THEN [t EXCEPT !.values = Append(t.values, f.str)]
                    ELSE t
  <2>1. id \in Ids
    BY <1>1, <1>5, <1>2, CodecAssumption DEF ReadId, Readable, Registered, Ids
  <2>2. reg \in Tables /\ reg.mruRing = t.mruRing /\ reg.mruHead = t.mruHead
        /\ reg.values = IF f.tag = "intern" THEN Append(t.values, f.str) ELSE t.values
    <3>1. f.tag = "intern" => Append(t.values, f.str) \in Seq(Strings)
      BY <1>2 DEF Forms
    <3> QED BY <3>1 DEF Tables
  <2>3. u = [PairRecord(MruPush(reg, id), t.lastID, id) EXCEPT !.lastID = id]
    BY <1>1, <1>5 DEF AfterRead
  <2> HIDE DEF reg
  <2>4. PICK m \in Tables : m = MruPush(reg, id) /\ m.values = reg.values
    BY <2>1, <2>2, MruPushType
  <2>5. PICK v \in Tables : /\ v = PairRecord(m, t.lastID, id)
                            /\ v.values = m.values
                            /\ v.mruRing = m.mruRing /\ v.mruHead = m.mruHead
    BY <1>2, <2>1, PairRecordType
  <2>6. u = [v EXCEPT !.lastID = id]
    BY <2>3, <2>4, <2>5
  <2>7. u.values = reg.values /\ u.mruRing = m.mruRing /\ u.mruHead = m.mruHead
    BY <2>4, <2>5, <2>6 DEF Tables
  <2>8. \A r : MruAt(u, r) = MruAt(m, r) /\ MruAt(reg, r) = MruAt(t, r)
    BY <2>2, <2>7 DEF MruAt
  <2>9. /\ MruAt(u, 0) = id
        /\ \A r \in RingSlots : r # 0 => MruAt(u, r) = MruAt(t, r - 1)
    <3>1. /\ MruAt(m, 0) = id
          /\ \A r \in RingSlots : r # 0 => MruAt(m, r) = MruAt(reg, r - 1)
      BY <2>1, <2>2, <2>4, PushShifts
    <3> QED BY <3>1, <2>8
  <2>10. CASE f.tag = "intern"
    <3>1. id = Len(t.values) /\ LruAfterRead(t, l, f) = LruAddFresh(l, id)
      BY <1>1, <2>10 DEF ReadId, LruAfterRead
    <3>2. Len(u.values) = Len(t.values) + 1
      BY <1>2, <2>2, <2>7, <2>10
    <3> QED BY <2>1, <2>9, <2>10, <3>1, <3>2
  <2>11. CASE f.tag # "intern"
    <3>1. id < Len(t.values) /\ LruAfterRead(t, l, f) = LruMoveToFront(l, id)
      BY <1>1, <1>5, <2>11 DEF ReadId, Readable, Registered, LruAfterRead
    <3> QED BY <1>5, <2>1, <2>2, <2>7, <2>9, <2>11, <3>1
  <2> QED BY <2>10, <2>11
<1> QED BY <1>3, <1>4, <1>5 DEF Forms

\* The links, the ring and the table agree: some order of the ids is the order
\* of the chain, and of the ring as far as the ring reaches.
ChainedBy(l, t) ==
    \E pos : Linked(l, Len(t.values), pos) /\ ByRecency(t, Len(t.values), pos)

LEMMA ChainedEmpty == ChainedBy(EmptyLru, EmptyTables)
<1>1. Len(EmptyTables.values) = 0
  BY DEF EmptyTables
<1>2. PICK pos : pos = [i \in 0 .. 0 - 1 |-> 0]
  OBVIOUS
<1>3. \A i \in 0 .. 0 - 1 : FALSE
  OBVIOUS
<1>4. pos \in [0 .. 0 - 1 -> 0 .. 0 - 1]
  BY <1>2, <1>3
<1>5. Linked(EmptyLru, 0, pos)
  BY <1>3, <1>4 DEF Linked, EmptyLru
<1>6. \A r \in RingSlots : MruAt(EmptyTables, r) = NoId
  <2> SUFFICES ASSUME NEW r \in RingSlots PROVE MruAt(EmptyTables, r) = NoId
    OBVIOUS
  <2>1. (0 + MruRingSize - 1 - r) % MruRingSize \in RingSlots
    BY CodecAssumption, SMT DEF RingSlots
  <2> QED BY <2>1 DEF MruAt, EmptyTables
<1>7. ByRecency(EmptyTables, 0, pos)
  BY <1>6 DEF ByRecency, NewestOf
<1> QED BY <1>1, <1>5, <1>7 DEF ChainedBy

\* Every read keeps them in agreement, whatever form it meets.
LEMMA ChainedAfterRead ==
    ASSUME NEW t \in Tables, NEW l \in Lrus, NEW f \in Forms, Readable(t, l, f),
           Len(t.values) <= MaxInternEntries, ChainedBy(l, t)
    PROVE  /\ ChainedBy(LruAfterRead(t, l, f), AfterRead(t, l, f))
           /\ Len(AfterRead(t, l, f).values) <= MaxInternEntries
<1>1. PICK n \in Nat : n = Len(t.values)
  BY DEF Tables
<1>2. PICK pos : Linked(l, n, pos) /\ ByRecency(t, n, pos)
  BY <1>1 DEF ChainedBy
<1>3. PICK u : u = AfterRead(t, l, f)
  OBVIOUS
<1>4. PICK m : m = LruAfterRead(t, l, f)
  OBVIOUS
<1>5. CASE f.tag \in {"inline", "repeat"}
  <2>1. u.values = t.values /\ u.mruRing = t.mruRing /\ u.mruHead = t.mruHead /\ m = l
    BY <1>3, <1>4, <1>5, RingAfterRead
  <2>2. \A r : MruAt(u, r) = MruAt(t, r)
    BY <2>1 DEF MruAt
  <2>3. ByRecency(u, n, pos)
    BY <1>2, <2>2 DEF ByRecency, NewestOf
  <2> QED BY <1>1, <1>2, <1>3, <1>4, <2>1, <2>3 DEF ChainedBy
<1>6. CASE f.tag = "intern"
  <2>1. /\ n \in Ids /\ n < MaxInternEntries /\ m = LruAddFresh(l, n) /\ MruAt(u, 0) = n
        /\ \A r \in RingSlots : r # 0 => MruAt(u, r) = MruAt(t, r - 1)
        /\ Len(u.values) = n + 1
    <3>1. n < MaxInternEntries
      BY <1>1, <1>6 DEF Readable
    <3> QED BY <3>1, <1>1, <1>3, <1>4, <1>6, RingAfterRead
  <2>2. PICK pos1 : pos1 = [i \in 0 .. n |-> IF i = n THEN 0 ELSE pos[i] + 1]
    OBVIOUS
  <2>3. PICK n1 \in Nat : n1 = n + 1
    OBVIOUS
  <2>4. Linked(m, n1, pos1)
    BY <1>2, <2>1, <2>2, <2>3, LinkFresh
  <2>10. n \in 0 .. n1 - 1 /\ 0 .. n1 - 1 = (0 .. n - 1) \cup {n}
    BY <2>3
  <2>5. pos \in [0 .. n - 1 -> 0 .. n - 1]
    BY <1>2 DEF Linked
  <2>6. \A i \in 0 .. n - 1 : pos[i] \in Nat /\ pos1[i] = pos[i] + 1 /\ i # n
    BY <2>2, <2>5
  <2>7. pos1[n] = 0 /\ \A i \in 0 .. n - 1 : i # n => pos1[i] # 0
    BY <2>2, <2>6
  <2>8. \A i \in 0 .. n - 1, j \in 0 .. n - 1 :
           i # n /\ j # n => (pos1[i] < pos1[j] <=> pos[i] < pos[j])
    BY <2>6
  <2>9. pos1 \in [0 .. n1 - 1 -> 0 .. n1 - 1]
    BY <2>4 DEF Linked
  <2>11. ByRecency(u, n1, pos1)
    <3>1. PICK x \in 0 .. n1 - 1 : x = n
      BY <2>10
    <3>2. 0 .. n1 - 1 = (0 .. n - 1) \cup {x} /\ MruAt(u, 0) = x /\ pos1[x] = 0
      BY <3>1, <2>1, <2>7, <2>10
    <3>3. \A i \in 0 .. n - 1 : i # x => pos1[i] # 0
      BY <3>1, <2>7
    <3>4. \A i \in 0 .. n - 1, j \in 0 .. n - 1 :
             i # x /\ j # x => (pos1[i] < pos1[j] <=> pos[i] < pos[j])
      BY <3>1, <2>8
    <3>5. \A r \in RingSlots : r # 0 => MruAt(u, r) = MruAt(t, r - 1)
      BY <2>1
    <3>6. ByRecency(t, n, pos)
      BY <1>2
    <3> QED BY <2>9, <3>2, <3>3, <3>4, <3>5, <3>6, RecencyKept, Zenon
  <2>12. Len(u.values) = n1 /\ n1 <= MaxInternEntries
    BY <2>1, <2>3, CodecAssumption
  <2> QED BY <1>3, <1>4, <2>4, <2>11, <2>12 DEF ChainedBy
<1>7. CASE f.tag \notin {"inline", "repeat", "intern"}
  <2>1. PICK x \in Ids :
             /\ x < n /\ m = LruMoveToFront(l, x) /\ MruAt(u, 0) = x
             /\ \A r \in RingSlots : r # 0 => MruAt(u, r) = MruAt(t, r - 1)
             /\ u.values = t.values
    BY <1>1, <1>3, <1>4, <1>7, RingAfterRead
  <2>2. PICK pos1 : pos1 = [i \in 0 .. n - 1 |-> IF i = x THEN 0
                                ELSE IF pos[i] < pos[x] THEN pos[i] + 1 ELSE pos[i]]
    OBVIOUS
  <2>3. x \in 0 .. n - 1 /\ 0 .. n - 1 = (0 .. n - 1) \cup {x}
    BY <2>1 DEF Ids
  <2>4. Linked(m, n, pos1)
    <3>1. n <= MaxInternEntries
      BY <1>1
    <3> QED BY <3>1, <1>2, <2>1, <2>2, <2>3, LinkMoved
  <2>5. /\ \A i \in 0 .. n - 1 : pos[i] \in Nat
        /\ \A i \in 0 .. n - 1 : i # x => pos[i] # pos[x]
    <3>1. pos \in [0 .. n - 1 -> 0 .. n - 1]
      BY <1>2 DEF Linked
    <3>2. \A i \in 0 .. n - 1, j \in 0 .. n - 1 : pos[i] = pos[j] => i = j
      BY <1>2 DEF Linked
    <3> QED BY <2>3, <3>1, <3>2
  <2>6. /\ pos1[x] = 0
        /\ \A i \in 0 .. n - 1 : i # x =>
              pos1[i] = IF pos[i] < pos[x] THEN pos[i] + 1 ELSE pos[i]
    BY <2>2, <2>3
  <2>7. \A i \in 0 .. n - 1 : i # x => pos1[i] # 0
    BY <2>3, <2>5, <2>6
  <2>8. \A i \in 0 .. n - 1, j \in 0 .. n - 1 :
           i # x /\ j # x => (pos1[i] < pos1[j] <=> pos[i] < pos[j])
    BY <2>3, <2>5, <2>6
  <2>9. pos1 \in [0 .. n - 1 -> 0 .. n - 1]
    BY <2>4 DEF Linked
  <2>10. ByRecency(u, n, pos1)
    BY <1>2, <2>1, <2>3, <2>6, <2>7, <2>8, <2>9, RecencyKept
  <2> QED BY <1>1, <1>3, <1>4, <2>1, <2>4, <2>10 DEF ChainedBy
<1> QED BY <1>5, <1>6, <1>7

\* What links, ring and table agree on is what LruChain says of them.
LEMMA ChainedShows ==
    ASSUME TypeOK, ChainedBy(lru, dec)
    PROVE  LruChain
<1>1. PICK n \in Nat : n = Len(dec.values)
  BY DEF TypeOK, Tables
<1>2. PICK pos : Linked(lru, n, pos) /\ ByRecency(dec, n, pos)
  BY <1>1 DEF ChainedBy
<1>3. PICK ring : ring = [r \in 1 .. MruRingSize |-> MruAt(dec, r - 1)]
  OBVIOUS
<1> DEFINE FirstSeen(r) == ring[r] # NoId /\ \A q \in 1 .. r - 1 : ring[q] # ring[r]
           Newer(r) == {q \in 1 .. r - 1 : FirstSeen(q)}
<1>4. \A r \in 0 .. n - 1 : LruAt(lru, r) \in 0 .. n - 1 /\ pos[LruAt(lru, r)] = r
  <2> SUFFICES ASSUME NEW r \in 0 .. n - 1
               PROVE  LruAt(lru, r) \in 0 .. n - 1 /\ pos[LruAt(lru, r)] = r
    OBVIOUS
  <2>1. r \in 0 .. n /\ r < n
    OBVIOUS
  <2> QED BY <2>1, <1>2, AtPosition
<1>5. \A i \in 0 .. n - 1 : pos[i] \in 0 .. n - 1 /\ LruAt(lru, pos[i]) = i
  <2> SUFFICES ASSUME NEW i \in 0 .. n - 1
               PROVE  pos[i] \in 0 .. n - 1 /\ LruAt(lru, pos[i]) = i
    OBVIOUS
  <2>1. pos[i] \in 0 .. n - 1
    BY <1>2 DEF Linked
  <2>2. LruAt(lru, pos[i]) \in 0 .. n - 1 /\ pos[LruAt(lru, pos[i])] = pos[i]
    BY <2>1, <1>4
  <2> QED BY <2>1, <2>2, <1>2 DEF Linked
<1>6. {LruAt(lru, r) : r \in 0 .. n - 1} = 0 .. n - 1
  BY <1>4, <1>5
<1>7. LruAt(lru, n) = NoId
  <2>1. n \in 0 .. n /\ ~(n < n)
    OBVIOUS
  <2> QED BY <2>1, <1>2, AtPosition
<1>8. ASSUME NEW r \in 1 .. MruRingSize, FirstSeen(r)
      PROVE  LruAt(lru, Cardinality(Newer(r))) = ring[r]
  <2>1. \A q \in 1 .. MruRingSize : q - 1 \in RingSlots /\ ring[q] = MruAt(dec, q - 1)
    BY <1>3, CodecAssumption DEF RingSlots
  <2>2. ASSUME NEW q \in 1 .. MruRingSize PROVE FirstSeen(q) <=> NewestOf(dec, q - 1)
    <3>1. ring[q] = MruAt(dec, q - 1) /\ q - 1 \in RingSlots
      BY <2>1
    <3>2. ASSUME NewestOf(dec, q - 1), NEW k \in 1 .. q - 1 PROVE ring[k] # ring[q]
      <4>1. k \in 1 .. MruRingSize /\ k - 1 < q - 1
        BY CodecAssumption
      <4>2. ring[k] = MruAt(dec, k - 1) /\ k - 1 \in RingSlots
        BY <4>1, <2>1
      <4> QED BY <3>1, <3>2, <4>1, <4>2 DEF NewestOf
    <3>3. ASSUME FirstSeen(q), NEW k \in RingSlots, k < q - 1
          PROVE  MruAt(dec, k) # MruAt(dec, q - 1)
      <4>1. k + 1 \in 1 .. MruRingSize /\ k + 1 \in 1 .. q - 1 /\ (k + 1) - 1 = k
        BY <3>3, CodecAssumption DEF RingSlots
      <4>2. ring[k + 1] = MruAt(dec, k)
        BY <4>1, <2>1
      <4> QED BY <3>1, <3>3, <4>1, <4>2
    <3> QED BY <3>1, <3>2, <3>3 DEF NewestOf
  <2>3. r - 1 \in RingSlots /\ NewestOf(dec, r - 1) /\ ring[r] = MruAt(dec, r - 1)
    BY <1>8, <2>1, <2>2
  <2> DEFINE S == {q \in RingSlots : q < r - 1 /\ NewestOf(dec, q)}
  <2>4. IsFiniteSet(S) /\ Cardinality(S) = pos[ring[r]]
    <3> HIDE DEF S
    <3>1. S = {q \in RingSlots : q < r - 1 /\ NewestOf(dec, q)}
      BY DEF S
    <3> QED BY <3>1, <2>3, <1>2, NewerCount
  <2> DEFINE f == [q \in S |-> q + 1]
  <2>5. f \in [S -> Newer(r)]
    <3> SUFFICES ASSUME NEW q \in S PROVE q + 1 \in Newer(r)
      OBVIOUS
    <3>1. q \in RingSlots /\ q < r - 1 /\ NewestOf(dec, q)
      OBVIOUS
    <3>2. q + 1 \in 1 .. MruRingSize /\ q + 1 \in 1 .. r - 1 /\ (q + 1) - 1 = q
      BY <3>1, CodecAssumption DEF RingSlots
    <3>3. FirstSeen(q + 1)
      BY <3>1, <3>2, <2>2
    <3> QED BY <3>2, <3>3
  <2>6. \A a \in S, b \in S : f[a] = f[b] => a = b
    BY CodecAssumption DEF RingSlots
  <2>7. ASSUME NEW k \in Newer(r) PROVE \E q \in S : f[q] = k
    <3>1. k \in 1 .. r - 1 /\ FirstSeen(k)
      OBVIOUS
    <3>2. k \in 1 .. MruRingSize /\ k - 1 < r - 1 /\ (k - 1) + 1 = k
      BY <3>1, CodecAssumption
    <3>3. k - 1 \in RingSlots /\ NewestOf(dec, k - 1)
      BY <3>1, <3>2, <2>1, <2>2
    <3>4. k - 1 \in S
      BY <3>2, <3>3
    <3> QED BY <3>2, <3>4
  <2>8. Cardinality(Newer(r)) = Cardinality(S)
    <3>1. DOMAIN f = S
      OBVIOUS
    <3> HIDE DEF f, S, Newer
    <3>2. f \in Injection(S, Newer(r))
      BY <2>5, <2>6, <3>1 DEF Injection, IsInjective
    <3>3. f \in Surjection(S, Newer(r))
      BY <2>5, <2>7, Zenon DEF Surjection
    <3>4. ExistsBijection(S, Newer(r))
      BY <3>2, <3>3 DEF Bijection, ExistsBijection
    <3> QED BY <3>4, <2>4, FS_Bijection
  <2>9. ring[r] \in 0 .. n - 1
    BY <2>3, <1>2 DEF ByRecency, NewestOf
  <2> QED BY <2>4, <2>8, <2>9, <1>5
<1> QED BY <1>1, <1>3, <1>6, <1>7, <1>8 DEF LruChain

\* Only the types are needed beside it: the decoder's own bookkeeping does not
\* depend on what an encoder would have written.
Chained ==
    /\ TypeOK
    /\ Len(dec.values) <= MaxInternEntries
    /\ ChainedBy(lru, dec)

LEMMA ChainedStep == Chained /\ [Next]_vars => Chained'
<1> SUFFICES ASSUME Chained, [Next]_vars PROVE Chained'
  OBVIOUS
<1>1. TypeOK'
  BY TypeStep DEF Chained
<1>2. CASE UNCHANGED <<dec, lru>>
  BY <1>1, <1>2 DEF Chained
<1>3. CASE ReadHeader
  <2>1. dec' = EmptyTables /\ lru' = EmptyLru
    BY <1>3 DEF ReadHeader
  <2>2. Len(EmptyTables.values) <= MaxInternEntries
    BY CodecAssumption DEF EmptyTables
  <2> QED BY <1>1, <2>1, <2>2, ChainedEmpty DEF Chained
<1>4. CASE ReadString
  <2> DEFINE f == Head(wire).form
  <2>1. f \in Forms /\ dec \in Tables /\ lru \in Lrus
    <3>1. wire # <<>> /\ f.tag # "header" /\ wire \in Seq(Items)
      BY <1>4 DEF ReadString, NextItem, Chained, TypeOK
    <3>2. Head(wire) \in Items
      BY <3>1
    <3> QED BY <3>1, <3>2 DEF Items, HeaderForm, Chained, TypeOK
  <2>2. CASE Readable(dec, lru, f)
    <3>1. dec' = AfterRead(dec, lru, f) /\ lru' = LruAfterRead(dec, lru, f)
      BY <1>4, <2>2 DEF ReadString
    <3>2. /\ ChainedBy(LruAfterRead(dec, lru, f), AfterRead(dec, lru, f))
          /\ Len(AfterRead(dec, lru, f).values) <= MaxInternEntries
      <4> HIDE DEF f
      <4> QED BY <2>1, <2>2, ChainedAfterRead DEF Chained
    <3> HIDE DEF f
    <3> QED BY <1>1, <3>1, <3>2 DEF Chained
  <2>3. CASE ~Readable(dec, lru, f)
    BY <1>2, <1>4, <2>3 DEF ReadString
  <2> QED BY <2>2, <2>3
<1>5. CASE Next /\ ~ReadHeader /\ ~ReadString
  <2>1. UNCHANGED <<dec, lru>>
    BY <1>5 DEF Next, ApplyOpts, PreIntern, Write, WritePlain, WriteInline, WriteString,
       WriteCached, WriteUnseen, Reset, ResetForReuse, StartOver, Take, SkipInline, decVars
  <2> QED BY <1>2, <2>1
<1>6. CASE UNCHANGED vars
  BY <1>2, <1>6 DEF vars, decVars
<1> QED BY <1>3, <1>4, <1>5, <1>6

LEMMA ChainedInit == Init => Chained
<1> SUFFICES ASSUME Init PROVE Chained
  OBVIOUS
<1>1. dec = EmptyTables /\ lru = EmptyLru
  BY DEF Init
<1>2. Len(EmptyTables.values) <= MaxInternEntries
  BY CodecAssumption DEF EmptyTables
<1> QED BY <1>1, <1>2, InitType, ChainedEmpty DEF Chained

\* Whatever forms the decoder meets, every registered id is linked once, and the
\* ring of the newest emissions is the front of the chain: what mruIDAtRank answers
\* from the ring is what the walk of lruIDAtRank would.
THEOREM ChainFollowsRing == Spec => []LruChain
<1>1. Chained => LruChain
  BY ChainedShows DEF Chained
<1> QED BY <1>1, ChainedInit, ChainedStep, PTL DEF Spec

=============================================================================
