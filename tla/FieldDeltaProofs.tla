-------------------------- MODULE FieldDeltaProofs --------------------------
(***************************************************************************)
(* FieldDelta, for every set of strings and fields, every cap, gate and    *)
(* bound, where the struct type is only written in slices: the two ends'   *)
(* bases move together, a remembered id names the base, and the fields are *)
(* read back as they were written.  What a step does to the tables is      *)
(* proved in DenseCodecProofs; this module is about the bases.             *)
(***************************************************************************)
EXTENDS FieldDelta, DenseCodecProofs

-----------------------------------------------------------------------------
(* The inductive invariant *)

\* Where the encoder stood before item i, and where it stands now for the
\* first item not yet written.
EncAt(i) == IF i <= Len(wire) THEN wire[i].at ELSE enc
FieldsAt(i) == IF i <= Len(wire) THEN wire[i].fieldsAt ELSE fields

\* The encoder's bases after an item: a field's base is the value written to
\* it last, unless the encoder dropped it.
BasesFollow(item, fs) ==
    \A f \in Fields : fs[f].base # NoString =>
        fs[f].base = IF f = item.field THEN item.wrote ELSE item.fieldsAt[f].base

HeaderStep(item, t, fs) ==
    /\ item.form = HeaderForm
    /\ item.wrote = NewMessage
    /\ t = EmptyTables
    /\ fs = FreshFields

StringStep(item, t, fs) ==
    /\ item.form \in Forms
    /\ item.wrote \in Strings
    /\ Faithful(item.form, item.wrote, item.at, Opts)
    /\ Mirrors(AfterRead(item.at, EmptyLru, item.form), t, Opts)
    /\ BasesFollow(item, fs)

\* A delta names its value only to a decoder that has the encoder's base.
DeltaStep(item, t, fs) ==
    /\ item.form \in DeltaForms
    /\ item.field \in Fields
    /\ item.wrote \in Strings
    /\ item.fieldsAt[item.field].base # NoString
    /\ item.wrote = <<Stem(item.fieldsAt[item.field].base), item.form.str>>
    /\ t = ForgetLast(item.at)
    /\ BasesFollow(item, fs)

\* item took the encoder to t and fs, and it names its value to a decoder
\* that stands where the encoder stood.
ItemStep(item, t, fs) ==
    HeaderStep(item, t, fs) \/ StringStep(item, t, fs) \/ DeltaStep(item, t, fs)

WireInStep ==
    \A i \in 1 .. Len(wire) : ItemStep(wire[i], EncAt(i + 1), FieldsAt(i + 1))

InStep == BasesMirror(bases, FieldsAt(1)) /\ Mirrors(dec, EncAt(1), Opts)

\* The two halves of the lockstep, the remembered ids, and no error so far.
IInv ==
    /\ TypeOK
    /\ WireInStep
    /\ InStep
    /\ BaseIdNamesBase
    /\ ~failed

LEMMA InStepIsFieldLockstep == TypeOK => (InStep <=> FieldLockstep)
<1> SUFFICES ASSUME TypeOK PROVE InStep <=> FieldLockstep
  OBVIOUS
<1>1. wire \in Seq(Items)
  BY DEF TypeOK
<1>2. CASE wire = <<>>
  BY <1>2 DEF InStep, FieldLockstep, EncAt, FieldsAt
<1>3. CASE wire # <<>>
  <2>1. 1 <= Len(wire)
    BY <1>1, <1>3
  <2> QED
    BY <1>3, <2>1 DEF InStep, FieldLockstep, EncAt, FieldsAt
<1> QED
  BY <1>2, <1>3

LEMMA FormKinds ==
    /\ \A f \in Forms : f.tag \in Tags /\ f.tag # "header" /\ f.tag # "delta"
    /\ HeaderForm \notin Forms /\ HeaderForm \notin DeltaForms
    /\ HeaderForm.tag = "header"
    /\ \A f \in DeltaForms : f.tag = "delta" /\ f.str \in Tails
<1>1. \A f \in Forms : f.tag \in Tags /\ f.tag # "header" /\ f.tag # "delta"
  BY DEF Forms, Tags
<1>2. HeaderForm.tag = "header"
  BY DEF HeaderForm, RefForm
<1>3. \A f \in DeltaForms : f.tag = "delta" /\ f.str \in Tails
  BY DEF DeltaForms
<1> QED
  BY <1>1, <1>2, <1>3

LEMMA NoIdType == NoId \in OptId /\ NoId \notin Ids /\ Ids \subseteq OptId
  BY CodecAssumption DEF OptId, NoId, Ids

-----------------------------------------------------------------------------
(* Types *)

LEMMA ItemType ==
    ASSUME TypeOK, NEW form \in Forms \cup {HeaderForm} \cup DeltaForms,
           NEW f \in Fields \cup {NoField}, NEW v \in Strings \cup {NewMessage}
    PROVE  Item(form, f, v) \in Items
  BY DEF Item, Items, TypeOK

LEMMA GateType ==
    ASSUME NEW fs \in FieldStates, NEW win \in BOOLEAN
    PROVE  Probed(fs, win) \in FieldStates /\ Unprobed(fs) \in FieldStates
<1>1. fs.seen \in Nat /\ fs.wins \in Nat
  BY DEF FieldStates
<1> DEFINE seen == fs.seen + 1
           wins == fs.wins + (IF win THEN 1 ELSE 0)
           none == (wins = 0)
<1>2. seen \in Nat /\ wins \in Nat /\ none \in BOOLEAN /\ FALSE \in BOOLEAN
  BY <1>1
<1>3. Probed(fs, win) = IF seen >= ProbeN
                        THEN [fs EXCEPT !.muted = none, !.seen = 0, !.wins = 0]
                        ELSE [fs EXCEPT !.seen = seen, !.wins = wins]
  BY DEF Probed
<1> HIDE DEF seen, wins, none
<1>4. [fs EXCEPT !.muted = none, !.seen = 0, !.wins = 0] \in FieldStates
  BY <1>2 DEF FieldStates
<1>5. [fs EXCEPT !.seen = seen, !.wins = wins] \in FieldStates
  BY <1>2 DEF FieldStates
<1>6. [fs EXCEPT !.muted = FALSE, !.seen = 0, !.wins = 0] \in FieldStates
  BY DEF FieldStates
<1>7. [fs EXCEPT !.seen = @ + 1] \in FieldStates
  BY DEF FieldStates
<1> QED
  BY <1>3, <1>4, <1>5, <1>6, <1>7 DEF Unprobed

LEMMA RebaseType ==
    ASSUME NEW fs \in FieldStates, NEW s \in Strings, NEW id \in OptId
    PROVE  /\ Rebase(fs, s, id) \in FieldStates
           /\ Rebase(fs, s, id).base = s
           /\ Rebase(fs, s, id).baseID = id
  BY DEF Rebase, FieldStates

LEMMA FreshType == FreshFields \in [Fields -> FieldStates]
<1>1. FreshField \in FieldStates
  BY NoIdType DEF FreshField, FieldStates
<1> QED
  BY <1>1 DEF FreshFields

-----------------------------------------------------------------------------
(* The wire grows at one end and shrinks at the other *)

\* An item remembers where the encoder stood, and that is where the item
\* before it went: a wire of items in step stays so.
LEMMA WireGrows ==
    ASSUME IInv, NEW form \in Forms \cup {HeaderForm} \cup DeltaForms,
           NEW f \in Fields \cup {NoField}, NEW v \in Strings \cup {NewMessage},
           Emit(form, f, v), ItemStep(Item(form, f, v), enc', fields'),
           UNCHANGED <<dec, bases>>
    PROVE  wire' \in Seq(Items) /\ WireInStep' /\ InStep'
<1> USE DEF IInv
<1> DEFINE n == Len(wire)
           item == Item(form, f, v)
<1>1. wire \in Seq(Items) /\ wire' = Append(wire, item) /\ item \in Items
  BY ItemType DEF TypeOK, Emit
<1>2. item.at = enc /\ item.fieldsAt = fields /\ ItemStep(item, enc', fields')
  BY DEF Item
<1> HIDE DEF item
<1>3. /\ n \in Nat
      /\ wire' \in Seq(Items) /\ Len(wire') = n + 1
      /\ \A i \in 1 .. n : wire'[i] = wire[i]
      /\ wire'[n + 1] = item
  BY <1>1
<1>4. ASSUME NEW i \in 1 .. n + 1
      PROVE  EncAt(i)' = EncAt(i) /\ FieldsAt(i)' = FieldsAt(i)
  <2>1. CASE i \in 1 .. n
    <3>1. wire'[i] = wire[i] /\ i <= Len(wire) /\ i <= Len(wire')
      BY <1>3, <2>1
    <3> QED
      BY <3>1 DEF EncAt, FieldsAt
  <2>2. CASE i = n + 1
    <3>1. wire'[i] = item /\ ~(i <= Len(wire)) /\ i <= Len(wire')
      BY <1>3, <2>2
    <3> QED
      BY <1>2, <3>1 DEF EncAt, FieldsAt
  <2> QED
    BY <1>3, <2>1, <2>2
<1>5. ASSUME NEW i \in Nat, i = n + 2
      PROVE  EncAt(i)' = enc' /\ FieldsAt(i)' = fields'
  <2>1. ~(i <= Len(wire'))
    BY <1>3, <1>5
  <2> QED
    BY <2>1 DEF EncAt, FieldsAt
<1>6. WireInStep'
  <2> SUFFICES ASSUME NEW i \in 1 .. n + 1
               PROVE  ItemStep(wire'[i], EncAt(i + 1)', FieldsAt(i + 1)')
    BY <1>3 DEF WireInStep
  <2>1. CASE i \in 1 .. n
    <3>1. ItemStep(wire[i], EncAt(i + 1), FieldsAt(i + 1))
      BY <2>1 DEF WireInStep
    <3>2. i + 1 \in 1 .. n + 1
      BY <1>3, <2>1
    <3> QED
      BY <1>3, <1>4, <2>1, <3>1, <3>2
  <2>2. CASE i = n + 1
    <3>1. i + 1 = n + 2 /\ i + 1 \in Nat
      BY <1>3, <2>2
    <3> QED
      BY <1>2, <1>3, <1>5, <2>2, <3>1
  <2> QED
    BY <1>3, <2>1, <2>2
<1>7. InStep'
  <2>1. 1 \in 1 .. n + 1
    BY <1>3
  <2> QED
    BY <1>4, <2>1 DEF InStep
<1> QED
  BY <1>3, <1>6, <1>7

\* A decoder that follows the oldest item to where it went is in step with
\* the items behind it.
LEMMA WireShrinks ==
    ASSUME IInv, wire # <<>>, wire' = Tail(wire), UNCHANGED encVars,
           BasesMirror(bases', FieldsAt(2)), Mirrors(dec', EncAt(2), Opts)
    PROVE  wire' \in Seq(Items) /\ WireInStep' /\ InStep' /\ BaseIdNamesBase'
<1> USE DEF IInv
<1>1. /\ Len(wire) \in Nat /\ Len(wire) > 0
      /\ wire' \in Seq(Items)
      /\ Len(wire') = Len(wire) - 1
      /\ \A i \in 1 .. Len(wire') : wire'[i] = wire[i + 1]
  BY TailOfSeq DEF TypeOK
<1>2. ASSUME NEW i \in Nat \ {0}
      PROVE  EncAt(i)' = EncAt(i + 1) /\ FieldsAt(i)' = FieldsAt(i + 1)
  <2>1. CASE i <= Len(wire')
    <3>1. wire'[i] = wire[i + 1] /\ i + 1 <= Len(wire)
      BY <1>1, <2>1
    <3> QED
      BY <2>1, <3>1 DEF EncAt, FieldsAt
  <2>2. CASE ~(i <= Len(wire'))
    <3>1. ~(i + 1 <= Len(wire))
      BY <1>1, <2>2
    <3> QED
      BY <2>2, <3>1 DEF EncAt, FieldsAt, encVars
  <2> QED
    BY <2>1, <2>2
<1>3. WireInStep'
  <2> SUFFICES ASSUME NEW i \in 1 .. Len(wire')
               PROVE  ItemStep(wire'[i], EncAt(i + 1)', FieldsAt(i + 1)')
    BY DEF WireInStep
  <2>1. i + 1 \in 1 .. Len(wire) /\ i + 1 \in Nat \ {0}
    BY <1>1
  <2>2. ItemStep(wire[i + 1], EncAt(i + 1 + 1), FieldsAt(i + 1 + 1))
    BY <2>1 DEF WireInStep
  <2> QED
    BY <1>1, <1>2, <2>1, <2>2
<1>4. InStep'
  <2>1. EncAt(1)' = EncAt(2) /\ FieldsAt(1)' = FieldsAt(2)
    BY <1>2
  <2> QED
    BY <2>1 DEF InStep
<1>5. BaseIdNamesBase'
  BY DEF BaseIdNamesBase, encVars
<1> QED
  BY <1>1, <1>3, <1>4, <1>5

\* The base the decoder binds moves as the encoder's did.
LEMMA BasesAdvance ==
    ASSUME NEW b \in [Fields -> Strings \cup {NoString}], NEW item \in Items, NEW fs,
           NEW c, BasesMirror(b, item.fieldsAt), BasesFollow(item, fs),
           c = IF item.field \in Fields THEN [b EXCEPT ![item.field] = item.wrote] ELSE b
    PROVE  BasesMirror(c, fs)
<1> SUFFICES ASSUME NEW f \in Fields, fs[f].base # NoString PROVE c[f] = fs[f].base
  BY DEF BasesMirror
<1>1. fs[f].base = IF f = item.field THEN item.wrote ELSE item.fieldsAt[f].base
  BY DEF BasesFollow
<1>2. CASE f = item.field
  BY <1>1, <1>2
<1>3. CASE f # item.field
  <2>1. c[f] = b[f]
    BY <1>3
  <2> QED
    BY <1>1, <1>3, <2>1 DEF BasesMirror
<1> QED
  BY <1>2, <1>3

LEMMA OldestInStep ==
    ASSUME IInv, wire # <<>>
    PROVE  /\ Head(wire) = wire[1] /\ wire[1] \in Items
           /\ ItemStep(wire[1], EncAt(2), FieldsAt(2))
           /\ BasesMirror(bases, wire[1].fieldsAt)
           /\ Mirrors(dec, wire[1].at, Opts)
<1>1. wire \in Seq(Items)
  BY DEF IInv, TypeOK
<1>2. 1 \in 1 .. Len(wire) /\ Head(wire) = wire[1] /\ wire[1] \in Items
  BY <1>1
<1>3. ItemStep(wire[1], EncAt(1 + 1), FieldsAt(1 + 1))
  BY <1>2 DEF IInv, WireInStep
<1>4. EncAt(1) = wire[1].at /\ FieldsAt(1) = wire[1].fieldsAt
  BY <1>2 DEF EncAt, FieldsAt
<1> QED
  BY <1>2, <1>3, <1>4 DEF IInv, InStep

-----------------------------------------------------------------------------
(* Reading *)

LEMMA HeaderKeeps == ASSUME IInv, ReadHeader PROVE IInv' /\ latest' = wire[1].wrote
<1> USE DEF IInv
<1>1. /\ wire # <<>> /\ wire' = Tail(wire) /\ UNCHANGED encVars
      /\ Head(wire).form.tag = "header"
      /\ dec' = EmptyTables /\ lru' = EmptyLru /\ bases' = FreshBases
      /\ latest' = NewMessage /\ UNCHANGED failed
  BY DEF ReadHeader, NextItem
<1>2. HeaderStep(wire[1], EncAt(2), FieldsAt(2))
  BY <1>1, OldestInStep, FormKinds DEF ItemStep, StringStep, DeltaStep
<1>3. BasesMirror(bases', FieldsAt(2)) /\ Mirrors(dec', EncAt(2), Opts)
  <2>1. \A f \in Fields : FreshFields[f].base = NoString
    BY DEF FreshFields, FreshField
  <2> QED
    BY <1>1, <1>2, <2>1 DEF HeaderStep, BasesMirror, Mirrors
<1>4. wire' \in Seq(Items) /\ WireInStep' /\ InStep' /\ BaseIdNamesBase'
  BY <1>1, <1>3, WireShrinks
<1>5. bases' \in [Fields -> Strings \cup {NoString}]
  BY <1>1 DEF FreshBases
<1>6. TypeOK'
  BY <1>1, <1>4, <1>5, EmptyTablesType, EmptyLruType DEF TypeOK, encVars
<1> QED
  BY <1>1, <1>2, <1>4, <1>6 DEF HeaderStep

\* A delta finds the encoder's base and gives back what was written.
LEMMA DeltaKeeps == ASSUME IInv, ReadDelta PROVE IInv' /\ latest' = wire[1].wrote
<1> USE DEF IInv
<1> DEFINE item == wire[1]
<1>1. /\ wire # <<>> /\ wire' = Tail(wire) /\ UNCHANGED encVars
      /\ Head(wire).form.tag = "delta"
  BY DEF ReadDelta, NextItem
<1>2. /\ Head(wire) = item /\ item \in Items
      /\ BasesMirror(bases, item.fieldsAt) /\ Mirrors(dec, item.at, Opts)
      /\ DeltaStep(item, EncAt(2), FieldsAt(2))
  BY <1>1, OldestInStep, FormKinds DEF ItemStep, StringStep, HeaderStep
<1> HIDE DEF item
<1>3. /\ item.field \in Fields /\ item.wrote \in Strings
      /\ bases[item.field] # NoString
      /\ item.wrote = <<Stem(bases[item.field]), item.form.str>>
  BY <1>2 DEF DeltaStep, BasesMirror
<1>4. /\ latest' = item.wrote
      /\ dec' = ForgetLast(dec)
      /\ bases' = [bases EXCEPT ![item.field] = item.wrote]
      /\ UNCHANGED <<lru, failed>>
  BY <1>2, <1>3 DEF ReadDelta, Advance
<1>5. BasesMirror(bases', FieldsAt(2))
  <2>1. bases \in [Fields -> Strings \cup {NoString}]
    BY DEF TypeOK
  <2> QED
    BY <1>2, <1>3, <1>4, <2>1, BasesAdvance DEF DeltaStep
<1>6. Mirrors(dec', EncAt(2), Opts)
  <2>1. dec \in Tables /\ item.at \in Tables
    BY <1>2 DEF TypeOK, Items
  <2> QED
    BY <1>2, <1>4, <2>1 DEF DeltaStep, Mirrors, ForgetLast, Tables
<1>7. wire' \in Seq(Items) /\ WireInStep' /\ InStep' /\ BaseIdNamesBase'
  BY <1>1, <1>5, <1>6, WireShrinks
<1>8. bases' \in [Fields -> Strings \cup {NoString}]
  BY <1>3, <1>4 DEF TypeOK
<1>9. TypeOK'
  BY <1>1, <1>3, <1>4, <1>7, <1>8, ForgetLastType DEF TypeOK, encVars
<1> QED
  BY <1>4, <1>7, <1>9 DEF item

\* Any other form is readable and gives back what was written.
LEMMA StringKeeps == ASSUME IInv, ReadString PROVE IInv' /\ latest' = wire[1].wrote
<1> USE DEF IInv
<1> DEFINE item == wire[1]
<1>1. /\ wire # <<>> /\ wire' = Tail(wire) /\ UNCHANGED encVars
      /\ Head(wire).form.tag \in Tags
  BY DEF ReadString, NextItem
<1>2. /\ Head(wire) = item /\ item \in Items
      /\ BasesMirror(bases, item.fieldsAt) /\ Mirrors(dec, item.at, Opts)
      /\ StringStep(item, EncAt(2), FieldsAt(2))
  <2>1. "header" \notin Tags /\ "delta" \notin Tags
    BY DEF Tags
  <2> QED
    BY <1>1, <2>1, OldestInStep, FormKinds DEF ItemStep, DeltaStep, HeaderStep
<1> HIDE DEF item
<1>3. dec \in Tables /\ item.at \in Tables /\ item.form \in Forms
      /\ item.wrote \in Strings
  BY <1>2 DEF TypeOK, Items, StringStep
<1>4. /\ Readable(dec, lru, item.form)
      /\ ReadValue(dec, lru, item.form) = item.wrote
      /\ Mirrors(AfterRead(dec, lru, item.form),
                 AfterRead(item.at, EmptyLru, item.form), Opts)
  BY <1>2, <1>3, ReadInStep DEF StringStep
<1>5. /\ latest' = item.wrote
      /\ dec' = AfterRead(dec, lru, item.form)
      /\ lru' = LruAfterRead(dec, lru, item.form)
      /\ bases' = IF item.field \in Fields
                  THEN [bases EXCEPT ![item.field] = item.wrote] ELSE bases
      /\ UNCHANGED failed
  BY <1>2, <1>4 DEF ReadString, Advance
<1>6. BasesMirror(bases', FieldsAt(2))
  <2>1. bases \in [Fields -> Strings \cup {NoString}]
    BY DEF TypeOK
  <2> QED
    BY <1>2, <1>5, <2>1, BasesAdvance DEF StringStep
<1>7. Mirrors(dec', EncAt(2), Opts)
  BY <1>2, <1>4, <1>5 DEF StringStep, Mirrors
<1>8. wire' \in Seq(Items) /\ WireInStep' /\ InStep' /\ BaseIdNamesBase'
  BY <1>1, <1>6, <1>7, WireShrinks
<1>9. bases' \in [Fields -> Strings \cup {NoString}]
  BY <1>3, <1>5 DEF TypeOK
<1>10. dec' \in Tables /\ lru' \in Lrus
  BY <1>3, <1>4, <1>5, ReadType, LruReadType DEF TypeOK
<1>11. TypeOK'
  BY <1>1, <1>3, <1>5, <1>8, <1>9, <1>10 DEF TypeOK, encVars
<1> QED
  BY <1>5, <1>8, <1>11 DEF item

-----------------------------------------------------------------------------
(* Writing *)

\* What every write of one string shares: it names s, moves the tables as a
\* read of its form does, and gives at most the field written a new base.
LEMMA WriteKeeps ==
    ASSUME IInv, NEW form \in Forms \cup DeltaForms, NEW f \in Fields \cup {NoField},
           NEW s \in Strings, NEW fs \in FieldStates,
           Count, Emit(form, f, s), UNCHANGED decVars,
           StringStep(Item(form, f, s), enc', fields')
             \/ DeltaStep(Item(form, f, s), enc', fields'),
           enc' \in Tables, BaseIdNamesBase',
           fields' = IF f \in Fields THEN [fields EXCEPT ![f] = fs] ELSE fields
    PROVE  IInv'
<1> USE DEF IInv
<1>1. UNCHANGED <<dec, bases>> /\ ~failed'
  BY DEF decVars
<1>2. ItemStep(Item(form, f, s), enc', fields')
  BY DEF ItemStep
<1>3. form \in Forms \cup {HeaderForm} \cup DeltaForms /\ s \in Strings \cup {NewMessage}
  OBVIOUS
<1>4. wire' \in Seq(Items) /\ WireInStep' /\ InStep'
  BY <1>1, <1>2, <1>3, WireGrows
<1>5. fields' \in [Fields -> FieldStates]
  BY DEF TypeOK
<1>6. TypeOK'
  BY <1>4, <1>5 DEF TypeOK, Count, decVars
<1> QED
  BY <1>1, <1>4, <1>6

\* The base of the field written becomes the value, or is dropped.
LEMMA Follows ==
    ASSUME TypeOK, NEW item, NEW f, NEW s, NEW fs,
           item.field = f, item.wrote = s, item.fieldsAt = fields,
           fs.base = s \/ fs.base = NoString,
           fields' = IF f \in Fields THEN [fields EXCEPT ![f] = fs] ELSE fields
    PROVE  BasesFollow(item, fields')
<1> SUFFICES ASSUME NEW g \in Fields, fields'[g].base # NoString
             PROVE  fields'[g].base
                      = IF g = item.field THEN item.wrote ELSE fields[g].base
  BY DEF BasesFollow
<1> QED
  BY DEF TypeOK

\* The tables only grow, and an id given to a base names it.
LEMMA IdsStayNames ==
    ASSUME TypeOK, BaseIdNamesBase, enc' \in Tables,
           enc'.values = enc.values \/ \E s \in Strings : enc'.values = Append(enc.values, s),
           NEW f \in Fields \cup {NoField}, NEW fs \in FieldStates,
           fields' = IF f \in Fields THEN [fields EXCEPT ![f] = fs] ELSE fields,
           fs.baseID # NoId => Registered(enc', fs.baseID) /\ ValueOf(enc', fs.baseID) = fs.base
    PROVE  BaseIdNamesBase'
<1> SUFFICES ASSUME NEW g \in Fields, fields'[g].baseID # NoId
             PROVE  /\ Registered(enc', fields'[g].baseID)
                    /\ ValueOf(enc', fields'[g].baseID) = fields'[g].base
  BY DEF BaseIdNamesBase
<1>1. CASE g = f
  BY <1>1 DEF TypeOK
<1>2. CASE g # f
  <2>1. fields'[g] = fields[g] /\ fields[g].baseID \in Ids /\ enc \in Tables
    BY <1>2 DEF TypeOK, FieldStates, OptId
  <2>2. Registered(enc, fields[g].baseID) /\ ValueOf(enc, fields[g].baseID) = fields[g].base
    BY <2>1 DEF BaseIdNamesBase
  <2> HIDE DEF BaseIdNamesBase
  <2>3. Registered(enc', fields[g].baseID) /\ ValueOf(enc', fields[g].baseID) = ValueOf(enc, fields[g].baseID)
    BY <2>1, <2>2, IdsKept
  <2> QED
    BY <2>1, <2>2, <2>3
<1> QED
  BY <1>1, <1>2

\* What every write of one string on its codec form shares.
LEMMA StringWriteKeeps ==
    ASSUME IInv, NEW form \in Forms, NEW f \in Fields \cup {NoField},
           NEW s \in Strings, NEW fs \in FieldStates,
           Count, Emit(form, f, s), UNCHANGED decVars,
           Faithful(form, s, enc, Opts),
           Mirrors(AfterRead(enc, EmptyLru, form), enc', Opts),
           enc' \in Tables,
           enc'.values = enc.values \/ \E x \in Strings : enc'.values = Append(enc.values, x),
           fields' = IF f \in Fields THEN [fields EXCEPT ![f] = fs] ELSE fields,
           fs.base = s \/ fs.base = NoString,
           fs.baseID # NoId => Registered(enc', fs.baseID) /\ ValueOf(enc', fs.baseID) = fs.base
    PROVE  IInv'
<1>1. TypeOK /\ BaseIdNamesBase
  BY DEF IInv
<1>2. BaseIdNamesBase'
  BY <1>1, IdsStayNames
<1> DEFINE item == Item(form, f, s)
<1>3. item.form = form /\ item.field = f /\ item.wrote = s
      /\ item.at = enc /\ item.fieldsAt = fields
  BY DEF Item
<1> HIDE DEF item
<1>4. BasesFollow(item, fields')
  BY <1>1, <1>3, Follows
<1>5. StringStep(item, enc', fields')
  BY <1>3, <1>4 DEF StringStep
<1> QED
  BY <1>2, <1>5, WriteKeeps DEF item

LEMMA PlainKeeps ==
    ASSUME IInv, NEW f \in Fields, NEW s \in Strings, FieldPlain(f, s)
    PROVE  IInv'
<1> DEFINE fs == Rebase(fields[f], s, NoId)
<1>1. enc \in Tables /\ fields[f] \in FieldStates
  BY DEF IInv, TypeOK
<1>2. /\ Count /\ Emit(StringForm(enc, s, Opts), f, s)
      /\ enc' = AfterString(enc, s, Opts) /\ UNCHANGED decVars
      /\ fields' = [fields EXCEPT ![f] = fs]
  BY DEF FieldPlain
<1>3. fs \in FieldStates /\ fs.base = s /\ fs.baseID = NoId
  BY <1>1, RebaseType, NoIdType
<1> HIDE DEF fs
<1> QED
  BY <1>1, <1>2, <1>3, StringType, StringInStep, StringWriteKeeps

\* A repeat by id is the one write that asks the table nothing.
LEMMA RepeatKeeps ==
    ASSUME IInv, NEW f \in Fields, NEW s \in Strings, FieldRepeat(f, s)
    PROVE  IInv'
<1> DEFINE fs == fields[f]
<1>1. enc \in Tables /\ fs \in FieldStates /\ fs.baseID \in OptId
      /\ fields' = [fields EXCEPT ![f] = fs] /\ fs.base = s
      /\ Count /\ UNCHANGED decVars
  BY DEF IInv, TypeOK, FieldStates, FieldRepeat, Repeats
<1>2. fs.baseID # NoId => Registered(enc, fs.baseID) /\ ValueOf(enc, fs.baseID) = fs.base
  BY DEF IInv, BaseIdNamesBase
<1>3. CASE fs.baseID = NoId
  <2>1. /\ Emit(StringForm(enc, s, Opts), f, s)
        /\ enc' = AfterString(enc, s, Opts)
    BY <1>3 DEF FieldRepeat
  <2> HIDE DEF fs
  <2> QED
    BY <1>1, <1>3, <2>1, StringType, StringInStep, StringWriteKeeps
<1>4. CASE fs.baseID # NoId
  <2> DEFINE id == fs.baseID
  <2>1. /\ Emit(StateRefForm(enc, id, Opts), f, s)
        /\ enc' = AfterStateRef(enc, id, Opts)
    BY <1>4 DEF FieldRepeat
  <2>2. id \in Ids /\ Registered(enc, id) /\ ValueOf(enc, id) = s
    BY <1>1, <1>2, <1>4 DEF OptId
  <2> HIDE DEF fs
  <2>3. /\ StateRefForm(enc, id, Opts) \in Forms /\ enc' \in Tables
        /\ enc'.values = enc.values
    BY <1>1, <2>1, <2>2, StateRefType
  <2>4. /\ Faithful(StateRefForm(enc, id, Opts), s, enc, Opts)
        /\ Mirrors(AfterRead(enc, EmptyLru, StateRefForm(enc, id, Opts)), enc', Opts)
    BY <1>1, <2>1, <2>2, StateRefInStep
  <2>5. Registered(enc', fs.baseID) /\ ValueOf(enc', fs.baseID) = fs.base
    BY <1>1, <2>2, <2>3 DEF Registered, ValueOf
  <2> QED
    BY <1>1, <2>1, <2>3, <2>4, <2>5, StringWriteKeeps
<1> QED
  BY <1>3, <1>4

LEMMA InternedKeeps ==
    ASSUME IInv, NEW f \in Fields, NEW s \in Strings, FieldInterned(f, s)
    PROVE  IInv'
<1> DEFINE id == IdOf(enc, s)
           fs == Rebase(fields[f], s, id)
<1>1. enc \in Tables /\ fields[f] \in FieldStates
  BY DEF IInv, TypeOK
<1>2. /\ Count /\ Emit(StateRefForm(enc, id, Opts), f, s)
      /\ enc' = AfterStateRef(enc, id, Opts) /\ UNCHANGED decVars
      /\ fields' = [fields EXCEPT ![f] = fs]
  BY DEF FieldInterned
<1>3. id \in Ids /\ Registered(enc, id) /\ ValueOf(enc, id) = s
  BY IdOfRegistered DEF FieldInterned
<1> HIDE DEF id
<1>4. fs \in FieldStates /\ fs.base = s /\ fs.baseID = id
  BY <1>1, <1>3, RebaseType, NoIdType
<1> HIDE DEF fs
<1>5. /\ StateRefForm(enc, id, Opts) \in Forms /\ enc' \in Tables
      /\ enc'.values = enc.values
  BY <1>1, <1>2, <1>3, StateRefType
<1>6. /\ Faithful(StateRefForm(enc, id, Opts), s, enc, Opts)
      /\ Mirrors(AfterRead(enc, EmptyLru, StateRefForm(enc, id, Opts)), enc', Opts)
  BY <1>1, <1>2, <1>3, StateRefInStep
<1>7. Registered(enc', fs.baseID) /\ ValueOf(enc', fs.baseID) = fs.base
  BY <1>3, <1>4, <1>5 DEF Registered, ValueOf
<1> QED
  BY <1>2, <1>4, <1>5, <1>6, <1>7, StringWriteKeeps

LEMMA InternKeeps ==
    ASSUME IInv, NEW f \in Fields, NEW s \in Strings, FieldIntern(f, s)
    PROVE  IInv'
<1> DEFINE id == Len(enc.values)
           gate == IF fields[f].muted THEN Unprobed(fields[f]) ELSE Probed(fields[f], FALSE)
           fs == Rebase(gate, s, id)
<1>1. enc \in Tables /\ fields[f] \in FieldStates
  BY DEF IInv, TypeOK
<1>2. /\ Count /\ Emit(InternForm(s), f, s)
      /\ enc' = AfterIntern(enc, s, Opts) /\ UNCHANGED decVars
      /\ fields' = [fields EXCEPT ![f] = fs]
      /\ Internable(enc, s)
  BY DEF FieldIntern, Eligible
<1>3. /\ enc.values \in Seq(Strings) /\ id \in Nat
      /\ id < MaxInternEntries /\ id \in Ids
  BY <1>1, <1>2, CodecAssumption DEF Tables, Internable, Ids
<1>4. gate \in FieldStates
  <2>1. FALSE \in BOOLEAN
    OBVIOUS
  <2> QED
    BY <1>1, <2>1, GateType
<1>5. InternForm(s) \in Forms /\ enc' \in Tables /\ enc'.values = Append(enc.values, s)
  BY <1>1, <1>2, <1>3, InternType
<1>6. /\ Faithful(InternForm(s), s, enc, Opts)
      /\ Mirrors(AfterRead(enc, EmptyLru, InternForm(s)), enc', Opts)
  BY <1>1, <1>2, <1>3, InternInStep
<1>7. Registered(enc', id) /\ ValueOf(enc', id) = s
  BY <1>3, <1>5 DEF Registered, ValueOf
<1> HIDE DEF id, gate
<1>8. fs \in FieldStates /\ fs.base = s /\ fs.baseID = id
  BY <1>3, <1>4, RebaseType, NoIdType
<1> HIDE DEF fs
<1> QED
  BY <1>2, <1>5, <1>6, <1>7, <1>8, StringWriteKeeps

\* The delta: no entry, no last id, and the base moves at both ends.
LEMMA DeltaWinsKeeps ==
    ASSUME IInv, NEW f \in Fields, NEW s \in Strings, FieldDeltaWins(f, s)
    PROVE  IInv'
<1> DEFINE gate == Probed(fields[f], TRUE)
           fs == Rebase(gate, s, NoId)
<1>1. enc \in Tables /\ fields[f] \in FieldStates /\ TypeOK /\ BaseIdNamesBase
  BY DEF IInv, TypeOK
<1>2. /\ Count /\ Emit(DeltaForm(s), f, s)
      /\ enc' = ForgetLast(enc) /\ UNCHANGED decVars
      /\ fields' = [fields EXCEPT ![f] = fs]
      /\ fields[f].base # NoString /\ Stem(fields[f].base) = Stem(s)
  BY DEF FieldDeltaWins, Eligible, FirstValue, DeltaWins
<1>3. gate \in FieldStates
  <2>1. TRUE \in BOOLEAN
    OBVIOUS
  <2> QED
    BY <1>1, <2>1, GateType
<1> HIDE DEF gate
<1>4. fs \in FieldStates /\ fs.base = s /\ fs.baseID = NoId
  BY <1>3, RebaseType, NoIdType
<1> HIDE DEF fs
<1>5. enc' \in Tables /\ enc'.values = enc.values
  BY <1>1, <1>2, ForgetLastType
<1>6. s = <<Stem(s), TailOf(s)>> /\ TailOf(s) \in Tails
  BY FieldAssumption DEF Stem, TailOf
<1>7. DeltaForm(s) \in DeltaForms /\ DeltaForm(s).str = TailOf(s)
  BY <1>6 DEF DeltaForm, DeltaForms
<1>8. BaseIdNamesBase'
  BY <1>1, <1>2, <1>4, <1>5, IdsStayNames
<1> DEFINE item == Item(DeltaForm(s), f, s)
<1>9. item.form = DeltaForm(s) /\ item.field = f /\ item.wrote = s
      /\ item.at = enc /\ item.fieldsAt = fields
  BY DEF Item
<1> HIDE DEF item
<1>10. BasesFollow(item, fields')
  BY <1>1, <1>2, <1>4, <1>9, Follows
<1>11. DeltaStep(item, enc', fields')
  BY <1>2, <1>6, <1>7, <1>9, <1>10 DEF DeltaStep
<1> QED
  BY <1>2, <1>4, <1>5, <1>7, <1>8, <1>11, WriteKeeps DEF item

\* A struct written outside a slice leaves a base only in the decoder, so
\* only a field the encoder has no base for may be written so.
LEMMA StandaloneKeeps ==
    ASSUME IInv, NEW f \in Fields, NEW s \in Strings, FieldStandalone(f, s),
           StandaloneStructs = FALSE
    PROVE  IInv'
<1>1. enc \in Tables /\ fields[f] \in FieldStates /\ fields \in [Fields -> FieldStates]
  BY DEF IInv, TypeOK
<1>2. /\ Count /\ Emit(StringForm(enc, s, Opts), f, s)
      /\ enc' = AfterString(enc, s, Opts) /\ UNCHANGED <<fields, decVars>>
      /\ fields[f] = FreshField
  BY DEF FieldStandalone
<1>3. fields[f].base = NoString /\ fields[f].baseID = NoId
  BY <1>2 DEF FreshField
<1>4. fields' = [fields EXCEPT ![f] = fields[f]]
  BY <1>1, <1>2
<1> QED
  BY <1>1, <1>2, <1>3, <1>4, StringType, StringInStep, StringWriteKeeps

LEMMA OtherKeeps ==
    ASSUME IInv, NEW s \in Strings, WriteOther(s)
    PROVE  IInv'
<1>1. enc \in Tables
  BY DEF IInv, TypeOK
<1>2. /\ Count /\ Emit(StringForm(enc, s, Opts), NoField, s)
      /\ enc' = AfterString(enc, s, Opts) /\ UNCHANGED <<fields, decVars>>
  BY DEF WriteOther
<1>3. NoField \notin Fields
  BY FieldAssumption DEF NoField
<1>4. FreshField \in FieldStates /\ FreshField.base = NoString /\ FreshField.baseID = NoId
  BY NoIdType DEF FreshField, FieldStates
<1> HIDE DEF NoField
<1> QED
  BY <1>1, <1>2, <1>3, <1>4, StringType, StringInStep, StringWriteKeeps

LEMMA MessageKeeps == ASSUME IInv, NextMessage PROVE IInv'
<1> USE DEF IInv
<1>1. /\ Emit(HeaderForm, NoField, NewMessage) /\ enc' = EmptyTables
      /\ fields' = FreshFields /\ written' = 0 /\ UNCHANGED <<dec, bases>>
      /\ UNCHANGED decVars
  BY DEF NextMessage, decVars
<1>2. ItemStep(Item(HeaderForm, NoField, NewMessage), enc', fields')
  BY <1>1 DEF ItemStep, HeaderStep, Item
<1>3. wire' \in Seq(Items) /\ WireInStep' /\ InStep'
  BY <1>1, <1>2, WireGrows
<1>4. BaseIdNamesBase'
  BY <1>1 DEF BaseIdNamesBase, FreshFields, FreshField
<1>5. TypeOK'
  BY <1>1, <1>3, EmptyTablesType, FreshType DEF TypeOK, decVars
<1> QED
  BY <1>1, <1>3, <1>4, <1>5 DEF decVars

-----------------------------------------------------------------------------
(* The invariant is inductive *)

LEMMA InitInv == Init => IInv
<1> SUFFICES ASSUME Init PROVE IInv
  OBVIOUS
<1>1. wire = <<>> /\ enc = EmptyTables /\ dec = EmptyTables /\ ~failed
      /\ fields = FreshFields /\ bases = FreshBases /\ wire \in Seq(Items)
  BY DEF Init
<1>2. TypeOK
  BY <1>1, EmptyTablesType, EmptyLruType, FreshType DEF Init, TypeOK, FreshBases
<1>3. InStep
  BY <1>1, <1>2, InStepIsFieldLockstep
     DEF FieldLockstep, BasesMirror, Mirrors, FreshFields, FreshField
<1>4. WireInStep
  BY <1>1 DEF WireInStep
<1>5. BaseIdNamesBase
  BY <1>1 DEF BaseIdNamesBase, FreshFields, FreshField
<1> QED
  BY <1>1, <1>2, <1>3, <1>4, <1>5 DEF IInv

LEMMA StepInv == StandaloneStructs = FALSE /\ IInv /\ [Next]_vars => IInv'
<1> SUFFICES ASSUME StandaloneStructs = FALSE, IInv, [Next]_vars PROVE IInv'
  OBVIOUS
<1>1. ASSUME NEW f \in Fields, NEW s \in Strings, WriteField(f, s) PROVE IInv'
  BY <1>1, PlainKeeps, RepeatKeeps, InternedKeeps, DeltaWinsKeeps, InternKeeps,
     StandaloneKeeps DEF WriteField
<1>2. ASSUME NEW s \in Strings, WriteOther(s) PROVE IInv'
  BY <1>2, OtherKeeps
<1>3. CASE NextMessage \/ ReadHeader \/ ReadDelta \/ ReadString
  BY <1>3, MessageKeeps, HeaderKeeps, DeltaKeeps, StringKeeps
<1>4. CASE UNCHANGED vars
  BY <1>4 DEF vars, encVars, decVars, IInv, TypeOK, WireInStep, InStep, EncAt, FieldsAt,
              BaseIdNamesBase
<1> QED
  BY <1>1, <1>2, <1>3, <1>4 DEF Next

THEOREM InvariantHolds ==
    ASSUME StandaloneStructs = FALSE PROVE Spec => []IInv
<1>1. IInv /\ [Next]_vars => IInv'
  BY StepInv
<1> QED
  BY <1>1, InitInv, PTL DEF Spec

\* Every variable keeps its type: bases are strings of the program, and no id is
\* beyond the cap, for any fields, strings, caps and gates.
THEOREM TypesHold ==
    ASSUME StandaloneStructs = FALSE PROVE Spec => []TypeOK
<1>1. IInv => TypeOK
  BY DEF IInv
<1> QED
  BY <1>1, InvariantHolds, PTL

\* No read of a field fails: a delta always meets the base it was cut from.
THEOREM NoReadFails ==
    ASSUME StandaloneStructs = FALSE PROVE Spec => []~failed
<1>1. IInv => ~failed
  BY DEF IInv
<1> QED
  BY <1>1, InvariantHolds, PTL

\* The decoder's base of every field is the encoder's, as it stood before the
\* oldest value in flight, and so are the intern tables: no reset, delta, gate
\* or repeat moves one end without the other.
THEOREM BasesStayInLockstep ==
    ASSUME StandaloneStructs = FALSE PROVE Spec => []FieldLockstep
<1>1. IInv => FieldLockstep
  BY InStepIsFieldLockstep DEF IInv
<1> QED
  BY <1>1, InvariantHolds, PTL

\* The id a base is known by is the base's: a repeat may refer to it without
\* a lookup, however full the table.
THEOREM RememberedIdsAreRight ==
    ASSUME StandaloneStructs = FALSE PROVE Spec => []BaseIdNamesBase
<1>1. IInv => BaseIdNamesBase
  BY DEF IInv
<1> QED
  BY <1>1, InvariantHolds, PTL

-----------------------------------------------------------------------------
(* Refinement: the fields are a lossless queue *)

QueueVars == <<ValuesOf(wire), latest>>

LEMMA ItemValues == \A x \in Items : x.wrote \in Strings \cup {NewMessage}
  BY DEF Items

\* A step that puts one item on the wire and reads nothing sends its value.
LEMMA EmitSends ==
    ASSUME TypeOK, NEW form \in Forms \cup {HeaderForm} \cup DeltaForms,
           NEW f \in Fields \cup {NoField}, NEW v \in Strings \cup {NewMessage},
           Emit(form, f, v), UNCHANGED decVars
    PROVE  Queue!Next
<1>1. Item(form, f, v) \in Items /\ Item(form, f, v).wrote = v
  BY ItemType DEF Item
<1>2. wire \in Seq(Items) /\ wire' = Append(wire, Item(form, f, v))
  BY DEF TypeOK, Emit
<1>3. ValuesOf(wire') = Append(ValuesOf(wire), v)
  BY <1>1, <1>2, ItemValues, ValuesAppend
<1> QED
  BY <1>3 DEF Queue!Next, Queue!Send, ValuesOf, decVars

\* A step that takes the oldest item and gives its value receives it.
LEMMA TakeReceives ==
    ASSUME TypeOK, wire # <<>>, wire' = Tail(wire), latest' = wire[1].wrote
    PROVE  Queue!Next
<1>1. wire \in Seq(Items)
  BY DEF TypeOK
<1>2. /\ ValuesOf(wire) # <<>>
      /\ Head(ValuesOf(wire)) = wire[1].wrote
      /\ ValuesOf(wire') = Tail(ValuesOf(wire))
  BY <1>1, ItemValues, ValuesTail
<1> QED
  BY <1>2 DEF Queue!Next, Queue!Receive, ValuesOf

LEMMA WriteSends ==
    ASSUME IInv, NEW f \in Fields, NEW s \in Strings, WriteField(f, s)
    PROVE  Queue!Next
<1>1. enc \in Tables /\ fields[f].baseID \in OptId /\ TypeOK
  BY DEF IInv, TypeOK, FieldStates
<1>2. StringForm(enc, s, Opts) \in Forms
  BY <1>1, StringType
<1>3. InternForm(s) \in Forms
  BY DEF InternForm, Forms
<1>4. DeltaForm(s) \in DeltaForms
  BY FieldAssumption DEF DeltaForm, DeltaForms, TailOf
<1>5. fields[f].baseID # NoId => StateRefForm(enc, fields[f].baseID, Opts) \in Forms
  BY <1>1, StateRefType DEF OptId
<1>6. Interned(enc, s) => StateRefForm(enc, IdOf(enc, s), Opts) \in Forms
  BY <1>1, StateRefType, IdOfRegistered
<1>7. UNCHANGED decVars
  BY DEF WriteField, FieldPlain, FieldRepeat, FieldInterned, FieldDeltaWins,
         FieldIntern, FieldStandalone
<1>8. \E form \in Forms \cup DeltaForms : Emit(form, f, s)
  <2>1. CASE FieldPlain(f, s) \/ FieldStandalone(f, s)
    BY <1>2, <2>1 DEF FieldPlain, FieldStandalone
  <2>2. CASE FieldRepeat(f, s)
    BY <1>2, <1>5, <2>2 DEF FieldRepeat
  <2>3. CASE FieldInterned(f, s)
    BY <1>6, <2>3 DEF FieldInterned
  <2>4. CASE FieldDeltaWins(f, s) \/ FieldIntern(f, s)
    BY <1>3, <1>4, <2>4 DEF FieldDeltaWins, FieldIntern
  <2> QED
    BY <2>1, <2>2, <2>3, <2>4 DEF WriteField
<1> QED
  BY <1>1, <1>7, <1>8, EmitSends

LEMMA QueueStep ==
    ASSUME IInv, [Next]_vars
    PROVE  [Queue!Next]_QueueVars
<1>1. TypeOK
  BY DEF IInv
<1>2. ASSUME NEW f \in Fields, NEW s \in Strings, WriteField(f, s) PROVE Queue!Next
  BY <1>2, WriteSends
<1>3. ASSUME NEW s \in Strings, WriteOther(s) PROVE Queue!Next
  <2>1. enc \in Tables
    BY <1>1 DEF TypeOK
  <2>2. /\ StringForm(enc, s, Opts) \in Forms /\ UNCHANGED decVars
        /\ Emit(StringForm(enc, s, Opts), NoField, s)
    BY <1>3, <2>1, StringType DEF WriteOther
  <2> QED
    BY <1>1, <2>2, EmitSends
<1>4. CASE NextMessage
  BY <1>1, <1>4, EmitSends DEF NextMessage
<1>5. CASE ReadHeader \/ ReadDelta \/ ReadString
  <2>1. wire # <<>> /\ wire' = Tail(wire)
    BY <1>5 DEF ReadHeader, ReadDelta, ReadString, NextItem
  <2>2. latest' = wire[1].wrote
    BY <1>5, HeaderKeeps, DeltaKeeps, StringKeeps
  <2> QED
    BY <1>1, <2>1, <2>2, TakeReceives
<1>6. CASE UNCHANGED vars
  BY <1>6 DEF vars, decVars, QueueVars, ValuesOf
<1> QED
  BY <1>2, <1>3, <1>4, <1>5, <1>6 DEF Next

LEMMA QueueInit == Init => Queue!Init
  BY DEF Init, Queue!Init, NewMessage

\* Whatever is left to the delta, the id or the gate: every field value and
\* every other string of the messages is read once, unchanged and in order.
THEOREM FieldsLossless ==
    ASSUME StandaloneStructs = FALSE PROVE Spec => Lossless
<1>1. IInv /\ [Next]_vars => [Queue!Next]_QueueVars
  BY QueueStep
<1> QED
  BY <1>1, InvariantHolds, QueueInit, PTL
     DEF Spec, Lossless, Queue!Spec, QueueVars, ValuesOf
=============================================================================
