----------------------------- MODULE FieldDelta -----------------------------
(***************************************************************************)
(* The front-delta form of a struct's string fields (tagStrDelta): a value *)
(* is sent as its difference to the previous value of the same field.  The *)
(* encoder keeps that base per struct type and field, the decoder per wire *)
(* shape and field, and nothing on the wire says which base was meant.     *)
(*                                                                         *)
(* A string is a pair <<stem, tail>>: two strings with one stem share the  *)
(* long prefix that makes the delta win, two with different stems share    *)
(* nothing, and a delta carries the tail alone.  The alphabet packer       *)
(* (OptStringAlphabet, off by default) is left out.                        *)
(***************************************************************************)
EXTENDS DenseCodec

CONSTANTS
    Stems, Tails,       \* what strings are made of
    Fields,             \* the string fields of the struct type
    Opts,               \* the encoder's options, Dense and OptShapeIntern set
    StandaloneStructs,  \* whether the type is also written outside a slice
    ProbeN, RearmN,     \* strDeltaProbeN, strDeltaRearmN
    MaxInFlight,        \* bound: items written and not yet read
    MaxWrites           \* bound: strings written in one message

ASSUME FieldAssumption ==
    /\ Strings \subseteq Stems \X Tails
    /\ NoString \notin Fields
    /\ Opts \in Options
    /\ StandaloneStructs \in BOOLEAN
    /\ ProbeN \in Nat \ {0} /\ RearmN \in Nat \ {0}
    /\ MaxInFlight \in Nat /\ MaxWrites \in Nat

VARIABLES
    enc,            \* encState: the intern tables
    fields,         \* encState.strDeltaField: one strFieldState per field
    written,        \* strings written since the message began
    wire,           \* items in flight
    dec, lru,       \* decState: the mirrored tables and the LRU chain
    bases,          \* decState.strDeltaBase: one base per wire field
    latest,         \* what the last read returned
    failed          \* the decoder returned an error

encVars == <<enc, fields, written>>
decVars == <<dec, lru, bases, latest, failed>>
vars == <<encVars, wire, decVars>>

-----------------------------------------------------------------------------
NoField == NoString         \* a string that is no field of the type
NewMessage == NoString

\* strFieldState: the previous value, the intern id it is known by, and the
\* gate that stops offering the delta to a field it never helps.
FieldStates == [base : Strings \cup {NoString}, baseID : OptId,
                muted : BOOLEAN, seen : Nat, wins : Nat]

FreshField == [base |-> NoString, baseID |-> NoId,
               muted |-> FALSE, seen |-> 0, wins |-> 0]
FreshFields == [f \in Fields |-> FreshField]
FreshBases == [f \in Fields |-> NoString]

Stem(s) == s[1]
TailOf(s) == s[2]

HeaderForm == RefForm("header", 0)
DeltaForm(s) == [tag |-> "delta", n |-> 0, str |-> TailOf(s)]

\* An item is its form and the wire field it is the value of; the value that
\* was written and the encoder's state before it are history.
Item(form, f, v) ==
    [form |-> form, field |-> f, wrote |-> v, at |-> enc, fieldsAt |-> fields]

Emit(form, f, v) ==
    /\ Len(wire) < MaxInFlight
    /\ wire' = Append(wire, Item(form, f, v))

Count == written < MaxWrites /\ written' = written + 1

Init ==
    /\ enc = EmptyTables
    /\ fields = FreshFields
    /\ written = 0
    /\ wire = <<>>
    /\ dec = EmptyTables
    /\ lru = EmptyLru
    /\ bases = FreshBases
    /\ latest = NewMessage
    /\ failed = FALSE

-----------------------------------------------------------------------------
(* Encoder: writeStringField, one action per way through it *)

Rebase(fs, s, id) == [fs EXCEPT !.base = s, !.baseID = id]

\* The eligibility test of the delta is the one of the intern table.
FirstValue(f) == fields[f].base = NoString
Repeats(f, s) == ~FirstValue(f) /\ fields[f].base = s
Eligible(f, s) == ~FirstValue(f) /\ ~Repeats(f, s) /\ Internable(enc, s)

\* WriteString, and the base moves without an id.
FieldPlain(f, s) ==
    /\ FirstValue(f) \/ (~Repeats(f, s) /\ ~Internable(enc, s))
    /\ Count
    /\ Emit(StringForm(enc, s, Opts), f, s)
    /\ enc' = AfterString(enc, s, Opts)
    /\ fields' = [fields EXCEPT ![f] = Rebase(@, s, NoId)]
    /\ UNCHANGED decVars

\* The base again: by its id when that is known, whatever the cap says.
FieldRepeat(f, s) ==
    /\ Repeats(f, s)
    /\ Count
    /\ LET id == fields[f].baseID IN
        IF id # NoId
        THEN /\ Emit(StateRefForm(enc, id, Opts), f, s)
             /\ enc' = AfterStateRef(enc, id, Opts)
        ELSE /\ Emit(StringForm(enc, s, Opts), f, s)
             /\ enc' = AfterString(enc, s, Opts)
    /\ UNCHANGED <<fields, decVars>>

\* lookupOnly found it: no delta undercuts a reference.
FieldInterned(f, s) ==
    /\ Eligible(f, s)
    /\ Interned(enc, s)
    /\ Count
    /\ Emit(StateRefForm(enc, IdOf(enc, s), Opts), f, s)
    /\ enc' = AfterStateRef(enc, IdOf(enc, s), Opts)
    /\ fields' = [fields EXCEPT ![f] = Rebase(@, s, IdOf(enc, s))]
    /\ UNCHANGED decVars

\* The gate after one more value: offered and won, offered and lost, or
\* not offered because the field is muted.
Probed(fs, win) ==
    LET seen == fs.seen + 1
        wins == fs.wins + (IF win THEN 1 ELSE 0)
    IN  IF seen >= ProbeN
        THEN [fs EXCEPT !.muted = (wins = 0), !.seen = 0, !.wins = 0]
        ELSE [fs EXCEPT !.seen = seen, !.wins = wins]

Unprobed(fs) ==
    IF fs.seen + 1 >= RearmN
    THEN [fs EXCEPT !.muted = FALSE, !.seen = 0, !.wins = 0]
    ELSE [fs EXCEPT !.seen = @ + 1]

DeltaWins(f, s) == ~fields[f].muted /\ Stem(fields[f].base) = Stem(s)

\* Mutant of FieldDeltaWins: lastID survives the delta.
MutFieldDeltaWins(f, s) ==
    /\ Eligible(f, s)
    /\ ~Interned(enc, s)
    /\ DeltaWins(f, s)
    /\ Count
    /\ Emit(DeltaForm(s), f, s)
    /\ fields' = [fields EXCEPT ![f] = Rebase(Probed(@, TRUE), s, NoId)]
    /\ UNCHANGED <<enc, decVars>>

\* The delta is an inline form: the value is not interned, lastID is dropped.
FieldDeltaWins(f, s) ==
    /\ Eligible(f, s)
    /\ ~Interned(enc, s)
    /\ DeltaWins(f, s)
    /\ Count
    /\ Emit(DeltaForm(s), f, s)
    /\ enc' = ForgetLast(enc)
    /\ fields' = [fields EXCEPT ![f] = Rebase(Probed(@, TRUE), s, NoId)]
    /\ UNCHANGED decVars

\* assignHashed: installed with the hash lookupOnly computed.
FieldIntern(f, s) ==
    /\ Eligible(f, s)
    /\ ~Interned(enc, s)
    /\ ~DeltaWins(f, s)
    /\ Count
    /\ Emit(InternForm(s), f, s)
    /\ enc' = AfterIntern(enc, s, Opts)
    /\ fields' = [fields EXCEPT
                    ![f] = Rebase(IF @.muted THEN Unprobed(@) ELSE Probed(@, FALSE),
                                  s, Len(enc.values))]
    /\ UNCHANGED decVars

\* A field of a struct outside any slice: the encoder has no base for it and
\* writes the string as any other, the decoder binds the field as always.
FieldStandalone(f, s) ==
    /\ StandaloneStructs \/ fields[f] = FreshField
    /\ Count
    /\ Emit(StringForm(enc, s, Opts), f, s)
    /\ enc' = AfterString(enc, s, Opts)
    /\ UNCHANGED <<fields, decVars>>

\* A string that is no field of the type: a map key, an element of a slice.
WriteOther(s) ==
    /\ Count
    /\ Emit(StringForm(enc, s, Opts), NoField, s)
    /\ enc' = AfterString(enc, s, Opts)
    /\ UNCHANGED <<fields, decVars>>

\* Mutant of NextMessage: the ids of the bases survive.
MutNextMessage ==
    /\ Emit(HeaderForm, NoField, NewMessage)
    /\ enc' = EmptyTables
    /\ fields' = [f \in Fields |-> [FreshField EXCEPT !.baseID = fields[f].baseID]]
    /\ written' = 0
    /\ UNCHANGED decVars

\* encState.reset with strDeltaResetEnc: bases, ids and gates all go.
NextMessage ==
    /\ Emit(HeaderForm, NoField, NewMessage)
    /\ enc' = EmptyTables
    /\ fields' = FreshFields
    /\ written' = 0
    /\ UNCHANGED decVars

-----------------------------------------------------------------------------
(* Decoder *)

NextItem == wire # <<>> /\ ~failed /\ wire' = Tail(wire) /\ UNCHANGED encVars

ReadHeader ==
    /\ NextItem
    /\ Head(wire).form.tag = "header"
    /\ dec' = EmptyTables
    /\ lru' = EmptyLru
    /\ bases' = FreshBases
    /\ latest' = NewMessage
    /\ UNCHANGED failed

\* Mutant of Advance: only the first value of a field becomes its base.
MutAdvance(f, v) ==
    IF f \in Fields /\ bases[f] = NoString THEN bases' = [bases EXCEPT ![f] = v]
    ELSE UNCHANGED bases

\* readStringBytes: whatever the form, a bound field's base becomes the value.
Advance(f, v) ==
    IF f \in Fields THEN bases' = [bases EXCEPT ![f] = v] ELSE UNCHANGED bases

\* readStrDelta over a base shorter than the prefix is ErrInvalidLength.
ReadDelta ==
    /\ NextItem
    /\ Head(wire).form.tag = "delta"
    /\ LET item == Head(wire) IN
        IF item.field \in Fields /\ bases[item.field] # NoString
        THEN LET v == <<Stem(bases[item.field]), item.form.str>> IN
             /\ latest' = v
             /\ dec' = ForgetLast(dec)
             /\ Advance(item.field, v)
             /\ UNCHANGED <<lru, failed>>
        ELSE failed' = TRUE /\ UNCHANGED <<dec, lru, bases, latest>>

ReadString ==
    /\ NextItem
    /\ Head(wire).form.tag \in Tags
    /\ LET item == Head(wire) IN
        IF Readable(dec, lru, item.form)
        THEN /\ latest' = ReadValue(dec, lru, item.form)
             /\ dec' = AfterRead(dec, lru, item.form)
             /\ lru' = LruAfterRead(dec, lru, item.form)
             /\ Advance(item.field, latest')
             /\ UNCHANGED failed
        ELSE failed' = TRUE /\ UNCHANGED <<dec, lru, bases, latest>>

WriteField(f, s) ==
    \/ FieldPlain(f, s)
    \/ FieldRepeat(f, s)
    \/ FieldInterned(f, s)
    \/ FieldDeltaWins(f, s)
    \/ FieldIntern(f, s)
    \/ FieldStandalone(f, s)

Next ==
    \/ \E f \in Fields, s \in Strings : WriteField(f, s)
    \/ \E s \in Strings : WriteOther(s)
    \/ NextMessage
    \/ ReadHeader
    \/ ReadDelta
    \/ ReadString

Spec == Init /\ [][Next]_vars

-----------------------------------------------------------------------------
(* Properties *)

DeltaForms == [tag : {"delta"}, n : {0}, str : Tails]

Items == [form     : Forms \cup {HeaderForm} \cup DeltaForms,
          field    : Fields \cup {NoField},
          wrote    : Strings \cup {NewMessage},
          at       : Tables,
          fieldsAt : [Fields -> FieldStates]]

TypeOK ==
    /\ enc \in Tables
    /\ fields \in [Fields -> FieldStates]
    /\ written \in Nat
    /\ wire \in Seq(Items)
    /\ dec \in Tables
    /\ lru \in Lrus
    /\ bases \in [Fields -> Strings \cup {NoString}]
    /\ latest \in Strings \cup {NewMessage}
    /\ failed \in BOOLEAN

\* The decoder's base of a field is the encoder's, as it stood before the
\* oldest item in flight, for every field the encoder has a base for; and the
\* intern tables mirror each other.  Both ends move their base on their own.
BasesMirror(b, fs) == \A f \in Fields : fs[f].base # NoString => b[f] = fs[f].base

FieldLockstep ==
    IF wire = <<>> THEN BasesMirror(bases, fields) /\ Mirrors(dec, enc, Opts)
    ELSE BasesMirror(bases, wire[1].fieldsAt) /\ Mirrors(dec, wire[1].at, Opts)

\* A remembered baseID is the id of the base itself: writeStringField refers
\* to it without asking the table (the check of strDeltaCheckBaseID).
BaseIdNamesBase ==
    \A f \in Fields : fields[f].baseID # NoId =>
        /\ Registered(enc, fields[f].baseID)
        /\ ValueOf(enc, fields[f].baseID) = fields[f].base

\* Fields or not, the pair is a lossless FIFO of strings.
Queue == INSTANCE ValueQueue WITH
            Values <- Strings \cup {NewMessage},
            queue  <- [i \in 1 .. Len(wire) |-> wire[i].wrote]

Lossless == Queue!Spec
=============================================================================
