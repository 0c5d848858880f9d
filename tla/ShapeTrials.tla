---------------------------- MODULE ShapeTrials ----------------------------
(***************************************************************************)
(* Shape ids and the never-larger trials of a delta patch.  The first      *)
(* struct or map of a shape declares its field names, the next ones name   *)
(* the id, and both ends count declarations on their own.  A trial         *)
(* (diffKeyedSlice, diffColumnar) writes two candidate bodies and throws   *)
(* one away, so it suspends interning and must put back the two things a   *)
(* suspended body still moves: the shape counter and lastID.               *)
(*                                                                         *)
(* A shape has one field name and is identified by it.  Column shapes are  *)
(* left out: generated code asks Suspended before it declares one.  So is   *)
(* the LRU chain: a rank the encoder writes is found in the MRU ring        *)
(* (DenseStream).                                                          *)
(***************************************************************************)
EXTENDS DenseCodec, FiniteSets

CONSTANTS
    Opts,               \* the encoder's options, Dense set
    Plain,              \* the strings written as values
    TokenShapes,        \* field names of generated structs (StructShape)
    MapShapes,          \* key names of map shapes and reflected structs
    NonStringKeys,      \* whether keyed elements may have keys other than strings
    DeclareInChain,     \* whether StructShape may declare while lastID is valid
    MaxBody,            \* bound: strings and structs in a patch body
    MaxShapes,          \* bound: declarations in one message
    MaxInFlight         \* bound: items written and not yet read

ASSUME TrialAssumption ==
    /\ Opts \in Options
    /\ Plain \subseteq Strings
    /\ TokenShapes \subseteq Strings /\ MapShapes \subseteq Strings
    /\ TokenShapes \cap MapShapes = {}
    /\ NonStringKeys \in BOOLEAN /\ DeclareInChain \in BOOLEAN
    /\ MaxBody \in Nat /\ MaxShapes \in Nat /\ MaxInFlight \in Nat

VARIABLES
    enc,            \* encState: the intern tables
    shapeCount,     \* encState.shapeCount
    bound,          \* tokenShapes, shapeBindings, mapShapes: the id of a shape, or 0
    wire,           \* items in flight
    dec,            \* decState: the mirrored tables
    shapes,         \* decState.shapes: the names, by id
    latest,         \* what the last read returned
    failed          \* the decoder returned an error

encVars == <<enc, shapeCount, bound>>
decVars == <<dec, shapes, latest, failed>>
vars == <<encVars, wire, decVars>>

Shapes == TokenShapes \cup MapShapes

-----------------------------------------------------------------------------
(* Bodies of a trial *)

\* One write into a suspended body: a struct or map of a shape, or a string,
\* which goes in line whatever it is.
Ops == [kind : {"string"}, name : {NoString}]
       \cup [kind : {"token"}, name : TokenShapes]
       \cup [kind : {"map"}, name : MapShapes]

Bodies == UNION {[1 .. n -> Ops] : n \in 0 .. MaxBody}

\* The names that a body declares, in order: suspended, every shape is
\* declared in full and bound to nothing.
Declared(body) ==
    LET names[n \in 0 .. Len(body)] ==
            IF n = 0 THEN <<>>
            ELSE IF body[n].kind = "string" THEN names[n - 1]
            ELSE Append(names[n - 1], body[n].name)
    IN  names[Len(body)]

\* Strings and map keys go in line through WriteString, which drops lastID;
\* StructShape appends its prebuilt headers and leaves lastID alone.
DropsLast(op) == op.kind # "token"

LastAfter(last, body) ==
    IF \E i \in DOMAIN body : DropsLast(body[i]) THEN NoId ELSE last

OutOfChain(last, body) ==
    \A i \in DOMAIN body : body[i].kind = "token" =>
        last = NoId \/ \E j \in 1 .. i - 1 : DropsLast(body[j])

-----------------------------------------------------------------------------
Header == [kind |-> "header", of |-> NoString]
StringValue(s) == [kind |-> "string", of |-> s]
ShapeValue(s) == [kind |-> "shape", of |-> s]
PatchValue(body) == [kind |-> "patch", of |-> body]

\* An item: what was written (history, but for the body of a patch), and the
\* form of its string, of the name it declares, or of the shape id it names.
Item(v, tag, form) == [wrote |-> v, tag |-> tag, form |-> form]

NoForm == RefForm("ref", 0)

Emit(item) == Len(wire) < MaxInFlight /\ wire' = Append(wire, item)

Init ==
    /\ enc = EmptyTables
    /\ shapeCount = 0
    /\ bound = [s \in Shapes |-> 0]
    /\ wire = <<>>
    /\ dec = EmptyTables
    /\ shapes = <<>>
    /\ latest = Header
    /\ failed = FALSE

-----------------------------------------------------------------------------
(* Encoder *)

WriteString(s) ==
    /\ Emit(Item(StringValue(s), "string", StringForm(enc, s, Opts)))
    /\ enc' = AfterString(enc, s, Opts)
    /\ UNCHANGED <<shapeCount, bound, decVars>>

\* Any struct or map whose shape the encoder has bound.
WriteBound(s) ==
    /\ bound[s] # 0
    /\ Emit(Item(ShapeValue(s), "shape", RefForm("ref", bound[s])))
    /\ UNCHANGED <<encVars, decVars>>

Declare(s) ==
    /\ bound[s] = 0
    /\ shapeCount < MaxShapes
    /\ shapeCount' = shapeCount + 1
    /\ bound' = [bound EXCEPT ![s] = shapeCount + 1]
    /\ UNCHANGED decVars

\* StructShape: the name goes in line, behind the string codec's back.
DeclareToken(s) ==
    /\ DeclareInChain \/ enc.lastID = NoId
    /\ Declare(s)
    /\ Emit(Item(ShapeValue(s), "declare", InlineForm(s)))
    /\ UNCHANGED enc

\* mapStringShapeOrder, encodeStruct: the name goes through the codec.
DeclareNamed(s) ==
    /\ Declare(s)
    /\ Emit(Item(ShapeValue(s), "declare", StringForm(enc, s, Opts)))
    /\ enc' = AfterString(enc, s, Opts)

\* What is left behind when the body that ends at last, with count
\* declarations so far, is the one that is kept.
Keep(body, last, count) ==
    /\ Emit(Item(PatchValue(body), "patch", NoForm))
    /\ count <= MaxShapes
    /\ enc' = [enc EXCEPT !.lastID = last]
    /\ shapeCount' = count
    /\ UNCHANGED <<bound, decVars>>

\* What the two bodies of diffKeyedSlice may hold: with string keys the keyed
\* one starts with a key, unless all elements were dropped.
KeyedPairs ==
    {p \in Bodies \X Bodies :
        NonStringKeys \/ p = <<<<>>, <<>>>>
                      \/ (p[2] # <<>> /\ p[2][1].kind = "string")}

\* Mutant of KeyedTrial: the declarations of the positional body, thrown
\* away with it, stay counted.
MutKeyedTrial(pos, keyed, keyedWins) ==
    LET posEndLastID == LastAfter(enc.lastID, pos)
        endCount     == shapeCount + Len(Declared(pos)) + Len(Declared(keyed))
    IN  /\ DeclareInChain \/ (OutOfChain(enc.lastID, pos) /\ OutOfChain(enc.lastID, keyed))
        /\ IF keyedWins
           THEN Keep(keyed, LastAfter(posEndLastID, keyed), endCount)
           ELSE Keep(pos, posEndLastID, endCount - Len(Declared(keyed)))

\* The positional body, then the keyed one behind it.
KeyedTrial(pos, keyed, keyedWins) ==
    LET posEndLastID  == LastAfter(enc.lastID, pos)
        shapeAfterPos == shapeCount + Len(Declared(pos))
        endCount      == shapeAfterPos + Len(Declared(keyed))
    IN  /\ DeclareInChain \/ (OutOfChain(enc.lastID, pos) /\ OutOfChain(enc.lastID, keyed))
        /\ IF keyedWins
           THEN Keep(keyed, LastAfter(posEndLastID, keyed),
                     shapeCount + (endCount - shapeAfterPos))
           ELSE Keep(pos, posEndLastID, shapeAfterPos)

\* Mutant of ColumnarTrial: lastID is left where the positional body ended.
MutColumnarTrial(pos, columnWins) ==
    LET posEndLastID  == LastAfter(enc.lastID, pos)
        shapeAfterPos == shapeCount + Len(Declared(pos))
    IN  /\ DeclareInChain \/ OutOfChain(enc.lastID, pos)
        /\ IF columnWins THEN Keep(<<>>, posEndLastID, shapeCount)
           ELSE Keep(pos, posEndLastID, shapeAfterPos)

\* The positional body, then column bodies that move nothing at all.
ColumnarTrial(pos, columnWins) ==
    LET preTrialLastID == enc.lastID
        shapeAfterPos  == shapeCount + Len(Declared(pos))
    IN  /\ DeclareInChain \/ OutOfChain(enc.lastID, pos)
        /\ IF columnWins
           THEN Keep(<<>>, preTrialLastID, shapeCount)
           ELSE Keep(pos, LastAfter(enc.lastID, pos), shapeAfterPos)

\* Mutant of NextMessage: shapes stay bound to the ids of the last message.
MutNextMessage ==
    /\ Emit(Item(Header, "header", NoForm))
    /\ enc' = EmptyTables
    /\ shapeCount' = 0
    /\ UNCHANGED <<bound, decVars>>

NextMessage ==
    /\ Emit(Item(Header, "header", NoForm))
    /\ enc' = EmptyTables
    /\ shapeCount' = 0
    /\ bound' = [s \in Shapes |-> 0]
    /\ UNCHANGED decVars

-----------------------------------------------------------------------------
(* Decoder *)

NextItem(tag) ==
    /\ wire # <<>> /\ ~failed
    /\ Head(wire).tag = tag
    /\ wire' = Tail(wire)
    /\ UNCHANGED encVars

Fail == failed' = TRUE /\ UNCHANGED <<dec, shapes, latest>>

ReadForm(form) == dec' = AfterRead(dec, EmptyLru, form) /\ UNCHANGED failed

ReadHeader ==
    /\ NextItem("header")
    /\ dec' = EmptyTables
    /\ shapes' = <<>>
    /\ latest' = Header
    /\ UNCHANGED failed

ReadString ==
    /\ NextItem("string")
    /\ LET form == Head(wire).form IN
        IF Readable(dec, EmptyLru, form)
        THEN /\ ReadForm(form)
             /\ latest' = StringValue(ReadValue(dec, EmptyLru, form))
             /\ UNCHANGED shapes
        ELSE Fail

\* A declaration registers its shape and reads the name as any string.
ReadDeclare ==
    /\ NextItem("declare")
    /\ LET form == Head(wire).form IN
        IF Readable(dec, EmptyLru, form)
        THEN /\ ReadForm(form)
             /\ shapes' = Append(shapes, ReadValue(dec, EmptyLru, form))
             /\ latest' = ShapeValue(ReadValue(dec, EmptyLru, form))
        ELSE Fail

\* shapeLookup: an id that was never declared is ErrUnknownStateID.
ReadShape ==
    /\ NextItem("shape")
    /\ LET id == Head(wire).form.n IN
        IF id \in DOMAIN shapes
        THEN latest' = ShapeValue(shapes[id]) /\ UNCHANGED <<dec, shapes, failed>>
        ELSE Fail

\* Everything in a patch body is in line, its declarations included.
ReadPatch ==
    /\ NextItem("patch")
    /\ LET body == Head(wire).wrote.of
       IN  /\ dec' = IF body = <<>> THEN dec ELSE ForgetLast(dec)
           /\ shapes' = shapes \o Declared(body)
           /\ latest' = PatchValue(body)
    /\ UNCHANGED failed

Next ==
    \/ \E s \in Plain : WriteString(s)
    \/ \E s \in Shapes : WriteBound(s)
    \/ \E s \in TokenShapes : DeclareToken(s)
    \/ \E s \in MapShapes : DeclareNamed(s)
    \/ \E p \in KeyedPairs, wins \in BOOLEAN : KeyedTrial(p[1], p[2], wins)
    \/ \E pos \in Bodies, wins \in BOOLEAN : ColumnarTrial(pos, wins)
    \/ NextMessage
    \/ ReadHeader
    \/ ReadString
    \/ ReadDeclare
    \/ ReadShape
    \/ ReadPatch

Spec == Init /\ [][Next]_vars

-----------------------------------------------------------------------------
(* Properties *)

Values == {Header} \cup [kind : {"string", "shape"}, of : Strings]
          \cup [kind : {"patch"}, of : Bodies]

Items == [wrote : Values,
          tag   : {"header", "string", "declare", "shape", "patch"},
          form  : Forms]

TypeOK ==
    /\ enc \in Tables
    /\ shapeCount \in Nat
    /\ bound \in [Shapes -> Nat]
    /\ wire \in Seq(Items)
    /\ dec \in Tables
    /\ shapes \in Seq(Strings)
    /\ latest \in Values
    /\ failed \in BOOLEAN

\* Once the decoder has caught up, the counters agree and every id the
\* encoder may still write names the shape it was bound for, whatever
\* candidates were thrown away in between.
ShapeIdsInStep ==
    wire = <<>> =>
        /\ shapeCount = Len(shapes)
        /\ \A s \in Shapes : bound[s] # 0 =>
                bound[s] \in DOMAIN shapes /\ shapes[bound[s]] = s

\* Once the decoder has caught up, a trial or a declaration has left lastID,
\* the successor table, the MRU ring and the intern table the same on both
\* sides.
TablesInStep == wire = <<>> => Mirrors(dec, enc, Opts)

\* No form, shape id or declaration is ever refused or read as another.
Queue == INSTANCE ValueQueue WITH
            queue <- [i \in 1 .. Len(wire) |-> wire[i].wrote]

Lossless == Queue!Spec
=============================================================================
