---------------------------- MODULE DenseStream ----------------------------
(***************************************************************************)
(* One Encoder writing strings in Dense mode and one Decoder reading them, *)
(* message after message.  Neither end sends the other its tables: the     *)
(* decoder rebuilds them from the forms it reads, so every write must      *)
(* leave the encoder exactly where reading that write leaves the decoder.  *)
(*                                                                         *)
(* A message begins with a header item; the decoder starts it with empty   *)
(* tables (Decoder.Reset, or a decoder from the pool).                     *)
(***************************************************************************)
EXTENDS DenseCodec, FiniteSets

CONSTANTS
    OptionSets,         \* the option masks an encoder may be given
    Identities,         \* the strings a program registers with PreIntern
    TakeWithIdentities, \* whether Take is called while identities are registered
    SkipsAfterReference, \* whether Skip meets an inline string behind an id
    MaxInFlight,        \* bound: items written and not yet read
    MaxWrites           \* bound: strings written in one message

ASSUME StreamAssumption ==
    /\ OptionSets \subseteq [dense : BOOLEAN, mtf : BOOLEAN, pairPred : BOOLEAN]
    /\ [dense |-> FALSE, mtf |-> FALSE, pairPred |-> FALSE] \in OptionSets
    /\ Identities \subseteq Strings
    /\ TakeWithIdentities \in BOOLEAN
    /\ SkipsAfterReference \in BOOLEAN
    /\ MaxInFlight \in Nat
    /\ MaxWrites \in Nat

VARIABLES
    enc,            \* encState: the encoder's tables
    opts,           \* the mask applyOpts folded
    preIntern,      \* per string: not listed, unseen, or the cached id
    written,        \* strings written since the header
    wire,           \* items in flight
    dec, lru,       \* decState: the mirrored tables and the LRU chain
    latest,         \* what the last read returned
    failed          \* the decoder returned an error

encVars == <<enc, opts, preIntern, written>>
decVars == <<dec, lru, latest, failed>>
vars == <<encVars, wire, decVars>>

-----------------------------------------------------------------------------
NotListed == -2
NewMessage == NoString      \* the header, seen as a value
OptSpeed == [dense |-> FALSE, mtf |-> FALSE, pairPred |-> FALSE]

HeaderForm == [tag |-> "header", n |-> 0, str |-> NoString]

\* An item is its form.  The other fields are history: the value that was
\* written, and the encoder's tables and options just before it was.
Items == [form  : Forms \cup {HeaderForm},
          wrote : Strings \cup {NewMessage},
          at    : Tables,
          opts  : OptionSets]

Item(f, v) == [form |-> f, wrote |-> v, at |-> enc, opts |-> opts]

Emit(f, v) ==
    /\ Len(wire) < MaxInFlight
    /\ wire' = Append(wire, Item(f, v))

Init ==
    /\ enc = EmptyTables
    /\ opts \in OptionSets
    /\ preIntern = [s \in Strings |-> NotListed]
    /\ written = 0
    /\ wire = <<>>
    /\ dec = EmptyTables
    /\ lru = EmptyLru
    /\ latest = NewMessage
    /\ failed = FALSE

-----------------------------------------------------------------------------
(* Encoder *)

Listed == {s \in Strings : preIntern[s] # NotListed}

\* ApplyOpts, between messages.
ApplyOpts(o) ==
    /\ written = 0
    /\ opts' = o
    /\ UNCHANGED <<enc, preIntern, written, wire, decVars>>

\* PreIntern(s): a later entry for the same identity is never reached.
PreIntern(s) ==
    /\ opts.dense
    /\ s \notin ShortStrings
    /\ preIntern[s] = NotListed
    /\ preIntern' = [preIntern EXCEPT ![s] = NoId]
    /\ UNCHANGED <<enc, opts, written, wire, decVars>>

Count == written < MaxWrites /\ written' = written + 1

\* WriteString outside Dense mode, and WriteStringInline outside it: the
\* tables are not touched.
WritePlain(s) ==
    /\ ~opts.dense
    /\ Count
    /\ Emit(InlineForm(s), s)
    /\ UNCHANGED <<enc, opts, preIntern, decVars>>

\* WriteStringInline in Dense mode.
WriteInline(s) ==
    /\ opts.dense
    /\ Count
    /\ Emit(InlineForm(s), s)
    /\ enc' = ForgetLast(enc)
    /\ UNCHANGED <<opts, preIntern, decVars>>

\* WriteString with a string that is not the registered backing, WriteBytes
\* with any: the hash table answers.
WriteString(s) ==
    /\ opts.dense
    /\ Count
    /\ Emit(StringForm(enc, s, opts), s)
    /\ enc' = AfterString(enc, s, opts)
    /\ UNCHANGED <<opts, preIntern, decVars>>

\* WriteString with a registered backing whose id is known: no lookup.
WriteCached(s) ==
    /\ opts.dense
    /\ Internable(enc, s)
    /\ preIntern[s] \in Ids
    /\ Count
    /\ Emit(StateRefForm(enc, preIntern[s], opts), s)
    /\ enc' = AfterStateRef(enc, preIntern[s], opts)
    /\ UNCHANGED <<opts, preIntern, decVars>>

\* WriteString with a registered backing seen for the first time: the
\* ordinary path, and the id is filled in.
WriteUnseen(s) ==
    /\ opts.dense
    /\ Internable(enc, s)
    /\ preIntern[s] = NoId
    /\ Count
    /\ Emit(StringForm(enc, s, opts), s)
    /\ enc' = AfterString(enc, s, opts)
    /\ preIntern' = [preIntern EXCEPT
                        ![s] = IF Interned(enc, s) THEN IdOf(enc, s)
                               ELSE Len(enc.values)]
    /\ UNCHANGED <<opts, decVars>>

\* Mutant of StartOver: the registered identities survive.
MutStartOver(o) ==
    /\ Emit(HeaderForm, NewMessage)
    /\ enc' = EmptyTables
    /\ opts' = o
    /\ written' = 0
    /\ UNCHANGED <<preIntern, decVars>>

\* The next message starts from empty tables and no identities.  Reset also
\* drops the options, which the caller applies again; a StreamEncoder keeps
\* them.
StartOver(o) ==
    /\ Emit(HeaderForm, NewMessage)
    /\ enc' = EmptyTables
    /\ opts' = o
    /\ preIntern' = [s \in Strings |-> NotListed]
    /\ written' = 0
    /\ UNCHANGED decVars

Reset == StartOver(OptSpeed)
ResetForReuse == StartOver(opts)

\* Take detaches the message and resets the tables, and nothing else.
Take ==
    /\ TakeWithIdentities \/ Listed = {}
    /\ Emit(HeaderForm, NewMessage)
    /\ enc' = EmptyTables
    /\ written' = 0
    /\ UNCHANGED <<opts, preIntern, decVars>>

-----------------------------------------------------------------------------
(* Decoder *)

NextItem == wire # <<>> /\ ~failed /\ wire' = Tail(wire) /\ UNCHANGED encVars

\* Mutant of ReadHeader: lastID survives from one message to the next.
MutReadHeader ==
    /\ NextItem
    /\ Head(wire).form.tag = "header"
    /\ dec' = [EmptyTables EXCEPT !.lastID = dec.lastID]
    /\ lru' = EmptyLru
    /\ latest' = NewMessage
    /\ UNCHANGED failed

ReadHeader ==
    /\ NextItem
    /\ Head(wire).form.tag = "header"
    /\ dec' = EmptyTables
    /\ lru' = EmptyLru
    /\ latest' = NewMessage
    /\ UNCHANGED failed

\* A read returns the value, or an error (ErrUnknownStateID,
\* ErrInvalidLength) after which the message is given up.
ReadString ==
    /\ NextItem
    /\ Head(wire).form.tag # "header"
    /\ LET f == Head(wire).form IN
        IF Readable(dec, lru, f)
        THEN /\ latest' = ReadValue(dec, lru, f)
             /\ dec' = AfterRead(dec, lru, f)
             /\ lru' = LruAfterRead(dec, lru, f)
             /\ UNCHANGED failed
        ELSE failed' = TRUE /\ UNCHANGED <<dec, lru, latest>>

\* Skip steps over an inline string and reads every other form as ReadString
\* does: the one difference is that lastID stays.
SkipInline ==
    /\ NextItem
    /\ Head(wire).form.tag = "inline"
    /\ SkipsAfterReference \/ dec.lastID = NoId
    /\ latest' = Head(wire).form.str
    /\ UNCHANGED <<dec, lru, failed>>

Write(s) ==
    \/ WritePlain(s)
    \/ WriteInline(s)
    \/ WriteString(s)
    \/ WriteCached(s)
    \/ WriteUnseen(s)

Next ==
    \/ \E o \in OptionSets : ApplyOpts(o)
    \/ \E s \in Identities : PreIntern(s)
    \/ \E s \in Strings : Write(s)
    \/ Reset
    \/ ResetForReuse
    \/ Take
    \/ ReadHeader
    \/ ReadString
    \/ SkipInline

Spec == Init /\ [][Next]_vars

-----------------------------------------------------------------------------
(* Properties *)

TypeOK ==
    /\ enc \in Tables
    /\ opts \in OptionSets
    /\ preIntern \in [Strings -> OptId \cup {NotListed}]
    /\ written \in Nat
    /\ wire \in Seq(Items)
    /\ dec \in Tables
    /\ lru \in Lrus
    /\ latest \in Strings \cup {NewMessage}
    /\ failed \in BOOLEAN

\* Where the encoder stood after item i.
TablesAfter(i) == IF i < Len(wire) THEN wire[i + 1].at ELSE enc
OptsAfter(i) == IF i < Len(wire) THEN wire[i + 1].opts ELSE opts

\* Every item in flight can be read by a decoder that stands where the
\* encoder stood, and takes it to where the encoder went.  This is the lockstep
\* of WriteString, emitStateRef and readStringBytesRaw, form by form.
ItemInStep(i) ==
    LET item == wire[i] IN
    IF item.form.tag = "header"
    THEN item.wrote = NewMessage /\ TablesAfter(i) = EmptyTables
    ELSE /\ Faithful(item.form, item.wrote, item.at, item.opts)
         /\ Mirrors(AfterRead(item.at, EmptyLru, item.form), TablesAfter(i), item.opts)
         /\ OptsAfter(i) = item.opts

WireInStep == \A i \in 1 .. Len(wire) : ItemInStep(i)

\* The decoder stands where the encoder stood before the oldest item in
\* flight; with nothing in flight the two tables mirror each other.
Lockstep ==
    IF wire = <<>> THEN Mirrors(dec, enc, opts)
    ELSE Mirrors(dec, wire[1].at, wire[1].opts)

\* An identity PreIntern resolved names that very string in the table the
\* decoder mirrors: WriteString trusts it without a lookup.
CachedIdsValid ==
    \A s \in Strings : preIntern[s] \in Ids =>
        Registered(enc, preIntern[s]) /\ ValueOf(enc, preIntern[s]) = s

\* The decoder's LRU chain links every registered id exactly once, and the
\* MRU ring, newest first with repeats dropped, is a prefix of that chain:
\* what mruRing is a side cache of, through every relinking of
\* lruMoveToFront.
LruChain ==
    LET n == Len(dec.values)
        ring == [r \in 1 .. MruRingSize |-> MruAt(dec, r - 1)]
        FirstSeen(r) == ring[r] # NoId /\ \A q \in 1 .. r - 1 : ring[q] # ring[r]
        Newer(r) == {q \in 1 .. r - 1 : FirstSeen(q)}
    IN  /\ {LruAt(lru, r) : r \in 0 .. n - 1} = 0 .. n - 1
        /\ LruAt(lru, n) = NoId
        /\ \A r \in 1 .. MruRingSize :
                FirstSeen(r) => LruAt(lru, Cardinality(Newer(r))) = ring[r]

\* Through all of it the pair is a lossless FIFO of strings.
Queue == INSTANCE ValueQueue WITH
            Values <- Strings \cup {NewMessage},
            queue  <- [i \in 1 .. Len(wire) |-> wire[i].wrote]

Lossless == Queue!Spec
=============================================================================
