----------------------------- MODULE DenseCodec -----------------------------
(***************************************************************************)
(* The Dense string codec of qdf as pure operators: the state tables that *)
(* encState (encoder) and decState (decoder) keep in lockstep, the wire    *)
(* form the encoder picks for one string, and what the decoder makes of    *)
(* that form.  The state machines of this project (DenseStream,            *)
(* FieldDelta, ShapeTrials) are built from these operators.                  *)
(*                                                                         *)
(* A string is a model value; its length is abstracted to the one question *)
(* the codec asks of it, whether it reaches minIntern.  Byte counts are    *)
(* abstracted to UvarintLen.                                               *)
(***************************************************************************)
EXTENDS Integers, Sequences

CONSTANTS
    Strings,            \* the values a program may write
    ShortStrings,       \* those shorter than minIntern: never interned
    MaxStateEntries,    \* the encoder's cap on the intern table (SetIntern)
    MaxInternEntries,   \* the decoder's cap on the mirrored table
    MruRingSize,        \* slots of the MRU side cache (128 in the code)
    OneByteLimit,       \* the first number whose uvarint takes 2 bytes (0x80)
    NoString            \* the payload of a wire item that carries none

ASSUME CodecAssumption ==
    /\ ShortStrings \subseteq Strings
    /\ NoString \notin Strings
    /\ MaxInternEntries \in Nat \ {0}
    /\ MaxStateEntries \in 0 .. MaxInternEntries
    /\ MruRingSize \in Nat \ {0}
    /\ OneByteLimit \in Nat

-----------------------------------------------------------------------------
(* State tables *)

NoId == -1                              \* lruInvalidID, mruEmpty, pairPredEmpty
Ids == 0 .. MaxInternEntries - 1
OptId == Ids \cup {NoId}
RingSlots == 0 .. MruRingSize - 1

\* What both ends mirror: the interned values in id order, the Markov-0
\* predecessor, the top-1 successor table and the MRU ring.
Tables == [values   : Seq(Strings),
           lastID   : OptId,
           pairPred : [Ids -> OptId],
           mruRing  : [RingSlots -> OptId],
           mruHead  : RingSlots]

EmptyTables == [values   |-> <<>>,
                lastID   |-> NoId,
                pairPred |-> [i \in Ids |-> NoId],
                mruRing  |-> [r \in RingSlots |-> NoId],
                mruHead  |-> 0]

\* The features an encoder may be configured with (OptMTF, OptPairPred).
Options == [mtf : BOOLEAN, pairPred : BOOLEAN]

UvarintLen(n) == IF n < OneByteLimit THEN 1 ELSE 2

\* get(id): the value of an id, when the id was registered.
Registered(t, id) == id \in Ids /\ id < Len(t.values)
ValueOf(t, id) == t.values[id + 1]

Interned(t, s) == \E id \in Ids : Registered(t, id) /\ ValueOf(t, id) = s
IdOf(t, s) == CHOOSE id \in Ids : Registered(t, id) /\ ValueOf(t, id) = s

\* Mutant of MruPush: the head runs past the end of the ring.
MutMruPush(t, id) ==
    [t EXCEPT !.mruRing[t.mruHead] = id, !.mruHead = t.mruHead + 1]

\* mruPush: the head is only ever used modulo the ring size, so the model
\* keeps it reduced.
MruPush(t, id) ==
    [t EXCEPT !.mruRing[t.mruHead] = id,
              !.mruHead = (t.mruHead + 1) % MruRingSize]

\* The id r emissions back from the newest one.
MruAt(t, r) == t.mruRing[(t.mruHead + MruRingSize - 1 - r) % MruRingSize]

\* mruRank finds id at offset r, scanning from the newest emission.
MruRankIs(t, id, r) ==
    /\ r \in RingSlots
    /\ MruAt(t, r) = id
    /\ \A q \in RingSlots : q < r => MruAt(t, q) # id

\* pairRecord(prev, id), called only when prev is valid.
PairRecord(t, prev, id) ==
    IF prev = NoId THEN t ELSE [t EXCEPT !.pairPred[prev] = id]

ForgetLast(t) == [t EXCEPT !.lastID = NoId]

-----------------------------------------------------------------------------
(* Wire forms *)

Tags == {"inline", "intern", "ref", "mtf", "pair", "repeat"}

\* Two forms carry the string.  n is the id of a "ref", the rank of an "mtf"
\* and 0 otherwise.
Forms == [tag : {"inline", "intern"}, n : {0}, str : Strings]
         \cup [tag : {"ref", "mtf", "pair", "repeat"}, n : Nat, str : {NoString}]

InlineForm(s) == [tag |-> "inline", n |-> 0, str |-> s]
InternForm(s) == [tag |-> "intern", n |-> 0, str |-> s]
RefForm(tag, n) == [tag |-> tag, n |-> n, str |-> NoString]

-----------------------------------------------------------------------------
(* Encoder *)

\* The cap is tested before the lookup, so at the cap a string that is
\* already interned goes in line too.
Internable(t, s) == s \notin ShortStrings /\ Len(t.values) < MaxStateEntries

\* emitStateRef: the form for a registered id.  A one-byte id is written raw;
\* otherwise the pair form, then the MTF form when its rank is shorter.
StateRefForm(t, id, o) ==
    IF t.lastID = id THEN RefForm("repeat", 0)
    ELSE IF UvarintLen(id) = 1 THEN RefForm("ref", id)
    ELSE IF o.pairPred /\ t.lastID # NoId /\ t.pairPred[t.lastID] = id
         THEN RefForm("pair", 0)
    ELSE IF o.mtf /\ \E r \in RingSlots : MruRankIs(t, id, r)
                                          /\ UvarintLen(r) < UvarintLen(id)
         THEN RefForm("mtf", CHOOSE r \in RingSlots : MruRankIs(t, id, r))
    ELSE RefForm("ref", id)

\* The bookkeeping every encoder emit of a registered id ends with.
EncPair(t, prev, id, o) == IF o.pairPred THEN PairRecord(t, prev, id) ELSE t

\* Mutant of AfterStateRef: lastID moves before the pair is recorded.
MutAfterStateRef(t, id, o) ==
    IF t.lastID = id
    THEN EncPair(t, id, id, o)
    ELSE [EncPair(MruPush(t, id), id, id, o) EXCEPT !.lastID = id]

AfterStateRef(t, id, o) ==
    IF t.lastID = id
    THEN EncPair(t, id, id, o)
    ELSE [EncPair(MruPush(t, id), t.lastID, id, o) EXCEPT !.lastID = id]

\* The install path: installInternSlot, then the pair record and lastID.
AfterIntern(t, s, o) ==
    LET id  == Len(t.values)
        reg == [t EXCEPT !.values = Append(t.values, s)]
    IN  [EncPair(MruPush(reg, id), t.lastID, id, o) EXCEPT !.lastID = id]

\* WriteString / WriteBytes, by what they emit and what they leave behind.
\* id is the id the intern table (or the PreIntern cache) answers with.
StringForm(t, s, o) ==
    IF ~Internable(t, s) THEN InlineForm(s)
    ELSE IF Interned(t, s) THEN StateRefForm(t, IdOf(t, s), o)
    ELSE InternForm(s)

AfterString(t, s, o) ==
    IF ~Internable(t, s) THEN ForgetLast(t)
    ELSE IF Interned(t, s) THEN AfterStateRef(t, IdOf(t, s), o)
    ELSE AfterIntern(t, s, o)

-----------------------------------------------------------------------------
(* Decoder: the mirrored tables plus the LRU chain, a doubly linked list *)
(* over the ids (lruLink packs the two links of an id into one word).    *)

Lrus == [head : OptId, prev : [Ids -> OptId], next : [Ids -> OptId]]

EmptyLru == [head |-> NoId,
             prev |-> [i \in Ids |-> NoId],
             next |-> [i \in Ids |-> NoId]]

\* lruIDAtRank: the id r links behind the head.
LruAt(lru, r) ==
    LET walk[k \in 0 .. r] ==
            IF k = 0 THEN lru.head
            ELSE IF walk[k - 1] = NoId THEN NoId ELSE lru.next[walk[k - 1]]
    IN  walk[r]

\* Mutant of IdAtRank: ranks count from one.
MutIdAtRank(t, lru, r) ==
    IF r \in RingSlots /\ MruAt(t, r + 1) # NoId THEN MruAt(t, r + 1)
    ELSE LruAt(lru, r)

\* mruIDAtRank, with the chain walk behind it.
IdAtRank(t, lru, r) ==
    IF r \in RingSlots /\ MruAt(t, r) # NoId THEN MruAt(t, r) ELSE LruAt(lru, r)

\* The id a reference form names, NoId when it names none.
ResolveId(t, lru, f) ==
    CASE f.tag = "ref"    -> f.n
      [] f.tag = "mtf"    -> IdAtRank(t, lru, f.n)
      [] f.tag = "pair"   -> IF t.lastID = NoId THEN NoId
                             ELSE t.pairPred[t.lastID]
      [] f.tag = "repeat" -> t.lastID
      [] OTHER            -> NoId

\* Whether readStringBytesRaw returns a value rather than an error.
Readable(t, lru, f) ==
    CASE f.tag = "inline" -> TRUE
      [] f.tag = "intern" -> Len(t.values) < MaxInternEntries
      [] OTHER            -> Registered(t, ResolveId(t, lru, f))

ReadValue(t, lru, f) ==
    IF f.tag \in {"inline", "intern"} THEN f.str
    ELSE ValueOf(t, ResolveId(t, lru, f))

\* The id a readable form ends on: a fresh one for an intern record.
ReadId(t, lru, f) ==
    IF f.tag = "intern" THEN Len(t.values) ELSE ResolveId(t, lru, f)

\* The decoder records every transition, whatever the encoder's options.
AfterRead(t, lru, f) ==
    LET id  == ReadId(t, lru, f)
        reg == IF f.tag = "intern"
               THEN [t EXCEPT !.values = Append(t.values, f.str)]
               ELSE t
    IN  IF f.tag = "inline" THEN ForgetLast(t)
        ELSE IF f.tag = "repeat" THEN PairRecord(t, id, id)
        ELSE [PairRecord(MruPush(reg, id), t.lastID, id) EXCEPT !.lastID = id]

\* lruAddFresh: link id in front of the head.
LruAddFresh(lru, id) ==
    [head |-> id,
     prev |-> IF lru.head = NoId THEN [lru.prev EXCEPT ![id] = NoId]
              ELSE [lru.prev EXCEPT ![id] = NoId, ![lru.head] = id],
     next |-> [lru.next EXCEPT ![id] = lru.head]]

\* Mutant of LruUnlink: the successor keeps its link to the id taken out.
MutLruUnlink(lru, id) == [lru EXCEPT !.next[lru.prev[id]] = lru.next[id]]

\* The first half of lruMoveToFront: take id, which is not the head, out.
LruUnlink(lru, id) ==
    LET p == lru.prev[id]
        n == lru.next[id]
    IN  [lru EXCEPT !.next[p] = n,
                    !.prev = IF n = NoId THEN @ ELSE [@ EXCEPT ![n] = p]]

LruMoveToFront(lru, id) ==
    IF lru.head = id THEN lru ELSE LruAddFresh(LruUnlink(lru, id), id)

LruAfterRead(t, lru, f) ==
    CASE f.tag = "intern" -> LruAddFresh(lru, ReadId(t, lru, f))
      [] f.tag \in {"ref", "mtf", "pair"} -> LruMoveToFront(lru, ReadId(t, lru, f))
      [] OTHER -> lru

-----------------------------------------------------------------------------
(* Lockstep *)

\* d stands where e stands, as far as an encoder with options o can tell:
\* without pair prediction its own successor table stays empty.
Mirrors(d, e, o) ==
    /\ d.values = e.values
    /\ d.lastID = e.lastID
    /\ d.mruRing = e.mruRing
    /\ d.mruHead = e.mruHead
    /\ o.pairPred => d.pairPred = e.pairPred

\* Form f, read where the encoder stood in t when it wrote v, gives v; and
\* no read needs the LRU chain, because a rank always hits the ring.
Faithful(f, v, t, o) ==
    CASE f.tag = "inline" -> f.str = v
      [] f.tag = "intern" -> f.str = v /\ Len(t.values) < MaxInternEntries
      [] OTHER ->
            /\ Registered(t, ResolveId(t, EmptyLru, f))
            /\ ValueOf(t, ResolveId(t, EmptyLru, f)) = v
            /\ f.tag = "mtf" => f.n \in RingSlots /\ MruAt(t, f.n) # NoId
            /\ f.tag = "pair" => o.pairPred
=============================================================================
