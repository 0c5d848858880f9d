---------------------------- MODULE EncoderPool ----------------------------
(***************************************************************************)
(* The pooled encoders behind Marshal, AppendMarshal, MarshalDirect,       *)
(* AppendMarshalDirect and AppendDiff (qdf.go, qdf_direct.go, fsst_dict.go, *)
(* delta.go): goroutines share a sync.Pool of encoders, each with a buffer  *)
(* that is the encoder's own, or the caller's dst, or about to become the   *)
(* caller's result.  Who may write which memory, and which settings of an  *)
(* earlier call a recycled encoder still carries, is what is modelled.      *)
(*                                                                         *)
(* A slice is a backing array and a length, append writes in place while    *)
(* the capacity lasts.  A message is a header and a body of equal units;    *)
(* the entropy pass packs a body into one unit.                             *)
(***************************************************************************)
EXTENDS Integers, FiniteSets, SequencesExt

CONSTANTS
    NThreads,       \* how many goroutines encode
    Keepers,        \* those of them that hold on to what they are returned
    Options,        \* values of the option mask
    Speed,          \* OptSpeed, what Reset leaves behind
    WithRANS,       \* the options that hold OptRANS
    Dicts, NoDict,  \* trained FSST tables, and none
    Requests,       \* what each of them asks for
    InitialEncBuf,  \* capacity of a new encoder's buffer
    MarshalDetachThreshold,
    MaxPooledBuf,
    MaxHintedBuf,
    RansMin,        \* shortest body the entropy pass tries
    MaxSlice        \* bound: how long a dst may get

Threads == 1..NThreads
Ops == {"marshal", "append", "direct", "append direct", "diff"}

\* A call: its options and dictionary where it takes them, and how many units
\* the body of its value has.
Request == {q \in [op : Ops, opts : Options, dict : Dicts \cup {NoDict},
                   size : Nat \ {0}] :
                q.op = "diff" => q.dict = NoDict}

ASSUME PoolAssumption ==
    /\ {NThreads, InitialEncBuf, MarshalDetachThreshold, MaxPooledBuf,
        MaxHintedBuf, RansMin, MaxSlice} \subseteq Nat \ {0}
    /\ Keepers \subseteq Threads
    /\ Speed \in Options \ WithRANS /\ WithRANS \subseteq Options
    /\ NoDict \notin Dicts
    /\ Requests \in [Threads -> SUBSET Request]

VARIABLES
    pool,           \* the idle encoders in encPool, bounded to one
    call,           \* per goroutine, the call it is in and the encoder it has
    kept,           \* per goroutine, the slice it got last and its bytes then
    mem             \* the backing arrays, each as long as its capacity

vars == <<pool, call, kept, mem>>

-----------------------------------------------------------------------------
(* Memory.                                                                 *)

Kinds == {"blank", "header", "patch", "packed header", "packed patch",
          "body", "packed"}
Unit == Kinds \X (0..NThreads)              \* a body says whose it is
Blank == <<"blank", 0>>
Header == <<"header", 0>>
PatchHeader == <<"patch", 0>>

NilSlice == [array |-> 0, len |-> 0]
Cap(m, s) == IF s.array = 0 THEN 0 ELSE Len(m[s.array])
Bytes(m, s) == IF s.array = 0 THEN <<>> ELSE SubSeq(m[s.array], 1, s.len)
Zeroed(n) == [i \in 1..n |-> Blank]
Larger(a, b) == IF a > b THEN a ELSE b

\* make([]byte, 0, n).
Make(m, n) == [mem |-> Append(m, Zeroed(n)),
               slice |-> [array |-> Len(m) + 1, len |-> 0]]

\* append(s, u): in place while the capacity lasts, else in a copy of twice it.
Push(m, s, u) ==
    IF s.len < Cap(m, s)
    THEN [mem   |-> [m EXCEPT ![s.array][s.len + 1] = u],
          slice |-> [s EXCEPT !.len = @ + 1]]
    ELSE [mem   |-> Append(m, Bytes(m, s) \o <<u>> \o
                        Zeroed(Larger(InitialEncBuf, 2 * s.len) - s.len - 1)),
          slice |-> [array |-> Len(m) + 1, len |-> s.len + 1]]

\* slices.Clone: a copy that shares nothing.
Clone(m, s) == [mem   |-> Append(m, Bytes(m, s)),
                slice |-> [array |-> Len(m) + 1, len |-> s.len]]

NewEncoder == [slice |-> NilSlice, hint |-> 0, opts |-> Speed,
               dict |-> NoDict, headerOut |-> FALSE]
NothingKept == [slice |-> NilSlice, bytes |-> <<>>]
Idle == [op |-> "idle", opts |-> Speed, dict |-> NoDict, size |-> 0,
         done |-> 0, enc |-> NewEncoder, dst |-> NilSlice, before |-> <<>>,
         out |-> NilSlice]

\* The slices a call or its caller reads.
Held(c, k) == [i \in 1..4 * NThreads |->
    LET t == (i + 3) \div 4
    IN  IF i % 4 = 1 THEN k[t].slice ELSE IF i % 4 = 2 THEN c[t].dst
        ELSE IF i % 4 = 3 THEN c[t].out ELSE c[t].enc.slice]

\* Where an array lies makes no difference, so it is named by a slice
\* that refers to it, and by the spare name when only the pool does.
IsHeld(held, a) == \E i \in DOMAIN held : held[i].array = a
Spare == 4 * NThreads + 1
NameOf(held, a) ==
    IF a = 0 THEN 0
    ELSE IF IsHeld(held, a) THEN CHOOSE i \in DOMAIN held : held[i].array = a
    ELSE Spare
Moved(held, s) == [s EXCEPT !.array = NameOf(held, @)]

\* What nothing reads is blanked: a pooled encoder truncates its buffer first.
Contents(held, m, a) == [j \in DOMAIN m[a] |->
    IF \E i \in DOMAIN held : held[i].array = a /\ j <= held[i].len
    THEN m[a][j] ELSE Blank]

\* The arrays under their names; what nothing refers to is collected.
Collected(held, idle, m) == [i \in 1..Spare |->
    IF i < Spare
    THEN IF held[i].array # 0 /\ NameOf(held, held[i].array) = i
         THEN Contents(held, m, held[i].array) ELSE <<>>
    ELSE IF \E a \in idle : NameOf(held, a) = Spare
         THEN Contents(held, m, CHOOSE a \in idle : NameOf(held, a) = Spare)
         ELSE <<>>]

\* The state a step leads to.
Settled(p, c, k, m) ==
    LET held == Held(c, k)
    IN  [pool |-> {[e EXCEPT !.slice = Moved(held, @)] : e \in p},
         call |-> [t \in Threads |-> [c[t] EXCEPT !.enc.slice = Moved(held, @),
                                                  !.dst = Moved(held, @),
                                                  !.out = Moved(held, @)]],
         kept |-> [t \in Threads |-> [k[t] EXCEPT !.slice = Moved(held, @)]],
         mem  |-> Collected(held, {e.slice.array : e \in p}, m)]

Become(p, c, k, m) ==
    \E s \in {Settled(p, c, k, m)} :
        pool' = s.pool /\ call' = s.call /\ kept' = s.kept /\ mem' = s.mem

-----------------------------------------------------------------------------
(* The encoder's part of a call: an encoder and the memory, changed.       *)

\* encPool.Get: an idle encoder, or a new one with a buffer.
Acquirable ==
    {[enc |-> e, idle |-> pool \ {e}, mem |-> mem] : e \in pool} \cup
    {LET b == Make(mem, InitialEncBuf)
     IN  [enc |-> [NewEncoder EXCEPT !.slice = b.slice], idle |-> pool,
          mem |-> b.mem]}

\* Mutant: headerOut is not cleared.
MutReset(g) == [g EXCEPT !.enc.slice.len = 0, !.enc.opts = Speed,
                         !.enc.dict = NoDict]

\* Mutant: the dictionary of the last call stays.
MutResetDict(g) == [g EXCEPT !.enc.slice.len = 0, !.enc.opts = Speed,
                             !.enc.headerOut = FALSE]

\* Encoder.Reset: a buffer of the hinted size when the last one was handed over.
Reset(g) ==
    LET empty == [g.enc.slice EXCEPT !.len = 0]
        hinted == /\ Cap(g.mem, empty) = 0
                  /\ g.enc.hint > InitialEncBuf
                  /\ g.enc.hint <= MaxHintedBuf
        b == IF hinted THEN Make(g.mem, g.enc.hint)
             ELSE [mem |-> g.mem, slice |-> empty]
    IN  [g EXCEPT !.enc = [NewEncoder EXCEPT !.slice = b.slice, !.hint = g.enc.hint],
                  !.mem = b.mem]

\* acquireEnc: Get, Reset, applyOpts and the dictionary.
Acquired(q) == {[Reset(g) EXCEPT !.enc.opts = q.opts, !.enc.dict = q.dict] :
                    g \in Acquirable}

\* putEnc: a buffer past maxPooledBuf is not retained.
PutEnc(p, e, m) ==
    p \cup {IF Cap(m, e.slice) > MaxPooledBuf
            THEN [e EXCEPT !.slice = NilSlice] ELSE e}

\* FlagRANS or flagPatchRANS set in a header.
Flagged(h) == IF h = Header THEN <<"packed header", 0>>
              ELSE IF h = PatchHeader THEN <<"packed patch", 0>> ELSE h

\* maybeApplyRANS and maybeApplyPatchRANS: the message from start on is
\* rewritten in place when its body is worth packing.
Entropy(e, m, start) ==
    LET s == e.slice
        old == m[s.array]
    IN  IF e.opts \in WithRANS /\ s.len - start >= 1 + RansMin
        THEN [mem   |-> [m EXCEPT ![s.array] =
                            [old EXCEPT ![start + 1] = Flagged(@),
                                        ![start + 2] = <<"packed", @[2]>>]],
              slice |-> [s EXCEPT !.len = start + 2]]
        ELSE [mem |-> m, slice |-> s]

-----------------------------------------------------------------------------
(* Calls.                                                                  *)

Init ==
    /\ pool = {}
    /\ call = [t \in Threads |-> Idle]
    /\ kept = [t \in Threads |-> NothingKept]
    /\ mem = [i \in 1..(4 * NThreads + 1) |-> <<>>]

\* What a caller passes as dst: nil, or the slice it got last.
Destinations(t) ==
    {d \in {NothingKept, kept[t]} : d.slice.len <= MaxSlice}

Asked(t, op) == {q \in Requests[t] : q.op = op}

\* A call with the encoder and the memory of g, out is what MarshalQDF is given.
Enter(t, q, d, g, out) ==
    /\ call[t] = Idle
    /\ LET c == [op |-> q.op, opts |-> q.opts, dict |-> q.dict, size |-> q.size,
                 done |-> 0, enc |-> g.enc, dst |-> d.slice, before |-> d.bytes,
                 out |-> out]
       IN  Become(g.idle, [call EXCEPT ![t] = c], kept, g.mem)

Marshal(t) ==
    \E q \in Asked(t, "marshal") : \E g \in Acquired(q) :
        Enter(t, q, NothingKept, g, NilSlice)

AppendMarshal(t) ==
    \E q \in Asked(t, "append"), d \in Destinations(t) : \E g \in Acquired(q) :
        Enter(t, q, d, [g EXCEPT !.enc.slice = d.slice], NilSlice)

\* A header in front of a body that is written past it or by other means.
WithHeader(g, h) ==
    LET p == Push(g.mem, g.enc.slice, h)
    IN  [g EXCEPT !.enc.slice = p.slice, !.enc.headerOut = TRUE, !.mem = p.mem]

\* The encoder writes the header, the caller's MarshalQDF appends the body to
\* the slice it is given.
MarshalDirect(t) ==
    \E q \in Asked(t, "direct"), a \in Acquirable :
        LET g == WithHeader(Reset(a), Header)
        IN  Enter(t, q, NothingKept, g, g.enc.slice)

AppendMarshalDirect(t) ==
    \E q \in Asked(t, "append direct"), d \in Destinations(t), a \in Acquirable :
        LET g == WithHeader([Reset(a) EXCEPT !.enc.slice = d.slice], Header)
        IN  Enter(t, q, d, g, g.enc.slice)

\* A patch header, and MarkHeaderWritten so that no other header follows.
AppendDiff(t) ==
    \E q \in Asked(t, "diff"), d \in Destinations(t), a \in Acquirable :
        LET r == [Reset(a) EXCEPT !.enc.opts = q.opts, !.enc.slice = d.slice]
        IN  Enter(t, q, d, WithHeader(r, PatchHeader), NilSlice)

Direct(c) == c.op \in {"direct", "append direct"}
Working(c) == IF Direct(c) THEN c.out ELSE c.enc.slice

\* One more unit of the message.  Every write of the encoder emits the header
\* first, unless headerOut says it is there.
Write(t) ==
    LET c == call[t]
        header == ~Direct(c) /\ ~c.enc.headerOut
        p == Push(mem, Working(c), IF header THEN Header ELSE <<"body", t>>)
        d == [c EXCEPT !.done = IF header THEN @ ELSE @ + 1,
                       !.enc.headerOut = @ \/ header]
    IN  /\ c # Idle /\ c.done < c.size
        /\ Become(pool, [call EXCEPT ![t] = IF Direct(c)
                            THEN [d EXCEPT !.out = p.slice]
                            ELSE [d EXCEPT !.enc.slice = p.slice]],
                  kept, p.mem)

Leave(t, p, k, m) ==
    /\ Cardinality(p) <= 1
    /\ Become(p, [call EXCEPT ![t] = Idle], k, m)

\* Mutant: abortAppend pools the encoder with the caller's dst.
MutFail(t) ==
    /\ call[t] # Idle /\ call[t].done < call[t].size
    /\ Leave(t, PutEnc(pool, call[t].enc, mem), kept, mem)

\* The value turns out not to encode.  A dst goes back to the caller, and out
\* of the encoder before it is pooled (abortMarshal, abortAppend).
Fail(t) ==
    LET c == call[t]
        e == IF c.op \in {"append", "append direct", "diff"}
             THEN [c.enc EXCEPT !.slice = NilSlice] ELSE c.enc
    IN  /\ c # Idle /\ c.done < c.size
        /\ Leave(t, PutEnc(pool, e, mem), kept, mem)

\* A marshaler panics: no handler puts the encoder back.
Panic(t) ==
    /\ call[t] # Idle /\ call[t].done < call[t].size
    /\ Leave(t, pool, kept, mem)

\* The encoder goes back to the pool, the caller gets the slice.
Return(t, e, m, s) ==
    /\ call[t].done = call[t].size
    /\ Leave(t, PutEnc(pool, e, m),
             IF t \in Keepers
             THEN [kept EXCEPT ![t] = [slice |-> s, bytes |-> Bytes(m, s)]]
             ELSE kept, m)

\* Mutant: the buffer is handed over and stays with the encoder.
MutHandedOver(e, m, s) == [e EXCEPT !.hint = Cap(m, s)]

\* noteDetached.
HandedOver(e, m, s) == [e EXCEPT !.slice = NilSlice, !.hint = Cap(m, s)]

\* finishMarshal: a large buffer is handed over, a small one is cloned.
FinishMarshal(t) ==
    LET c == call[t]
        packed == Entropy(c.enc, mem, 0)
        e == [c.enc EXCEPT !.slice = packed.slice]
        clone == Clone(packed.mem, packed.slice)
    IN  /\ c.op = "marshal"
        /\ IF Cap(packed.mem, packed.slice) > MarshalDetachThreshold
           THEN Return(t, HandedOver(e, packed.mem, packed.slice), packed.mem,
                       packed.slice)
           ELSE Return(t, e, clone.mem, clone.slice)

\* finishAppend: the buffer is the caller's.
FinishAppend(t) ==
    LET c == call[t]
        packed == Entropy(c.enc, mem, c.dst.len)
    IN  /\ c.op = "append"
        /\ Return(t, [c.enc EXCEPT !.slice = NilSlice], packed.mem, packed.slice)

FinishDirect(t) ==
    LET c == call[t]
        clone == Clone(mem, c.out)
    IN  /\ c.op = "direct"
        /\ IF Cap(mem, c.out) > MarshalDetachThreshold
           THEN Return(t, HandedOver(c.enc, mem, c.out), mem, c.out)
           ELSE Return(t, [c.enc EXCEPT !.slice = [c.out EXCEPT !.len = 0]],
                       clone.mem, clone.slice)

FinishAppendDirect(t) ==
    LET c == call[t]
    IN  /\ c.op = "append direct"
        /\ Return(t, [c.enc EXCEPT !.slice = NilSlice], mem, c.out)

\* The end of AppendDiff: what is returned is always a copy.
FinishDiff(t) ==
    LET c == call[t]
        packed == Entropy(c.enc, mem, c.dst.len)
        clone == Clone(packed.mem, packed.slice)
    IN  /\ c.op = "diff"
        /\ Return(t, [c.enc EXCEPT !.slice = NilSlice], clone.mem, clone.slice)

\* sync.Pool lets go of what it holds at any collection.
PoolDrop ==
    \E e \in pool : Become(pool \ {e}, call, kept, mem)

Next ==
    \/ \E t \in Threads :
        \/ Marshal(t) \/ AppendMarshal(t) \/ MarshalDirect(t)
        \/ AppendMarshalDirect(t) \/ AppendDiff(t)
        \/ Write(t) \/ Fail(t) \/ Panic(t)
        \/ FinishMarshal(t) \/ FinishAppend(t) \/ FinishDirect(t)
        \/ FinishAppendDirect(t) \/ FinishDiff(t)
    \/ PoolDrop

Spec == Init /\ [][Next]_vars

-----------------------------------------------------------------------------
(* Properties.                                                             *)

Slices == [array : 0..Len(mem), len : Nat]
Encoders == [slice : Slices, hint : Nat, opts : Options,
             dict : Dicts \cup {NoDict}, headerOut : BOOLEAN]
Calls == [op : Ops \cup {"idle"},
          opts : Options, dict : Dicts \cup {NoDict}, size : Nat, done : Nat,
          enc : Encoders, dst : Slices, before : Seq(Unit), out : Slices]

\* Every variable has its type, and no slice is longer than its array.
TypeOK ==
    /\ pool \subseteq Encoders
    /\ call \in [Threads -> Calls]
    /\ kept \in [Threads -> [slice : Slices, bytes : Seq(Unit)]]
    /\ mem \in Seq(Seq(Unit))
    /\ \A e \in pool \cup {call[t].enc : t \in Threads} :
            e.slice.len <= Cap(mem, e.slice)
    /\ \A t \in Threads : kept[t].slice.len <= Cap(mem, kept[t].slice)

\* The message of a call before the entropy pass, behind the dst it extends.
Whole(t) ==
    LET c == call[t]
    IN  c.before \o << IF c.op = "diff" THEN PatchHeader ELSE Header >>
                 \o [i \in 1..c.size |-> <<"body", t>>]

\* What a call has written so far is the start of its own message behind the
\* bytes of its dst, whatever other goroutines encode meanwhile and whatever
\* an earlier call left in the encoder, and at the end it is all of it.
MessageIntact ==
    \A t \in Threads : call[t] # Idle =>
        LET written == Bytes(mem, Working(call[t]))
        IN  /\ IsPrefix(written, Whole(t))
            /\ call[t].done = call[t].size => written = Whole(t)

\* A slice the library returned keeps its bytes while the caller has it: later
\* calls of any goroutine recycle encoders, fail, panic or append to it.
ResultsIntact ==
    \A t \in Threads : Bytes(mem, kept[t].slice) = kept[t].bytes

\* The options and the dictionary an encoder works under are those of the call
\* that has it, never those of a call before (Reset and applyOpts).
OwnSettings ==
    \A t \in Threads : call[t] # Idle /\ ~Direct(call[t]) =>
        /\ call[t].enc.opts = call[t].opts
        /\ call[t].enc.dict = call[t].dict

\* The buffer of a pooled encoder is not one a caller passed in or was given,
\* nor a busy encoder's, so the next call that takes it writes only its own.
PoolOwnsItsBuffers ==
    \A e \in pool : e.slice.array # 0 =>
        \A t \in Threads : e.slice.array \notin
            {kept[t].slice.array, call[t].dst.array, call[t].out.array,
             call[t].enc.slice.array}

\* The size hint follows the workload down: after a message whose buffer is
\* handed over it is not above the capacity that message's growth could reach
\* (TestEncBufHintTracksTheWorkload).
HintFollowsDown ==
    [][\A t \in Threads :
        LET c == call[t]
        IN  FinishMarshal(t) \/ FinishDirect(t) =>
                \A e \in pool' \ pool : e.hint # c.enc.hint \/ e.slice.array = 0 =>
                    e.hint <= Larger(InitialEncBuf, 2 * Working(c).len)]_vars
=============================================================================
