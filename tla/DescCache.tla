------------------------------- MODULE DescCache -------------------------------
(***************************************************************************)
(* descOf, the descriptor cache of the reflect engine (reflect_desc.go).   *)
(* A goroutine that misses the cache builds the descriptors of a type and  *)
(* of all it contains in a context of its own, looking each of them up in  *)
(* the cache first, and publishes the graph when all of it is built.  A    *)
(* type that contains itself meets its own unfinished descriptor.          *)
(***************************************************************************)
EXTENDS Naturals, Sequences, FiniteSets

CONSTANTS
    Threads,
    Types,
    Kind,           \* Types -> "scalar", "struct", "slice", "pointer" or "other"
    Parts,          \* Types -> Seq(Types): fields of a struct, element of a slice or pointer
    MaxBuilds,      \* bound: times a goroutine misses the cache
    None

ASSUME DescAssumption ==
    /\ DOMAIN Kind = Types /\ DOMAIN Parts = Types
    /\ \A t \in Types :
           /\ Kind[t] \in {"scalar", "struct", "slice", "pointer", "other"}
           /\ Parts[t] \in Seq(Types)
           /\ Kind[t] \in {"slice", "pointer"} => Len(Parts[t]) = 1
           /\ Kind[t] \in {"scalar", "other"} => Parts[t] = <<>>
    /\ MaxBuilds \in Nat

VARIABLES
    typeCache,      \* types -> descriptors
    desc,           \* descriptors -> [ready, parts, plan, schemaFP]
    phase,          \* per goroutine: "idle", "load", "build" or "publish"
    root,           \* the type it was called with, None outside a call
    stack,          \* its fillDesc frames: [type, got], got the parts it has
    left,           \* types of its context it has not published
    builds,         \* contexts it has opened
    answer          \* what its last call returned: a descriptor or None

vars == <<typeCache, desc, phase, root, stack, left, builds, answer>>

With(f, x, v) == [y \in DOMAIN f \cup {x} |-> IF y = x THEN v ELSE f[y]]
Front(s) == SubSeq(s, 1, Len(s) - 1)

\* A context holds one descriptor per type.
Own(p, t) == [type |-> t, by |-> p, build |-> builds[p]]
InProgress(p) == {d \in DOMAIN desc : d.by = p /\ d.build = builds[p]}
Blank == [ready |-> FALSE, parts |-> <<>>, plan |-> {}, schemaFP |-> {}]

Init ==
    /\ typeCache = <<>> /\ desc = <<>>
    /\ phase = [p \in Threads |-> "idle"]
    /\ root = [p \in Threads |-> None]
    /\ stack = [p \in Threads |-> <<>>]
    /\ left = [p \in Threads |-> {}]
    /\ builds = [p \in Threads |-> 0]
    /\ answer = [p \in Threads |-> None]

-----------------------------------------------------------------------------
(* What a descriptor keeps of its parts when it is filled *)

PartsOf(ds, d) == {ds[d].parts[i] : i \in DOMAIN ds[d].parts}

\* The descriptors that those of S lead to, as far as they are filled in ds.
\* The descriptors that those of S lead to, as far as they are filled in ds:
\* no path to one is longer than there are descriptors.
Reach(ds, S) ==
    LET near[n \in Nat] ==
            IF n = 0 THEN S
            ELSE LET last == near[n - 1]
                 IN last \cup UNION {PartsOf(ds, d) : d \in last}
    IN near[Cardinality(DOMAIN ds)]

\* The fields of a slice's elements that may be columns: none for an element
\* that has no fields yet.
IsColumn(ds, f) ==
    \/ Kind[f.type] = "scalar"
    \/ Kind[f.type] = "pointer" /\ \E e \in PartsOf(ds, f) : Kind[e.type] = "scalar"

ColumnarPlan(ds, t, parts) ==
    IF Kind[t] # "slice" \/ Kind[Head(parts).type] # "struct" THEN {}
    ELSE LET fields == ds[Head(parts)].parts IN {i \in DOMAIN fields : IsColumn(ds, fields[i])}

\* The hash of the graph: each descriptor with the parts it has by then.
SchemaFingerprint(ds, d) ==
    {<<x.type, [i \in DOMAIN ds[x].parts |-> ds[x].parts[i].type]>> : x \in Reach(ds, {d})}

Filled(d, parts) ==
    LET ds == [desc EXCEPT ![d] = [@ EXCEPT !.parts = parts, !.ready = TRUE]]
    IN [ds EXCEPT ![d].plan = ColumnarPlan(desc, d.type, parts), ![d].schemaFP = SchemaFingerprint(ds, d)]

-----------------------------------------------------------------------------
(* descOf, one step for each use of the cache *)

Call(p, t) ==
    /\ phase[p] = "idle"
    /\ t \in DOMAIN typeCache \/ builds[p] < MaxBuilds
    /\ root' = [root EXCEPT ![p] = t]
    /\ phase' = [phase EXCEPT ![p] = "load"]
    /\ answer' = [answer EXCEPT ![p] = None]
    /\ UNCHANGED <<typeCache, desc, stack, left, builds>>

Hit(p) ==
    /\ phase[p] = "load" /\ root[p] \in DOMAIN typeCache
    /\ phase' = [phase EXCEPT ![p] = "idle"]
    /\ answer' = [answer EXCEPT ![p] = typeCache[root[p]]]
    /\ root' = [root EXCEPT ![p] = None]
    /\ UNCHANGED <<typeCache, desc, stack, left, builds>>

Miss(p) ==
    /\ phase[p] = "load" /\ root[p] \notin DOMAIN typeCache
    /\ phase' = [phase EXCEPT ![p] = "build"]
    /\ builds' = [builds EXCEPT ![p] = @ + 1]
    /\ UNCHANGED <<typeCache, desc, root, stack, left, answer>>

-----------------------------------------------------------------------------
(* descBuild and fillDesc *)

Top(p) == stack[p][Len(stack[p])]
Wants(p) == phase[p] = "build" /\ (stack[p] # <<>> => Len(Top(p).got) < Len(Parts[Top(p).type]))
Wanted(p) == IF stack[p] = <<>> THEN root[p] ELSE Parts[Top(p).type][Len(Top(p).got) + 1]

\* frames is the stack below a descriptor d that descBuild returns.
Supply(p, frames, d) ==
    IF frames = <<>>
    THEN /\ phase' = [phase EXCEPT ![p] = "publish"]
         /\ stack' = [stack EXCEPT ![p] = <<>>]
         /\ left' = [left EXCEPT ![p] = {x.type : x \in InProgress(p)}]
    ELSE /\ stack' = [stack EXCEPT ![p] = [frames EXCEPT ![Len(frames)].got = Append(@, d)]]
         /\ UNCHANGED <<phase, left>>

UseCached(p) ==
    /\ Wants(p) /\ Wanted(p) \in DOMAIN typeCache
    /\ Supply(p, stack[p], typeCache[Wanted(p)])
    /\ UNCHANGED <<typeCache, desc, root, builds, answer>>

\* Mutant: a part that is not filled is waited for.
MutWaitFilled(p, d) == d \in InProgress(p) /\ desc[d].ready

\* A part that this context has begun serves as it is, filled or not.
Known(p, d) == d \in InProgress(p)

UseOwn(p) ==
    /\ Wants(p) /\ Wanted(p) \notin DOMAIN typeCache
    /\ Known(p, Own(p, Wanted(p)))
    /\ Supply(p, stack[p], Own(p, Wanted(p)))
    /\ UNCHANGED <<typeCache, desc, root, builds, answer>>

Begin(p) ==
    /\ Wants(p) /\ Wanted(p) \notin DOMAIN typeCache
    /\ Own(p, Wanted(p)) \notin DOMAIN desc /\ Kind[Wanted(p)] # "other"
    /\ desc' = With(desc, Own(p, Wanted(p)), Blank)
    /\ stack' = [stack EXCEPT ![p] = Append(@, [type |-> Wanted(p), got |-> <<>>])]
    /\ UNCHANGED <<typeCache, phase, root, left, builds, answer>>

\* A part of no kind that can be encoded fails the whole build.
Fail(p) ==
    /\ Wants(p) /\ Wanted(p) \notin DOMAIN typeCache /\ Kind[Wanted(p)] = "other"
    /\ desc' = [d \in DOMAIN desc \ InProgress(p) |-> desc[d]]
    /\ stack' = [stack EXCEPT ![p] = <<>>]
    /\ phase' = [phase EXCEPT ![p] = "idle"]
    /\ root' = [root EXCEPT ![p] = None]
    /\ UNCHANGED <<typeCache, left, builds, answer>>

Fill(p) ==
    /\ phase[p] = "build" /\ ~Wants(p)
    /\ desc' = Filled(Own(p, Top(p).type), Top(p).got)
    /\ Supply(p, Front(stack[p]), Own(p, Top(p).type))
    /\ UNCHANGED <<typeCache, root, builds, answer>>

-----------------------------------------------------------------------------
(* The graph is published type by type; the first to store a type wins *)

\* Mutant: each descriptor is published when it is filled.
MutPublishFilled(p) ==
    IF phase[p] = "build" THEN {x.type : x \in {y \in InProgress(p) : desc[y].ready}} \ DOMAIN typeCache
    ELSE IF phase[p] = "publish" THEN left[p] ELSE {}

Publishable(p) == IF phase[p] = "publish" THEN left[p] ELSE {}

Publish(p) ==
    \E t \in Publishable(p) :
        /\ typeCache' = IF t \in DOMAIN typeCache THEN typeCache ELSE With(typeCache, t, Own(p, t))
        /\ left' = [left EXCEPT ![p] = @ \ {t}]
        /\ UNCHANGED <<desc, phase, root, stack, builds, answer>>

\* Mutant: the goroutine returns the descriptor it built.
MutOwnWins(p) == IF Own(p, root[p]) \in DOMAIN desc THEN Own(p, root[p]) ELSE typeCache[root[p]]

Winner(p) == typeCache[root[p]]

Answer(p) ==
    /\ phase[p] = "publish" /\ left[p] = {}
    /\ phase' = [phase EXCEPT ![p] = "idle"]
    /\ answer' = [answer EXCEPT ![p] = Winner(p)]
    /\ root' = [root EXCEPT ![p] = None]
    /\ UNCHANGED <<typeCache, desc, stack, left, builds>>

-----------------------------------------------------------------------------

Step(p) ==
    \/ Hit(p) \/ Miss(p)
    \/ UseCached(p) \/ UseOwn(p) \/ Begin(p) \/ Fail(p) \/ Fill(p)
    \/ Publish(p) \/ Answer(p)

Next == \E p \in Threads : Step(p) \/ \E t \in Types : Call(p, t)

\* A goroutine inside descOf takes no lock and waits for nobody.
Fairness == \A p \in Threads : WF_vars(Step(p))

Spec == Init /\ [][Next]_vars /\ Fairness

-----------------------------------------------------------------------------
(* Properties *)

Usable == ({typeCache[t] : t \in DOMAIN typeCache} \cup {answer[p] : p \in Threads}) \ {None}

\* What can be loaded from the cache or was returned leads to finished
\* descriptors only: no caller meets one whose encode and decode are not set,
\* whatever graphs of other goroutines are under way or have failed.
GraphsComplete == \A d \in Reach(desc, Usable) : desc[d].ready

\* Two goroutines that ask for one type get one schema fingerprint, so that a
\* patch that one of them makes is for the type of the other; the fingerprint
\* of a type that contains itself depends on where the build came in.
SchemasAgree ==
    \A p, q \in Threads :
        answer[p] # None /\ answer[q] # None /\ answer[p].type = answer[q].type =>
            desc[answer[p]].schemaFP = desc[answer[q]].schemaFP

\* Every call of descOf returns, for types that contain themselves and for
\* goroutines that build one graph at once.
CallsReturn == \A p \in Threads : phase[p] # "idle" ~> phase[p] = "idle"

\* What the comment at the publication says: the graphs that goroutines race
\* to publish encode alike, so that it matters to nobody whose descriptor a
\* type has.
GraphsEncodeAlike ==
    \A d, e \in Reach(desc, Usable) : d.type = e.type => desc[d].plan = desc[e].plan
=============================================================================
