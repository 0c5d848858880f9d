-------------------------- MODULE BaselineRegistry --------------------------
(***************************************************************************)
(* BaselineRegistry (delta_baseline.go): the consumer of a chain of patches *)
(* finds the base of each by its fingerprint.  The registry holds values   *)
(* through weak pointers only, goroutines call it at once, and the         *)
(* collector takes a value as soon as nobody holds it.                     *)
(*                                                                         *)
(* A value is an object of the heap with a content.  A fingerprint is the  *)
(* content and the maphash seed of the process that computed it; that two  *)
(* contents collide under one seed is left out.  A weak pointer to a       *)
(* collected object is Dead for ever, so the object may be used again.     *)
(***************************************************************************)
EXTENDS Naturals

CONSTANTS
    Contents,       \* what a value may hold
    Garbled,        \* a content no producer ever diffed
    Objects,        \* the heap
    Threads,        \* goroutines that call BaselineRegistry.Apply
    Patches,        \* the patches that arrive
    ProducerSeed,   \* schemaSeed of the process that called Diff
    ConsumerSeed,   \* schemaSeed of the process that applies
    Free,           \* the content of an object that is not in use
    Dead, Absent    \* a weak pointer that yields nil, and no entry

ASSUME RegistryAssumption ==
    /\ Garbled \notin Contents
    /\ Free \notin Contents \cup {Garbled}
    /\ {Dead, Absent} \cap Objects = {} /\ Dead # Absent
    /\ Patches \subseteq [base : Contents, target : Contents, hasFP : BOOLEAN]

VARIABLES
    content,        \* per object, its content or Free
    held,           \* the objects callers hold
    edited,         \* history: the objects changed while an entry resolves to them
    registry,       \* per fingerprint, a weak pointer or Absent
    latest,         \* history: the last object stored for it, while it lives
    calls           \* per thread, its call of Apply

heapVars == <<content, held, edited>>
mapVars == <<registry, latest>>
vars == <<heapVars, mapVars, calls>>

-----------------------------------------------------------------------------
AllContents == Contents \cup {Garbled}
Fingerprints == {ProducerSeed, ConsumerSeed} \X Contents
WeakPointers == Objects \cup {Dead, Absent}

Fingerprint(c) == <<ConsumerSeed, c>>
BaseFP(p) == <<ProducerSeed, p.base>>

\* What the body of a patch makes of a value: the target on the base it was
\* made for, and nothing anybody meant on another.
Patched(c, p) == IF c = p.base THEN p.target ELSE Garbled

Idle == [pc |-> "idle", patch |-> Absent, found |-> Absent,
         base |-> Absent, clone |-> Absent]

\* patch: of the call, or of the last one when it returned ErrBaselineEvicted.
Calls == [pc    : {"idle", "resolve", "prune", "clone", "patch", "store"},
          patch : Patches \cup {Absent},
          found : WeakPointers,
          base  : Objects \cup {Absent},
          clone : Objects \cup {Absent}]

Return(t) == [calls EXCEPT ![t] = Idle]
Evicted(t, p) == [calls EXCEPT ![t] = [Idle EXCEPT !.patch = p]]

Init ==
    /\ content = [o \in Objects |-> Free]
    /\ held = {} /\ edited = {}
    /\ registry = [fp \in Fingerprints |-> Absent]
    /\ latest = [fp \in Fingerprints |-> Absent]
    /\ calls = [t \in Threads |-> Idle]

-----------------------------------------------------------------------------
(* The caller's own values *)

New(o, c) ==
    /\ content[o] = Free
    /\ content' = [content EXCEPT ![o] = c]
    /\ held' = held \cup {o}
    /\ UNCHANGED <<edited, mapVars, calls>>

DropRef(o) ==
    /\ o \in held
    /\ held' = held \ {o}
    /\ UNCHANGED <<content, edited, mapVars, calls>>

\* Nobody may write to a value that Apply is reading.
Quiet(o) == \A t \in Threads : o \notin {calls[t].found, calls[t].base}

Change(o, c) ==
    /\ o \in held /\ Quiet(o)
    /\ content' = [content EXCEPT ![o] = c]
    /\ edited' = edited \cup {x \in {o} : \E fp \in Fingerprints : registry[fp] = x}
    /\ UNCHANGED <<held, mapVars, calls>>

\* Apply(base, patch) in place: refused on the seed of the schema fingerprint
\* and on the fingerprint of the base, when the patch carries one.
Accepted(c, p) ==
    /\ ProducerSeed = ConsumerSeed
    /\ p.hasFP => Fingerprint(c) = BaseFP(p)

\* whole says whether the body is well formed to its end.
ApplyInPlace(o, p, whole) ==
    /\ Accepted(content[o], p)
    /\ Change(o, IF whole THEN Patched(content[o], p) ELSE Garbled)

-----------------------------------------------------------------------------
(* The registry *)

Put(o) ==
    /\ registry' = [registry EXCEPT ![Fingerprint(content[o])] = o]
    /\ latest' = [latest EXCEPT ![Fingerprint(content[o])] = o]
    /\ UNCHANGED edited

\* The caller does not register what a failed Apply has left half changed.
Register(o) ==
    /\ o \in held /\ content[o] \in Contents
    /\ Put(o)
    /\ UNCHANGED <<content, held, calls>>

\* Len deletes what is dead.
Len ==
    /\ \E fp \in Fingerprints : registry[fp] = Dead
    /\ registry' = [fp \in Fingerprints |->
                        IF registry[fp] = Dead THEN Absent ELSE registry[fp]]
    /\ UNCHANGED <<heapVars, latest, calls>>

\* Apply(patch), up to the unlock behind the lookup.  Without a fingerprint it
\* returns ErrBaselineRequired and nothing happens.
Lookup(t, p) ==
    /\ calls[t].pc = "idle"
    /\ p.hasFP
    /\ LET found == registry[BaseFP(p)] IN
        calls' = IF found = Absent THEN Evicted(t, p)
                 ELSE [calls EXCEPT ![t] = [Idle EXCEPT !.pc = "resolve",
                                                !.patch = p, !.found = found]]
    /\ UNCHANGED <<heapVars, mapVars>>

\* wp.Value(): a strong pointer from here on, or nil.
Resolve(t) ==
    /\ calls[t].pc = "resolve"
    /\ calls' = IF calls[t].found = Dead
                THEN [calls EXCEPT ![t].pc = "prune", ![t].found = Absent]
                ELSE [calls EXCEPT ![t].pc = "clone", ![t].found = Absent,
                                   ![t].base = calls[t].found]
    /\ UNCHANGED <<heapVars, mapVars>>

\* Mutant of Prune: the entry is deleted without a second look.
MutPrune(t) ==
    /\ calls[t].pc = "prune"
    /\ registry' = [registry EXCEPT ![BaseFP(calls[t].patch)] = Absent]
    /\ calls' = Evicted(t, calls[t].patch)
    /\ UNCHANGED <<heapVars, latest>>

\* The entry may have been replaced meanwhile.
Prune(t) ==
    /\ calls[t].pc = "prune"
    /\ registry' = [registry EXCEPT ![BaseFP(calls[t].patch)] =
                        IF @ = Dead THEN Absent ELSE @]
    /\ calls' = Evicted(t, calls[t].patch)
    /\ UNCHANGED <<heapVars, latest>>

\* Mutant of Clone: the patch is applied to the baseline itself.
MutClone(t) ==
    /\ calls[t].pc = "clone"
    /\ calls' = [calls EXCEPT ![t].pc = "patch", ![t].base = Absent,
                              ![t].clone = calls[t].base]
    /\ UNCHANGED <<heapVars, mapVars>>

\* deepClone into a new object; the base is not used again.
Clone(t) ==
    /\ calls[t].pc = "clone"
    /\ \E o \in Objects :
        /\ content[o] = Free
        /\ content' = [content EXCEPT ![o] = content[calls[t].base]]
        /\ calls' = [calls EXCEPT ![t].pc = "patch", ![t].base = Absent,
                                  ![t].clone = o]
    /\ UNCHANGED <<held, edited, mapVars>>

\* Mutant of PatchClone: the fingerprint of the base is not compared.
MutPatchClone(t, whole) ==
    LET o == calls[t].clone
        p == calls[t].patch
    IN  /\ calls[t].pc = "patch"
        /\ content' = [content EXCEPT ![o] =
                            IF whole THEN Patched(@, p) ELSE Garbled]
        /\ calls' = IF whole THEN [calls EXCEPT ![t].pc = "store"]
                    ELSE Return(t)
        /\ UNCHANGED <<held, edited, mapVars>>

\* Apply on the clone; after an error the clone is garbage.
PatchClone(t, whole) ==
    LET o == calls[t].clone
        p == calls[t].patch
        accepted == Accepted(content[o], p)
    IN  /\ calls[t].pc = "patch"
        /\ content' = [content EXCEPT ![o] =
                            IF ~accepted THEN @
                            ELSE IF whole THEN Patched(@, p) ELSE Garbled]
        /\ calls' = IF accepted /\ whole THEN [calls EXCEPT ![t].pc = "store"]
                    ELSE Return(t)
        /\ UNCHANGED <<held, edited, mapVars>>

\* The result becomes a baseline and the caller's.
Store(t) ==
    /\ calls[t].pc = "store"
    /\ Put(calls[t].clone)
    /\ held' = held \cup {calls[t].clone}
    /\ calls' = Return(t)
    /\ UNCHANGED content

-----------------------------------------------------------------------------
(* The collector *)

Reachable == held \cup {calls[t].base : t \in Threads} \cup {calls[t].clone : t \in Threads}

\* Every weak pointer to a collected object yields nil from now on.
Cleared(f, o, nil) == [x \in DOMAIN f |-> IF f[x] = o THEN nil ELSE f[x]]

\* Mutant of Collect: an object that Apply has resolved is taken.
MutCollect(o) ==
    /\ content[o] # Free /\ o \notin held
    /\ content' = [content EXCEPT ![o] = Free]
    /\ registry' = Cleared(registry, o, Dead)
    /\ latest' = Cleared(latest, o, Absent)
    /\ edited' = edited \ {o}
    /\ calls' = [t \in Threads |-> IF calls[t].found = o
                                   THEN [calls[t] EXCEPT !.found = Dead]
                                   ELSE calls[t]]
    /\ UNCHANGED held

Collect(o) ==
    /\ content[o] # Free /\ o \notin Reachable
    /\ content' = [content EXCEPT ![o] = Free]
    /\ registry' = Cleared(registry, o, Dead)
    /\ latest' = Cleared(latest, o, Absent)
    /\ edited' = edited \ {o}
    /\ calls' = [t \in Threads |-> IF calls[t].found = o
                                   THEN [calls[t] EXCEPT !.found = Dead]
                                   ELSE calls[t]]
    /\ UNCHANGED held

Next ==
    \/ \E o \in Objects, c \in Contents : New(o, c) \/ Change(o, c)
    \/ \E o \in Objects : DropRef(o) \/ Register(o) \/ Collect(o)
    \/ \E o \in Objects, p \in Patches, whole \in BOOLEAN : ApplyInPlace(o, p, whole)
    \/ Len
    \/ \E t \in Threads, p \in Patches : Lookup(t, p)
    \/ \E t \in Threads : Resolve(t) \/ Prune(t) \/ Clone(t) \/ Store(t)
    \/ \E t \in Threads, whole \in BOOLEAN : PatchClone(t, whole)

Spec == Init /\ [][Next]_vars

-----------------------------------------------------------------------------
(* Properties *)

\* Types, and that no call works on an object the collector has taken.
TypeOK ==
    /\ content \in [Objects -> AllContents \cup {Free}]
    /\ held \subseteq Objects /\ edited \subseteq Objects
    /\ registry \in [Fingerprints -> WeakPointers]
    /\ latest \in [Fingerprints -> Objects \cup {Absent}]
    /\ calls \in [Threads -> Calls]
    /\ \A o \in Reachable \cap Objects : content[o] # Free

\* The baseline last registered under a fingerprint stays resolvable for as
\* long as it lives: neither Len nor the clean-up of a call that found an
\* older entry dead, however long ago, takes the entry out.
LatestStaysResolvable ==
    \A fp \in Fingerprints :
        latest[fp] \in Objects => registry[fp] = latest[fp]

\* What an entry resolves to has the content the entry stands for, unless the
\* caller changed it: no call of Apply ever writes to a baseline.
EntryNamesContent ==
    \A fp \in Fingerprints :
        LET o == registry[fp] IN
        o \in Objects \ edited => Fingerprint(content[o]) = fp

\* What Apply returns and registers is the target the patch was made for, even
\* when the caller changed the baseline behind the registry's back.
ResultIsTarget ==
    \A t \in Threads :
        calls[t].pc = "store" => content[calls[t].clone] = calls[t].patch.target

\* "It was never registered, or the caller dropped its strong reference"
\* (ErrBaselineEvicted): no patch is refused while a registered baseline that
\* somebody holds has the content it was made from.
EvictedMeansDropped ==
    [][\A t \in Threads :
        calls'[t].pc = "idle" /\ calls'[t].patch # Absent /\ calls'[t] # calls[t] =>
            \A fp \in Fingerprints :
                registry[fp] \in held => content[registry[fp]] # calls'[t].patch.base]_vars
=============================================================================
