----------------------- MODULE BaselineRegistryProofs -----------------------
(***************************************************************************)
(* What BaselineRegistry promises, for any heap, any number of goroutines  *)
(* in Apply, any patches and any seeds: the four invariants of             *)
(* BaselineRegistry, by one inductive invariant.  It adds what the locals  *)
(* of a call hold at each of its steps, that nothing in use is free, and   *)
(* that a clone is its call's alone until it is stored.                    *)
(***************************************************************************)
EXTENDS BaselineRegistry, TLAPS

-----------------------------------------------------------------------------
(* The inductive invariant *)

Typed ==
    /\ content \in [Objects -> AllContents \cup {Free}]
    /\ held \subseteq Objects /\ edited \subseteq Objects
    /\ registry \in [Fingerprints -> WeakPointers]
    /\ latest \in [Fingerprints -> Objects \cup {Absent}]
    /\ calls \in [Threads -> Calls]

\* The locals of a call of Apply at each of its steps.
LocalsFit ==
    \A t \in Threads :
        /\ calls[t].pc # "idle" => calls[t].patch \in Patches /\ calls[t].patch.hasFP
        /\ IF calls[t].pc = "resolve" THEN calls[t].found \in Objects \cup {Dead}
           ELSE calls[t].found = Absent
        /\ IF calls[t].pc = "clone" THEN calls[t].base \in Objects
           ELSE calls[t].base = Absent
        /\ IF calls[t].pc \in {"patch", "store"} THEN calls[t].clone \in Objects
           ELSE calls[t].clone = Absent

\* What a caller, an entry or a call refers to is not free.
UsedIsLive ==
    /\ \A o \in held : content[o] # Free
    /\ \A fp \in Fingerprints : registry[fp] \in Objects => content[registry[fp]] # Free
    /\ \A t \in Threads :
        /\ calls[t].found \in Objects => content[calls[t].found] # Free
        /\ calls[t].base \in Objects => content[calls[t].base] # Free
        /\ calls[t].clone \in Objects => content[calls[t].clone] # Free

\* Nobody but its call refers to a clone.
ClonesArePrivate ==
    \A t \in Threads : calls[t].clone \in Objects =>
        /\ calls[t].clone \notin held
        /\ \A fp \in Fingerprints : registry[fp] # calls[t].clone
        /\ \A u \in Threads :
            /\ calls[u].found # calls[t].clone /\ calls[u].base # calls[t].clone
            /\ u # t => calls[u].clone # calls[t].clone

IInv ==
    /\ Typed
    /\ LocalsFit
    /\ UsedIsLive
    /\ ClonesArePrivate
    /\ LatestStaysResolvable
    /\ EntryNamesContent
    /\ ResultIsTarget

-----------------------------------------------------------------------------
(* Constants *)

LEMMA Marks ==
    /\ Dead \notin Objects /\ Absent \notin Objects /\ Dead # Absent
    /\ Free \notin AllContents
    /\ Contents \subseteq AllContents /\ Garbled \in AllContents
  BY RegistryAssumption DEF AllContents

LEMMA Prints ==
    /\ \A c \in Contents : Fingerprint(c) \in Fingerprints
    /\ \A p \in Patches : /\ BaseFP(p) \in Fingerprints
                         /\ p.base \in Contents /\ p.target \in Contents
    /\ \A c, d : Fingerprint(c) = Fingerprint(d) => c = d
    /\ \A c : \A p \in Patches : Fingerprint(c) = BaseFP(p) => c = p.base
  BY RegistryAssumption DEF Fingerprint, Fingerprints, BaseFP

LEMMA InitInv == Init => IInv
  BY Marks DEF Init, IInv, Typed, LocalsFit, UsedIsLive, ClonesArePrivate,
     LatestStaysResolvable, EntryNamesContent, ResultIsTarget, Idle, Calls, WeakPointers

-----------------------------------------------------------------------------
(* The caller's own values *)

LEMMA NewKeeps ==
    ASSUME IInv, NEW o \in Objects, NEW c \in Contents, New(o, c)
    PROVE  IInv'
<1> USE Marks DEF IInv, New, mapVars
<1>1. Typed'
  BY DEF Typed
<1>2. LocalsFit'
  BY DEF LocalsFit
<1>3. UsedIsLive'
  BY DEF UsedIsLive, Typed
<1>4. ClonesArePrivate'
  BY DEF ClonesArePrivate, UsedIsLive, Typed
<1>5. LatestStaysResolvable'
  BY DEF LatestStaysResolvable
<1>6. EntryNamesContent'
  BY DEF EntryNamesContent, UsedIsLive, Typed
<1>7. ResultIsTarget'
  BY DEF ResultIsTarget, UsedIsLive, LocalsFit, Typed
<1> QED
  BY <1>1, <1>2, <1>3, <1>4, <1>5, <1>6, <1>7

LEMMA DropRefKeeps ==
    ASSUME IInv, NEW o \in Objects, DropRef(o)
    PROVE  IInv'
  BY DEF IInv, DropRef, mapVars, Typed, LocalsFit, UsedIsLive, ClonesArePrivate,
     LatestStaysResolvable, EntryNamesContent, ResultIsTarget

\* A caller may put anything into a value of its own.
LEMMA ChangeKeeps ==
    ASSUME IInv, NEW o \in Objects, NEW c \in AllContents, Change(o, c)
    PROVE  IInv'
<1> USE Marks DEF IInv, Change, mapVars
<1>1. Typed'
  BY DEF Typed
<1>2. LocalsFit'
  BY DEF LocalsFit
<1>3. UsedIsLive'
  BY DEF UsedIsLive, Typed
<1>4. ClonesArePrivate'
  BY DEF ClonesArePrivate
<1>5. LatestStaysResolvable'
  BY DEF LatestStaysResolvable
<1>6. EntryNamesContent'
  BY DEF EntryNamesContent, Typed
<1>7. ResultIsTarget'
  BY DEF ResultIsTarget, ClonesArePrivate, LocalsFit, Typed
<1> QED
  BY <1>1, <1>2, <1>3, <1>4, <1>5, <1>6, <1>7

LEMMA ApplyInPlaceKeeps ==
    ASSUME IInv, NEW o \in Objects, NEW p \in Patches, NEW whole \in BOOLEAN,
           ApplyInPlace(o, p, whole)
    PROVE  IInv'
<1>1. (IF whole THEN Patched(content[o], p) ELSE Garbled) \in AllContents
  BY Marks, Prints DEF Patched
<1> QED
  BY <1>1, ChangeKeeps DEF ApplyInPlace

-----------------------------------------------------------------------------
(* The registry *)

LEMMA RegisterKeeps ==
    ASSUME IInv, NEW o \in Objects, Register(o)
    PROVE  IInv'
<1> DEFINE fp == Fingerprint(content[o])
<1>1. fp \in Fingerprints
  BY Prints DEF Register
<1> HIDE DEF fp
<1>2. /\ registry' = [registry EXCEPT ![fp] = o]
      /\ latest' = [latest EXCEPT ![fp] = o]
      /\ UNCHANGED <<content, held, edited, calls>>
      /\ o \in held
  BY DEF Register, Put, fp
<1> USE <1>1, <1>2, Marks DEF IInv
<1>3. Typed'
  BY DEF Typed, WeakPointers
<1>4. LocalsFit'
  BY DEF LocalsFit
<1>5. UsedIsLive'
  BY DEF UsedIsLive, Typed
<1>6. ClonesArePrivate'
  BY DEF ClonesArePrivate, Typed
<1>7. LatestStaysResolvable'
  BY DEF LatestStaysResolvable, Typed
<1>8. EntryNamesContent'
  BY DEF EntryNamesContent, Typed, fp
<1>9. ResultIsTarget'
  BY DEF ResultIsTarget
<1> QED
  BY <1>3, <1>4, <1>5, <1>6, <1>7, <1>8, <1>9

LEMMA LenKeeps ==
    ASSUME IInv, Len
    PROVE  IInv'
  BY Marks DEF IInv, Len, heapVars, Typed, WeakPointers, LocalsFit, UsedIsLive,
     ClonesArePrivate, LatestStaysResolvable, EntryNamesContent, ResultIsTarget

LEMMA LookupKeeps ==
    ASSUME IInv, NEW t \in Threads, NEW p \in Patches, Lookup(t, p)
    PROVE  IInv'
<1>1. BaseFP(p) \in Fingerprints /\ registry[BaseFP(p)] \in WeakPointers
  BY Prints DEF IInv, Typed
<1>2. PICK call \in Calls :
        /\ calls' = [calls EXCEPT ![t] = call]
        /\ call.base = Absent /\ call.clone = Absent
        /\ \/ call.pc = "idle" /\ call.found = Absent
           \/ /\ call.pc = "resolve" /\ call.patch = p /\ p.hasFP
              /\ call.found = registry[BaseFP(p)]
              /\ call.found \in Objects \cup {Dead}
  <2>1. CASE registry[BaseFP(p)] = Absent
    <3>1. calls' = [calls EXCEPT ![t] = [Idle EXCEPT !.patch = p]]
      BY <2>1 DEF Lookup, Evicted
    <3>2. [Idle EXCEPT !.patch = p] \in Calls
      BY Marks DEF Idle, Calls, WeakPointers
    <3> QED
      BY <3>1, <3>2 DEF Idle
  <2>2. CASE registry[BaseFP(p)] # Absent
    <3> DEFINE call == [Idle EXCEPT !.pc = "resolve", !.patch = p,
                                    !.found = registry[BaseFP(p)]]
    <3>1. calls' = [calls EXCEPT ![t] = call] /\ p.hasFP
      BY <2>2 DEF Lookup
    <3>2. call \in Calls
      BY <1>1 DEF Idle, Calls
    <3>3. registry[BaseFP(p)] \in Objects \cup {Dead}
      BY <1>1, <2>2 DEF WeakPointers
    <3> QED
      BY <3>1, <3>2, <3>3 DEF Idle
  <2> QED
    BY <2>1, <2>2
<1>3. UNCHANGED <<content, held, edited, registry, latest>>
  BY DEF Lookup, heapVars, mapVars
<1> USE <1>1, <1>2, <1>3, Marks DEF IInv
<1>4. Typed'
  BY DEF Typed
<1>5. LocalsFit'
  BY DEF LocalsFit, Typed
<1>6. UsedIsLive'
  BY DEF UsedIsLive, Typed
<1>7. ClonesArePrivate'
  BY DEF ClonesArePrivate, Typed
<1>8. LatestStaysResolvable'
  BY DEF LatestStaysResolvable
<1>9. EntryNamesContent'
  BY DEF EntryNamesContent
<1>10. ResultIsTarget'
  BY DEF ResultIsTarget, Typed
<1> QED
  BY <1>4, <1>5, <1>6, <1>7, <1>8, <1>9, <1>10

LEMMA ResolveKeeps ==
    ASSUME IInv, NEW t \in Threads, Resolve(t)
    PROVE  IInv'
<1> USE Marks DEF IInv, Resolve, heapVars, mapVars
<1>1. Typed'
  BY DEF Typed, Calls, LocalsFit
<1>2. LocalsFit'
  BY DEF LocalsFit, Typed, Calls
<1>3. UsedIsLive'
  BY DEF UsedIsLive, Typed, Calls
<1>4. ClonesArePrivate'
  BY DEF ClonesArePrivate, Typed, Calls
<1>5. LatestStaysResolvable'
  BY DEF LatestStaysResolvable
<1>6. EntryNamesContent'
  BY DEF EntryNamesContent
<1>7. ResultIsTarget'
  BY DEF ResultIsTarget, Typed, Calls
<1> QED
  BY <1>1, <1>2, <1>3, <1>4, <1>5, <1>6, <1>7

LEMMA PruneKeeps ==
    ASSUME IInv, NEW t \in Threads, Prune(t)
    PROVE  IInv'
<1> DEFINE fp == BaseFP(calls[t].patch)
           p == calls[t].patch
<1>1. p \in Patches /\ fp \in Fingerprints
  BY Prints DEF IInv, LocalsFit, Prune
<1> HIDE DEF fp
<1>2. /\ registry' = [registry EXCEPT ![fp] = IF registry[fp] = Dead THEN Absent
                                             ELSE registry[fp]]
      /\ calls' = [calls EXCEPT ![t] = [Idle EXCEPT !.patch = p]]
      /\ UNCHANGED <<content, held, edited, latest>>
  BY <1>1 DEF Prune, Evicted, heapVars, fp, IInv, Typed
<1> HIDE DEF p
<1> USE <1>1, <1>2, Marks DEF IInv
<1>3. Typed'
  BY DEF Typed, Calls, Idle, WeakPointers
<1>4. LocalsFit'
  BY DEF LocalsFit, Typed, Calls, Idle
<1>5. UsedIsLive'
  BY DEF UsedIsLive, Typed, Idle
<1>6. ClonesArePrivate'
  BY DEF ClonesArePrivate, Typed, Idle
<1>7. LatestStaysResolvable'
  BY DEF LatestStaysResolvable, Typed
<1>8. EntryNamesContent'
  BY DEF EntryNamesContent, Typed
<1>9. ResultIsTarget'
  BY DEF ResultIsTarget, Typed, Idle
<1> QED
  BY <1>3, <1>4, <1>5, <1>6, <1>7, <1>8, <1>9

LEMMA CloneKeeps ==
    ASSUME IInv, NEW t \in Threads, Clone(t)
    PROVE  IInv'
<1>1. PICK o \in Objects :
        /\ content[o] = Free
        /\ content' = [content EXCEPT ![o] = content[calls[t].base]]
        /\ calls' = [calls EXCEPT ![t].pc = "patch", ![t].base = Absent,
                                  ![t].clone = o]
  BY DEF Clone
<1>2. /\ calls[t].pc = "clone" /\ calls[t].base \in Objects
      /\ content[calls[t].base] \in AllContents
      /\ UNCHANGED <<held, edited, registry, latest>>
  BY DEF Clone, mapVars, IInv, LocalsFit, UsedIsLive, Typed
<1> USE <1>1, <1>2, Marks DEF IInv
<1>3. Typed'
  BY DEF Typed, Calls
<1>4. LocalsFit'
  BY DEF LocalsFit, Typed, Calls
<1>5. UsedIsLive'
  BY DEF UsedIsLive, Typed, Calls
<1>6. ClonesArePrivate'
  BY DEF ClonesArePrivate, UsedIsLive, Typed, Calls
<1>7. LatestStaysResolvable'
  BY DEF LatestStaysResolvable
<1>8. EntryNamesContent'
  BY DEF EntryNamesContent, UsedIsLive, Typed
<1>9. ResultIsTarget'
  BY DEF ResultIsTarget, UsedIsLive, LocalsFit, Typed, Calls
<1> QED
  BY <1>3, <1>4, <1>5, <1>6, <1>7, <1>8, <1>9

LEMMA PatchCloneKeeps ==
    ASSUME IInv, NEW t \in Threads, NEW whole \in BOOLEAN, PatchClone(t, whole)
    PROVE  IInv'
<1> DEFINE o == calls[t].clone
           p == calls[t].patch
<1>1. /\ o \in Objects /\ p \in Patches /\ p.hasFP /\ calls[t].pc = "patch"
      /\ UNCHANGED <<held, edited, registry, latest>>
  BY DEF PatchClone, mapVars, IInv, LocalsFit
<1>2. PICK c \in AllContents, call \in Calls :
        /\ content' = [content EXCEPT ![o] = c]
        /\ calls' = [calls EXCEPT ![t] = call]
        /\ call.found = Absent /\ call.base = Absent
        /\ \/ /\ call.pc = "store" /\ call.patch = p /\ call.clone = o
              /\ c = p.target
           \/ call.pc = "idle" /\ call.clone = Absent
  <2>1. content[o] \in AllContents
    BY <1>1 DEF IInv, UsedIsLive, Typed
  <2>2. Idle \in Calls /\ Idle.pc = "idle" /\ Idle.found = Absent
        /\ Idle.base = Absent /\ Idle.clone = Absent
    BY DEF Idle, Calls, WeakPointers
  <2>3. CASE ~Accepted(content[o], p)
    <3>1. /\ content' = [content EXCEPT ![o] = content[o]]
          /\ calls' = [calls EXCEPT ![t] = Idle]
      BY <1>1, <2>3 DEF PatchClone, Return, IInv, Typed
    <3> QED
      BY <2>1, <2>2, <3>1
  <2>4. CASE Accepted(content[o], p) /\ whole
    <3> DEFINE call == [calls[t] EXCEPT !.pc = "store"]
    <3>1. Patched(content[o], p) = p.target
      BY <1>1, <2>4, Prints DEF Accepted, Patched
    <3>2. /\ content' = [content EXCEPT ![o] = p.target]
          /\ calls' = [calls EXCEPT ![t] = call]
      BY <1>1, <2>4, <3>1 DEF PatchClone, IInv, Typed
    <3>3. /\ call \in Calls /\ call.pc = "store" /\ call.patch = p
          /\ call.clone = o /\ call.found = Absent /\ call.base = Absent
      BY <1>1 DEF IInv, Typed, Calls, LocalsFit
    <3> QED
      BY <1>1, <3>2, <3>3, Prints, Marks
  <2>5. CASE Accepted(content[o], p) /\ ~whole
    <3>1. /\ content' = [content EXCEPT ![o] = Garbled]
          /\ calls' = [calls EXCEPT ![t] = Idle]
      BY <1>1, <2>5 DEF PatchClone, Return, IInv, Typed
    <3> QED
      BY <2>2, <3>1, Marks
  <2> QED
    BY <2>3, <2>4, <2>5
<1> USE <1>1, <1>2, Marks DEF IInv
<1>3. Typed'
  BY DEF Typed
<1>4. LocalsFit'
  BY DEF LocalsFit, Typed
<1>5. UsedIsLive'
  BY DEF UsedIsLive, Typed
<1>6. ClonesArePrivate'
  <2>1. \A u \in Threads : calls[u].clone \in Objects /\ u # t => calls[u].clone # o
    BY DEF ClonesArePrivate
  <2>2. \A u \in Threads : calls'[u] = IF u = t THEN call ELSE calls[u]
    BY DEF Typed
  <2>3. ASSUME NEW u \in Threads, calls'[u].clone \in Objects
        PROVE  calls'[u].clone = calls[u].clone
    BY <2>2, <2>3
  <2>4. ASSUME NEW u \in Threads
        PROVE  /\ calls'[u].found \in {calls[u].found, Absent}
               /\ calls'[u].base \in {calls[u].base, Absent}
               /\ calls'[u].clone \in {calls[u].clone, Absent}
    BY <2>2
  <2> QED
    BY <2>3, <2>4 DEF ClonesArePrivate
<1>7. LatestStaysResolvable'
  BY DEF LatestStaysResolvable
<1>8. EntryNamesContent'
  BY DEF EntryNamesContent, ClonesArePrivate, Typed
<1>9. ResultIsTarget'
  BY DEF ResultIsTarget, ClonesArePrivate, LocalsFit, Typed
<1> QED
  BY <1>3, <1>4, <1>5, <1>6, <1>7, <1>8, <1>9

LEMMA StoreKeeps ==
    ASSUME IInv, NEW t \in Threads, Store(t)
    PROVE  IInv'
<1> DEFINE o == calls[t].clone
           fp == Fingerprint(content[o])
<1>1. o \in Objects /\ content[o] \in Contents
  BY Prints DEF IInv, LocalsFit, ResultIsTarget, Store
<1>2. fp \in Fingerprints
  BY <1>1, Prints
<1> HIDE DEF fp
<1>3. /\ registry' = [registry EXCEPT ![fp] = o]
      /\ latest' = [latest EXCEPT ![fp] = o]
      /\ held' = held \cup {o}
      /\ calls' = [calls EXCEPT ![t] = Idle]
      /\ UNCHANGED <<content, edited>>
  BY DEF Store, Put, Return, fp
<1> USE <1>1, <1>2, <1>3, Marks DEF IInv
<1>4. Typed'
  BY DEF Typed, Calls, Idle, WeakPointers
<1>5. LocalsFit'
  BY DEF LocalsFit, Typed, Idle
<1>6. UsedIsLive'
  BY DEF UsedIsLive, Typed, Idle
<1>7. ClonesArePrivate'
  BY DEF ClonesArePrivate, Typed, Idle
<1>8. LatestStaysResolvable'
  BY DEF LatestStaysResolvable, Typed
<1>9. EntryNamesContent'
  BY DEF EntryNamesContent, Typed, fp
<1>10. ResultIsTarget'
  BY DEF ResultIsTarget, Typed, Idle
<1> QED
  BY <1>4, <1>5, <1>6, <1>7, <1>8, <1>9, <1>10

-----------------------------------------------------------------------------
(* The collector *)

LEMMA CollectKeeps ==
    ASSUME IInv, NEW o \in Objects, Collect(o)
    PROVE  IInv'
<1>1. /\ o \notin held
      /\ \A t \in Threads : calls[t].base # o /\ calls[t].clone # o
      /\ content' = [content EXCEPT ![o] = Free]
      /\ registry' = [fp \in Fingerprints |-> IF registry[fp] = o THEN Dead
                                              ELSE registry[fp]]
      /\ latest' = [fp \in Fingerprints |-> IF latest[fp] = o THEN Absent
                                            ELSE latest[fp]]
      /\ edited' = edited \ {o}
      /\ calls' = [t \in Threads |-> IF calls[t].found = o
                                     THEN [calls[t] EXCEPT !.found = Dead]
                                     ELSE calls[t]]
      /\ UNCHANGED held
  BY DEF Collect, Reachable, Cleared, IInv, Typed
<1> USE <1>1, Marks DEF IInv
<1>2. Typed'
  BY DEF Typed, Calls, WeakPointers
<1>3. LocalsFit'
  BY DEF LocalsFit, Typed, Calls
<1>4. UsedIsLive'
  BY DEF UsedIsLive, Typed, Calls
<1>5. ClonesArePrivate'
  BY DEF ClonesArePrivate, Typed, Calls
<1>6. LatestStaysResolvable'
  BY DEF LatestStaysResolvable, Typed
<1>7. EntryNamesContent'
  BY DEF EntryNamesContent, Typed
<1>8. ResultIsTarget'
  BY DEF ResultIsTarget, LocalsFit, Typed, Calls
<1> QED
  BY <1>2, <1>3, <1>4, <1>5, <1>6, <1>7, <1>8

-----------------------------------------------------------------------------
(* Theorems *)

LEMMA InvStep == IInv /\ [Next]_vars => IInv'
<1> SUFFICES ASSUME IInv, [Next]_vars PROVE IInv'
  OBVIOUS
<1>1. CASE UNCHANGED vars
  BY <1>1 DEF vars, heapVars, mapVars, IInv, Typed, LocalsFit, UsedIsLive,
     ClonesArePrivate, LatestStaysResolvable, EntryNamesContent, ResultIsTarget
<1>2. CASE \E o \in Objects, c \in Contents : New(o, c) \/ Change(o, c)
  BY <1>2, NewKeeps, ChangeKeeps, Marks
<1>3. CASE \E o \in Objects : DropRef(o) \/ Register(o) \/ Collect(o)
  BY <1>3, DropRefKeeps, RegisterKeeps, CollectKeeps
<1>4. CASE \E o \in Objects, p \in Patches, whole \in BOOLEAN :
                ApplyInPlace(o, p, whole)
  BY <1>4, ApplyInPlaceKeeps
<1>5. CASE Len
  BY <1>5, LenKeeps
<1>6. CASE \E t \in Threads, p \in Patches : Lookup(t, p)
  BY <1>6, LookupKeeps
<1>7. CASE \E t \in Threads : Resolve(t) \/ Prune(t) \/ Clone(t) \/ Store(t)
  BY <1>7, ResolveKeeps, PruneKeeps, CloneKeeps, StoreKeeps
<1>8. CASE \E t \in Threads, whole \in BOOLEAN : PatchClone(t, whole)
  BY <1>8, PatchCloneKeeps
<1> QED
  BY <1>1, <1>2, <1>3, <1>4, <1>5, <1>6, <1>7, <1>8 DEF Next

\* The inductive invariant holds throughout: the calls of Apply, the collector
\* and the callers never disturb one another's part of it.
THEOREM InvariantHolds == Spec => []IInv
<1>1. Init => IInv
  BY InitInv
<1>2. IInv /\ [Next]_vars => IInv'
  BY InvStep
<1> QED
  BY <1>1, <1>2, PTL DEF Spec

\* No call of Apply works on an object that the collector has taken: from
\* wp.Value() on it holds the baseline, and its clone.
THEOREM TypeCorrect == Spec => []TypeOK
<1>1. IInv => TypeOK
  BY DEF IInv, Typed, UsedIsLive, TypeOK, Reachable
<1> QED
  BY <1>1, InvariantHolds, PTL

\* The baseline last registered under a fingerprint is found for as long as it
\* lives, whatever dead entry Len or a slow call of Apply cleans up.
THEOREM LatestIsFound == Spec => []LatestStaysResolvable
<1>1. IInv => LatestStaysResolvable
  BY DEF IInv
<1> QED
  BY <1>1, InvariantHolds, PTL

\* No call of Apply writes to a registered baseline: an entry its caller left
\* alone has the content of its fingerprint.
THEOREM BaselinesKeepContent == Spec => []EntryNamesContent
<1>1. IInv => EntryNamesContent
  BY DEF IInv
<1> QED
  BY <1>1, InvariantHolds, PTL

\* What BaselineRegistry.Apply registers and returns is the patch's target.
THEOREM ApplyYieldsTarget == Spec => []ResultIsTarget
<1>1. IInv => ResultIsTarget
  BY DEF IInv
<1> QED
  BY <1>1, InvariantHolds, PTL
=============================================================================
