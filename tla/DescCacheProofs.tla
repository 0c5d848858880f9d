---------------------------- MODULE DescCacheProofs ----------------------------
(***************************************************************************)
(* Proofs about the descriptor cache, for any types, any graph of them and *)
(* any number of goroutines: what the cache holds or a call returned leads *)
(* to finished descriptors only, and a type has one descriptor for all.    *)
(***************************************************************************)
EXTENDS DescCache, TLAPS, FiniteSetTheorems, WellFoundedInduction

-----------------------------------------------------------------------------
(* The inductive invariant *)

Descs == [type : Types, by : Threads, build : Nat]
Frame == [type : Types, got : Seq(Descs)]

Record(f) ==
    \E ready \in BOOLEAN, parts \in Seq(Descs) : \E plan, fp :
        f = [ready |-> ready, parts |-> parts, plan |-> plan, schemaFP |-> fp]

\* Every variable has its type: that of desc leaves open what a plan and a
\* fingerprint are.
TypeOK ==
    /\ DOMAIN typeCache \subseteq Types
    /\ DOMAIN desc \subseteq Descs /\ IsFiniteSet(DOMAIN desc)
    /\ typeCache = [t \in DOMAIN typeCache |-> typeCache[t]]
    /\ desc = [d \in DOMAIN desc |-> desc[d]]
    /\ \A d \in DOMAIN desc : Record(desc[d])
    /\ phase \in [Threads -> {"idle", "load", "build", "publish"}]
    /\ root \in [Threads -> Types \cup {None}]
    /\ stack \in [Threads -> Seq(Frame)]
    /\ left \in [Threads -> SUBSET Types]
    /\ builds \in [Threads -> Nat]
    /\ answer \in [Threads -> Descs \cup {None}]

\* A descriptor is under way while the context it was made in is being built;
\* every other one is finished.
UnderWay(d) == phase[d.by] = "build" /\ d.build = builds[d.by]
Finished == {d \in DOMAIN desc : ~ UnderWay(d)}

\* What a part of a descriptor of goroutine p's context may be.
Sound(p) == Finished \cup InProgress(p)

\* No context is newer than the last its goroutine opened, a goroutine in a
\* call has a root, and only one that builds has frames.
InCall ==
    /\ \A d \in DOMAIN desc : d.build <= builds[d.by]
    /\ \A p \in Threads :
           /\ phase[p] # "idle" => root[p] \in Types
           /\ phase[p] # "build" => stack[p] = <<>>

\* The unfilled descriptors of a context are those of its frames, of which the
\* lowest is for the root.
FramesOf(p) ==
    /\ stack[p] # <<>> => stack[p][1].type = root[p]
    /\ \A i \in 1..Len(stack[p]) :
           /\ Own(p, stack[p][i].type) \in DOMAIN desc
           /\ \A j \in 1..Len(stack[p]) :
                  stack[p][i].type = stack[p][j].type => i = j
           /\ \A j \in 1..Len(stack[p][i].got) : stack[p][i].got[j] \in Sound(p)
    /\ \A d \in InProgress(p) :
           desc[d].ready \/ \E i \in 1..Len(stack[p]) : stack[p][i].type = d.type

FramesUnfilled == \A p \in Threads : phase[p] = "build" => FramesOf(p)

\* A part of a descriptor is finished or of the same context, and a finished
\* one is filled.
GraphsClosed ==
    /\ \A d \in DOMAIN desc : \A i \in 1..Len(desc[d].parts) :
           \/ desc[d].parts[i] \in Finished
           \/ /\ desc[d].parts[i] \in DOMAIN desc
              /\ desc[d].parts[i].by = d.by /\ desc[d].parts[i].build = d.build
    /\ \A d \in Finished : desc[d].ready

\* The cache holds finished descriptors, each under its type, and what is left
\* to publish is there to be published.
CacheFinished ==
    /\ \A t \in DOMAIN typeCache : typeCache[t] \in Finished /\ typeCache[t].type = t
    /\ \A p \in Threads : phase[p] = "publish" =>
           /\ \A t \in left[p] : Own(p, t) \in DOMAIN desc
           /\ root[p] \in DOMAIN typeCache \cup left[p]

\* What a call returned is what the cache has for the type, then and later.
AnswersCached ==
    \A p \in Threads : answer[p] # None =>
        answer[p].type \in DOMAIN typeCache /\ answer[p] = typeCache[answer[p].type]

IInv ==
    /\ TypeOK /\ InCall /\ FramesUnfilled
    /\ GraphsClosed /\ CacheFinished /\ AnswersCached

-----------------------------------------------------------------------------
(* Induction *)

\* The less-than relation on the naturals is well founded, as a set of pairs.
LEMMA NatLessWellFounded ==
    ASSUME NEW R, R = {p \in Nat \X Nat : p[1] < p[2]}
    PROVE  IsWellFoundedOn(R, Nat)
<1>1. R = OpToRel(<, Nat)
  BY DEF OpToRel
<1> QED BY <1>1, NatLessThanWellFounded

\* A set of naturals that is not empty has a least element: the induction that
\* the proof about Reach needs.
LEMMA Least ==
    ASSUME NEW S \in SUBSET Nat, S # {}
    PROVE  \E m \in S : \A n \in S : m <= n
<1>1. PICK R : R = {p \in Nat \X Nat : p[1] < p[2]}
  OBVIOUS
<1>2. PICK m \in S : \A n \in S : ~ (<<n, m>> \in R)
  BY <1>1, NatLessWellFounded, WFMin
<1>3. ASSUME NEW n \in S PROVE m <= n
  <2>1. \A i, j \in Nat : i < j => <<i, j>> \in R
    BY <1>1
  <2>2. ~ (n < m)
    BY <1>2, <2>1
  <2> QED BY <2>2
<1> QED BY <1>3

\* g[n] is what n applications of F make of a.
Iterates(g, a, F) == g[0] = a /\ \A n \in Nat : g[n + 1] = F[g[n]]

\* A function can be iterated: what a definition by recursion over a count of
\* steps takes for granted.
LEMMA Iteration ==
    ASSUME NEW A, NEW a \in A, NEW F \in [A -> A]
    PROVE  \E g \in [Nat -> A] : Iterates(g, a, F)
<1> DEFINE Starts(g, n) == g \in [0..n -> A] /\ g[0] = a
                            /\ \A i \in 0..(n - 1) : g[i + 1] = F[g[i]]
           Short == {n \in Nat : ~ \E g : Starts(g, n)}
<1>1. Short = {}
  <2> SUFFICES ASSUME Short # {} PROVE FALSE
    OBVIOUS
  <2>1. PICK m \in Short : \A n \in Short : m <= n
    <3>1. Short \in SUBSET Nat
      OBVIOUS
    <3> HIDE DEF Short
    <3> QED BY <3>1, Least
  <2>2. CASE m = 0
    <3> DEFINE h == [i \in 0..0 |-> a]
    <3>1. h \in [0..0 -> A] /\ h[0] = a
      OBVIOUS
    <3>2. Starts(h, 0)
      BY <3>1
    <3> HIDE DEF h
    <3> QED BY <2>2, <3>2
  <2>3. CASE m # 0
    <3>1. m - 1 \in Nat /\ m - 1 \notin Short
      <4>1. m \in Nat /\ \A n \in Short : ~ (n < m) /\ n \in Nat
        <5>1. Short \in SUBSET Nat
          OBVIOUS
        <5> HIDE DEF Short
        <5> QED BY <2>1, <5>1
      <4> HIDE DEF Short
      <4> QED BY <2>3, <4>1
    <3>2. PICK g : Starts(g, m - 1)
      BY <3>1
    <3> DEFINE h == [i \in 0..m |-> IF i = m THEN F[g[m - 1]] ELSE g[i]]
    <3>3. h \in [0..m -> A] /\ h[0] = a
      BY <3>1, <3>2, <2>3
    <3>4. ASSUME NEW i \in 0..(m - 1) PROVE h[i + 1] = F[h[i]]
      <4>1. CASE i = m - 1
        BY <4>1, <3>1, <2>3
      <4>2. CASE i # m - 1
        <5>1. i \in 0..(m - 1 - 1)
          BY <4>2, <3>1
        <5> QED BY <5>1, <3>1, <3>2
      <4> QED BY <4>1, <4>2
    <3>5. Starts(h, m)
      BY <3>3, <3>4
    <3> HIDE DEF h
    <3> QED BY <3>5
  <2> QED BY <2>2, <2>3
<1>2. \A n \in Nat : \E g : Starts(g, n)
  BY <1>1
<1>3. ASSUME NEW n \in Nat, NEW m \in Nat, n <= m, NEW g, NEW h, Starts(g, n), Starts(h, m)
      PROVE  \A i \in 0..n : g[i] = h[i]
  <2> DEFINE Apart == {i \in 0..n : g[i] # h[i]}
  <2> SUFFICES ASSUME Apart # {} PROVE FALSE
    OBVIOUS
  <2>1. PICK i \in Apart : \A j \in Apart : i <= j
    <3>1. Apart \in SUBSET Nat
      OBVIOUS
    <3> HIDE DEF Apart
    <3> QED BY <3>1, Least
  <2>2. i # 0
    BY <1>3
  <2>3. i - 1 \in 0..(n - 1) /\ i - 1 \notin Apart
    BY <2>1, <2>2
  <2>4. g[i] = F[g[i - 1]] /\ h[i] = F[h[i - 1]]
    BY <1>3, <2>3
  <2> QED BY <2>3, <2>4
<1>4. PICK s : s = [n \in Nat |-> CHOOSE g : Starts(g, n)]
  OBVIOUS
<1>5. \A n \in Nat : Starts(s[n], n)
  BY <1>2, <1>4
<1> DEFINE f == [n \in Nat |-> s[n][n]]
<1>6. f \in [Nat -> A] /\ f[0] = a
  BY <1>5
<1>7. ASSUME NEW n \in Nat PROVE f[n + 1] = F[f[n]]
  <2>1. Starts(s[n], n) /\ Starts(s[n + 1], n + 1)
    BY <1>5
  <2>2. s[n + 1][n + 1] = F[s[n + 1][n]]
    BY <2>1
  <2>3. n \in Nat /\ n + 1 \in Nat /\ n <= n + 1 /\ n \in 0..n
    OBVIOUS
  <2>4. s[n][n] = s[n + 1][n]
    <3> HIDE DEF Starts
    <3> QED BY <1>3, <2>1, <2>3
  <2> QED BY <2>2, <2>4
<1> QED BY <1>6, <1>7 DEF Iterates

-----------------------------------------------------------------------------
(* The invariant *)

\* Nobody builds before the first call.
LEMMA InitInv == Init => IInv
<1> SUFFICES ASSUME Init PROVE IInv
  OBVIOUS
<1> USE DEF Init
<1>1. TypeOK
  BY FS_EmptySet DEF TypeOK
<1>2. InCall /\ FramesUnfilled /\ GraphsClosed /\ CacheFinished /\ AnswersCached
  BY DEF InCall, FramesUnfilled, GraphsClosed, CacheFinished, AnswersCached, Finished
<1> QED BY <1>1, <1>2 DEF IInv

\* A step that leaves the descriptors, the contexts and the frames as they are,
\* and moves a goroutine neither into a build nor out of one, keeps the graphs.
LEMMA GraphsStay ==
    ASSUME IInv, UNCHANGED <<desc, stack, builds>>,
           phase' \in [Threads -> {"idle", "load", "build", "publish"}],
           \A p \in Threads : phase'[p] = "build" <=> phase[p] = "build",
           \A p \in Threads : phase[p] = "build" => root'[p] = root[p]
    PROVE  FramesUnfilled' /\ GraphsClosed' /\ Finished' = Finished
<1>1. Finished' = Finished
  BY DEF Finished, UnderWay, IInv, TypeOK, Descs
<1>2. ASSUME NEW p \in Threads, phase[p] = "build" PROVE FramesOf(p)'
  <2>1. InProgress(p)' = InProgress(p) /\ Sound(p)' = Sound(p)
    BY <1>1 DEF InProgress, Sound
  <2>2. FramesOf(p)
    BY <1>2 DEF IInv, FramesUnfilled
  <2>3. root'[p] = root[p]
    BY <1>2
  <2>4. \A t : Own(p, t)' = Own(p, t)
    BY DEF Own
  <2>5. stack'[p] = stack[p] /\ desc' = desc
    OBVIOUS
  <2> QED BY <2>1, <2>2, <2>3, <2>4, <2>5 DEF FramesOf
<1>3. FramesUnfilled'
  BY <1>2 DEF FramesUnfilled
<1>4. GraphsClosed'
  BY <1>1 DEF GraphsClosed, IInv
<1> QED BY <1>1, <1>3, <1>4

\* descOf is called.
LEMMA CallKeeps == ASSUME IInv, NEW p \in Threads, NEW t \in Types, Call(p, t) PROVE IInv'
<1> USE DEF IInv
<1>1. TypeOK'
  BY DEF Call, TypeOK
<1>2. InCall'
  BY DEF Call, TypeOK, InCall, Descs
<1>3. FramesUnfilled' /\ GraphsClosed' /\ Finished' = Finished
  BY GraphsStay DEF Call, TypeOK
<1>4. CacheFinished'
  BY <1>3 DEF Call, TypeOK, CacheFinished, Own
<1>5. AnswersCached'
  BY DEF Call, TypeOK, AnswersCached
<1> QED BY <1>1, <1>2, <1>3, <1>4, <1>5

\* The cache has the type.
LEMMA HitKeeps == ASSUME IInv, NEW p \in Threads, Hit(p) PROVE IInv'
<1> USE DEF IInv
<1>1. typeCache[root[p]] \in Descs /\ typeCache[root[p]].type = root[p]
  BY DEF Hit, TypeOK, CacheFinished, Finished
<1>2. TypeOK'
  BY <1>1 DEF Hit, TypeOK
<1>3. InCall'
  BY DEF Hit, TypeOK, InCall, Descs
<1>4. FramesUnfilled' /\ GraphsClosed' /\ Finished' = Finished
  BY GraphsStay DEF Hit, TypeOK
<1>5. CacheFinished'
  BY <1>4 DEF Hit, TypeOK, CacheFinished, Own
<1>6. AnswersCached'
  BY <1>1 DEF Hit, TypeOK, AnswersCached
<1> QED BY <1>2, <1>3, <1>4, <1>5, <1>6

\* The cache does not have the type: a context is opened, and has nothing yet.
LEMMA MissKeeps == ASSUME IInv, NEW p \in Threads, Miss(p) PROVE IInv'
<1> USE DEF IInv
<1>1. TypeOK'
  <2>1. builds' \in [Threads -> Nat] /\ phase' \in [Threads -> {"idle", "load", "build", "publish"}]
    BY DEF Miss, TypeOK
  <2> QED BY <2>1 DEF Miss, TypeOK, Record
<1>2. InCall'
  BY DEF Miss, TypeOK, InCall, Descs
<1>3. Finished' = Finished
  BY DEF Miss, TypeOK, InCall, Descs, Finished, UnderWay
<1>4. InProgress(p)' = {}
  BY DEF Miss, TypeOK, InCall, Descs, InProgress
<1>5. \A q \in Threads \ {p} : InProgress(q)' = InProgress(q) /\ Sound(q)' = Sound(q)
  BY <1>3 DEF Miss, TypeOK, InProgress, Sound
<1>6. FramesUnfilled'
  <2>1. UNCHANGED <<stack, root, desc>> /\ stack'[p] = <<>>
    BY DEF Miss, InCall
  <2>2. FramesOf(p)'
    BY <1>4, <2>1 DEF FramesOf
  <2>3. ASSUME NEW q \in Threads \ {p}, phase'[q] = "build" PROVE FramesOf(q)'
    <3>1. phase[q] = "build" /\ builds'[q] = builds[q] /\ FramesOf(q)
      BY <2>3 DEF Miss, TypeOK, FramesUnfilled
    <3> QED BY <1>5, <2>1, <3>1 DEF FramesOf, Own
  <2> QED BY <2>2, <2>3 DEF FramesUnfilled
<1>7. GraphsClosed'
  BY <1>3 DEF Miss, GraphsClosed
<1>8. CacheFinished'
  BY <1>3 DEF Miss, TypeOK, CacheFinished, Own
<1>9. AnswersCached'
  BY DEF Miss, AnswersCached
<1> QED BY <1>1, <1>2, <1>6, <1>7, <1>8, <1>9

\* The type is published, unless another goroutine was first.
LEMMA PublishKeeps == ASSUME IInv, NEW p \in Threads, Publish(p) PROVE IInv'
<1> USE DEF IInv
<1> PICK t \in left[p] : 
        /\ phase[p] = "publish"
        /\ typeCache' = IF t \in DOMAIN typeCache THEN typeCache ELSE With(typeCache, t, Own(p, t))
        /\ left' = [left EXCEPT ![p] = @ \ {t}]
        /\ UNCHANGED <<desc, phase, root, stack, builds, answer>>
  BY DEF Publish, Publishable
<1>1. /\ t \in Types /\ Own(p, t) \in Finished /\ Own(p, t).type = t
  BY DEF TypeOK, CacheFinished, Finished, UnderWay, Own
<1>2. /\ DOMAIN typeCache' = DOMAIN typeCache \cup {t}
      /\ \A u \in DOMAIN typeCache : typeCache'[u] = typeCache[u]
      /\ typeCache' = [u \in DOMAIN typeCache' |-> typeCache'[u]]
      /\ t \notin DOMAIN typeCache => typeCache'[t] = Own(p, t)
  BY DEF With, TypeOK
<1>3. TypeOK'
  BY <1>1, <1>2 DEF TypeOK
<1>4. InCall'
  BY DEF InCall
<1>5. FramesUnfilled' /\ GraphsClosed' /\ Finished' = Finished
  BY GraphsStay DEF TypeOK
<1>7. CacheFinished'
  BY <1>1, <1>2, <1>5 DEF CacheFinished, TypeOK, Own
<1>8. AnswersCached'
  BY <1>2 DEF AnswersCached
<1> QED BY <1>3, <1>4, <1>5, <1>7, <1>8

\* All of the context is published.
LEMMA AnswerKeeps == ASSUME IInv, NEW p \in Threads, Answer(p) PROVE IInv'
<1> USE DEF IInv
<1>1. root[p] \in DOMAIN typeCache /\ typeCache[root[p]] \in Descs /\ typeCache[root[p]].type = root[p]
  BY DEF Answer, TypeOK, CacheFinished, Finished
<1>2. TypeOK'
  BY <1>1 DEF Answer, Winner, TypeOK
<1>3. InCall'
  BY DEF Answer, TypeOK, InCall, Descs
<1>4. FramesUnfilled' /\ GraphsClosed' /\ Finished' = Finished
  BY GraphsStay DEF Answer, TypeOK
<1>5. CacheFinished'
  BY <1>4 DEF Answer, TypeOK, CacheFinished, Own
<1>6. AnswersCached'
  BY <1>1 DEF Answer, Winner, TypeOK, AnswersCached
<1> QED BY <1>2, <1>3, <1>4, <1>5, <1>6

\* A part is supplied to the frame on top, or the root to the call: then the
\* context has no frames left and all of it is filled.
LEMMA UseKeeps ==
    ASSUME IInv, NEW p \in Threads, Wants(p), NEW d \in Sound(p), Supply(p, stack[p], d),
           UNCHANGED <<typeCache, desc, root, builds, answer>>,
           stack[p] = <<>> => root[p] \in DOMAIN typeCache \/ Own(p, root[p]) \in InProgress(p)
    PROVE  IInv'
<1> USE DEF IInv
<1>1. phase[p] = "build" /\ FramesOf(p) /\ stack[p] \in Seq(Frame)
  BY DEF Wants, FramesUnfilled, TypeOK
<1>2. d \in Descs /\ d \in DOMAIN desc
  BY DEF Sound, Finished, InProgress, TypeOK
<1>3. AnswersCached'
  BY DEF AnswersCached
<1>4. \A q \in Threads : InProgress(q)' = InProgress(q)
  BY DEF InProgress
<1>5. \A q \in Threads : \A t : Own(q, t)' = Own(q, t)
  BY DEF Own
<1>6. CASE stack[p] = <<>>
  <2>1. /\ phase' = [phase EXCEPT ![p] = "publish"] /\ stack' = [stack EXCEPT ![p] = <<>>]
        /\ left' = [left EXCEPT ![p] = {x.type : x \in InProgress(p)}]
    BY <1>6 DEF Supply
  <2>2. TypeOK'
    <3>1. {x.type : x \in InProgress(p)} \subseteq Types
      BY DEF InProgress, TypeOK, Descs
    <3>2. stack' \in [Threads -> Seq(Frame)]
      BY <2>1 DEF TypeOK
    <3>3. left' \in [Threads -> SUBSET Types]
      BY <2>1, <3>1 DEF TypeOK
    <3> QED BY <2>1, <3>2, <3>3 DEF TypeOK
  <2>3. InCall'
    BY <2>1, <1>1 DEF InCall, TypeOK
  <2>4. Finished' = Finished \cup InProgress(p)
    BY <2>1, <1>1 DEF Finished, UnderWay, InProgress, TypeOK, Descs
  <2>5. FramesUnfilled'
    <3> SUFFICES ASSUME NEW q \in Threads, phase'[q] = "build" PROVE FramesOf(q)'
      BY DEF FramesUnfilled
    <3>1. q # p /\ phase[q] = "build" /\ FramesOf(q) /\ stack'[q] = stack[q]
      BY <2>1 DEF TypeOK, FramesUnfilled
    <3>2. Sound(q) \subseteq Sound(q)'
      BY <2>4, <1>4 DEF Sound
    <3> QED BY <3>1, <3>2, <1>4, <1>5 DEF FramesOf
  <2>6. \A x \in InProgress(p) : desc[x].ready
    BY <1>1, <1>6 DEF FramesOf
  <2>7. GraphsClosed'
    BY <2>4, <2>6 DEF GraphsClosed
  <2>8. CacheFinished'
    <3>1. ASSUME NEW q \in Threads, phase'[q] = "publish"
          PROVE  /\ \A t \in left'[q] : Own(q, t)' \in DOMAIN desc'
                 /\ root'[q] \in DOMAIN typeCache' \cup left'[q]
      <4>1. CASE q = p
        <5>1. \A x \in InProgress(p) : x = Own(p, x.type)
          BY DEF InProgress, Own, TypeOK, Descs
        <5>2. root[p] \in DOMAIN typeCache \cup left'[p]
          BY <1>6, <2>1 DEF TypeOK, Own
        <5> QED BY <4>1, <5>1, <5>2, <2>1, <1>5 DEF TypeOK, InProgress
      <4>2. CASE q # p
        BY <4>2, <3>1, <2>1, <1>5 DEF TypeOK, CacheFinished
      <4> QED BY <4>1, <4>2
    <3> QED BY <3>1, <2>4 DEF CacheFinished
  <2> QED BY <1>3, <2>2, <2>3, <2>5, <2>7, <2>8
<1>7. CASE stack[p] # <<>>
  <2> DEFINE n == Len(stack[p])
  <2>1. /\ n \in Nat \ {0}
        /\ stack' = [stack EXCEPT ![p] = [stack[p] EXCEPT ![n].got = Append(@, d)]]
        /\ UNCHANGED <<phase, left>>
    BY <1>1, <1>7 DEF Supply
  <2>2. /\ stack'[p] \in Seq(Frame) /\ Len(stack'[p]) = n
        /\ \A i \in 1..n : stack'[p][i].type = stack[p][i].type
        /\ \A i \in 1..n : i # n => stack'[p][i] = stack[p][i]
        /\ stack'[p][n].got = Append(stack[p][n].got, d)
    <3>1. stack'[p] = [stack[p] EXCEPT ![n].got = Append(@, d)] /\ n \in 1..Len(stack[p])
      BY <2>1 DEF TypeOK
    <3>2. stack[p][n] \in Frame
      BY <1>1, <3>1
    <3>3. [stack[p][n] EXCEPT !.got = Append(@, d)] \in Frame
      <4>1. stack[p][n].got \in Seq(Descs) /\ stack[p][n].type \in Types
        BY <3>2 DEF Frame
      <4>2. Append(stack[p][n].got, d) \in Seq(Descs)
        BY <4>1, <1>2
      <4> QED BY <3>2, <4>1, <4>2 DEF Frame
    <3> QED BY <1>1, <3>1, <3>2, <3>3 DEF Frame
  <2>3. TypeOK'
    BY <2>1, <2>2 DEF TypeOK
  <2>4. InCall'
    BY <2>1, <1>1 DEF InCall, TypeOK
  <2>5. Finished' = Finished /\ \A q \in Threads : Sound(q)' = Sound(q)
    BY <2>1, <1>4 DEF Finished, UnderWay, Sound
  <2>6. FramesUnfilled'
    <3> SUFFICES ASSUME NEW q \in Threads, phase'[q] = "build" PROVE FramesOf(q)'
      BY DEF FramesUnfilled
    <3>1. CASE q # p
      <4>1. FramesOf(q) /\ stack'[q] = stack[q]
        BY <3>1, <2>1 DEF TypeOK, FramesUnfilled
      <4> QED BY <4>1, <2>5, <1>4, <1>5 DEF FramesOf
    <3>2. CASE q = p
      <4>1. \A i \in 1..n : \A j \in 1..Len(stack'[p][i].got) : stack'[p][i].got[j] \in Sound(p)
        <5> TAKE i \in 1..n
        <5>1. CASE i # n
          BY <5>1, <2>2, <1>1 DEF FramesOf
        <5>2. CASE i = n
          <6>1. stack[p][n].got \in Seq(Descs) /\ \A j \in 1..Len(stack[p][n].got) : stack[p][n].got[j] \in Sound(p)
            <7>1. stack[p][n] \in Frame
              BY <1>1, <2>1
            <7>2. stack[p][n].got \in Seq(Descs)
              BY <7>1 DEF Frame
            <7>3. n \in 1..Len(stack[p])
              BY <2>1
            <7>4. \A j \in 1..Len(stack[p][n].got) : stack[p][n].got[j] \in Sound(p)
              BY <1>1, <7>3 DEF FramesOf
            <7> QED BY <7>2, <7>4
          <6> QED BY <5>2, <6>1, <2>2
        <5> QED BY <5>1, <5>2
      <4>2. stack'[p][1].type = root'[p]
        BY <1>1, <1>7, <2>1, <2>2 DEF FramesOf
      <4>3. \A i \in 1..n : /\ Own(p, stack'[p][i].type) \in DOMAIN desc
                            /\ \A j \in 1..n : stack'[p][i].type = stack'[p][j].type => i = j
        BY <1>1, <2>2 DEF FramesOf
      <4>4. \A x \in InProgress(p) :
                desc[x].ready \/ \E i \in 1..n : stack'[p][i].type = x.type
        BY <1>1, <2>2 DEF FramesOf
      <4> QED BY <3>2, <4>1, <4>2, <4>3, <4>4, <2>2, <2>5, <1>4, <1>5 DEF FramesOf
    <3> QED BY <3>1, <3>2
  <2>7. GraphsClosed' /\ CacheFinished'
    BY <2>1, <2>5, <1>5 DEF GraphsClosed, CacheFinished
  <2> QED BY <1>3, <2>3, <2>4, <2>6, <2>7
<1> QED BY <1>6, <1>7

\* The cache has the part.
LEMMA UseCachedKeeps == ASSUME IInv, NEW p \in Threads, UseCached(p) PROVE IInv'
<1>1. typeCache[Wanted(p)] \in Sound(p)
  BY DEF UseCached, IInv, CacheFinished, Sound
<1>2. stack[p] = <<>> => root[p] \in DOMAIN typeCache
  BY DEF UseCached, Wanted
<1> QED BY <1>1, <1>2, UseKeeps DEF UseCached

\* The part is of this context, filled or not.
LEMMA UseOwnKeeps == ASSUME IInv, NEW p \in Threads, UseOwn(p) PROVE IInv'
<1>1. Own(p, Wanted(p)) \in Sound(p)
  BY DEF UseOwn, Known, Sound
<1>2. stack[p] = <<>> => Own(p, root[p]) \in InProgress(p)
  BY DEF UseOwn, Known, Wanted
<1> QED BY <1>1, <1>2, UseKeeps DEF UseOwn

\* What a goroutine asks for is a type.
LEMMA WantedType == ASSUME IInv, DescAssumption, NEW p \in Threads, Wants(p) PROVE Wanted(p) \in Types
<1>1. phase[p] = "build" /\ root[p] \in Types /\ stack[p] \in Seq(Frame)
  BY DEF Wants, IInv, InCall, TypeOK
<1>2. CASE stack[p] = <<>>
  BY <1>1, <1>2 DEF Wanted
<1>3. CASE stack[p] # <<>>
  <2>1. Len(stack[p]) \in 1..Len(stack[p])
    BY <1>1, <1>3
  <2>2. Top(p) \in Frame
    BY <1>1, <2>1 DEF Top
  <2>3. Top(p).type \in Types /\ Len(Top(p).got) \in Nat /\ Len(Top(p).got) < Len(Parts[Top(p).type])
    BY <2>2, <1>3 DEF Wants, Frame
  <2>4. Parts[Top(p).type] \in Seq(Types)
    BY <2>3 DEF DescAssumption
  <2> QED BY <1>3, <2>3, <2>4 DEF Wanted
<1> QED BY <1>2, <1>3

\* A descriptor is begun: it is under way, and its frame is on top.
LEMMA BeginKeeps == ASSUME IInv, DescAssumption, NEW p \in Threads, Begin(p) PROVE IInv'
<1> USE DEF IInv
<1> DEFINE d == Own(p, Wanted(p))
           n == Len(stack[p])
<1>1. /\ phase[p] = "build" /\ FramesOf(p) /\ stack[p] \in Seq(Frame) /\ n \in Nat
      /\ Wanted(p) \in Types /\ d \notin DOMAIN desc
      /\ UNCHANGED <<typeCache, phase, root, left, builds, answer>>
  BY WantedType DEF Begin, Wants, FramesUnfilled, TypeOK
<1>2. /\ d \in Descs /\ d.by = p /\ d.build = builds[p] /\ d.type = Wanted(p) /\ UnderWay(d)
  BY <1>1 DEF Own, Descs, TypeOK, UnderWay
<1>3. /\ DOMAIN desc' = DOMAIN desc \cup {d} /\ desc' = [e \in DOMAIN desc' |-> desc'[e]]
      /\ desc'[d] = Blank /\ \A e \in DOMAIN desc : desc'[e] = desc[e]
  BY <1>1 DEF Begin, With
<1>4. /\ stack' = [stack EXCEPT ![p] = Append(stack[p], [type |-> Wanted(p), got |-> <<>>])]
      /\ [type |-> Wanted(p), got |-> <<>>] \in Frame
  BY <1>1 DEF Begin, Frame
<1>5. /\ stack'[p] \in Seq(Frame) /\ Len(stack'[p]) = n + 1
      /\ \A i \in 1..n : stack'[p][i] = stack[p][i]
      /\ stack'[p][n + 1] = [type |-> Wanted(p), got |-> <<>>]
  BY <1>1, <1>4 DEF TypeOK
<1>6. TypeOK'
  <2>1. Record(Blank)
    <3>1. <<>> \in Seq(Descs)
      OBVIOUS
    <3> QED BY <3>1, Zenon DEF Record, Blank
  <2>2. \A e \in DOMAIN desc' : Record(desc'[e])
    BY <2>1, <1>3 DEF TypeOK
  <2>3. DOMAIN desc' \subseteq Descs /\ stack' \in [Threads -> Seq(Frame)]
    BY <1>2, <1>3, <1>4, <1>5 DEF TypeOK
  <2>4. IsFiniteSet(DOMAIN desc')
    <3>1. IsFiniteSet(DOMAIN desc)
      BY DEF TypeOK
    <3> HIDE DEF d
    <3> QED BY <3>1, <1>3, FS_AddElement
  <2> QED BY <1>1, <1>3, <2>2, <2>3, <2>4 DEF TypeOK
<1>7. InCall'
  BY <1>1, <1>2, <1>3, <1>4 DEF InCall, TypeOK
<1>8. Finished' = Finished
  BY <1>1, <1>2, <1>3 DEF Finished, UnderWay
<1>9. /\ InProgress(p)' = InProgress(p) \cup {d}
      /\ \A q \in Threads \ {p} : InProgress(q)' = InProgress(q)
      /\ \A q \in Threads : Sound(q) \subseteq Sound(q)'
      /\ \A q \in Threads : \A t : Own(q, t)' = Own(q, t)
  BY <1>1, <1>2, <1>3, <1>8 DEF InProgress, Sound, Own
<1>10. FramesUnfilled'
  <2> SUFFICES ASSUME NEW q \in Threads, phase'[q] = "build" PROVE FramesOf(q)'
    BY DEF FramesUnfilled
  <2>1. CASE q # p
    <3>1. FramesOf(q) /\ stack'[q] = stack[q] /\ root'[q] = root[q]
      BY <2>1, <1>1, <1>4 DEF TypeOK, FramesUnfilled
    <3>2. \A e \in InProgress(q) : desc'[e] = desc[e]
      BY <1>3 DEF InProgress
    <3> QED BY <2>1, <3>1, <3>2, <1>3, <1>9 DEF FramesOf
  <2>2. CASE q = p
    <3>1. stack'[p][1].type = root'[p]
      <4>1. CASE n = 0
        BY <4>1, <1>1, <1>5 DEF Wanted
      <4>2. CASE n # 0
        BY <4>2, <1>1, <1>5 DEF FramesOf
      <4> QED BY <4>1, <4>2
    <3>2. ASSUME NEW i \in 1..(n + 1) PROVE Own(p, stack'[p][i].type) \in DOMAIN desc'
      <4>1. CASE i = n + 1
        BY <4>1, <1>3, <1>5
      <4>2. CASE i # n + 1
        <5>1. i \in 1..n
          BY <4>2, <1>1
        <5>2. Own(p, stack[p][i].type) \in DOMAIN desc
          BY <5>1, <1>1 DEF FramesOf
        <5> QED BY <5>1, <5>2, <1>3, <1>5
      <4> QED BY <4>1, <4>2
    <3>3. \A i \in 1..n : stack[p][i].type # Wanted(p)
      BY <1>1 DEF FramesOf
    <3>4. ASSUME NEW i \in 1..(n + 1), NEW j \in 1..(n + 1), stack'[p][i].type = stack'[p][j].type
          PROVE  i = j
      <4>1. CASE i \in 1..n /\ j \in 1..n
        BY <4>1, <3>4, <1>1, <1>5 DEF FramesOf
      <4>2. CASE i = n + 1 /\ j \in 1..n
        BY <4>2, <3>3, <3>4, <1>5
      <4>3. CASE i \in 1..n /\ j = n + 1
        BY <4>3, <3>3, <3>4, <1>5
      <4> QED BY <4>1, <4>2, <4>3, <1>1
    <3>5. \A i \in 1..(n + 1) : \A j \in 1..Len(stack'[p][i].got) : stack'[p][i].got[j] \in Sound(p)'
      <4> TAKE i \in 1..(n + 1)
      <4>1. CASE i = n + 1
        BY <4>1, <1>5
      <4>2. CASE i # n + 1
        <5>1. i \in 1..n
          BY <4>2, <1>1
        <5> QED BY <5>1, <1>1, <1>5, <1>9 DEF FramesOf
      <4> QED BY <4>1, <4>2
    <3>6. \A x \in InProgress(p)' :
              desc'[x].ready \/ \E i \in 1..(n + 1) : stack'[p][i].type = x.type
      <4> TAKE x \in InProgress(p)'
      <4>1. CASE x = d
        <5>1. n + 1 \in 1..(n + 1) /\ stack'[p][n + 1].type = x.type
          BY <4>1, <1>1, <1>2, <1>5
        <5> QED BY <5>1
      <4>2. CASE x # d
        <5>1. x \in InProgress(p) /\ desc'[x] = desc[x]
          BY <4>2, <1>3, <1>9 DEF InProgress
        <5>2. CASE desc[x].ready
          BY <5>1, <5>2
        <5>3. CASE \E i \in 1..n : stack[p][i].type = x.type
          <6>1. PICK i \in 1..n : stack[p][i].type = x.type
            BY <5>3
          <6>2. i \in 1..(n + 1) /\ stack'[p][i].type = x.type
            BY <6>1, <1>1, <1>5
          <6> QED BY <6>2
        <5> QED BY <5>1, <5>2, <5>3, <1>1 DEF FramesOf
      <4> QED BY <4>1, <4>2
    <3> QED BY <2>2, <3>1, <3>2, <3>4, <3>5, <3>6, <1>5, <1>9 DEF FramesOf
  <2> QED BY <2>1, <2>2
<1>11. GraphsClosed'
  <2>1. desc'[d].parts = <<>>
    BY <1>3 DEF Blank
  <2>2. \A e \in Finished : desc'[e] = desc[e]
    BY <1>3 DEF Finished
  <2> QED BY <2>1, <2>2, <1>3, <1>8 DEF GraphsClosed
<1>12. CacheFinished' /\ AnswersCached'
  BY <1>1, <1>3, <1>8, <1>9 DEF CacheFinished, AnswersCached
<1> QED BY <1>6, <1>7, <1>10, <1>11, <1>12

\* A build fails: its descriptors are gone, and nothing had them.
LEMMA FailKeeps == ASSUME IInv, NEW p \in Threads, Fail(p) PROVE IInv'
<1> USE DEF IInv
<1>1. /\ phase[p] = "build" /\ phase' = [phase EXCEPT ![p] = "idle"]
      /\ stack' = [stack EXCEPT ![p] = <<>>] /\ root' = [root EXCEPT ![p] = None]
      /\ DOMAIN desc' = DOMAIN desc \ InProgress(p)
      /\ desc' = [d \in DOMAIN desc' |-> desc'[d]]
      /\ \A d \in DOMAIN desc' : desc'[d] = desc[d]
      /\ UNCHANGED <<typeCache, left, builds, answer>>
  BY DEF Fail, Wants
<1>2. TypeOK'
  <2>1. IsFiniteSet(DOMAIN desc')
    BY <1>1, FS_Subset DEF TypeOK
  <2> QED BY <1>1, <2>1 DEF TypeOK
<1>3. InCall'
  BY <1>1 DEF InCall, TypeOK
<1>4. Finished' = Finished
  BY <1>1 DEF Finished, UnderWay, InProgress, TypeOK, Descs
<1>5. /\ \A q \in Threads \ {p} : InProgress(q)' = InProgress(q) /\ Sound(q)' = Sound(q)
      /\ \A q \in Threads : \A t : Own(q, t)' = Own(q, t)
  BY <1>1, <1>4 DEF InProgress, Sound, Own
<1>6. FramesUnfilled'
  <2> SUFFICES ASSUME NEW q \in Threads, phase'[q] = "build" PROVE FramesOf(q)'
    BY DEF FramesUnfilled
  <2>1. q # p /\ FramesOf(q) /\ stack'[q] = stack[q] /\ root'[q] = root[q]
    BY <1>1 DEF TypeOK, FramesUnfilled
  <2>2. \A t : Own(q, t) \in DOMAIN desc => Own(q, t) \in DOMAIN desc'
    BY <2>1, <1>1 DEF Own, InProgress
  <2>3. \A e \in InProgress(q) : desc'[e] = desc[e]
    BY <2>1, <1>1 DEF InProgress
  <2> QED BY <2>1, <2>2, <2>3, <1>5 DEF FramesOf
<1>7. GraphsClosed'
  <2>1. \A d \in DOMAIN desc' : d \in DOMAIN desc /\ (d.by # p \/ d.build # builds[p])
    BY <1>1 DEF InProgress
  <2>2. \A d \in DOMAIN desc : d \in DOMAIN desc' \/ (d.by = p /\ d.build = builds[p])
    BY <1>1 DEF InProgress
  <2>3. \A e \in Finished : desc'[e] = desc[e]
    BY <1>1, <1>4 DEF Finished
  <2> QED BY <2>1, <2>2, <2>3, <1>1, <1>4 DEF GraphsClosed
<1>8. CacheFinished'
  <2>1. ASSUME NEW q \in Threads, phase'[q] = "publish"
        PROVE  /\ \A t \in left'[q] : Own(q, t)' \in DOMAIN desc'
               /\ root'[q] \in DOMAIN typeCache' \cup left'[q]
    <3>1. q # p /\ phase[q] = "publish" /\ root'[q] = root[q]
      BY <2>1, <1>1 DEF TypeOK
    <3>2. \A t : Own(q, t) \in DOMAIN desc => Own(q, t) \in DOMAIN desc'
      BY <3>1, <1>1 DEF Own, InProgress
    <3> QED BY <3>1, <3>2, <1>1, <1>5 DEF CacheFinished
  <2> QED BY <2>1, <1>1, <1>4 DEF CacheFinished
<1>9. AnswersCached'
  BY <1>1 DEF AnswersCached
<1> QED BY <1>2, <1>3, <1>6, <1>7, <1>8, <1>9

\* A descriptor is filled with what its frame has got, its frame is gone, and it
\* is supplied to the frame below: or to the call, then all of the context is
\* filled.
LEMMA FillKeeps == ASSUME IInv, NEW p \in Threads, Fill(p) PROVE IInv'
<1> USE DEF IInv
<1> DEFINE d == Own(p, Top(p).type)
           n == Len(stack[p])
           rest == Front(stack[p])
<1>1. /\ phase[p] = "build" /\ FramesOf(p) /\ stack[p] \in Seq(Frame) /\ n \in Nat \ {0}
      /\ Top(p) = stack[p][n] /\ Top(p) \in Frame
      /\ UNCHANGED <<typeCache, root, builds, answer>>
  BY DEF Fill, Wants, Top, FramesUnfilled, TypeOK
<1>2. /\ d \in DOMAIN desc /\ d \in Descs /\ d.by = p /\ d.build = builds[p] /\ d.type = Top(p).type
      /\ d \in InProgress(p) /\ Top(p).got \in Seq(Descs)
      /\ \A j \in 1..Len(Top(p).got) : Top(p).got[j] \in Sound(p)
  <2>1. n \in 1..Len(stack[p])
    BY <1>1
  <2>2. d \in DOMAIN desc /\ \A j \in 1..Len(Top(p).got) : Top(p).got[j] \in Sound(p)
    BY <2>1, <1>1 DEF FramesOf
  <2>3. d \in Descs /\ d.by = p /\ d.build = builds[p] /\ d.type = Top(p).type
    BY <2>2 DEF TypeOK, Own
  <2>4. Top(p).got \in Seq(Descs)
    BY <1>1 DEF Frame
  <2> QED BY <2>2, <2>3, <2>4 DEF InProgress
<1>3. /\ DOMAIN desc' = DOMAIN desc /\ desc' = [e \in DOMAIN desc' |-> desc'[e]]
      /\ \A e \in DOMAIN desc : e # d => desc'[e] = desc[e]
      /\ desc'[d].ready /\ desc'[d].parts = Top(p).got /\ Record(desc'[d])
  <2>1. PICK yes, plan, fp : yes = TRUE /\
            desc' = [[desc EXCEPT ![d] = [@ EXCEPT !.parts = Top(p).got, !.ready = yes]]
                        EXCEPT ![d].plan = plan, ![d].schemaFP = fp]
    BY DEF Fill, Filled
  <2> DEFINE q == [desc[d] EXCEPT !.parts = Top(p).got, !.ready = yes]
             r == [ready |-> yes, parts |-> Top(p).got, plan |-> plan, schemaFP |-> fp]
  <2>2. desc'[d] = r
    <3>1. PICK a, b, c, e : desc[d] = [ready |-> a, parts |-> b, plan |-> c, schemaFP |-> e]
      BY <1>2 DEF TypeOK, Record
    <3>2. q = [ready |-> yes, parts |-> Top(p).got, plan |-> c, schemaFP |-> e]
      <4> DEFINE f == [desc[d] EXCEPT !.parts = Top(p).got]
      <4>1. f = [ready |-> a, parts |-> Top(p).got, plan |-> c, schemaFP |-> e]
        BY <3>1
      <4>2. [f EXCEPT !.ready = yes] = [ready |-> yes, parts |-> Top(p).got, plan |-> c, schemaFP |-> e]
        <5> HIDE DEF f
        <5> QED BY <4>1
      <4>3. q = [f EXCEPT !.ready = yes]
        <5> HIDE DEF d
        <5> QED OBVIOUS
      <4> QED BY <4>2, <4>3
    <3>3. desc'[d] = [[q EXCEPT !.plan = plan] EXCEPT !.schemaFP = fp]
      <4> HIDE DEF d
      <4> QED BY <1>2, <2>1
    <3> HIDE DEF q
    <3> QED BY <3>2, <3>3
  <2>3. Record(r)
    BY <1>2, <2>1 DEF Record
  <2> QED BY <1>2, <2>1, <2>2, <2>3 DEF TypeOK
<1>4. rest \in Seq(Frame) /\ Len(rest) = n - 1 /\ \A i \in 1..(n - 1) : rest[i] = stack[p][i]
  BY <1>1 DEF Front
<1>5. \A e \in DOMAIN desc' : Record(desc'[e])
  BY <1>3 DEF TypeOK
<1>6. \A q \in Threads : InProgress(q)' = InProgress(q)
  BY <1>1, <1>3 DEF InProgress
<1>7. \A q \in Threads : \A t : Own(q, t)' = Own(q, t)
  BY <1>1 DEF Own
<1>8. ASSUME NEW i \in 1..(n - 1) PROVE rest[i].type # d.type
  <2>1. i \in 1..n /\ n \in 1..n /\ i # n
    BY <1>1
  <2>2. stack[p][i].type # stack[p][n].type
    BY <2>1, <1>1 DEF FramesOf
  <2> QED BY <2>2, <1>1, <1>2, <1>4
<1>9. \A x \in InProgress(p) :
          desc'[x].ready \/ \E i \in 1..(n - 1) : rest[i].type = x.type
  <2> TAKE x \in InProgress(p)
  <2>1. CASE x = d
    BY <2>1, <1>3
  <2>2. CASE x # d
    <3>1. desc'[x] = desc[x] /\ x.type # d.type
      <4>1. x \in DOMAIN desc /\ x \in Descs /\ x.by = p /\ x.build = builds[p]
        BY DEF InProgress, TypeOK
      <4>2. x.type = d.type => x = d
        BY <4>1, <1>2 DEF Descs
      <4> HIDE DEF d
      <4> QED BY <2>2, <4>1, <4>2, <1>3
    <3>2. CASE desc[x].ready
      BY <3>1, <3>2
    <3>3. CASE \E i \in 1..n : stack[p][i].type = x.type
      <4>1. PICK i \in 1..n : stack[p][i].type = x.type
        BY <3>3
      <4>2. i # n
        BY <4>1, <3>1, <1>1, <1>2
      <4>3. i \in 1..(n - 1) /\ rest[i].type = x.type
        BY <4>1, <4>2, <1>1, <1>4
      <4> QED BY <4>3
    <3> QED BY <3>2, <3>3, <1>1 DEF FramesOf
  <2> QED BY <2>1, <2>2
<1>10. ASSUME NEW q \in Threads, q # p, phase[q] = "build", stack'[q] = stack[q],
              Sound(q) \subseteq Sound(q)'
       PROVE  FramesOf(q)'
  <2>1. FramesOf(q) /\ root'[q] = root[q]
    BY <1>10, <1>1 DEF FramesUnfilled
  <2>2. \A e \in InProgress(q) : desc'[e] = desc[e]
    BY <1>10, <1>2, <1>3 DEF InProgress
  <2> QED BY <1>10, <2>1, <2>2, <1>3, <1>6, <1>7 DEF FramesOf
<1>11. AnswersCached'
  BY <1>1 DEF AnswersCached
<1>12. ASSUME Finished \subseteq Finished', \A x \in Finished' : desc'[x].ready
       PROVE  GraphsClosed'
  <2>1. ASSUME NEW e \in DOMAIN desc', NEW i \in 1..Len(desc'[e].parts)
        PROVE  \/ desc'[e].parts[i] \in Finished'
               \/ /\ desc'[e].parts[i] \in DOMAIN desc'
                  /\ desc'[e].parts[i].by = e.by /\ desc'[e].parts[i].build = e.build
    <3>1. CASE e = d
      BY <3>1, <1>2, <1>3, <1>12 DEF Sound, InProgress
    <3>2. CASE e # d
      BY <3>2, <1>3, <1>12 DEF GraphsClosed
    <3> QED BY <3>1, <3>2
  <2> QED BY <1>12, <2>1 DEF GraphsClosed
<1>13. CASE rest = <<>>
  <2>1. /\ n = 1 /\ phase' = [phase EXCEPT ![p] = "publish"]
        /\ stack' = [stack EXCEPT ![p] = <<>>]
        /\ left' = [left EXCEPT ![p] = {x.type : x \in InProgress(p)}]
    BY <1>1, <1>4, <1>13 DEF Fill, Supply
  <2>2. TypeOK'
    <3>1. left' \in [Threads -> SUBSET Types]
      <4>1. {x.type : x \in InProgress(p)} \subseteq Types
        BY DEF InProgress, TypeOK, Descs
      <4> QED BY <2>1, <4>1 DEF TypeOK
    <3>2. stack' \in [Threads -> Seq(Frame)]
      BY <2>1 DEF TypeOK
    <3> QED BY <2>1, <3>1, <3>2, <1>1, <1>3, <1>5 DEF TypeOK
  <2>3. InCall'
    BY <2>1, <1>1, <1>3 DEF InCall, TypeOK
  <2>4. Finished' = Finished \cup InProgress(p)
    BY <2>1, <1>1, <1>3 DEF Finished, UnderWay, InProgress, TypeOK, Descs
  <2>5. FramesUnfilled'
    <3> SUFFICES ASSUME NEW q \in Threads, phase'[q] = "build" PROVE FramesOf(q)'
      BY DEF FramesUnfilled
    <3>1. q # p /\ phase[q] = "build" /\ stack'[q] = stack[q]
      BY <2>1 DEF TypeOK
    <3>2. Sound(q) \subseteq Sound(q)'
      BY <2>4, <1>6 DEF Sound
    <3> QED BY <3>1, <3>2, <1>10
  <2>6. \A x \in Finished' : desc'[x].ready
    <3>1. \A x \in InProgress(p) : desc'[x].ready
      BY <1>9, <2>1
    <3>2. \A x \in Finished : x # d /\ desc'[x] = desc[x]
      BY <1>1, <1>2, <1>3 DEF Finished, UnderWay
    <3> QED BY <3>1, <3>2, <2>4 DEF GraphsClosed
  <2>7. GraphsClosed'
    BY <1>12, <2>4, <2>6
  <2>8. CacheFinished'
    <3>1. ASSUME NEW q \in Threads, phase'[q] = "publish"
          PROVE  /\ \A t \in left'[q] : Own(q, t)' \in DOMAIN desc'
                 /\ root'[q] \in DOMAIN typeCache' \cup left'[q]
      <4>1. CASE q = p
        <5>1. \A x \in InProgress(p) : x = Own(p, x.type) /\ x \in DOMAIN desc'
          BY <1>3 DEF InProgress, Own, TypeOK, Descs
        <5>2. root[p] = d.type
          BY <1>1, <1>2, <2>1 DEF FramesOf
        <5>3. left'[p] = {x.type : x \in InProgress(p)}
          BY <2>1 DEF TypeOK
        <5> QED BY <4>1, <5>1, <5>2, <5>3, <1>1, <1>2, <1>7
      <4>2. CASE q # p
        BY <4>2, <3>1, <2>1, <1>1, <1>3, <1>7 DEF TypeOK, CacheFinished
      <4> QED BY <4>1, <4>2
    <3> QED BY <3>1, <2>4, <1>1 DEF CacheFinished
  <2> QED BY <1>11, <2>2, <2>3, <2>5, <2>7, <2>8
<1>14. CASE rest # <<>>
  <2> DEFINE top == [rest[n - 1] EXCEPT !.got = Append(@, d)]
  <2>1. /\ n - 1 \in Nat \ {0} /\ rest[n - 1] \in Frame
        /\ stack' = [stack EXCEPT ![p] = [rest EXCEPT ![n - 1] = top]]
        /\ UNCHANGED <<phase, left>>
    BY <1>1, <1>4, <1>14 DEF Fill, Supply
  <2>2. top \in Frame /\ top.type = rest[n - 1].type /\ top.got = Append(rest[n - 1].got, d)
        /\ rest[n - 1].got \in Seq(Descs)
    <3>1. rest[n - 1].got \in Seq(Descs) /\ rest[n - 1].type \in Types
      BY <2>1 DEF Frame
    <3>2. Append(rest[n - 1].got, d) \in Seq(Descs)
      BY <3>1, <1>2
    <3> QED BY <2>1, <3>1, <3>2 DEF Frame
  <2>3. /\ stack'[p] \in Seq(Frame) /\ Len(stack'[p]) = n - 1
        /\ \A i \in 1..(n - 1) : stack'[p][i].type = stack[p][i].type
        /\ \A i \in 1..(n - 1) : i # n - 1 => stack'[p][i] = stack[p][i]
        /\ stack'[p][n - 1] = top
    <3>1. stack'[p] = [rest EXCEPT ![n - 1] = top]
      BY <2>1 DEF TypeOK
    <3>2. n - 1 \in 1..Len(rest)
      <4>1. n - 1 \in 1..(n - 1)
        <5> HIDE DEF d, n, rest, top
        <5> QED BY <2>1, <1>1
      <4>2. Len(rest) = n - 1
        BY <1>4
      <4> HIDE DEF rest
      <4> QED BY <4>1, <4>2
    <3> HIDE DEF rest, top
    <3>3. [rest EXCEPT ![n - 1] = top] \in Seq(Frame)
      BY <3>2, <2>2, <1>4
    <3>4. \A i \in 1..(n - 1) : rest[i].type = stack[p][i].type
      BY <1>4
    <3>5. Len(stack'[p]) = n - 1 /\ stack'[p][n - 1] = top
      BY <3>1, <3>2, <3>3, <1>4
    <3>6. \A i \in 1..(n - 1) : i # n - 1 => stack'[p][i] = rest[i]
      BY <3>1, <3>2, <1>4
    <3>7. \A i \in 1..(n - 1) : stack'[p][i].type = stack[p][i].type
      BY <3>4, <3>5, <3>6, <2>2
    <3> QED BY <3>1, <3>3, <3>5, <3>6, <3>7, <1>4
  <2>4. TypeOK'
    <3>1. stack' \in [Threads -> Seq(Frame)]
      BY <2>1, <2>3 DEF TypeOK
    <3> QED BY <2>1, <3>1, <1>1, <1>3, <1>5 DEF TypeOK
  <2>5. InCall'
    BY <2>1, <1>1, <1>3 DEF InCall, TypeOK
  <2>6. Finished' = Finished /\ \A q \in Threads : Sound(q)' = Sound(q)
    BY <2>1, <1>1, <1>3, <1>6 DEF Finished, UnderWay, Sound
  <2>7. FramesOf(p)'
    <3>1. stack'[p][1].type = root'[p]
      BY <1>1, <2>1, <2>3 DEF FramesOf
    <3>2. \A i \in 1..(n - 1) : Own(p, stack'[p][i].type) \in DOMAIN desc'
      <4> TAKE i \in 1..(n - 1)
      <4>1. i \in 1..n /\ stack'[p][i].type = stack[p][i].type
        BY <2>3, <1>1
      <4> QED BY <4>1, <1>1, <1>3 DEF FramesOf
    <3>3. \A i, j \in 1..(n - 1) : stack'[p][i].type = stack'[p][j].type => i = j
      <4> TAKE i, j \in 1..(n - 1)
      <4>1. i \in 1..n /\ j \in 1..n
        BY <1>1
      <4> QED BY <4>1, <2>3, <1>1 DEF FramesOf
    <3>4. \A i \in 1..(n - 1) : \A j \in 1..Len(stack'[p][i].got) : stack'[p][i].got[j] \in Sound(p)
      <4> TAKE i \in 1..(n - 1)
      <4>1. i \in 1..n
        BY <1>1
      <4>2. \A j \in 1..Len(stack[p][i].got) : stack[p][i].got[j] \in Sound(p)
        BY <4>1, <1>1 DEF FramesOf
      <4>3. CASE i # n - 1
        BY <4>2, <4>3, <2>3
      <4>4. CASE i = n - 1
        <5>1. rest[n - 1] = stack[p][i] /\ d \in Sound(p)
          BY <4>4, <1>2, <1>4 DEF Sound
        <5>2. stack'[p][i].got = Append(stack[p][i].got, d) /\ stack[p][i].got \in Seq(Descs)
          BY <4>4, <5>1, <2>2, <2>3
        <5> HIDE DEF rest, top, d
        <5> QED BY <4>2, <5>1, <5>2, <1>2
      <4> QED BY <4>3, <4>4
    <3>5. \A x \in InProgress(p) :
              desc'[x].ready \/ \E i \in 1..(n - 1) : stack'[p][i].type = x.type
      BY <1>4, <1>9, <2>3
    <3> QED BY <3>1, <3>2, <3>3, <3>4, <3>5, <2>3, <2>6, <1>6, <1>7 DEF FramesOf
  <2>8. FramesUnfilled'
    <3> SUFFICES ASSUME NEW q \in Threads, phase'[q] = "build" PROVE FramesOf(q)'
      BY DEF FramesUnfilled
    <3>1. CASE q # p
      BY <3>1, <2>1, <2>6, <1>10 DEF TypeOK
    <3> QED BY <3>1, <2>7
  <2>9. \A x \in Finished' : desc'[x].ready
    BY <1>1, <1>2, <1>3, <2>6 DEF Finished, UnderWay, GraphsClosed
  <2>10. GraphsClosed'
    BY <1>12, <2>6, <2>9
  <2>11. CacheFinished'
    BY <2>1, <2>6, <1>1, <1>3, <1>7 DEF CacheFinished
  <2> QED BY <1>11, <2>4, <2>5, <2>8, <2>10, <2>11
<1> QED BY <1>13, <1>14

\* Every step of every goroutine keeps the invariant.
LEMMA InvariantStep == ASSUME IInv, [Next]_vars PROVE IInv'
<1>1. ASSUME NEW p \in Threads, Step(p) PROVE IInv'
  BY <1>1, DescAssumption, HitKeeps, MissKeeps, UseCachedKeeps, UseOwnKeeps, BeginKeeps,
     FailKeeps, FillKeeps, PublishKeeps, AnswerKeeps DEF Step
<1>2. ASSUME NEW p \in Threads, NEW t \in Types, Call(p, t) PROVE IInv'
  BY <1>2, CallKeeps
<1>3. CASE UNCHANGED vars
  <2> USE <1>3 DEF vars, IInv
  <2>1. TypeOK' /\ InCall'
    BY DEF TypeOK, InCall
  <2>2. FramesUnfilled' /\ GraphsClosed' /\ Finished' = Finished
    BY GraphsStay DEF TypeOK
  <2>3. CacheFinished' /\ AnswersCached'
    BY <2>2 DEF CacheFinished, AnswersCached, Own
  <2> QED BY <2>1, <2>2, <2>3
<1> QED BY <1>1, <1>2, <1>3 DEF Next

\* The invariant holds in every state.
THEOREM InvariantHolds == Spec => []IInv
<1>1. IInv /\ [Next]_vars => IInv'
  BY InvariantStep
<1> QED BY InitInv, <1>1, PTL DEF Spec

-----------------------------------------------------------------------------
(* What follows from it *)

\* What the descriptors of S lead to stays in every set that holds S and the
\* parts of its own.
LEMMA ReachStays ==
    ASSUME NEW ds, NEW S, NEW C, S \subseteq C, \A d \in C : PartsOf(ds, d) \subseteq C,
           IsFiniteSet(DOMAIN ds)
    PROVE  Reach(ds, S) \subseteq C
<1>1. PICK near : near = CHOOSE g : g = [n \in Nat |->
               IF n = 0 THEN S ELSE g[n - 1] \cup UNION {PartsOf(ds, d) : d \in g[n - 1]}]
  OBVIOUS
<1>2. Reach(ds, S) = near[Cardinality(DOMAIN ds)]
  BY <1>1 DEF Reach
<1>3. Cardinality(DOMAIN ds) \in Nat
  BY FS_CardinalityType
<1> DEFINE F == [X \in SUBSET C |-> X \cup UNION {PartsOf(ds, d) : d \in X}]
<1>4. F \in [SUBSET C -> SUBSET C]
  OBVIOUS
<1>5. PICK g \in [Nat -> SUBSET C] : g[0] = S /\ \A n \in Nat : g[n + 1] = F[g[n]]
  <2>1. S \in SUBSET C
    OBVIOUS
  <2> HIDE DEF F
  <2>2. \E g \in [Nat -> SUBSET C] : g[0] = S /\ \A n \in Nat : g[n + 1] = F[g[n]]
    <3>1. \E g \in [Nat -> SUBSET C] : Iterates(g, S, F)
      BY <1>4, <2>1, Iteration
    <3> QED BY <3>1 DEF Iterates
  <2> QED BY <2>2
<1>6. g = [n \in Nat |->
          IF n = 0 THEN S ELSE g[n - 1] \cup UNION {PartsOf(ds, d) : d \in g[n - 1]}]
  <2>1. ASSUME NEW n \in Nat, n # 0
        PROVE  g[n] = g[n - 1] \cup UNION {PartsOf(ds, d) : d \in g[n - 1]}
    <3>1. n - 1 \in Nat /\ (n - 1) + 1 = n
      BY <2>1
    <3>2. g[n] = F[g[n - 1]] /\ g[n - 1] \in SUBSET C
      BY <1>5, <3>1
    <3> QED BY <3>2
  <2> QED BY <1>5, <2>1
<1>7. near = [n \in Nat |->
          IF n = 0 THEN S ELSE near[n - 1] \cup UNION {PartsOf(ds, d) : d \in near[n - 1]}]
  BY <1>6, <1>1
<1> DEFINE Out == {n \in Nat : ~ (near[n] \subseteq C)}
<1>8. Out = {}
  <2> SUFFICES ASSUME Out # {} PROVE FALSE
    OBVIOUS
  <2>1. PICK n \in Out : \A k \in Out : n <= k
    <3>1. Out \in SUBSET Nat
      OBVIOUS
    <3> HIDE DEF Out
    <3> QED BY <3>1, Least
  <2>2. n # 0
    BY <1>7
  <2>3. n - 1 \in Nat /\ near[n - 1] \subseteq C
    <3>1. n - 1 \in Nat /\ n - 1 < n
      BY <2>2
    <3> QED BY <2>1, <3>1
  <2>4. near[n] = near[n - 1] \cup UNION {PartsOf(ds, d) : d \in near[n - 1]}
    BY <1>7, <2>2
  <2> QED BY <2>3, <2>4
<1> QED BY <1>8, <1>2, <1>3

\* What can be loaded from the cache or was returned leads to finished
\* descriptors only: what is usable is finished, and the finished descriptors
\* have only finished ones for parts.
THEOREM CachedGraphsAreComplete == Spec => []GraphsComplete
<1>1. IInv => GraphsComplete
  <2> SUFFICES ASSUME IInv PROVE GraphsComplete
    OBVIOUS
  <2>1. Usable \subseteq Finished
    BY DEF Usable, IInv, CacheFinished, AnswersCached
  <2>2. ASSUME NEW d \in Finished PROVE PartsOf(desc, d) \subseteq Finished
    <3>1. d \in DOMAIN desc /\ desc[d].parts \in Seq(Descs) /\ d \in Descs
      BY DEF IInv, TypeOK, Record, Finished
    <3>2. ASSUME NEW i \in 1..Len(desc[d].parts) PROVE desc[d].parts[i] \in Finished
      BY <3>1 DEF IInv, GraphsClosed, Finished, UnderWay
    <3> QED BY <3>1, <3>2 DEF PartsOf
  <2>3. Reach(desc, Usable) \subseteq Finished
    BY <2>1, <2>2, ReachStays DEF IInv, TypeOK
  <2> QED BY <2>3 DEF GraphsComplete, IInv, GraphsClosed
<1> QED BY <1>1, InvariantHolds, PTL

\* Two goroutines that ask for one type get one descriptor, and so one schema
\* fingerprint, whichever of them was first to publish it.
THEOREM OneSchemaPerType == Spec => []SchemasAgree
<1>1. IInv => SchemasAgree
  BY DEF IInv, AnswersCached, SchemasAgree
<1> QED BY <1>1, InvariantHolds, PTL
=============================================================================
