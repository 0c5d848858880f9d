---------------------------- MODULE StreamProofs ----------------------------
(***************************************************************************)
(* Stream, for every set of messages, every size of body, prefix, header   *)
(* and flush threshold, and any number of streams: no byte is lost, sent   *)
(* twice or moved, the next message is the one that is handed out, and a   *)
(* clean end is a clean one.                                               *)
(***************************************************************************)
EXTENDS Stream, SequenceTheorems, NaturalsInduction, WellFoundedInduction, TLAPS

-----------------------------------------------------------------------------
(* Sequences put end to end *)

\* The less-than relation on the naturals is well founded, as a set of pairs.
LEMMA NatLessWellFounded ==
    ASSUME NEW R, R = {p \in Nat \X Nat : p[1] < p[2]}
    PROVE  IsWellFoundedOn(R, Nat)
<1>1. R = OpToRel(<, Nat)
  BY DEF OpToRel
<1> QED BY <1>1, NatLessThanWellFounded

\* A set of positive numbers that is not empty has a least element, and the
\* number before that one, if it is positive, is not in the set.
LEMMA Least ==
    ASSUME NEW S \in SUBSET (Nat \ {0}), S # {}
    PROVE  \E m \in S : m = 1 \/ (m - 1 \in Nat \ {0} /\ m - 1 \notin S)
<1>1. PICK R : R = {p \in Nat \X Nat : p[1] < p[2]}
  OBVIOUS
<1>2. PICK m \in S : \A n \in S : ~ (<<n, m>> \in R)
  BY <1>1, NatLessWellFounded, WFMin
<1>3. ASSUME m # 1 PROVE m - 1 \in Nat \ {0} /\ m - 1 \notin S
  <2>1. m \in Nat /\ m - 1 \in Nat \ {0} /\ m - 1 < m
    BY <1>3
  <2>2. <<m - 1, m>> \in R
    BY <1>1, <2>1
  <2> QED BY <1>2, <2>1, <2>2
<1> QED BY <1>3

\* Concatenation as an operator of its own, with what is known of it.
Cat(a, b) == a \o b

LEMMA CatType ==
    ASSUME NEW C, NEW a \in Seq(C), NEW b \in Seq(C)
    PROVE  /\ Cat(a, b) \in Seq(C) /\ Len(Cat(a, b)) = Len(a) + Len(b)
           /\ \A i \in 1 .. Len(a) : Cat(a, b)[i] = a[i]
           /\ \A i \in 1 .. Len(b) : Cat(a, b)[Len(a) + i] = b[i]
<1>1. /\ a \o b \in Seq(C) /\ Len(a \o b) = Len(a) + Len(b)
      /\ \A i \in 1 .. Len(a) + Len(b) :
             (a \o b)[i] = IF i <= Len(a) THEN a[i] ELSE b[i - Len(a)]
  BY ConcatProperties
<1>2. Cat(a, b) = a \o b
  BY DEF Cat
<1>3. PICK c : c = a \o b
  OBVIOUS
<1>4. \A i \in 1 .. Len(a) : c[i] = a[i]
  BY <1>1, <1>3
<1>5. \A i \in 1 .. Len(b) : c[Len(a) + i] = b[i]
  BY <1>1, <1>3
<1> QED BY <1>1, <1>2, <1>3, <1>4, <1>5

LEMMA CatAssoc ==
    ASSUME NEW C, NEW a \in Seq(C), NEW b \in Seq(C), NEW c \in Seq(C)
    PROVE  Cat(Cat(a, b), c) = Cat(a, Cat(b, c))
<1>1. (a \o b) \o c = a \o (b \o c)
  BY ConcatAssociative
<1> QED BY <1>1 DEF Cat

LEMMA CatEmpty ==
    ASSUME NEW C, NEW a \in Seq(C)
    PROVE  Cat(a, <<>>) = a /\ Cat(<<>>, a) = a
<1>1. a \o <<>> = a /\ <<>> \o a = a
  BY ConcatEmptySeq
<1> QED BY <1>1 DEF Cat

\* f[i] is the first i sequences of q, put end to end.
Joins(f, q) ==
    f = [i \in 1 .. Len(q) |-> IF i = 1 THEN q[i] ELSE Cat(f[i - 1], q[i])]

LEMMA JoinsStep ==
    ASSUME NEW q, NEW f, NEW n \in Nat, Len(q) = n, Joins(f, q)
    PROVE  /\ n >= 1 => f[1] = q[1]
           /\ \A i \in 2 .. n : f[i] = Cat(f[i - 1], q[i])
<1>1. \A i \in 1 .. n : f[i] = IF i = 1 THEN q[i] ELSE Cat(f[i - 1], q[i])
  BY DEF Joins
<1>2. n >= 1 => f[1] = q[1]
  BY <1>1
<1>3. ASSUME NEW i \in 2 .. n PROVE f[i] = Cat(f[i - 1], q[i])
  BY <1>1
<1> QED BY <1>2, <1>3

LEMMA JoinsType ==
    ASSUME NEW C, NEW q \in Seq(Seq(C)), NEW f, Joins(f, q), NEW i \in 1 .. Len(q)
    PROVE  f[i] \in Seq(C)
<1> DEFINE Odd == {k \in 1 .. Len(q) : f[k] \notin Seq(C)}
<1>1. Odd = {}
  <2> SUFFICES ASSUME Odd # {} PROVE FALSE
    OBVIOUS
  <2>1. PICK m \in Odd : m = 1 \/ (m - 1 \in Nat \ {0} /\ m - 1 \notin Odd)
    <3>1. Odd \in SUBSET (Nat \ {0})
      OBVIOUS
    <3> HIDE DEF Odd
    <3> QED BY <3>1, Least
  <2>2. /\ Len(q) >= 1 => f[1] = q[1]
        /\ \A k \in 2 .. Len(q) : f[k] = Cat(f[k - 1], q[k])
    BY JoinsStep
  <2>3. q[m] \in Seq(C) /\ m \in 1 .. Len(q) /\ f[m] \notin Seq(C)
    OBVIOUS
  <2>6. m # 1 => m - 1 \in Nat \ {0} /\ f[m - 1] \in Seq(C)
    BY <2>1, <2>3
  <2> HIDE DEF Odd
  <2>4. CASE m = 1
    BY <2>2, <2>3, <2>4
  <2>5. CASE m # 1
    <3>1. f[m - 1] \in Seq(C)
      BY <2>5, <2>6
    <3>2. f[m] = Cat(f[m - 1], q[m])
      BY <2>2, <2>3, <2>5
    <3>3. f[m] \in Seq(C)
      BY <2>3, <3>1, <3>2, CatType
    <3> QED BY <2>3, <3>3
  <2> QED BY <2>4, <2>5
<1> QED BY <1>1

LEMMA JoinsExists ==
    ASSUME NEW C, NEW q \in Seq(Seq(C)), q # <<>>
    PROVE  \E f : Joins(f, q)
<1> DEFINE L == Len(q)
           Upto(f, n) == f = [i \in 1 .. n |-> IF i = 1 THEN q[i] ELSE Cat(f[i - 1], q[i])]
           Short == {n \in 1 .. L : ~ \E f : Upto(f, n)}
<1>1. L \in Nat /\ L > 0
  OBVIOUS
<1> HIDE DEF Upto, L
<1>2. Short = {}
  <2> SUFFICES ASSUME Short # {} PROVE FALSE
    OBVIOUS
  <2>1. PICK m \in Short : m = 1 \/ (m - 1 \in Nat \ {0} /\ m - 1 \notin Short)
    <3>1. Short \in SUBSET (Nat \ {0})
      BY <1>1
    <3> HIDE DEF Short
    <3> QED BY <3>1, Least
  <2>2. CASE m = 1
    <3> DEFINE h == [i \in 1 .. 1 |-> q[i]]
    <3>1. h = [i \in 1 .. 1 |-> IF i = 1 THEN q[i] ELSE Cat(h[i - 1], q[i])]
      OBVIOUS
    <3> HIDE DEF h
    <3>2. Upto(h, 1)
      BY <3>1 DEF Upto
    <3> QED BY <2>2, <3>2
  <2>3. CASE m # 1
    <3>1. m \in 1 .. L /\ m - 1 \in 1 .. L /\ m - 1 \notin Short /\ m # 1
      BY <1>1, <2>1, <2>3
    <3>2. PICK g : Upto(g, m - 1)
      BY <3>1
    <3> DEFINE h == [i \in 1 .. m |-> IF i = m THEN Cat(g[m - 1], q[m]) ELSE g[i]]
    <3>3. ASSUME NEW i \in 1 .. m
          PROVE  h[i] = IF i = 1 THEN q[i] ELSE Cat(h[i - 1], q[i])
      <4>1. CASE i = m
        <5>1. m - 1 \in 1 .. m /\ m - 1 # m
          BY <3>1
        <5>2. h[i] = Cat(g[m - 1], q[m]) /\ h[m - 1] = g[m - 1]
          BY <4>1, <5>1
        <5> HIDE DEF h
        <5> QED BY <3>1, <4>1, <5>2
      <4>2. CASE i # m
        <5>1. i \in 1 .. m - 1 /\ h[i] = g[i]
          BY <3>1, <4>2
        <5>2. g[i] = IF i = 1 THEN q[i] ELSE Cat(g[i - 1], q[i])
          BY <3>2, <5>1 DEF Upto
        <5>3. i # 1 => i - 1 \in 1 .. m /\ i - 1 # m
          BY <3>1, <5>1
        <5>4. i # 1 => h[i - 1] = g[i - 1]
          BY <5>3
        <5> HIDE DEF h
        <5> QED BY <5>1, <5>2, <5>4
      <4> QED BY <4>1, <4>2
    <3>4. h = [i \in 1 .. m |-> h[i]]
      OBVIOUS
    <3> HIDE DEF h
    <3>5. Upto(h, m)
      BY <3>3, <3>4 DEF Upto
    <3> QED BY <3>1, <3>5
  <2> QED BY <2>2, <2>3
<1>3. L \in 1 .. L
  BY <1>1
<1>4. \E f : Upto(f, L)
  BY <1>2, <1>3
<1> QED BY <1>4 DEF Joins, Upto, L

LEMMA FlattenIs ==
    ASSUME NEW C, NEW q \in Seq(Seq(C)), q # <<>>, NEW n, n = Len(q)
    PROVE  \E f : Joins(f, q) /\ FlattenSeq(q) = f[n]
<1>1. PICK f : f = CHOOSE g : g = [i \in 1 .. Len(q) |->
                                    IF i = 1 THEN q[i] ELSE g[i - 1] \o q[i]]
  OBVIOUS
<1>2. Joins(f, q)
  BY <1>1, JoinsExists DEF Joins, Cat
<1>3. Len(q) # 0
  OBVIOUS
<1>4. FlattenSeq(q) = f[n]
  BY <1>1, <1>3 DEF FlattenSeq
<1> QED BY <1>2, <1>4

LEMMA FlattenType ==
    ASSUME NEW C, NEW q \in Seq(Seq(C))
    PROVE  FlattenSeq(q) \in Seq(C) /\ (q = <<>> => FlattenSeq(q) = <<>>)
<1>1. CASE q = <<>>
  BY <1>1 DEF FlattenSeq
<1>2. CASE q # <<>>
  <2>1. PICK f : Joins(f, q) /\ FlattenSeq(q) = f[Len(q)]
    BY <1>2, FlattenIs
  <2>2. Len(q) \in 1 .. Len(q)
    BY <1>2
  <2> QED BY <1>2, <2>1, <2>2, JoinsType
<1> QED BY <1>1, <1>2

\* What two joins agree on they agree on to the end.
LEMMA JoinsAgree ==
    ASSUME NEW p, NEW q, NEW f, NEW g, NEW L \in Nat, NEW K \in Nat, Len(p) = K,
           Len(q) = L, L <= K, Joins(f, q), Joins(g, p), \A i \in 1 .. L : p[i] = q[i]
    PROVE  \A k \in 1 .. L : g[k] = f[k]
<1> DEFINE Odd == {k \in 1 .. L : g[k] # f[k]}
<1>1. Odd = {}
  <2> SUFFICES ASSUME Odd # {} PROVE FALSE
    OBVIOUS
  <2>1. PICK m \in Odd : m = 1 \/ (m - 1 \in Nat \ {0} /\ m - 1 \notin Odd)
    <3>1. Odd \in SUBSET (Nat \ {0})
      OBVIOUS
    <3> HIDE DEF Odd
    <3> QED BY <3>1, Least
  <2>2. /\ m \in 1 .. L /\ m \in 1 .. K /\ p[m] = q[m] /\ g[m] # f[m]
        /\ L >= 1 /\ K >= 1
    OBVIOUS
  <2>6. m # 1 => m - 1 \in Nat \ {0} /\ g[m - 1] = f[m - 1]
    BY <2>1, <2>2
  <2> HIDE DEF Odd
  <2>7. f[1] = q[1] /\ \A k \in 2 .. L : f[k] = Cat(f[k - 1], q[k])
    BY <2>2, JoinsStep
  <2>8. g[1] = p[1] /\ \A k \in 2 .. K : g[k] = Cat(g[k - 1], p[k])
    BY <2>2, JoinsStep
  <2>4. CASE m = 1
    BY <2>2, <2>4, <2>7, <2>8
  <2>5. CASE m # 1
    <3>1. m \in 2 .. L /\ m \in 2 .. K
      BY <2>2, <2>5
    <3> QED BY <2>2, <2>5, <2>6, <2>7, <2>8, <3>1
  <2> QED BY <2>4, <2>5
<1> QED BY <1>1

\* A sequence more at the end.
LEMMA FlattenAppend ==
    ASSUME NEW C, NEW q \in Seq(Seq(C)), NEW x \in Seq(C), NEW p \in Seq(Seq(C)),
           NEW L \in Nat, Len(q) = L, Len(p) = L + 1, p[L + 1] = x,
           \A i \in 1 .. L : p[i] = q[i]
    PROVE  FlattenSeq(p) = Cat(FlattenSeq(q), x)
<1>1. p # <<>>
  OBVIOUS
<1>2. PICK g : Joins(g, p) /\ FlattenSeq(p) = g[L + 1]
  BY <1>1, FlattenIs
<1>3. g[1] = p[1] /\ \A k \in 2 .. L + 1 : g[k] = Cat(g[k - 1], p[k])
  <2>1. L + 1 \in Nat /\ L + 1 >= 1
    OBVIOUS
  <2> QED BY <1>2, <2>1, JoinsStep
<1>4. CASE L = 0
  <2>1. q = <<>> /\ FlattenSeq(q) = <<>>
    BY <1>4, FlattenType, EmptySeq
  <2>2. FlattenSeq(p) = x
    BY <1>2, <1>4, <1>3
  <2> QED BY <2>1, <2>2, CatEmpty
<1>5. CASE L # 0
  <2>1. PICK f : Joins(f, q) /\ FlattenSeq(q) = f[L]
    <3>1. q # <<>>
      BY <1>5
    <3> QED BY <3>1, FlattenIs
  <2>2. g[L] = f[L]
    <3>1. L \in 1 .. L /\ L <= L + 1 /\ L + 1 \in Nat
      BY <1>5
    <3>2. \A k \in 1 .. L : g[k] = f[k]
      BY <1>2, <2>1, <3>1, JoinsAgree
    <3> QED BY <3>1, <3>2
  <2>3. L + 1 \in 2 .. L + 1 /\ L + 1 - 1 = L /\ L + 1 \in Nat
    BY <1>5
  <2>4. g[L + 1] = Cat(g[L], p[L + 1])
    BY <1>3, <2>3
  <2> QED BY <1>2, <2>1, <2>2, <2>4
<1> QED BY <1>4, <1>5

\* A sequence more in front.
LEMMA FlattenInFront ==
    ASSUME NEW C, NEW q \in Seq(Seq(C)), NEW x \in Seq(C), NEW p \in Seq(Seq(C)),
           NEW L \in Nat, Len(q) = L, Len(p) = L + 1, p[1] = x,
           \A i \in 1 .. L : p[i + 1] = q[i]
    PROVE  FlattenSeq(p) = Cat(x, FlattenSeq(q))
<1>1. p # <<>>
  OBVIOUS
<1>2. PICK g : Joins(g, p) /\ FlattenSeq(p) = g[L + 1]
  BY <1>1, FlattenIs
<1>3. g[1] = x /\ \A k \in 2 .. L + 1 : g[k] = Cat(g[k - 1], p[k])
  <2>1. L + 1 \in Nat /\ L + 1 >= 1
    OBVIOUS
  <2> QED BY <1>2, <2>1, JoinsStep
<1>4. CASE L = 0
  <2>1. q = <<>> /\ FlattenSeq(q) = <<>>
    BY <1>4, FlattenType, EmptySeq
  <2>2. FlattenSeq(p) = x
    BY <1>2, <1>3, <1>4
  <2> QED BY <2>1, <2>2, CatEmpty
<1>5. CASE L # 0
  <2>1. PICK f : Joins(f, q) /\ FlattenSeq(q) = f[L]
    <3>1. q # <<>>
      BY <1>5
    <3> QED BY <3>1, FlattenIs
  <2>2. f[1] = q[1] /\ \A k \in 2 .. L : f[k] = Cat(f[k - 1], q[k])
    <3>1. L >= 1
      BY <1>5
    <3> QED BY <2>1, <3>1, JoinsStep
  <2> DEFINE Odd == {k \in 1 .. L : g[k + 1] # Cat(x, f[k])}
  <2>3. Odd = {}
    <3> SUFFICES ASSUME Odd # {} PROVE FALSE
      OBVIOUS
    <3>1. PICK m \in Odd : m = 1 \/ (m - 1 \in Nat \ {0} /\ m - 1 \notin Odd)
      <4>1. Odd \in SUBSET (Nat \ {0})
        OBVIOUS
      <4> HIDE DEF Odd
      <4> QED BY <4>1, Least
    <3>2. /\ m \in 1 .. L /\ m + 1 \in 2 .. L + 1 /\ m + 1 - 1 = m
          /\ p[m + 1] = q[m] /\ q[m] \in Seq(C) /\ g[m + 1] # Cat(x, f[m])
      OBVIOUS
    <3>3. g[m + 1] = Cat(g[m], q[m])
      BY <1>3, <3>2
    <3>4. CASE m = 1
      BY <1>3, <2>2, <3>2, <3>3, <3>4
    <3>5. CASE m # 1
      <4>1. m - 1 \in 1 .. L /\ m - 1 + 1 = m /\ m \in 2 .. L
        BY <3>2, <3>5
      <4>2. g[m] = Cat(x, f[m - 1])
        BY <3>1, <3>5, <4>1
      <4>3. f[m] = Cat(f[m - 1], q[m])
        BY <2>2, <4>1
      <4>4. f[m - 1] \in Seq(C)
        BY <2>1, <4>1, JoinsType
      <4>5. Cat(Cat(x, f[m - 1]), q[m]) = Cat(x, Cat(f[m - 1], q[m]))
        BY <3>2, <4>4, CatAssoc
      <4> QED BY <3>2, <3>3, <4>2, <4>3, <4>5
    <3> QED BY <3>4, <3>5
  <2>4. L \in 1 .. L
    BY <1>5
  <2>5. g[L + 1] = Cat(x, f[L])
    BY <2>3, <2>4
  <2> QED BY <1>2, <2>1, <2>5
<1> QED BY <1>4, <1>5

-----------------------------------------------------------------------------
(* Beginnings and ends of sequences *)

LEMMA MinOfTwo ==
    ASSUME NEW n \in Nat, NEW k \in Nat
    PROVE  /\ n <= k => Min({n, k}) = n
           /\ k <= n => Min({n, k}) = k
<1>1. ASSUME n <= k PROVE Min({n, k}) = n
  <2>1. n \in {n, k} /\ \A y \in {n, k} : n =< y
    BY <1>1
  <2>2. \A x \in {n, k} : (\A y \in {n, k} : x =< y) => x = n
    BY <1>1
  <2> QED BY <2>1, <2>2 DEF Min
<1>2. ASSUME k <= n PROVE Min({n, k}) = k
  <2>1. k \in {n, k} /\ \A y \in {n, k} : k =< y
    BY <1>2
  <2>2. \A x \in {n, k} : (\A y \in {n, k} : x =< y) => x = k
    BY <1>2
  <2> QED BY <2>1, <2>2 DEF Min
<1> QED BY <1>1, <1>2

LEMMA TakeType ==
    ASSUME NEW C, NEW s \in Seq(C), NEW n \in Nat
    PROVE  /\ Take(s, n) \in Seq(C)
           /\ n <= Len(s) => /\ Len(Take(s, n)) = n
                             /\ \A i \in 1 .. n : Take(s, n)[i] = s[i]
           /\ Len(s) <= n => Take(s, n) = s
<1>1. PICK k : k = Min({n, Len(s)})
  OBVIOUS
<1>2. k \in 0 .. Len(s) /\ (n <= Len(s) => k = n) /\ (Len(s) <= n => k = Len(s))
  <2>1. Len(s) \in Nat
    OBVIOUS
  <2> QED BY <1>1, <2>1, MinOfTwo
<1>3. /\ SubSeq(s, 1, k) \in Seq(C) /\ Len(SubSeq(s, 1, k)) = k
      /\ \A i \in 1 .. k : SubSeq(s, 1, k)[i] = s[i]
  <2>1. \A i \in 1 .. k : s[i] \in C
    BY <1>2
  <2>2. PICK u : u = SubSeq(s, 1, k)
    OBVIOUS
  <2>3. /\ u \in Seq(C)
        /\ Len(u) = IF 1 <= k THEN k - 1 + 1 ELSE 0
        /\ \A i \in 1 .. k - 1 + 1 : u[i] = s[1 + i - 1]
    BY <1>2, <2>1, <2>2, SubSeqProperties
  <2> QED BY <1>2, <2>2, <2>3
<1>4. Take(s, n) = SubSeq(s, 1, k)
  BY <1>1 DEF Take
<1>5. PICK u : u = SubSeq(s, 1, k)
  OBVIOUS
<1>6. Len(s) <= n => u = s
  BY <1>2, <1>3, <1>5, SeqEqual
<1> QED BY <1>2, <1>3, <1>4, <1>5, <1>6

LEMMA DropType ==
    ASSUME NEW C, NEW s \in Seq(C), NEW n \in 0 .. Len(s)
    PROVE  /\ Drop(s, n) \in Seq(C) /\ Len(Drop(s, n)) = Len(s) - n
           /\ \A i \in 1 .. Len(s) - n : Drop(s, n)[i] = s[n + i]
           /\ n = Len(s) => Drop(s, n) = <<>>
<1>1. \A i \in n + 1 .. Len(s) : s[i] \in C
  OBVIOUS
<1>2. PICK u : u = SubSeq(s, n + 1, Len(s))
  OBVIOUS
<1>3. /\ u \in Seq(C)
      /\ Len(u) = IF n + 1 <= Len(s) THEN Len(s) - (n + 1) + 1 ELSE 0
      /\ \A i \in 1 .. Len(s) - (n + 1) + 1 : u[i] = s[n + 1 + i - 1]
  BY <1>1, <1>2, SubSeqProperties
<1>4. Len(u) = Len(s) - n
  BY <1>3
<1>5. \A i \in 1 .. Len(s) - n : u[i] = s[n + i]
  BY <1>3
<1>6. n = Len(s) => u = <<>>
  BY <1>3, <1>4, EmptySeq
<1>7. Drop(s, n) = u
  BY <1>2 DEF Drop
<1> QED BY <1>3, <1>4, <1>5, <1>6, <1>7

LEMMA TakeDrop ==
    ASSUME NEW C, NEW s \in Seq(C), NEW n \in 0 .. Len(s)
    PROVE  Cat(Take(s, n), Drop(s, n)) = s
<1>1. n \in Nat /\ Len(s) \in Nat /\ n <= Len(s)
  OBVIOUS
<1>2. Min({n, Len(s)}) = n
  BY <1>1, MinOfTwo
<1>3. SubSeq(s, 1, n) \o SubSeq(s, n + 1, Len(s)) = SubSeq(s, 1, Len(s))
  <2>1. 1 \in 1 .. Len(s) + 1 /\ n \in 1 - 1 .. Len(s) /\ Len(s) \in n .. Len(s)
    BY <1>1
  <2> QED BY <2>1, ConcatAdjacentSubSeq
<1>4. SubSeq(s, 1, Len(s)) = s
  BY SubSeqFull
<1> QED BY <1>2, <1>3, <1>4 DEF Cat, Take, Drop

\* Sequences of one length, with more behind: they are equal, and so is that.
LEMMA SameLength ==
    ASSUME NEW C, NEW a \in Seq(C), NEW b \in Seq(C), NEW w \in Seq(C),
           NEW r \in Seq(C), Cat(w, r) = Cat(a, b), Len(a) = Len(w)
    PROVE  w = a /\ r = b
<1>1. PICK c : c = Cat(a, b)
  OBVIOUS
<1>2. \A i \in 1 .. Len(a) : c[i] = a[i]
  BY <1>1, CatType
<1>3. \A i \in 1 .. Len(w) : c[i] = w[i]
  <2>1. c = Cat(w, r)
    BY <1>1
  <2> QED BY <2>1, CatType
<1>4. \A i \in 1 .. Len(w) : w[i] = a[i]
  BY <1>2, <1>3
<1>5. w = a
  BY <1>4, SeqEqual
<1>6. a \o r = a \o b
  BY <1>5 DEF Cat
<1>7. r = b
  BY <1>6, ConcatSimplifications
<1> QED BY <1>5, <1>7

\* What is taken and dropped of the first of two sequences.
LEMMA CutFirst ==
    ASSUME NEW C, NEW a \in Seq(C), NEW b \in Seq(C), NEW n \in 0 .. Len(a)
    PROVE  /\ Take(Cat(a, b), n) = Take(a, n)
           /\ Drop(Cat(a, b), n) = Cat(Drop(a, n), b)
           /\ n \in 0 .. Len(Cat(a, b))
<1>1. PICK c : c = Cat(a, b)
  OBVIOUS
<1>2. c \in Seq(C) /\ Len(c) = Len(a) + Len(b) /\ Len(b) \in Nat
  BY <1>1, CatType
<1>3. n \in 0 .. Len(c) /\ n \in Nat /\ n <= Len(c) /\ n <= Len(a)
  BY <1>2
<1>4. PICK x, y : x = Take(c, n) /\ y = Drop(c, n)
  OBVIOUS
<1>5. x \in Seq(C) /\ y \in Seq(C) /\ Cat(x, y) = c /\ Len(x) = n
  BY <1>2, <1>3, <1>4, TakeType, DropType, TakeDrop
<1>6. PICK u, v : u = Take(a, n) /\ v = Drop(a, n)
  OBVIOUS
<1>7. u \in Seq(C) /\ v \in Seq(C) /\ Cat(u, v) = a /\ Len(u) = n
  BY <1>3, <1>6, TakeType, DropType, TakeDrop
<1>8. Cat(v, b) \in Seq(C)
  BY <1>7, CatType
<1>9. Cat(x, y) = Cat(u, Cat(v, b))
  BY <1>1, <1>5, <1>7, CatAssoc
<1>10. x = u /\ y = Cat(v, b)
  BY <1>5, <1>7, <1>8, <1>9, SameLength
<1> QED BY <1>1, <1>3, <1>4, <1>6, <1>10

\* Two ways of cutting the same bytes: the shorter beginning begins the
\* longer one, and the ends correspond.
LEMMA Cut ==
    ASSUME NEW C, NEW a \in Seq(C), NEW b \in Seq(C), NEW w \in Seq(C),
           NEW r \in Seq(C), Cat(w, r) = Cat(a, b), Len(a) <= Len(w),
           NEW n, n = Len(a)
    PROVE  Take(w, n) = a /\ Cat(Drop(w, n), r) = b /\ n \in 0 .. Len(w)
<1>1. n \in 0 .. Len(w) /\ n \in Nat /\ n <= Len(w)
  OBVIOUS
<1>2. PICK u, v : u = Take(w, n) /\ v = Drop(w, n)
  OBVIOUS
<1>3. u \in Seq(C) /\ v \in Seq(C) /\ Cat(u, v) = w /\ Len(u) = n
  BY <1>1, <1>2, TakeType, DropType, TakeDrop
<1>4. Cat(v, r) \in Seq(C)
  BY <1>3, CatType
<1>5. Cat(u, Cat(v, r)) = Cat(a, b)
  BY <1>3, CatAssoc
<1>6. u = a /\ Cat(v, r) = b
  BY <1>3, <1>4, <1>5, SameLength
<1> QED BY <1>1, <1>2, <1>6

LEMMA PrefixIs ==
    ASSUME NEW C, NEW a \in Seq(C), NEW b \in Seq(C)
    PROVE  IsPrefix(a, Cat(a, b))
<1>1. PICK c : c = Cat(a, b)
  OBVIOUS
<1>2. c \in Seq(C) /\ Len(c) = Len(a) + Len(b) /\ Len(a) \in Nat
  BY <1>1, CatType
<1>3. Len(a) <= Len(c)
  BY <1>2
<1>4. Take(c, Len(a)) = Take(a, Len(a))
  <2>1. Len(a) \in 0 .. Len(a)
    BY <1>2
  <2> QED BY <1>1, <2>1, CutFirst
<1>5. Min({Len(a), Len(c)}) = Len(a) /\ Min({Len(a), Len(a)}) = Len(a)
  BY <1>2, <1>3, MinOfTwo
<1>6. SubSeq(c, 1, Len(a)) = SubSeq(a, 1, Len(a))
  BY <1>4, <1>5 DEF Take
<1> QED BY <1>1, <1>3, <1>6 DEF IsPrefix

-----------------------------------------------------------------------------
(* The bytes of a stream *)

LEMMA CellsType ==
    ASSUME NEW m \in Messages \cup {Head1}, NEW k \in Nat, NEW seen \in Nat
    PROVE  /\ Cells(m, k, seen) \in Seq(Cell) /\ Len(Cells(m, k, seen)) = k
           /\ \A i \in 1 .. k : Cells(m, k, seen)[i].of = m
<1>1. PICK c : c = Cells(m, k, seen)
  OBVIOUS
<1>2. c = [i \in 1 .. k |-> [of |-> m, at |-> i, seen |-> seen]]
  BY <1>1 DEF Cells
<1>3. \A i \in 1 .. k : [of |-> m, at |-> i, seen |-> seen] \in Cell
  BY DEF Cell
<1>4. c \in [1 .. k -> Cell]
  BY <1>2, <1>3
<1>5. c \in Seq(Cell) /\ Len(c) = k
  <2> HIDE DEF Cell
  <2>1. c \in Seq(Cell)
    BY <1>4
  <2>2. DOMAIN c = 1 .. k
    BY <1>2
  <2> QED BY <2>1, <2>2, LenProperties
<1>6. \A i \in 1 .. k : c[i].of = m
  BY <1>2
<1> QED BY <1>1, <1>5, <1>6

LEMMA FrameType ==
    ASSUME NEW m \in Messages, NEW seen \in Nat
    PROVE  /\ Frame(m, seen) \in Seq(Cell)
           /\ PrefixLen(m) \in {1, 2} /\ Size[m] \in Nat \ {0}
           /\ Len(Frame(m, seen)) = PrefixLen(m) + Size[m]
           /\ \A i \in 1 .. PrefixLen(m) + Size[m] : Frame(m, seen)[i].of = m
<1>1. PICK p, z : p = PrefixLen(m) /\ z = Size[m]
  OBVIOUS
<1>2. z \in Nat \ {0} /\ p \in {1, 2}
  BY <1>1, StreamsAssumption DEF PrefixLen
<1>3. p + z \in Nat
  BY <1>2
<1>4. Frame(m, seen) = Cells(m, p + z, seen)
  BY <1>1 DEF Frame
<1>5. /\ Cells(m, p + z, seen) \in Seq(Cell) /\ Len(Cells(m, p + z, seen)) = p + z
      /\ \A i \in 1 .. p + z : Cells(m, p + z, seen)[i].of = m
  BY <1>3, CellsType
<1> QED BY <1>1, <1>2, <1>4, <1>5

LEMMA FrameLong ==
    ASSUME NEW m \in Messages, NEW seen \in Nat
    PROVE  Len(Frame(m, seen)) \in Nat \ {0}
<1>1. PICK p, z : p = PrefixLen(m) /\ z = Size[m]
  OBVIOUS
<1>2. p \in {1, 2} /\ z \in Nat \ {0} /\ Len(Frame(m, seen)) = p + z
  BY <1>1, FrameType
<1>3. p + z \in Nat \ {0}
  BY <1>2
<1> QED BY <1>2, <1>3

LEMMA HeaderType ==
    /\ StreamHeader \in Seq(Cell) /\ Len(StreamHeader) = HeaderLen
    /\ HeaderLen \in Nat \ {0}
<1>1. HeaderLen \in Nat /\ 0 \in Nat /\ Head1 \in Messages \cup {Head1} /\ HeaderLen # 0
  BY StreamsAssumption
<1>2. Cells(Head1, HeaderLen, 0) \in Seq(Cell) /\ Len(Cells(Head1, HeaderLen, 0)) = HeaderLen
  BY <1>1, CellsType
<1> QED BY <1>1, <1>2 DEF StreamHeader

\* The body of a frame says whose it is.
LEMMA BodyType ==
    ASSUME NEW m \in Messages, NEW seen \in Nat
    PROVE  /\ Drop(Frame(m, seen), PrefixLen(m)) \in Seq(Cell)
           /\ PrefixLen(m) \in 0 .. Len(Frame(m, seen))
           /\ Len(Drop(Frame(m, seen), PrefixLen(m))) = Size[m]
           /\ Drop(Frame(m, seen), PrefixLen(m))[1].of = m
<1>1. PICK p, z, f : p = PrefixLen(m) /\ z = Size[m] /\ f = Frame(m, seen)
  OBVIOUS
<1>2. /\ f \in Seq(Cell) /\ p \in {1, 2} /\ z \in Nat \ {0} /\ Len(f) = p + z
      /\ \A i \in 1 .. p + z : f[i].of = m
  BY <1>1, FrameType
<1>3. p \in 0 .. Len(f) /\ Len(f) - p = z /\ 1 \in 1 .. z /\ p + 1 \in 1 .. p + z
  BY <1>2
<1>4. PICK d : d = Drop(f, p)
  OBVIOUS
<1>5. d \in Seq(Cell) /\ Len(d) = z /\ \A i \in 1 .. z : d[i] = f[p + i]
  BY <1>2, <1>3, <1>4, DropType
<1>6. d[1].of = m
  BY <1>2, <1>3, <1>5
<1> QED BY <1>1, <1>3, <1>4, <1>5, <1>6

\* The frames of the messages acc from the nth on, one after the other.
FrameList(acc, n) == [i \in 1 .. Len(acc) - n |-> Frame(acc[n + i], n + i - 1)]
FramesOf(acc, n) == FlattenSeq(FrameList(acc, n))

LEMMA FrameListType ==
    ASSUME NEW acc \in Seq(Messages), NEW n \in 0 .. Len(acc), NEW k, k = Len(acc) - n
    PROVE  /\ FrameList(acc, n) \in Seq(Seq(Cell))
           /\ Len(FrameList(acc, n)) = k /\ k \in Nat
           /\ \A i \in 1 .. k : FrameList(acc, n)[i] = Frame(acc[n + i], n + i - 1)
<1>1. k \in Nat
  OBVIOUS
<1>2. PICK q : q = FrameList(acc, n)
  OBVIOUS
<1>3. q = [i \in 1 .. k |-> Frame(acc[n + i], n + i - 1)]
  BY <1>2 DEF FrameList
<1>4. ASSUME NEW i \in 1 .. k PROVE Frame(acc[n + i], n + i - 1) \in Seq(Cell)
  <2>1. n + i \in 1 .. Len(acc) /\ n + i - 1 \in Nat
    BY <1>1
  <2>2. acc[n + i] \in Messages
    BY <2>1
  <2> QED BY <2>1, <2>2, FrameType
<1>5. q \in [1 .. k -> Seq(Cell)]
  BY <1>3, <1>4
<1>6. q \in Seq(Seq(Cell)) /\ Len(q) = k
  <2>1. q \in Seq(Seq(Cell))
    BY <1>1, <1>5
  <2>2. DOMAIN q = 1 .. k
    BY <1>3
  <2> QED BY <1>1, <2>1, <2>2, LenProperties
<1> QED BY <1>1, <1>2, <1>3, <1>6

LEMMA FramesType ==
    ASSUME NEW acc \in Seq(Messages), NEW n \in 0 .. Len(acc)
    PROVE  FramesOf(acc, n) \in Seq(Cell) /\ (n = Len(acc) => FramesOf(acc, n) = <<>>)
<1>1. PICK q, k : q = FrameList(acc, n) /\ k = Len(acc) - n
  OBVIOUS
<1>2. q \in Seq(Seq(Cell)) /\ Len(q) = k
  BY <1>1, FrameListType
<1>3. n = Len(acc) => q = <<>>
  BY <1>1, <1>2, EmptySeq
<1>4. FlattenSeq(q) \in Seq(Cell) /\ (q = <<>> => FlattenSeq(q) = <<>>)
  BY <1>2, FlattenType
<1> QED BY <1>1, <1>3, <1>4 DEF FramesOf

LEMMA FramesNext ==
    ASSUME NEW acc \in Seq(Messages), NEW n \in 0 .. Len(acc), n < Len(acc)
    PROVE  /\ n + 1 \in 0 .. Len(acc) /\ acc[n + 1] \in Messages
           /\ FramesOf(acc, n) = Cat(Frame(acc[n + 1], n), FramesOf(acc, n + 1))
<1>1. n + 1 \in 0 .. Len(acc) /\ n + 1 \in 1 .. Len(acc) /\ n \in Nat
  OBVIOUS
<1>2. acc[n + 1] \in Messages
  BY <1>1
<1>3. PICK p, q, L : p = FrameList(acc, n) /\ q = FrameList(acc, n + 1) /\ L = Len(acc) - (n + 1)
  OBVIOUS
<1>4. L \in Nat /\ L + 1 = Len(acc) - n
  BY <1>1, <1>3
<1>5. /\ q \in Seq(Seq(Cell)) /\ Len(q) = L
      /\ \A i \in 1 .. L : q[i] = Frame(acc[n + 1 + i], n + 1 + i - 1)
  BY <1>1, <1>3, FrameListType
<1>6. /\ p \in Seq(Seq(Cell)) /\ Len(p) = L + 1
      /\ \A i \in 1 .. L + 1 : p[i] = Frame(acc[n + i], n + i - 1)
  BY <1>3, <1>4, FrameListType
<1>7. PICK x : x = Frame(acc[n + 1], n)
  OBVIOUS
<1>8. x \in Seq(Cell)
  BY <1>1, <1>2, <1>7, FrameType
<1>9. p[1] = x
  <2>1. 1 \in 1 .. L + 1 /\ n + 1 - 1 = n
    BY <1>1, <1>4
  <2> QED BY <1>6, <1>7, <2>1
<1>10. ASSUME NEW i \in 1 .. L PROVE p[i + 1] = q[i]
  <2>1. i + 1 \in 1 .. L + 1 /\ n + (i + 1) = n + 1 + i
    BY <1>1, <1>4
  <2> QED BY <1>5, <1>6, <2>1
<1>11. FlattenSeq(p) = Cat(x, FlattenSeq(q))
  BY <1>4, <1>5, <1>6, <1>8, <1>9, <1>10, FlattenInFront
<1> QED BY <1>1, <1>2, <1>3, <1>7, <1>11 DEF FramesOf

LEMMA FramesMore ==
    ASSUME NEW acc \in Seq(Messages), NEW n \in 0 .. Len(acc), NEW m \in Messages
    PROVE  FramesOf(Append(acc, m), n) = Cat(FramesOf(acc, n), Frame(m, Len(acc)))
<1>1. PICK a, K : a = Append(acc, m) /\ K = Len(acc)
  OBVIOUS
<1>2. /\ a \in Seq(Messages) /\ Len(a) = K + 1 /\ a[K + 1] = m /\ K \in Nat
      /\ \A i \in 1 .. K : a[i] = acc[i]
  BY <1>1, AppendProperties
<1>3. PICK p, q, L : p = FrameList(a, n) /\ q = FrameList(acc, n) /\ L = K - n
  OBVIOUS
<1>4. L \in Nat /\ L + 1 = Len(a) - n /\ n \in 0 .. Len(a) /\ n + L = K /\ n \in Nat
  BY <1>1, <1>2, <1>3
<1>5. /\ q \in Seq(Seq(Cell)) /\ Len(q) = L
      /\ \A i \in 1 .. L : q[i] = Frame(acc[n + i], n + i - 1)
  BY <1>1, <1>3, FrameListType
<1>6. /\ p \in Seq(Seq(Cell)) /\ Len(p) = L + 1
      /\ \A i \in 1 .. L + 1 : p[i] = Frame(a[n + i], n + i - 1)
  BY <1>2, <1>3, <1>4, FrameListType
<1>7. PICK x : x = Frame(m, K)
  OBVIOUS
<1>8. x \in Seq(Cell)
  BY <1>2, <1>7, FrameType
<1>9. p[L + 1] = x
  <2>1. L + 1 \in 1 .. L + 1 /\ n + (L + 1) = K + 1 /\ n + (L + 1) - 1 = K
    BY <1>2, <1>4
  <2> QED BY <1>2, <1>6, <1>7, <2>1
<1>10. ASSUME NEW i \in 1 .. L PROVE p[i] = q[i]
  <2>1. i \in 1 .. L + 1 /\ n + i \in 1 .. K
    BY <1>2, <1>4
  <2> QED BY <1>2, <1>5, <1>6, <2>1
<1>11. FlattenSeq(p) = Cat(FlattenSeq(q), x)
  BY <1>4, <1>5, <1>6, <1>8, <1>9, <1>10, FlattenAppend
<1> QED BY <1>1, <1>3, <1>7, <1>11 DEF FramesOf

-----------------------------------------------------------------------------
(* What a stream still owes its reader *)

\* All that is written of a stream whose messages are acc.
Due(acc) == Cat(StreamHeader, FramesOf(acc, 0))

\* What is left of it for a reader that has n messages, has read the header or
\* not, and stands before the next frame or behind its prefix.
Undelivered(acc, n, read, inBody) ==
    IF ~read THEN Due(acc)
    ELSE IF inBody THEN Drop(FramesOf(acc, n), PrefixLen(acc[n + 1]))
    ELSE FramesOf(acc, n)

\* The header, when it has not been written yet.
HeaderFirst(out) == IF out THEN <<>> ELSE StreamHeader

LEMMA HeaderFirstType == ASSUME NEW out PROVE HeaderFirst(out) \in Seq(Cell)
<1>1. <<>> \in Seq(Cell)
  OBVIOUS
<1> QED BY <1>1, HeaderType DEF HeaderFirst

LEMMA DueType ==
    ASSUME NEW acc \in Seq(Messages)
    PROVE  Due(acc) \in Seq(Cell) /\ (acc = <<>> => Due(acc) = StreamHeader)
<1>1. 0 \in 0 .. Len(acc)
  OBVIOUS
<1>2. Due(acc) \in Seq(Cell)
  BY <1>1, HeaderType, FramesType, CatType DEF Due
<1>3. ASSUME acc = <<>> PROVE Due(acc) = StreamHeader
  <2>1. 0 = Len(acc)
    BY <1>3
  <2>2. FramesOf(acc, 0) = <<>>
    BY <1>1, <2>1, FramesType
  <2> QED BY <2>2, HeaderType, CatEmpty DEF Due
<1> QED BY <1>2, <1>3

LEMMA DueMore ==
    ASSUME NEW acc \in Seq(Messages), NEW m \in Messages
    PROVE  Due(Append(acc, m)) = Cat(Due(acc), Frame(m, Len(acc)))
<1>1. 0 \in 0 .. Len(acc) /\ Len(acc) \in Nat
  OBVIOUS
<1>2. FramesOf(Append(acc, m), 0) = Cat(FramesOf(acc, 0), Frame(m, Len(acc)))
  BY <1>1, FramesMore
<1>3. FramesOf(acc, 0) \in Seq(Cell) /\ Frame(m, Len(acc)) \in Seq(Cell)
  BY <1>1, FramesType, FrameType
<1>4. Cat(Cat(StreamHeader, FramesOf(acc, 0)), Frame(m, Len(acc)))
        = Cat(StreamHeader, Cat(FramesOf(acc, 0), Frame(m, Len(acc))))
  BY <1>3, HeaderType, CatAssoc
<1> QED BY <1>2, <1>4 DEF Due

\* Behind the prefix of the next frame: its body, then the other frames.
LEMMA BehindPrefix ==
    ASSUME NEW acc \in Seq(Messages), NEW n \in 0 .. Len(acc), n < Len(acc),
           NEW m, m = acc[n + 1]
    PROVE  /\ PrefixLen(m) \in 0 .. Len(FramesOf(acc, n))
           /\ Drop(FramesOf(acc, n), PrefixLen(m))
                = Cat(Drop(Frame(m, n), PrefixLen(m)), FramesOf(acc, n + 1))
<1>1. n \in Nat /\ n + 1 \in 0 .. Len(acc) /\ m \in Messages
  BY FramesNext
<1>2. FramesOf(acc, n) = Cat(Frame(m, n), FramesOf(acc, n + 1))
  BY FramesNext
<1>3. Frame(m, n) \in Seq(Cell) /\ PrefixLen(m) \in 0 .. Len(Frame(m, n))
  BY <1>1, FrameType, BodyType
<1>4. FramesOf(acc, n + 1) \in Seq(Cell)
  BY <1>1, FramesType
<1> QED BY <1>2, <1>3, <1>4, CutFirst

LEMMA UndeliveredType ==
    ASSUME NEW acc \in Seq(Messages), NEW n \in 0 .. Len(acc), NEW read,
           NEW inBody, inBody => n < Len(acc)
    PROVE  Undelivered(acc, n, read, inBody) \in Seq(Cell)
<1>1. Due(acc) \in Seq(Cell) /\ FramesOf(acc, n) \in Seq(Cell)
  BY DueType, FramesType
<1>2. inBody => Drop(FramesOf(acc, n), PrefixLen(acc[n + 1])) \in Seq(Cell)
  BY <1>1, BehindPrefix, DropType
<1> QED BY <1>1, <1>2 DEF Undelivered

LEMMA UndeliveredMore ==
    ASSUME NEW acc \in Seq(Messages), NEW n \in 0 .. Len(acc), NEW read,
           NEW inBody, inBody => n < Len(acc), NEW m \in Messages
    PROVE  Undelivered(Append(acc, m), n, read, inBody)
             = Cat(Undelivered(acc, n, read, inBody), Frame(m, Len(acc)))
<1>1. PICK a, f : a = Append(acc, m) /\ f = Frame(m, Len(acc))
  OBVIOUS
<1>2. FramesOf(a, n) = Cat(FramesOf(acc, n), f)
  BY <1>1, FramesMore
<1>3. CASE ~read
  BY <1>3, DueMore DEF Undelivered
<1>4. CASE read /\ ~inBody
  BY <1>1, <1>2, <1>4 DEF Undelivered
<1>5. CASE read /\ inBody
  <2>1. n + 1 \in 1 .. Len(acc) /\ Len(acc) \in Nat
    BY <1>5
  <2>2. a[n + 1] = acc[n + 1]
    BY <1>1, <2>1, AppendProperties
  <2>3. PICK p : p = PrefixLen(acc[n + 1])
    OBVIOUS
  <2>4. p \in 0 .. Len(FramesOf(acc, n))
    BY <1>5, <2>3, BehindPrefix
  <2>5. FramesOf(acc, n) \in Seq(Cell) /\ f \in Seq(Cell)
    BY <1>1, <2>1, FramesType, FrameType
  <2>6. Drop(FramesOf(a, n), p) = Cat(Drop(FramesOf(acc, n), p), f)
    BY <1>2, <2>4, <2>5, CutFirst
  <2> QED BY <1>1, <1>5, <2>2, <2>3, <2>6 DEF Undelivered
<1> QED BY <1>3, <1>4, <1>5

-----------------------------------------------------------------------------
(* The inductive invariant *)

\* Whether the header of a stream has been written, to the buffer at least.
Out(s) == IF s = stream THEN headerOut ELSE s < stream

\* What the decoder has still to consume of the stream it reads: nothing as
\* long as the encoder has not written a header.
Whole == Undelivered(accepted[reading], Len(got[reading]), headerRead, decPc = "body")
Left == IF Out(reading) THEN Whole ELSE <<>>
Owed(s) == IF Out(s) THEN Due(accepted[s]) ELSE <<>>

\* Streams come one after the other at both ends.
StreamsInOrder ==
    /\ reading <= stream
    /\ \A s \in Streams : s > stream => accepted[s] = <<>> /\ pipe[s] = <<>>
    /\ \A s \in Streams : s > reading => got[s] = <<>>

EncoderInStep ==
    /\ ~encBroken => encSeen = Len(accepted[stream])
    /\ ~headerOut => accepted[stream] = <<>> /\ buf = <<>>

DecoderInStep ==
    /\ decBroken => decPc \in {"idle", "closed"}
    /\ ~decBroken => decSeen = Len(got[reading])
    /\ ~headerRead => got[reading] = <<>>
    /\ headerRead => Out(reading)
    /\ decPc = "header" => ~headerRead
    /\ decPc \in {"length", "body"} => headerRead
    /\ Len(got[reading]) <= Len(accepted[reading])
    /\ decPc = "body" => /\ Len(got[reading]) < Len(accepted[reading])
                         /\ frameLen = Size[accepted[reading][Len(got[reading]) + 1]]

\* Conservation, here and on the streams to come.
Here == Cat(Cat(window, pipe[reading]), Behind(reading)) = Left
There(s) == Cat(pipe[s], Behind(s)) = Owed(s)

Conserved ==
    /\ ~decBroken /\ decPc # "closed" => Here
    /\ \A s \in Streams : s > reading => There(s)

IInv ==
    /\ TypeOK
    /\ StreamsInOrder
    /\ EncoderInStep
    /\ DecoderInStep
    /\ Conserved

LEMMA StreamsAreNumbers ==
    /\ 1 \in Streams /\ Streams \subseteq Nat
    /\ \A s \in Streams : s < MaxStreams => s + 1 \in Streams
  BY StreamsAssumption DEF Streams

LEMMA InitIInv == Init => IInv
<1> SUFFICES ASSUME Init PROVE IInv
  OBVIOUS
<1>1. <<>> \in Seq(Cell) /\ <<>> \in Seq(Messages)
  OBVIOUS
<1>2. TypeOK
  BY <1>1, StreamsAreNumbers DEF Init, TypeOK
<1>3. StreamsInOrder /\ EncoderInStep /\ DecoderInStep
  BY StreamsAreNumbers DEF Init, StreamsInOrder, EncoderInStep, DecoderInStep
<1>4. Cat(<<>>, <<>>) = <<>>
  BY <1>1, CatEmpty
<1>5. Here
  BY <1>4, StreamsAreNumbers DEF Init, Here, Left, Behind, Out
<1>6. ASSUME NEW s \in Streams, s > reading PROVE There(s)
  <2>1. s # stream /\ ~ (s < stream) /\ unsent[s] = <<>> /\ pipe[s] = <<>>
    BY <1>6, StreamsAreNumbers DEF Init
  <2> QED BY <1>4, <2>1 DEF There, Behind, Owed, Out
<1> QED BY <1>2, <1>3, <1>5, <1>6 DEF IInv, Conserved

-----------------------------------------------------------------------------
(* The encoder's steps *)

\* The types of what a step reads.
LEMMA Typed ==
    ASSUME IInv, NEW s \in Streams
    PROVE  /\ pipe[s] \in Seq(Cell) /\ accepted[s] \in Seq(Messages)
           /\ got[s] \in Seq(Messages) /\ Len(accepted[s]) \in Nat
           /\ buf \in Seq(Cell) /\ window \in Seq(Cell)
           /\ stream \in Streams /\ reading \in Streams
           /\ Cat(window, pipe[s]) \in Seq(Cell)
<1>1. /\ pipe[s] \in Seq(Cell) /\ accepted[s] \in Seq(Messages)
      /\ got[s] \in Seq(Messages)
      /\ buf \in Seq(Cell) /\ window \in Seq(Cell)
      /\ stream \in Streams /\ reading \in Streams
  BY DEF IInv, TypeOK
<1>2. Cat(window, pipe[s]) \in Seq(Cell)
  BY <1>1, CatType
<1>3. Len(accepted[s]) \in Nat
  BY <1>1
<1> QED BY <1>1, <1>2, <1>3

LEMMA BehindType ==
    ASSUME IInv
    PROVE  Behind(reading) \in Seq(Cell) /\ \A s \in Streams : Behind(s) \in Seq(Cell)
  BY DEF IInv, TypeOK, Behind

LEMMA OutHere == ASSUME IInv PROVE Out(stream) = headerOut
  BY DEF Out

\* A stream without a header has no message; the one that is read is then the
\* one that is written.
LEMMA NotOut ==
    ASSUME IInv
    PROVE  /\ \A s \in Streams : ~Out(s) => accepted[s] = <<>>
           /\ ~Out(reading) => reading = stream /\ ~headerOut
<1>1. stream \in Streams /\ reading \in Streams /\ reading <= stream
  BY DEF IInv, TypeOK, StreamsInOrder
<1>2. ASSUME NEW s \in Streams, ~Out(s) PROVE accepted[s] = <<>>
  <2>1. CASE s = stream
    BY <1>2, <2>1 DEF Out, IInv, EncoderInStep
  <2>2. CASE s # stream
    <3>1. s > stream
      BY <1>1, <1>2, <2>2, StreamsAreNumbers DEF Out
    <3> QED BY <3>1 DEF IInv, StreamsInOrder
  <2> QED BY <2>1, <2>2
<1>3. ASSUME ~Out(reading) PROVE reading = stream /\ ~headerOut
  <2>1. ~ (reading < stream) => reading = stream
    BY <1>1, StreamsAreNumbers
  <2> QED BY <1>3, <2>1 DEF Out
<1> QED BY <1>2, <1>3

\* Where the reader stands.
LEMMA Standing ==
    ASSUME IInv
    PROVE  /\ Len(got[reading]) \in 0 .. Len(accepted[reading])
           /\ decPc = "body" => Len(got[reading]) < Len(accepted[reading])
           /\ Whole \in Seq(Cell) /\ Left \in Seq(Cell)
<1>1. Len(got[reading]) \in 0 .. Len(accepted[reading])
  <2>1. got[reading] \in Seq(Messages) /\ accepted[reading] \in Seq(Messages)
    BY Typed DEF IInv, TypeOK
  <2>2. Len(got[reading]) <= Len(accepted[reading])
    BY DEF IInv, DecoderInStep
  <2> QED BY <2>1, <2>2
<1>2. decPc = "body" => Len(got[reading]) < Len(accepted[reading])
  BY DEF IInv, DecoderInStep
<1>3. accepted[reading] \in Seq(Messages)
  BY DEF IInv, TypeOK
<1>4. Whole \in Seq(Cell)
  BY <1>1, <1>2, <1>3, UndeliveredType DEF Whole
<1>5. <<>> \in Seq(Cell)
  OBVIOUS
<1> QED BY <1>1, <1>2, <1>4, <1>5 DEF Left

\* What is left, with the header that the encoder has still to write.
LEMMA LeftHeaded == ASSUME IInv PROVE Whole = Cat(Left, HeaderFirst(Out(reading)))
<1>1. CASE Out(reading)
  BY <1>1, Standing, CatEmpty DEF Left, HeaderFirst
<1>2. CASE ~Out(reading)
  <2>1. accepted[reading] = <<>> /\ ~headerRead
    BY <1>2, NotOut DEF IInv, TypeOK, DecoderInStep
  <2>2. accepted[reading] \in Seq(Messages)
    BY DEF IInv, TypeOK
  <2>3. Due(accepted[reading]) = StreamHeader
    BY <2>1, <2>2, DueType
  <2>4. Cat(<<>>, StreamHeader) = StreamHeader
    BY HeaderType, CatEmpty
  <2> QED BY <1>2, <2>1, <2>3, <2>4 DEF Left, Whole, Undelivered, HeaderFirst
<1> QED BY <1>1, <1>2

LEMMA OwedHeaded ==
    ASSUME IInv, NEW s \in Streams
    PROVE  Due(accepted[s]) = Cat(Owed(s), HeaderFirst(Out(s)))
<1>1. accepted[s] \in Seq(Messages)
  BY DEF IInv, TypeOK
<1>2. Due(accepted[s]) \in Seq(Cell)
  BY <1>1, DueType
<1>3. CASE Out(s)
  BY <1>2, <1>3, CatEmpty DEF Owed, HeaderFirst
<1>4. CASE ~Out(s)
  <2>1. accepted[s] = <<>>
    BY <1>4, NotOut
  <2>2. Due(accepted[s]) = StreamHeader
    BY <1>1, <2>1, DueType
  <2>3. Cat(<<>>, StreamHeader) = StreamHeader
    BY HeaderType, CatEmpty
  <2> QED BY <1>4, <2>2, <2>3 DEF Owed, HeaderFirst
<1> QED BY <1>3, <1>4

LEMMA Regroup ==
    ASSUME NEW C, NEW a \in Seq(C), NEW b \in Seq(C), NEW c \in Seq(C), NEW d \in Seq(C)
    PROVE  Cat(Cat(Cat(a, b), c), d) = Cat(a, Cat(Cat(b, c), d))
<1>1. Cat(b, c) \in Seq(C)
  BY CatType
<1>2. Cat(Cat(a, b), c) = Cat(a, Cat(b, c))
  BY CatAssoc
<1>3. Cat(Cat(a, Cat(b, c)), d) = Cat(a, Cat(Cat(b, c), d))
  BY <1>1, CatAssoc
<1> QED BY <1>2, <1>3

\* What the buffer becomes, and the step that writes add behind it.
LEMMA HeadedIs == ASSUME IInv PROVE Headed = Cat(buf, HeaderFirst(headerOut))
<1>1. buf \in Seq(Cell)
  BY DEF IInv, TypeOK
<1>2. Cat(buf, <<>>) = buf
  BY <1>1, CatEmpty
<1> QED BY <1>2 DEF Headed, HeaderFirst, Cat

LEMMA EncodeStep ==
    ASSUME IInv, NEW m \in Messages, Encode(m)
    PROVE  IInv'
<1>1. /\ encPc = "idle" /\ ~encBroken /\ encSeen = Len(accepted[stream])
      /\ headerOut' = TRUE
      /\ UNCHANGED <<encBroken, stream, unsent, pipe, decVars>>
      /\ accepted' = [accepted EXCEPT ![stream] = Append(accepted[stream], m)]
      /\ encSeen' = encSeen + 1
      /\ encPc' \in {"idle", "flush"}
  BY DEF Encode, CanEncode, IInv, EncoderInStep
<1>2. PICK fr : fr = Frame(m, Len(accepted[stream]))
  OBVIOUS
<1>3. PICK hd : hd = HeaderFirst(headerOut)
  OBVIOUS
<1>4. buf' = Cat(Cat(buf, hd), fr)
  BY <1>1, <1>2, <1>3, HeadedIs DEF Encode, Cat
<1>5. stream \in Streams /\ reading \in Streams /\ buf \in Seq(Cell)
  BY DEF IInv, TypeOK
<1>6. /\ accepted[stream] \in Seq(Messages) /\ Len(accepted[stream]) \in Nat
      /\ fr \in Seq(Cell) /\ hd \in Seq(Cell) /\ Cat(buf, hd) \in Seq(Cell)
  BY <1>2, <1>3, <1>5, Typed, FrameType, HeaderFirstType, CatType
<1>7. PICK acc : acc = accepted[stream]
  OBVIOUS
<1>8. PICK acc2 : acc2 = Append(acc, m)
  OBVIOUS
<1>9. acc \in Seq(Messages) /\ fr = Frame(m, Len(acc))
  BY <1>2, <1>6, <1>7
<1>10. /\ acc2 \in Seq(Messages) /\ Len(acc2) = Len(acc) + 1
      /\ \A i \in 1 .. Len(acc) : acc2[i] = acc[i]
  BY <1>6, <1>7, <1>8, AppendProperties
<1>11. /\ accepted'[stream] = acc2
       /\ \A s \in Streams : s # stream => accepted'[s] = accepted[s]
       /\ accepted' \in [Streams -> Seq(Messages)]
  <2>1. accepted \in [Streams -> Seq(Messages)]
    BY DEF IInv, TypeOK
  <2> QED BY <1>1, <1>5, <1>7, <1>8, <1>10, <2>1
<1>12. TypeOK'
  <2>1. buf' \in Seq(Cell)
    BY <1>4, <1>6, CatType
  <2>2. encSeen' \in Nat
    BY <1>1 DEF IInv, TypeOK
  <2> QED BY <1>1, <1>11, <2>1, <2>2 DEF IInv, TypeOK, decVars
<1>13. StreamsInOrder'
  BY <1>1, <1>5, <1>11, StreamsAreNumbers DEF IInv, StreamsInOrder, decVars
<1>14. EncoderInStep'
  BY <1>1, <1>7, <1>10, <1>11 DEF EncoderInStep
<1>15. DecoderInStep'
  <2>1. CASE reading = stream
    <3>1. \A i \in 1 .. Len(acc) : acc2[i] = acc[i]
      BY <1>10
    <3>2. got[reading] \in Seq(Messages) /\ Len(acc) \in Nat
      BY <1>5, <1>6, <1>7, Typed
    <3>3. PICK n : n = Len(got[reading])
      OBVIOUS
    <3>4. n \in Nat /\ n <= Len(acc) /\ (decPc = "body" => n < Len(acc) /\ frameLen = Size[acc[n + 1]])
      BY <1>7, <2>1, <3>2, <3>3 DEF IInv, DecoderInStep
    <3>5. n <= Len(acc2) /\ (decPc = "body" => n < Len(acc2) /\ frameLen = Size[acc2[n + 1]])
      <4>1. decPc = "body" => n + 1 \in 1 .. Len(acc)
        BY <3>2, <3>4
      <4> QED BY <1>10, <3>2, <3>4, <4>1
    <3> QED BY <1>1, <1>11, <2>1, <3>3, <3>5 DEF IInv, DecoderInStep, Out, decVars
  <2>2. CASE reading # stream
    <3>1. accepted'[reading] = accepted[reading]
      BY <1>5, <1>11, <2>2
    <3> QED BY <1>1, <2>2, <3>1 DEF IInv, DecoderInStep, Out, decVars
  <2> QED BY <2>1, <2>2
<1>16. Out(stream) = headerOut
  BY OutHere
<1>17. ASSUME NEW s \in Streams, s > reading PROVE There(s)'
  <2>1. Cat(pipe[s], Behind(s)) = Owed(s)
    BY <1>17 DEF IInv, Conserved, There
  <2>2. CASE s = stream
    <3>1. Cat(pipe[s], buf) = Owed(s)
      BY <2>1, <2>2 DEF Behind
    <3>2. Due(acc) = Cat(Owed(s), hd)
      BY <1>3, <1>7, <1>16, <2>2, OwedHeaded
    <3>3. Due(acc2) = Cat(Cat(Owed(s), hd), fr)
      BY <1>8, <1>9, <3>2, DueMore
    <3>4. pipe[s] \in Seq(Cell)
      BY Typed
    <3>5. Cat(Cat(Cat(pipe[s], buf), hd), fr) = Cat(pipe[s], Cat(Cat(buf, hd), fr))
      BY <1>5, <1>6, <3>4, Regroup
    <3>6. Cat(pipe[s], buf') = Due(acc2)
      BY <1>4, <3>1, <3>3, <3>5
    <3> QED BY <1>1, <1>11, <2>2, <3>6 DEF There, Behind, Owed, Out
  <2>3. CASE s # stream
    BY <1>1, <1>11, <2>1, <2>3 DEF There, Behind, Owed, Out
  <2> QED BY <2>2, <2>3
<1>18. ASSUME ~decBroken, decPc # "closed" PROVE Here'
  <2>1. Cat(Cat(window, pipe[reading]), Behind(reading)) = Left
    BY <1>18 DEF IInv, Conserved, Here
  <2>2. CASE reading = stream
    <3>1. PICK n, inBody : n = Len(got[reading]) /\ inBody = (decPc = "body")
      OBVIOUS
    <3>2. n \in 0 .. Len(acc) /\ (inBody => n < Len(acc)) /\ Left \in Seq(Cell)
      BY <1>7, <2>2, <3>1, Standing
    <3>3. Undelivered(acc, n, headerRead, inBody) = Cat(Left, hd)
      BY <1>3, <1>7, <1>16, <2>2, <3>1, LeftHeaded DEF Whole
    <3>4. Undelivered(acc2, n, headerRead, inBody) = Cat(Cat(Left, hd), fr)
      BY <1>8, <1>9, <3>2, <3>3, UndeliveredMore
    <3>5. Left' = Cat(Cat(Left, hd), fr)
      BY <1>1, <1>11, <2>2, <3>1, <3>4 DEF Left, Whole, Out, decVars
    <3>6. Cat(Cat(window, pipe[reading]), buf) = Left
      BY <2>1, <2>2 DEF Behind
    <3>7. Cat(window, pipe[reading]) \in Seq(Cell)
      BY <1>5, Typed
    <3>8. Cat(Cat(window, pipe[reading]), buf') = Left'
      BY <1>4, <1>5, <1>6, <3>5, <3>6, <3>7, Regroup
    <3> QED BY <1>1, <2>2, <3>8 DEF Here, Behind, decVars
  <2>3. CASE reading # stream
    <3>1. accepted'[reading] = accepted[reading]
      BY <1>5, <1>11, <2>3
    <3>2. Left' = Left
      BY <1>1, <2>3, <3>1 DEF Left, Whole, Out, decVars
    <3> QED BY <1>1, <2>1, <2>3, <3>2 DEF Here, Behind, decVars
  <2> QED BY <2>2, <2>3
<1>19. Conserved'
  BY <1>1, <1>17, <1>18 DEF Conserved, decVars
<1> QED BY <1>12, <1>13, <1>14, <1>15, <1>19 DEF IInv

\* With the header behind what is buffered, the whole stream is accounted for.
LEMMA HeaderBehind ==
    ASSUME IInv
    PROVE  /\ Cat(buf, HeaderFirst(headerOut)) \in Seq(Cell)
           /\ stream > reading =>
                  Cat(pipe[stream], Cat(buf, HeaderFirst(headerOut))) = Due(accepted[stream])
           /\ ~decBroken /\ decPc # "closed" /\ reading = stream =>
                  Cat(Cat(window, pipe[reading]), Cat(buf, HeaderFirst(headerOut))) = Whole
<1>1. PICK hd : hd = HeaderFirst(headerOut)
  OBVIOUS
<1>2. Out(stream) = headerOut
  BY OutHere
<1>3. /\ hd \in Seq(Cell) /\ buf \in Seq(Cell) /\ stream \in Streams /\ reading \in Streams
      /\ pipe[stream] \in Seq(Cell) /\ Cat(window, pipe[reading]) \in Seq(Cell)
  <2>1. stream \in Streams /\ reading \in Streams /\ buf \in Seq(Cell)
    BY DEF IInv, TypeOK
  <2> QED BY <1>1, <2>1, HeaderFirstType, Typed
<1>4. ASSUME stream > reading PROVE Cat(pipe[stream], Cat(buf, hd)) = Due(accepted[stream])
  <2>1. Cat(pipe[stream], buf) = Owed(stream)
    BY <1>3, <1>4 DEF IInv, Conserved, There, Behind
  <2>2. Due(accepted[stream]) = Cat(Owed(stream), hd)
    BY <1>1, <1>2, <1>3, OwedHeaded
  <2> QED BY <1>3, <2>1, <2>2, CatAssoc
<1>5. ASSUME ~decBroken, decPc # "closed", reading = stream
      PROVE  Cat(Cat(window, pipe[reading]), Cat(buf, hd)) = Whole
  <2>1. Cat(Cat(window, pipe[reading]), buf) = Left
    BY <1>5 DEF IInv, Conserved, Here, Behind
  <2>2. Whole = Cat(Left, hd)
    BY <1>1, <1>2, <1>5, LeftHeaded
  <2> QED BY <1>3, <2>1, <2>2, CatAssoc
<1>6. Cat(buf, hd) \in Seq(Cell)
  BY <1>3, CatType
<1> QED BY <1>1, <1>4, <1>5, <1>6

LEMMA EncodeFailsStep == ASSUME IInv, EncodeFails PROVE IInv'
<1>1. /\ headerOut' = TRUE /\ encBroken' = TRUE /\ encSeen' = encSeen + 1
      /\ UNCHANGED <<encPc, stream, accepted, unsent, pipe, decVars>>
  BY DEF EncodeFails
<1>2. buf' = Cat(buf, HeaderFirst(headerOut))
  BY HeadedIs DEF EncodeFails
<1>3. TypeOK'
  <2>1. buf' \in Seq(Cell)
    BY <1>2, HeaderBehind
  <2>2. encSeen' \in Nat
    BY <1>1 DEF IInv, TypeOK
  <2> QED BY <1>1, <2>1, <2>2 DEF IInv, TypeOK, decVars
<1>4. StreamsInOrder' /\ EncoderInStep'
  BY <1>1 DEF IInv, StreamsInOrder, EncoderInStep, decVars
<1>5. DecoderInStep'
  BY <1>1 DEF IInv, DecoderInStep, Out, decVars
<1>6. ASSUME NEW s \in Streams, s > reading PROVE There(s)'
  <2>1. Cat(pipe[s], Behind(s)) = Owed(s)
    BY <1>6 DEF IInv, Conserved, There
  <2>2. CASE s = stream
    <3>1. Cat(pipe[s], buf') = Due(accepted[s])
      BY <1>2, <1>6, <2>2, HeaderBehind
    <3> QED BY <1>1, <2>2, <3>1 DEF There, Behind, Owed, Out
  <2>3. CASE s # stream
    BY <1>1, <2>1, <2>3 DEF There, Behind, Owed, Out
  <2> QED BY <2>2, <2>3
<1>7. ASSUME ~decBroken, decPc # "closed" PROVE Here'
  <2>1. Cat(Cat(window, pipe[reading]), Behind(reading)) = Left
    BY <1>7 DEF IInv, Conserved, Here
  <2>2. Whole' = Whole
    BY <1>1 DEF Whole, decVars
  <2>3. CASE reading = stream
    <3>1. Cat(Cat(window, pipe[reading]), buf') = Whole
      BY <1>2, <1>7, <2>3, HeaderBehind
    <3> QED BY <1>1, <2>2, <2>3, <3>1 DEF Here, Behind, Left, Out, decVars
  <2>4. CASE reading # stream
    BY <1>1, <2>1, <2>2, <2>4 DEF Here, Behind, Left, Out, decVars
  <2> QED BY <2>3, <2>4
<1>8. Conserved'
  BY <1>1, <1>6, <1>7 DEF Conserved, decVars
<1> QED BY <1>3, <1>4, <1>5, <1>8 DEF IInv

LEMMA ResetEncoderStep == ASSUME IInv, ResetEncoder PROVE IInv'
<1>1. /\ stream < MaxStreams /\ stream' = stream + 1 /\ buf' = <<>>
      /\ headerOut' = FALSE /\ encSeen' = 0 /\ encBroken' = FALSE
      /\ UNCHANGED <<encPc, accepted, pipe, decVars>>
  BY DEF ResetEncoder
<1>2. stream \in Streams /\ stream \in Nat /\ stream' \in Streams /\ reading <= stream /\ reading \in Nat
  BY <1>1, StreamsAreNumbers DEF IInv, TypeOK, StreamsInOrder
<1>3. accepted[stream'] = <<>> /\ pipe[stream'] = <<>>
  BY <1>1, <1>2 DEF IInv, StreamsInOrder
<1>4. <<>> \in Seq(Cell) /\ Cat(<<>>, <<>>) = <<>>
  <2>1. <<>> \in Seq(Cell)
    OBVIOUS
  <2> QED BY <2>1, CatEmpty
<1>5. PICK headed : headed = Cat(buf, HeaderFirst(headerOut))
  OBVIOUS
<1>6. /\ headed \in Seq(Cell) /\ unsent' \in [Streams -> Seq(Cell)] /\ unsent'[stream] = headed
      /\ \A s \in Streams : s # stream => unsent'[s] = unsent[s]
  <2>1. headed \in Seq(Cell) /\ Headed = headed
    BY <1>5, HeaderBehind, HeadedIs
  <2>2. unsent' = [unsent EXCEPT ![stream] = headed] /\ unsent \in [Streams -> Seq(Cell)]
    BY <2>1 DEF ResetEncoder, IInv, TypeOK
  <2> QED BY <1>2, <2>1, <2>2
<1>7. TypeOK'
  BY <1>1, <1>2, <1>4, <1>6 DEF IInv, TypeOK, decVars
<1>8. /\ reading # stream' /\ reading <= stream' /\ reading < stream' /\ stream < stream'
      /\ \A s \in Streams : /\ s > stream' => s > stream
                            /\ s # stream => (s < stream' <=> s < stream)
  BY <1>1, <1>2, StreamsAreNumbers
<1>9. EncoderInStep'
  BY <1>1, <1>3 DEF EncoderInStep
<1>10. StreamsInOrder'
  BY <1>1, <1>8 DEF IInv, StreamsInOrder, decVars
<1>11. DecoderInStep'
  BY <1>1, <1>8 DEF IInv, DecoderInStep, Out, decVars
<1>12. ASSUME NEW s \in Streams, s > reading PROVE There(s)'
  <2>1. Cat(pipe[s], Behind(s)) = Owed(s)
    BY <1>12 DEF IInv, Conserved, There
  <2>2. CASE s = stream'
    BY <1>1, <1>3, <1>4, <2>2 DEF There, Behind, Owed, Out
  <2>3. CASE s = stream
    <3>1. s # stream'
      BY <1>1, <1>2, <2>3
    <3>2. Cat(pipe[s], headed) = Due(accepted[s])
      BY <1>5, <1>12, <2>3, HeaderBehind
    <3>3. Out(s)'
      BY <1>8, <2>3, <3>1 DEF Out
    <3> QED BY <1>1, <1>6, <2>3, <3>1, <3>2, <3>3 DEF There, Behind, Owed
  <2>4. CASE s # stream /\ s # stream'
    <3>1. Out(s)' = Out(s)
      BY <1>8, <2>4 DEF Out
    <3> QED BY <1>1, <1>6, <2>1, <2>4, <3>1 DEF There, Behind, Owed
  <2> QED BY <2>2, <2>3, <2>4
<1>13. ASSUME ~decBroken, decPc # "closed" PROVE Here'
  <2>1. Cat(Cat(window, pipe[reading]), Behind(reading)) = Left
    BY <1>13 DEF IInv, Conserved, Here
  <2>2. Whole' = Whole
    BY <1>1 DEF Whole, decVars
  <2>3. CASE reading = stream
    <3>1. Cat(Cat(window, pipe[reading]), headed) = Whole
      BY <1>5, <1>13, <2>3, HeaderBehind
    <3> QED BY <1>1, <1>6, <1>8, <2>2, <2>3, <3>1 DEF Here, Behind, Left, Out, decVars
  <2>4. CASE reading # stream
    <3>1. unsent'[reading] = unsent[reading]
      BY <1>6, <2>4 DEF IInv, TypeOK
    <3>2. Out(reading)' /\ Out(reading)
      BY <1>1, <1>2, <1>8, <2>4, StreamsAreNumbers DEF Out, decVars
    <3> QED BY <1>1, <1>8, <2>1, <2>2, <2>4, <3>1, <3>2 DEF Here, Behind, Left, decVars
  <2> QED BY <2>3, <2>4
<1>14. Conserved'
  BY <1>1, <1>12, <1>13 DEF Conserved, decVars
<1> QED BY <1>7, <1>9, <1>10, <1>11, <1>14 DEF IInv

\* A step that only says where the encoder is.
LEMMA EncoderPcStep ==
    ASSUME IInv, encPc' \in {"idle", "flush", "close", "closed"},
           UNCHANGED <<encBroken, headerOut, buf, encSeen, stream, accepted, unsent,
                       pipe, decVars>>
    PROVE  IInv'
<1>1. TypeOK'
  BY DEF IInv, TypeOK, decVars
<1>2. StreamsInOrder' /\ EncoderInStep'
  BY DEF IInv, StreamsInOrder, EncoderInStep, decVars
<1>3. DecoderInStep'
  BY DEF IInv, DecoderInStep, Out, decVars
<1>4. Conserved'
  BY DEF IInv, Conserved, Here, There, Behind, Left, Whole, Owed, Out, decVars
<1> QED BY <1>1, <1>2, <1>3, <1>4 DEF IInv

\* One Write moves bytes from the buffer to the stream, whatever it returns.
LEMMA WriteStep ==
    ASSUME IInv, NEW n, NEW err \in BOOLEAN, Write(n, err)
    PROVE  IInv'
<1>1. /\ encPc \in {"flush", "close"} /\ n \in 0 .. Len(buf)
      /\ pipe' = [pipe EXCEPT ![stream] = Cat(pipe[stream], Take(buf, n))]
      /\ buf' = Drop(buf, n)
      /\ UNCHANGED <<encBroken, headerOut, encSeen, stream, accepted, unsent, decVars>>
  BY DEF Write, Cat
<1>2. encPc' \in {"idle", "flush", "close", "closed"}
  BY DEF Write
<1>3. stream \in Streams /\ reading \in Streams /\ buf \in Seq(Cell) /\ pipe[stream] \in Seq(Cell)
  BY Typed DEF IInv, TypeOK
<1>4. PICK t : t = Take(buf, n)
  OBVIOUS
<1>5. t \in Seq(Cell) /\ buf' \in Seq(Cell) /\ Cat(t, buf') = buf /\ Cat(pipe[stream], t) \in Seq(Cell)
  <2>1. n \in Nat /\ n \in 0 .. Len(buf)
    BY <1>1, <1>3
  <2>2. t \in Seq(Cell)
    BY <1>3, <1>4, <2>1, TakeType
  <2>3. buf' \in Seq(Cell)
    BY <1>1, <1>3, <2>1, DropType
  <2>4. Cat(t, buf') = buf
    BY <1>1, <1>3, <1>4, <2>1, TakeDrop
  <2> QED BY <1>3, <2>2, <2>3, <2>4, CatType
<1>6. /\ pipe'[stream] = Cat(pipe[stream], t)
      /\ \A s \in Streams : s # stream => pipe'[s] = pipe[s]
      /\ pipe' \in [Streams -> Seq(Cell)]
  <2>1. pipe \in [Streams -> Seq(Cell)]
    BY DEF IInv, TypeOK
  <2> QED BY <1>1, <1>3, <1>4, <1>5, <2>1
<1>7. buf = <<>> => buf' = <<>>
  <2>1. ASSUME buf = <<>> PROVE buf' = <<>>
    <3>1. n = Len(buf) /\ n \in 0 .. Len(buf)
      BY <1>1, <2>1
    <3> QED BY <1>1, <1>3, <3>1, DropType
  <2> QED BY <2>1
<1>8. TypeOK'
  BY <1>1, <1>2, <1>5, <1>6 DEF IInv, TypeOK, decVars
<1>9. StreamsInOrder'
  BY <1>1, <1>3, <1>6, StreamsAreNumbers DEF IInv, StreamsInOrder, decVars
<1>10. EncoderInStep'
  BY <1>1, <1>7 DEF IInv, EncoderInStep
<1>11. DecoderInStep'
  BY <1>1 DEF IInv, DecoderInStep, Out, decVars
<1>12. ASSUME NEW s \in Streams, s > reading PROVE There(s)'
  <2>1. Cat(pipe[s], Behind(s)) = Owed(s)
    BY <1>12 DEF IInv, Conserved, There
  <2>2. CASE s = stream
    <3>1. Cat(pipe[s], buf) = Owed(s)
      BY <2>1, <2>2 DEF Behind
    <3>2. Cat(pipe'[s], buf') = Owed(s)
      BY <1>3, <1>5, <1>6, <2>2, <3>1, CatAssoc
    <3> QED BY <1>1, <2>2, <3>2 DEF There, Behind, Owed, Out
  <2>3. CASE s # stream
    BY <1>1, <1>6, <2>1, <2>3 DEF There, Behind, Owed, Out
  <2> QED BY <2>2, <2>3
<1>13. ASSUME ~decBroken, decPc # "closed" PROVE Here'
  <2>1. Cat(Cat(window, pipe[reading]), Behind(reading)) = Left
    BY <1>13 DEF IInv, Conserved, Here
  <2>2. Left' = Left
    BY <1>1 DEF Left, Whole, Out, decVars
  <2>3. CASE reading = stream
    <3>1. Cat(Cat(window, pipe[stream]), buf) = Left
      BY <2>1, <2>3 DEF Behind
    <3>2. window \in Seq(Cell)
      BY DEF IInv, TypeOK
    <3>3. Cat(window, Cat(pipe[stream], t)) = Cat(Cat(window, pipe[stream]), t)
      BY <1>3, <1>5, <3>2, CatAssoc
    <3>4. Cat(window, pipe[stream]) \in Seq(Cell)
      BY <1>3, Typed
    <3>5. Cat(Cat(Cat(window, pipe[stream]), t), buf') = Left
      BY <1>5, <3>1, <3>4, CatAssoc
    <3> QED BY <1>1, <1>6, <2>2, <2>3, <3>3, <3>5 DEF Here, Behind, decVars
  <2>4. CASE reading # stream
    <3>1. pipe'[reading] = pipe[reading]
      BY <1>3, <1>6, <2>4
    <3> QED BY <1>1, <2>1, <2>2, <2>4, <3>1 DEF Here, Behind, decVars
  <2> QED BY <2>3, <2>4
<1>14. Conserved'
  BY <1>1, <1>12, <1>13 DEF Conserved, decVars
<1> QED BY <1>8, <1>9, <1>10, <1>11, <1>14 DEF IInv

-----------------------------------------------------------------------------
(* The decoder's steps *)

\* A decoder's step that stays on its stream leaves the others alone.
LEMMA Elsewhere ==
    ASSUME IInv, UNCHANGED <<encVars, reading>>,
           pipe' \in [Streams -> Seq(Cell)],
           got' \in [Streams -> Seq(Messages)],
           \A s \in Streams : s # reading => pipe'[s] = pipe[s] /\ got'[s] = got[s],
           pipe[reading] = <<>> => pipe'[reading] = <<>>
    PROVE  /\ StreamsInOrder' /\ EncoderInStep'
           /\ \A s \in Streams : s > reading => There(s)'
<1>1. reading \in Streams /\ stream \in Streams /\ reading <= stream
  BY DEF IInv, TypeOK, StreamsInOrder
<1>2. \A s \in Streams : s > reading => s # reading
  BY <1>1, StreamsAreNumbers
<1>3. StreamsInOrder'
  <2>1. \A s \in Streams : s > stream => accepted[s] = <<>> /\ pipe'[s] = <<>>
    BY DEF IInv, StreamsInOrder
  <2>2. \A s \in Streams : s > reading => got'[s] = <<>>
    BY <1>2 DEF IInv, StreamsInOrder
  <2> QED BY <1>1, <2>1, <2>2 DEF StreamsInOrder, encVars
<1>4. EncoderInStep'
  BY DEF IInv, EncoderInStep, encVars
<1>5. \A s \in Streams : s > reading => There(s)'
  BY <1>2 DEF IInv, Conserved, There, Behind, Owed, Out, encVars
<1> QED BY <1>3, <1>4, <1>5

LEMMA DecodeStep == ASSUME IInv, Decode PROVE IInv'
<1>1. /\ decPc = "idle" /\ ~decBroken
      /\ decPc' = IF headerRead THEN "length" ELSE "header"
      /\ result' = "none"
      /\ UNCHANGED <<decBroken, headerRead, window, frameLen, decSeen, reading, got, encVars, pipe>>
  BY DEF Decode
<1>2. TypeOK'
  BY <1>1 DEF IInv, TypeOK, encVars
<1>3. StreamsInOrder' /\ EncoderInStep'
  BY <1>1 DEF IInv, StreamsInOrder, EncoderInStep, encVars
<1>4. DecoderInStep'
  BY <1>1 DEF IInv, DecoderInStep, Out, encVars
<1>5. decPc # "body" /\ decPc' # "body" /\ decPc # "closed"
  BY <1>1
<1>6. (decPc = "body") = FALSE /\ (decPc' = "body") = FALSE
  BY <1>5
<1>7. Whole' = Whole
  BY <1>1, <1>6 DEF Whole, encVars
<1>8. Conserved'
  BY <1>1, <1>5, <1>7 DEF IInv, Conserved, Here, There, Behind, Left, Owed, Out, encVars
<1> QED BY <1>2, <1>3, <1>4, <1>8 DEF IInv

\* Something is read only by a Decode in progress, which no stream is lost in.
LEMMA WhoReads ==
    ASSUME IInv, Filling
    PROVE  decPc \in {"header", "length", "body"} /\ ~decBroken
<1>1. window \in Seq(Cell) /\ decPc \in {"idle", "header", "length", "body", "closed"}
  BY DEF IInv, TypeOK
<1>2. decPc \in {"header", "length", "body"}
  <2> SUFFICES ASSUME decPc \in {"idle", "closed"} PROVE FALSE
    BY <1>1
  <2>1. Need = 0
    BY DEF Need
  <2>2. Len(window) \in Nat /\ Len(window) < 0
    BY <1>1, <2>1 DEF Filling
  <2> QED BY <2>2
<1> QED BY <1>2 DEF IInv, DecoderInStep

\* Bytes that go from the stream to the window stay where they are in line.
LEMMA FillMoves ==
    ASSUME IInv, NEW n \in 0 .. Len(pipe[reading]), UNCHANGED <<encVars, reading, got>>,
           window' = window \o Take(pipe[reading], n),
           pipe' = [pipe EXCEPT ![reading] = Drop(@, n)]
    PROVE  /\ window' \in Seq(Cell) /\ pipe' \in [Streams -> Seq(Cell)]
           /\ Cat(window', pipe'[reading]) = Cat(window, pipe[reading])
           /\ StreamsInOrder' /\ EncoderInStep'
           /\ \A s \in Streams : s > reading => There(s)'
<1>1. reading \in Streams /\ window \in Seq(Cell) /\ pipe[reading] \in Seq(Cell)
  BY DEF IInv, TypeOK
<1>2. PICK p, t, d : p = pipe[reading] /\ t = Take(p, n) /\ d = Drop(p, n)
  OBVIOUS
<1>3. n \in 0 .. Len(p) /\ n \in Nat /\ p \in Seq(Cell)
  BY <1>1, <1>2
<1>4. t \in Seq(Cell) /\ d \in Seq(Cell) /\ Cat(t, d) = p /\ (p = <<>> => d = <<>>)
  <2>1. t \in Seq(Cell)
    BY <1>2, <1>3, TakeType
  <2>2. d \in Seq(Cell) /\ (n = Len(p) => d = <<>>)
    BY <1>2, <1>3, DropType
  <2>3. Cat(t, d) = p
    BY <1>2, <1>3, TakeDrop
  <2>4. p = <<>> => n = Len(p)
    BY <1>3
  <2> QED BY <2>1, <2>2, <2>3, <2>4
<1>5. window' = Cat(window, t)
  BY <1>2 DEF Cat
<1>6. /\ pipe'[reading] = d /\ pipe' \in [Streams -> Seq(Cell)]
      /\ \A s \in Streams : s # reading => pipe'[s] = pipe[s]
  <2>1. pipe \in [Streams -> Seq(Cell)]
    BY DEF IInv, TypeOK
  <2>2. pipe' = [pipe EXCEPT ![reading] = d]
    BY <1>2
  <2> QED BY <1>1, <1>4, <2>1, <2>2
<1>7. window' \in Seq(Cell)
  BY <1>1, <1>4, <1>5, CatType
<1>8. Cat(window', pipe'[reading]) = Cat(window, pipe[reading])
  BY <1>1, <1>2, <1>4, <1>5, <1>6, CatAssoc
<1>9. got' \in [Streams -> Seq(Messages)] /\ got' = got
  BY DEF IInv, TypeOK
<1>10. pipe[reading] = <<>> => pipe'[reading] = <<>>
  BY <1>2, <1>4, <1>6
<1>11. /\ StreamsInOrder' /\ EncoderInStep'
       /\ \A s \in Streams : s > reading => There(s)'
  BY <1>6, <1>9, <1>10, Elsewhere
<1> QED BY <1>6, <1>7, <1>8, <1>11

LEMMA ReadStep == ASSUME IInv, NEW n \in 0 .. Len(pipe[reading]), Read(n) PROVE IInv'
<1>1. /\ window' = window \o Take(pipe[reading], n)
      /\ pipe' = [pipe EXCEPT ![reading] = Drop(@, n)]
      /\ UNCHANGED <<decPc, decBroken, headerRead, frameLen, decSeen, reading, result, got, encVars>>
  BY DEF Read
<1>2. /\ window' \in Seq(Cell) /\ pipe' \in [Streams -> Seq(Cell)]
      /\ Cat(window', pipe'[reading]) = Cat(window, pipe[reading])
      /\ StreamsInOrder' /\ EncoderInStep'
      /\ \A s \in Streams : s > reading => There(s)'
  BY <1>1, FillMoves
<1>3. TypeOK'
  BY <1>1, <1>2 DEF IInv, TypeOK, encVars
<1>4. DecoderInStep'
  BY <1>1 DEF IInv, DecoderInStep, Out, encVars
<1>5. Here => Here'
  BY <1>1, <1>2 DEF Here, Behind, Left, Whole, Out, encVars
<1>6. Conserved'
  BY <1>1, <1>2, <1>5 DEF IInv, Conserved
<1> QED BY <1>2, <1>3, <1>4, <1>6 DEF IInv

\* The end of a Decode that got nowhere, at a place to which the next comes back.
LEMMA Stopped ==
    ASSUME IInv, decPc \in {"header", "length", "body"}, decPc' = "idle",
           UNCHANGED <<encVars, reading, got, headerRead, decSeen>>,
           decPc = "body" => decBroken', decPc # "body" => decBroken' = decBroken,
           Cat(window', pipe'[reading]) = Cat(window, pipe[reading]),
           \A s \in Streams : s > reading => There(s)'
    PROVE  DecoderInStep' /\ Conserved'
<1>1. ~decBroken
  BY DEF IInv, DecoderInStep
<1>2. DecoderInStep'
  BY <1>1 DEF IInv, DecoderInStep, Out, encVars
<1>3. ASSUME ~decBroken' PROVE Here'
  <2>1. decPc # "body" /\ decPc # "closed" /\ decPc' # "body"
    BY <1>3
  <2>2. (decPc = "body") = FALSE /\ (decPc' = "body") = FALSE
    BY <2>1
  <2>3. Whole' = Whole
    BY <2>2 DEF Whole, encVars
  <2>4. Here
    BY <1>1, <2>1 DEF IInv, Conserved
  <2> QED BY <2>3, <2>4 DEF Here, Behind, Left, Out, encVars
<1> QED BY <1>2, <1>3 DEF Conserved

LEMMA ReadFailsStep == ASSUME IInv, NEW n \in 0 .. Len(pipe[reading]), ReadFails(n) PROVE IInv'
<1>1. /\ window' = window \o Take(pipe[reading], n)
      /\ pipe' = [pipe EXCEPT ![reading] = Drop(@, n)]
      /\ decPc' = "idle" /\ result' = "error" /\ frameLen' = 0 /\ decBroken' \in BOOLEAN
      /\ UNCHANGED <<headerRead, decSeen, reading, got, encVars>>
  BY DEF ReadFails, Return, Break, IInv, TypeOK
<1>2. /\ window' \in Seq(Cell) /\ pipe' \in [Streams -> Seq(Cell)]
      /\ Cat(window', pipe'[reading]) = Cat(window, pipe[reading])
      /\ StreamsInOrder' /\ EncoderInStep'
      /\ \A s \in Streams : s > reading => There(s)'
  BY <1>1, FillMoves
<1>3. TypeOK'
  BY <1>1, <1>2 DEF IInv, TypeOK, encVars
<1>4. decPc \in {"header", "length", "body"}
  BY WhoReads DEF ReadFails
<1>5. (decPc = "body" => decBroken') /\ (decPc # "body" => decBroken' = decBroken)
  BY <1>4 DEF ReadFails, AtBoundary, Return, Break
<1>6. DecoderInStep' /\ Conserved'
  BY <1>1, <1>2, <1>4, <1>5, Stopped
<1> QED BY <1>2, <1>3, <1>6 DEF IInv

LEMMA ReadEndsStep == ASSUME IInv, ReadEnds PROVE IInv'
<1>1. /\ decPc' = "idle" /\ result' \in {"eof", "error"} /\ frameLen' = 0 /\ decBroken' \in BOOLEAN
      /\ UNCHANGED <<headerRead, window, decSeen, reading, got, encVars, pipe>>
  BY DEF ReadEnds, Return, Break, IInv, TypeOK
<1>2. /\ StreamsInOrder' /\ EncoderInStep'
      /\ \A s \in Streams : s > reading => There(s)'
  BY <1>1, Elsewhere DEF IInv, TypeOK
<1>3. TypeOK'
  BY <1>1 DEF IInv, TypeOK, encVars
<1>4. decPc \in {"header", "length", "body"}
  BY WhoReads DEF ReadEnds
<1>5. (decPc = "body" => decBroken') /\ (decPc # "body" => decBroken' = decBroken)
  BY <1>4 DEF ReadEnds, AtBoundary, Return, Break
<1>6. DecoderInStep' /\ Conserved'
  BY <1>1, <1>2, <1>4, <1>5, Stopped
<1> QED BY <1>2, <1>3, <1>6 DEF IInv

LEMMA CloseDecoderStep == ASSUME IInv, CloseDecoder PROVE IInv'
<1>1. /\ decPc = "idle" /\ decPc' = "closed" /\ window' = <<>>
      /\ UNCHANGED <<decBroken, headerRead, frameLen, decSeen, reading, result, got, encVars, pipe>>
  BY DEF CloseDecoder
<1>2. <<>> \in Seq(Cell)
  OBVIOUS
<1>3. TypeOK'
  BY <1>1, <1>2 DEF IInv, TypeOK, encVars
<1>4. StreamsInOrder' /\ EncoderInStep'
  BY <1>1 DEF IInv, StreamsInOrder, EncoderInStep, encVars
<1>5. DecoderInStep'
  BY <1>1 DEF IInv, DecoderInStep, Out, encVars
<1>6. Conserved'
  BY <1>1 DEF IInv, Conserved, There, Behind, Owed, Out, encVars
<1> QED BY <1>3, <1>4, <1>5, <1>6 DEF IInv

LEMMA ResetDecoderStep == ASSUME IInv, ResetDecoder PROVE IInv'
<1>1. /\ decPc = "idle" /\ reading < stream /\ reading' = reading + 1 /\ window' = <<>>
      /\ headerRead' = FALSE /\ decSeen' = 0 /\ decBroken' = FALSE /\ result' = "none"
      /\ pipe' = [pipe EXCEPT ![reading] = <<>>]
      /\ UNCHANGED <<decPc, frameLen, got, encVars>>
  BY DEF ResetDecoder
<1>2. <<>> \in Seq(Cell)
  OBVIOUS
<1>3. PICK r : r = reading'
  OBVIOUS
<1>4. /\ reading \in Streams /\ stream \in Streams /\ r \in Streams /\ reading < r /\ r <= stream
      /\ \A s \in Streams : s > r => s > reading
      /\ r # reading /\ stream # reading
  <2>1. reading \in Streams /\ stream \in Streams
    BY DEF IInv, TypeOK
  <2>2. reading + 1 \in Streams
    BY <1>1, <2>1, StreamsAssumption DEF Streams
  <2> QED BY <1>1, <1>3, <2>1, <2>2, StreamsAreNumbers
<1>5. /\ \A s \in Streams : s # reading => pipe'[s] = pipe[s]
      /\ pipe' \in [Streams -> Seq(Cell)] /\ pipe'[reading] = <<>>
  <2>1. pipe \in [Streams -> Seq(Cell)]
    BY DEF IInv, TypeOK
  <2> QED BY <1>1, <1>2, <1>4, <2>1
<1>6. TypeOK'
  BY <1>1, <1>2, <1>3, <1>4, <1>5 DEF IInv, TypeOK, encVars
<1>7. got[r] = <<>>
  BY <1>4 DEF IInv, StreamsInOrder
<1>8. StreamsInOrder'
  <2>1. \A s \in Streams : s > stream => accepted[s] = <<>> /\ pipe'[s] = <<>>
    BY <1>5 DEF IInv, StreamsInOrder
  <2>2. \A s \in Streams : s > r => got[s] = <<>>
    BY <1>4 DEF IInv, StreamsInOrder
  <2> QED BY <1>1, <1>3, <1>4, <2>1, <2>2 DEF StreamsInOrder, encVars
<1>9. EncoderInStep'
  BY <1>1 DEF IInv, EncoderInStep, encVars
<1>10. DecoderInStep'
  <2>1. accepted[r] \in Seq(Messages)
    BY <1>4, Typed
  <2>2. Len(got[r]) = 0 /\ 0 <= Len(accepted[r])
    BY <1>7, <2>1
  <2> QED BY <1>1, <1>3, <1>7, <2>2 DEF DecoderInStep, encVars
<1>11. ASSUME NEW s \in Streams, s > reading PROVE There(s)'
  <2>1. There(s) /\ s # reading
    BY <1>4, <1>11, StreamsAreNumbers DEF IInv, Conserved
  <2> QED BY <1>1, <1>5, <2>1 DEF There, Behind, Owed, Out, encVars
<1>12. Here'
  <2>1. Cat(pipe[r], Behind(r)) = Owed(r)
    BY <1>4 DEF IInv, Conserved, There
  <2>2. pipe'[r] = pipe[r] /\ pipe[r] \in Seq(Cell)
    BY <1>4, <1>5, Typed
  <2>3. Cat(<<>>, pipe[r]) = pipe[r]
    BY <2>2, CatEmpty
  <2>4. Whole' = Due(accepted[r])
    BY <1>1, <1>3 DEF Whole, Undelivered, encVars
  <2>5. Left' = Owed(r) /\ Behind(r)' = Behind(r)
    BY <1>1, <1>3, <2>4 DEF Left, Owed, Behind, Out, encVars
  <2>6. Cat(Cat(window', pipe'[r]), Behind(r)) = Left'
    BY <1>1, <2>1, <2>2, <2>3, <2>5
  <2> QED BY <1>1, <1>3, <2>1, <2>5, <2>6 DEF Here, Behind, encVars
<1>13. Conserved'
  BY <1>3, <1>4, <1>11, <1>12 DEF Conserved
<1> QED BY <1>6, <1>8, <1>9, <1>10, <1>13 DEF IInv

\* The first byte of what is left, when something is in the window.
LEMMA Ahead ==
    ASSUME IInv, ~decBroken, decPc # "closed", window # <<>>
    PROVE  /\ Out(reading) /\ Left = Whole
           /\ window[1] = Whole[1] /\ Whole # <<>>
<1>1. PICK rest : rest = Behind(reading) /\ Cat(Cat(window, pipe[reading]), rest) = Left
  BY DEF IInv, Conserved, Here
<1>2. /\ reading \in Streams /\ window \in Seq(Cell) /\ pipe[reading] \in Seq(Cell)
      /\ rest \in Seq(Cell) /\ Left \in Seq(Cell)
  BY <1>1, Standing, BehindType DEF IInv, TypeOK
<1>3. PICK b : b = Cat(pipe[reading], rest)
  OBVIOUS
<1>4. b \in Seq(Cell) /\ Cat(window, b) = Left
  <2>1. b \in Seq(Cell)
    BY <1>2, <1>3, CatType
  <2>2. Cat(Cat(window, pipe[reading]), rest) = Cat(window, b)
    BY <1>2, <1>3, CatAssoc
  <2> QED BY <1>1, <2>1, <2>2
<1>5. Len(window) \in Nat \ {0} /\ Len(b) \in Nat
  BY <1>2, <1>4, EmptySeq
<1>6. Len(Left) = Len(window) + Len(b) /\ \A i \in 1 .. Len(window) : Left[i] = window[i]
  BY <1>2, <1>4, CatType
<1>7. Left # <<>> /\ Left[1] = window[1]
  <2>1. 1 \in 1 .. Len(window) /\ Len(Left) # 0
    BY <1>5, <1>6
  <2> QED BY <1>6, <2>1
<1> QED BY <1>7 DEF Left

\* What the decoder takes from the front of the window it takes from the front
\* of what is left.
LEMMA Consume ==
    ASSUME IInv, ~decBroken, decPc # "closed", NEW a \in Seq(Cell), NEW b \in Seq(Cell),
           Whole = Cat(a, b), Len(a) <= Len(window), window # <<>>,
           NEW n, n = Len(a)
    PROVE  /\ n \in 0 .. Len(window) /\ Take(window, n) = a /\ Drop(window, n) \in Seq(Cell)
           /\ Cat(Cat(Drop(window, n), pipe[reading]), Behind(reading)) = b
<1>1. PICK rest : rest = Behind(reading) /\ Cat(Cat(window, pipe[reading]), rest) = Left
  BY DEF IInv, Conserved, Here
<1>2. /\ reading \in Streams /\ window \in Seq(Cell) /\ pipe[reading] \in Seq(Cell)
      /\ rest \in Seq(Cell)
  BY <1>1, BehindType DEF IInv, TypeOK
<1>3. PICK r : r = Cat(pipe[reading], rest)
  OBVIOUS
<1>4. r \in Seq(Cell) /\ Cat(window, r) = Cat(a, b)
  <2>1. Left = Cat(a, b)
    BY Ahead
  <2>2. r \in Seq(Cell)
    BY <1>2, <1>3, CatType
  <2> QED BY <1>1, <1>2, <1>3, <2>1, <2>2, CatAssoc
<1>5. Take(window, n) = a /\ Cat(Drop(window, n), r) = b /\ n \in 0 .. Len(window)
  BY <1>2, <1>4, Cut
<1>6. PICK w : w = Drop(window, n)
  OBVIOUS
<1>7. w \in Seq(Cell)
  BY <1>2, <1>5, <1>6, DropType
<1>8. Cat(Cat(w, pipe[reading]), rest) = b
  BY <1>2, <1>3, <1>5, <1>6, <1>7, CatAssoc
<1> QED BY <1>1, <1>5, <1>6, <1>7, <1>8

\* The next frame, where the decoder expects one.
LEMMA AtFrame ==
    ASSUME IInv, ~decBroken, decPc = "length", window # <<>>, NEW n, n = Len(got[reading]),
           NEW acc, acc = accepted[reading], NEW m, m = acc[n + 1]
    PROVE  /\ acc \in Seq(Messages) /\ n \in 0 .. Len(acc) /\ n < Len(acc) /\ m \in Messages
           /\ Head(window).of = m
           /\ Whole = Cat(Take(Frame(m, n), PrefixLen(m)),
                          Cat(Drop(Frame(m, n), PrefixLen(m)), FramesOf(acc, n + 1)))
<1>1. acc \in Seq(Messages) /\ n \in 0 .. Len(acc) /\ window \in Seq(Cell)
  BY Standing DEF IInv, TypeOK
<1>2. headerRead /\ Whole = FramesOf(acc, n)
  BY DEF IInv, DecoderInStep, Whole, Undelivered
<1>3. Whole # <<>> /\ window[1] = Whole[1]
  BY Ahead
<1>4. n < Len(acc)
  <2>1. n # Len(acc)
    BY <1>1, <1>2, <1>3, FramesType
  <2> QED BY <1>1, <2>1
<1>5. m \in Messages /\ Whole = Cat(Frame(m, n), FramesOf(acc, n + 1)) /\ n + 1 \in 0 .. Len(acc) /\ n \in Nat
  BY <1>1, <1>2, <1>4, FramesNext
<1>6. PICK f, g : f = Frame(m, n) /\ g = FramesOf(acc, n + 1)
  OBVIOUS
<1>7. /\ f \in Seq(Cell) /\ g \in Seq(Cell) /\ 1 \in 1 .. Len(f) /\ f[1].of = m
      /\ PrefixLen(m) \in 0 .. Len(f) /\ PrefixLen(m) \in Nat /\ PrefixLen(m) <= Len(f)
  <2>1. PICK p, z : p = PrefixLen(m) /\ z = Size[m]
    OBVIOUS
  <2>2. /\ f \in Seq(Cell) /\ p \in {1, 2} /\ z \in Nat \ {0} /\ Len(f) = p + z
        /\ \A i \in 1 .. p + z : f[i].of = m
    BY <1>5, <1>6, <2>1, FrameType
  <2>3. 1 \in 1 .. p + z /\ p \in 0 .. p + z /\ p \in Nat /\ p <= p + z
    BY <2>2
  <2>4. g \in Seq(Cell)
    BY <1>1, <1>5, <1>6, FramesType
  <2> QED BY <2>1, <2>2, <2>3, <2>4
<1>8. Whole[1] = f[1]
  <2>1. \A i \in 1 .. Len(f) : Cat(f, g)[i] = f[i]
    BY <1>7, CatType
  <2>2. Cat(f, g)[1] = f[1]
    BY <1>7, <2>1
  <2> QED BY <1>5, <1>6, <2>2
<1>9. Head(window).of = m
  BY <1>3, <1>7, <1>8
<1>10. PICK t, d : t = Take(f, PrefixLen(m)) /\ d = Drop(f, PrefixLen(m))
  OBVIOUS
<1>11. t \in Seq(Cell) /\ d \in Seq(Cell) /\ Cat(t, d) = f
  BY <1>7, <1>10, TakeType, DropType, TakeDrop
<1>12. Cat(f, g) = Cat(t, Cat(d, g))
  BY <1>7, <1>11, CatAssoc
<1> QED BY <1>1, <1>4, <1>5, <1>6, <1>9, <1>10, <1>12

LEMMA ReadHeaderStep == ASSUME IInv, ReadHeader PROVE IInv'
<1>1. /\ decPc = "header" /\ ~Filling
      /\ window' = Drop(window, HeaderLen)
      /\ headerRead' = TRUE
      /\ UNCHANGED <<decSeen, reading, got, encVars, pipe>>
  BY DEF ReadHeader
<1>2. \/ decPc' = "length" /\ UNCHANGED <<decBroken, frameLen, result>>
      \/ decPc' = "idle" /\ result' = "error" /\ frameLen' = 0 /\ decBroken' = TRUE
  BY DEF ReadHeader, Break, Return
<1>3. ~decBroken /\ ~headerRead /\ got[reading] = <<>>
  BY <1>1 DEF IInv, DecoderInStep
<1>4. reading \in Streams /\ window \in Seq(Cell) /\ accepted[reading] \in Seq(Messages)
  BY DEF IInv, TypeOK
<1>5. HeaderLen <= Len(window) /\ HeaderLen \in Nat \ {0} /\ window # <<>>
  <2>1. Need = HeaderLen /\ ~ (Len(window) < HeaderLen)
    BY <1>1 DEF Need, Filling
  <2> QED BY <1>4, <2>1, HeaderType
<1>6. PICK fs : fs = FramesOf(accepted[reading], 0)
  OBVIOUS
<1>7. fs \in Seq(Cell) /\ Whole = Cat(StreamHeader, fs)
  <2>1. 0 \in 0 .. Len(accepted[reading])
    BY <1>4
  <2> QED BY <1>3, <1>4, <1>6, <2>1, FramesType DEF Whole, Undelivered, Due
<1>8. /\ window' \in Seq(Cell) /\ Out(reading)
      /\ Cat(Cat(window', pipe[reading]), Behind(reading)) = fs
  <2>1. decPc # "closed"
    BY <1>1
  <2>2. Out(reading)
    BY <1>3, <1>5, <2>1, Ahead
  <2>3. /\ Drop(window, HeaderLen) \in Seq(Cell)
        /\ Cat(Cat(Drop(window, HeaderLen), pipe[reading]), Behind(reading)) = fs
    BY <1>3, <1>5, <1>7, <2>1, HeaderType, Consume
  <2> QED BY <1>1, <2>2, <2>3
<1>9. TypeOK'
  <2>1. /\ decPc' \in {"length", "idle"} /\ decBroken' \in BOOLEAN /\ frameLen' \in Nat
        /\ result' \in {"none", "value", "eof", "error"}
    <3>1. CASE decPc' = "length" /\ UNCHANGED <<decBroken, frameLen, result>>
      BY <3>1 DEF IInv, TypeOK
    <3>2. CASE decPc' = "idle" /\ result' = "error" /\ frameLen' = 0 /\ decBroken' = TRUE
      BY <3>2
    <3> QED BY <1>2, <3>1, <3>2
  <2> QED BY <1>1, <1>8, <2>1 DEF IInv, TypeOK, encVars
<1>10. StreamsInOrder' /\ EncoderInStep'
  BY <1>1 DEF IInv, StreamsInOrder, EncoderInStep, encVars
<1>11. DecoderInStep'
  BY <1>1, <1>2, <1>8 DEF IInv, DecoderInStep, Out, encVars
<1>12. ASSUME ~decBroken' PROVE Here'
  <2>1. Whole' = fs
    <3>1. Len(got[reading]) = 0
      BY <1>3
    <3>2. (decPc' = "body") = FALSE
      BY <1>2
    <3> QED BY <1>1, <1>6, <3>1, <3>2 DEF Whole, Undelivered, encVars
  <2> QED BY <1>1, <1>8, <2>1 DEF Here, Behind, Left, Out, encVars
<1>13. \A s \in Streams : s > reading => There(s)'
  BY <1>1 DEF IInv, Conserved, There, Behind, Owed, Out, encVars
<1>14. Conserved'
  BY <1>1, <1>12, <1>13 DEF Conserved
<1> QED BY <1>9, <1>10, <1>11, <1>14 DEF IInv

LEMMA ReadFrameLenStep == ASSUME IInv, ReadFrameLen PROVE IInv'
<1>1. /\ decPc = "length" /\ ~Filling
      /\ frameLen' = Size[Head(window).of]
      /\ window' = Drop(window, PrefixLen(Head(window).of))
      /\ decPc' = "body"
      /\ UNCHANGED <<decBroken, headerRead, decSeen, reading, result, got, encVars, pipe>>
  BY DEF ReadFrameLen
<1>2. ~decBroken /\ headerRead /\ Out(reading)
  BY <1>1 DEF IInv, DecoderInStep
<1>3. reading \in Streams /\ window \in Seq(Cell) /\ Len(window) \in Nat
  BY DEF IInv, TypeOK
<1>4. AtPrefix
  <2>1. ~AtPrefix => Need = Len(window) + 1
    BY <1>1 DEF Need
  <2> QED BY <1>1, <1>3, <2>1 DEF Filling
<1>5. PICK n, acc : n = Len(got[reading]) /\ acc = accepted[reading]
  OBVIOUS
<1>6. PICK m : m = acc[n + 1]
  OBVIOUS
<1>7. window # <<>>
  BY <1>4 DEF AtPrefix
<1>8. /\ acc \in Seq(Messages) /\ n \in 0 .. Len(acc) /\ n < Len(acc) /\ m \in Messages
      /\ Head(window).of = m
      /\ Whole = Cat(Take(Frame(m, n), PrefixLen(m)),
                     Cat(Drop(Frame(m, n), PrefixLen(m)), FramesOf(acc, n + 1)))
  BY <1>1, <1>2, <1>5, <1>6, <1>7, AtFrame
<1>9. PICK p : p = PrefixLen(m)
  OBVIOUS
<1>10. PICK seen : seen = Head(window).seen
  OBVIOUS
<1>11. seen \in Nat
  <2>1. Head(window) \in Cell
    BY <1>3, <1>7
  <2> QED BY <1>10, <2>1 DEF Cell
<1>12. n \in Nat /\ p \in Nat
  BY <1>8, <1>9, FrameType
<1>13. p <= Len(window)
  <2>1. Take(window, p) = Take(Frame(m, seen), p)
    BY <1>4, <1>8, <1>9, <1>10 DEF AtPrefix
  <2>2. Frame(m, seen) \in Seq(Cell) /\ p \in 0 .. Len(Frame(m, seen))
    BY <1>8, <1>9, <1>11, FrameType, BodyType
  <2>3. Len(Take(Frame(m, seen), p)) = p
    BY <1>12, <2>2, TakeType
  <2>4. ASSUME ~(p <= Len(window)) PROVE FALSE
    <3>1. Len(window) <= p
      BY <1>3, <1>12, <2>4
    <3>2. Take(window, p) = window
      BY <1>3, <1>12, <3>1, TakeType
    <3> QED BY <1>3, <1>12, <2>1, <2>3, <2>4, <3>2
  <2> QED BY <2>4
<1>14. PICK a, d, b : a = Take(Frame(m, n), p) /\ d = Drop(Frame(m, n), p) /\ b = Cat(d, FramesOf(acc, n + 1))
  OBVIOUS
<1>15. a \in Seq(Cell) /\ Len(a) = p /\ b \in Seq(Cell) /\ Whole = Cat(a, b)
  <2>1. Frame(m, n) \in Seq(Cell) /\ p \in 0 .. Len(Frame(m, n)) /\ d \in Seq(Cell)
    BY <1>8, <1>9, <1>12, <1>14, FrameType, BodyType
  <2>2. n + 1 \in 0 .. Len(acc)
    BY <1>8, FramesNext
  <2>3. FramesOf(acc, n + 1) \in Seq(Cell)
    BY <1>8, <2>2, FramesType
  <2>4. a \in Seq(Cell) /\ Len(a) = p
    BY <1>12, <1>14, <2>1, TakeType
  <2>5. b \in Seq(Cell)
    BY <1>14, <2>1, <2>3, CatType
  <2> QED BY <1>8, <1>9, <1>14, <2>4, <2>5
<1>16. /\ window' \in Seq(Cell)
       /\ Cat(Cat(window', pipe[reading]), Behind(reading)) = b
  <2>1. decPc # "closed"
    BY <1>1
  <2>2. /\ Drop(window, p) \in Seq(Cell)
        /\ Cat(Cat(Drop(window, p), pipe[reading]), Behind(reading)) = b
    BY <1>2, <1>7, <1>13, <1>15, <2>1, Consume
  <2> QED BY <1>1, <1>8, <1>9, <2>2
<1>17. frameLen' = Size[m] /\ frameLen' \in Nat
  BY <1>1, <1>8, StreamsAssumption
<1>18. TypeOK'
  BY <1>1, <1>16, <1>17 DEF IInv, TypeOK, encVars
<1>19. StreamsInOrder' /\ EncoderInStep'
  BY <1>1 DEF IInv, StreamsInOrder, EncoderInStep, encVars
<1>20. DecoderInStep'
  BY <1>1, <1>2, <1>5, <1>6, <1>8, <1>17 DEF IInv, DecoderInStep, Out, encVars
<1>21. Whole' = b
  <2>1. Drop(FramesOf(acc, n), PrefixLen(m)) = b
    BY <1>6, <1>8, <1>9, <1>14, BehindPrefix
  <2> QED BY <1>1, <1>2, <1>5, <1>6, <2>1 DEF Whole, Undelivered, encVars
<1>22. Here'
  BY <1>1, <1>2, <1>16, <1>21 DEF Here, Behind, Left, Out, encVars
<1>23. \A s \in Streams : s > reading => There(s)'
  BY <1>1 DEF IInv, Conserved, There, Behind, Owed, Out, encVars
<1>24. Conserved'
  BY <1>1, <1>22, <1>23 DEF Conserved
<1> QED BY <1>18, <1>19, <1>20, <1>24 DEF IInv

\* The body that is decoded is the one of the next message.
LEMMA NextBody ==
    ASSUME IInv, decPc = "body", ~Filling, NEW n, n = Len(got[reading]),
           NEW acc, acc = accepted[reading], NEW m, m = acc[n + 1]
    PROVE  /\ n \in Nat /\ n < Len(acc) /\ m \in Messages /\ n + 1 \in 0 .. Len(acc)
           /\ \A x \in Messages : Body(x) => x = m
           /\ Drop(window, frameLen) \in Seq(Cell)
           /\ Cat(Cat(Drop(window, frameLen), pipe[reading]), Behind(reading)) = FramesOf(acc, n + 1)
<1>1. /\ ~decBroken /\ headerRead /\ decSeen = n /\ n < Len(acc) /\ frameLen = Size[m]
  BY DEF IInv, DecoderInStep
<1>2. acc \in Seq(Messages) /\ n \in 0 .. Len(acc) /\ window \in Seq(Cell) /\ reading \in Streams
  BY Standing DEF IInv, TypeOK
<1>3. m \in Messages /\ n \in Nat /\ n + 1 \in 0 .. Len(acc)
  BY <1>1, <1>2, FramesNext
<1>4. frameLen \in Nat \ {0}
  BY <1>1, <1>3, StreamsAssumption
<1>5. frameLen <= Len(window) /\ window # <<>> /\ Len(window) \in Nat
  <2>1. Need = frameLen /\ ~ (Len(window) < frameLen)
    BY DEF Need, Filling
  <2> QED BY <1>2, <1>4, <2>1
<1>6. PICK d, b : d = Drop(Frame(m, n), PrefixLen(m)) /\ b = FramesOf(acc, n + 1)
  OBVIOUS
<1>7. d \in Seq(Cell) /\ Len(d) = frameLen /\ d[1].of = m
  BY <1>1, <1>3, <1>6, BodyType
<1>8. b \in Seq(Cell)
  BY <1>2, <1>3, <1>6, FramesType
<1>9. Whole = Cat(d, b)
  <2>1. Whole = Drop(FramesOf(acc, n), PrefixLen(m))
    BY <1>1 DEF Whole, Undelivered
  <2> QED BY <1>1, <1>2, <1>6, <2>1, BehindPrefix
<1>10. /\ Take(window, frameLen) = d /\ Drop(window, frameLen) \in Seq(Cell)
       /\ Cat(Cat(Drop(window, frameLen), pipe[reading]), Behind(reading)) = b
  <2>1. decPc # "closed"
    OBVIOUS
  <2> QED BY <1>1, <1>5, <1>7, <1>8, <1>9, <2>1, Consume
<1>11. ASSUME NEW x \in Messages, Body(x) PROVE x = m
  <2>1. d = Drop(Frame(x, n), PrefixLen(x))
    BY <1>1, <1>10, <1>11 DEF Body
  <2>2. Drop(Frame(x, n), PrefixLen(x))[1].of = x
    BY <1>3, BodyType
  <2> QED BY <1>7, <2>1, <2>2
<1> QED BY <1>1, <1>3, <1>6, <1>10, <1>11

\* Decode returns the next message, or the stream is lost.
LEMMA Delivered ==
    ASSUME IInv, NEW ok \in BOOLEAN, DecodeBody(ok), NEW n, n = Len(got[reading]),
           NEW acc, acc = accepted[reading]
    PROVE  \/ /\ got' = [got EXCEPT ![reading] = Append(got[reading], acc[n + 1])]
              /\ window' = Drop(window, frameLen)
              /\ decPc' = "idle" /\ result' = "value" /\ frameLen' = 0
              /\ decBroken' = decBroken
           \/ /\ got' = got /\ window' = window
              /\ decPc' = "idle" /\ result' = "error" /\ frameLen' = 0
              /\ decBroken' = TRUE
<1>1. decPc = "body" /\ ~Filling
  BY DEF DecodeBody
<1>2. PICK m : m = acc[n + 1]
  OBVIOUS
<1>3. \A x \in Messages : Body(x) => x = m
  BY <1>1, <1>2, NextBody
<1>4. CASE ok /\ \E x \in Messages : Body(x)
  <2>1. PICK c : c = CHOOSE x \in Messages : Body(x)
    OBVIOUS
  <2>2. c \in Messages /\ Body(c)
    BY <1>4, <2>1
  <2>3. c = m
    BY <1>3, <2>2
  <2> QED BY <1>2, <1>4, <2>1, <2>3 DEF DecodeBody, Return
<1>5. CASE ~(ok /\ \E x \in Messages : Body(x))
  BY <1>5 DEF DecodeBody, Break, Return
<1> QED BY <1>4, <1>5

LEMMA DecodeBodyStep == ASSUME IInv, NEW ok \in BOOLEAN, DecodeBody(ok) PROVE IInv'
<1>1. /\ decPc = "body" /\ ~Filling /\ decSeen' = decSeen + 1
      /\ UNCHANGED <<headerRead, reading, encVars, pipe>>
  BY DEF DecodeBody
<1>2. PICK n, acc : n = Len(got[reading]) /\ acc = accepted[reading]
  OBVIOUS
<1>3. PICK m : m = acc[n + 1]
  OBVIOUS
<1>4. /\ n \in Nat /\ n < Len(acc) /\ m \in Messages /\ n + 1 \in 0 .. Len(acc)
      /\ Drop(window, frameLen) \in Seq(Cell)
      /\ Cat(Cat(Drop(window, frameLen), pipe[reading]), Behind(reading)) = FramesOf(acc, n + 1)
  BY <1>1, <1>2, <1>3, NextBody
<1>5. /\ ~decBroken /\ headerRead /\ decSeen = n /\ Out(reading)
  BY <1>1, <1>2 DEF IInv, DecoderInStep
<1>6. reading \in Streams /\ got \in [Streams -> Seq(Messages)] /\ got[reading] \in Seq(Messages)
  BY DEF IInv, TypeOK
<1>7. decSeen' \in Nat /\ decSeen' = n + 1
  BY <1>1, <1>4, <1>5
<1>8. CASE /\ got' = [got EXCEPT ![reading] = Append(got[reading], m)]
           /\ window' = Drop(window, frameLen)
           /\ decPc' = "idle" /\ result' = "value" /\ frameLen' = 0
           /\ decBroken' = decBroken
  <2>1. PICK g : g = Append(got[reading], m)
    OBVIOUS
  <2>2. g \in Seq(Messages) /\ Len(g) = n + 1
    BY <1>2, <1>4, <1>6, <2>1, AppendProperties
  <2>3. /\ got' \in [Streams -> Seq(Messages)] /\ got'[reading] = g
        /\ \A s \in Streams : s # reading => got'[s] = got[s]
    BY <1>6, <1>8, <2>1, <2>2
  <2>4. TypeOK'
    BY <1>1, <1>4, <1>7, <1>8, <2>3 DEF IInv, TypeOK, encVars
  <2>5. /\ StreamsInOrder' /\ EncoderInStep'
        /\ \A s \in Streams : s > reading => There(s)'
    <3>1. pipe' = pipe /\ pipe \in [Streams -> Seq(Cell)]
      BY <1>1 DEF IInv, TypeOK
    <3> QED BY <1>1, <2>3, <3>1, Elsewhere
  <2>6. DecoderInStep'
    <3>1. Len(got'[reading]) = n + 1 /\ n + 1 <= Len(acc)
      BY <1>4, <2>2, <2>3
    <3> QED BY <1>1, <1>2, <1>5, <1>7, <1>8, <3>1 DEF DecoderInStep, Out, encVars
  <2>7. Whole' = FramesOf(acc, n + 1)
    <3>1. (decPc' = "body") = FALSE
      BY <1>8
    <3> QED BY <1>1, <1>2, <1>5, <2>2, <2>3, <3>1 DEF Whole, Undelivered, encVars
  <2>8. Here'
    BY <1>1, <1>4, <1>5, <1>8, <2>7 DEF Here, Behind, Left, Out, encVars
  <2>9. Conserved'
    BY <1>1, <2>5, <2>8 DEF Conserved
  <2> QED BY <2>4, <2>5, <2>6, <2>9 DEF IInv
<1>9. CASE /\ got' = got /\ window' = window
           /\ decPc' = "idle" /\ result' = "error" /\ frameLen' = 0
           /\ decBroken' = TRUE
  <2>1. TypeOK'
    BY <1>1, <1>7, <1>9 DEF IInv, TypeOK, encVars
  <2>2. StreamsInOrder' /\ EncoderInStep'
    BY <1>1, <1>9 DEF IInv, StreamsInOrder, EncoderInStep, encVars
  <2>3. DecoderInStep'
    BY <1>1, <1>9 DEF IInv, DecoderInStep, Out, encVars
  <2>4. \A s \in Streams : s > reading => There(s)'
    BY <1>1 DEF IInv, Conserved, There, Behind, Owed, Out, encVars
  <2>5. Conserved'
    BY <1>1, <1>9, <2>4 DEF Conserved
  <2> QED BY <2>1, <2>2, <2>3, <2>5 DEF IInv
<1> QED BY <1>2, <1>3, <1>8, <1>9, Delivered

-----------------------------------------------------------------------------
(* The theorems *)

LEMMA NextStep == ASSUME IInv, Next PROVE IInv'
<1>1. CASE \E m \in Messages : Encode(m)
  BY <1>1, EncodeStep
<1>2. CASE EncodeFails
  BY <1>2, EncodeFailsStep
<1>3. CASE Flush
  BY <1>3, EncoderPcStep DEF Flush
<1>4. CASE Close
  <2>1. encPc' \in {"idle", "flush", "close", "closed"}
    BY <1>4 DEF Close
  <2> QED BY <1>4, <2>1, EncoderPcStep DEF Close
<1>5. CASE \E n \in 0 .. Len(buf), err \in BOOLEAN : Write(n, err)
  BY <1>5, WriteStep
<1>6. CASE ResetEncoder
  BY <1>6, ResetEncoderStep
<1>7. CASE Decode
  BY <1>7, DecodeStep
<1>8. CASE \E n \in 0 .. Len(pipe[reading]) : Read(n) \/ ReadFails(n)
  BY <1>8, ReadStep, ReadFailsStep
<1>9. CASE ReadEnds
  BY <1>9, ReadEndsStep
<1>10. CASE Parse
  BY <1>10, ReadHeaderStep, ReadFrameLenStep, DecodeBodyStep DEF Parse
<1>11. CASE DecodeBody(FALSE)
  BY <1>11, DecodeBodyStep
<1>12. CASE ResetDecoder
  BY <1>12, ResetDecoderStep
<1>13. CASE CloseDecoder
  BY <1>13, CloseDecoderStep
<1> QED BY <1>1, <1>2, <1>3, <1>4, <1>5, <1>6, <1>7, <1>8, <1>9, <1>10, <1>11, <1>12, <1>13 DEF Next

LEMMA StutterStep == ASSUME IInv, UNCHANGED vars PROVE IInv'
<1>1. TypeOK'
  BY DEF IInv, TypeOK, vars, encVars, decVars
<1>2. StreamsInOrder' /\ EncoderInStep' /\ DecoderInStep'
  BY DEF IInv, StreamsInOrder, EncoderInStep, DecoderInStep, Out, vars, encVars, decVars
<1>3. Conserved'
  BY DEF IInv, Conserved, Here, There, Behind, Left, Whole, Owed, Out, vars, encVars, decVars
<1> QED BY <1>1, <1>2, <1>3 DEF IInv

\* In every state the types hold, streams come in order, each end's state fits
\* what it has framed or returned, and the bytes in flight are the ones due.
THEOREM InvariantHolds == Spec => []IInv
<1>1. IInv /\ [Next]_vars => IInv'
  BY NextStep, StutterStep
<1> QED BY InitIInv, <1>1, PTL DEF Spec

\* Every variable keeps its type at both ends, for any messages and streams.
THEOREM TypesHold == Spec => []TypeOK
<1>1. IInv => TypeOK
  BY DEF IInv
<1> QED BY InvariantHolds, <1>1, PTL

\* The property's account of what is expected is the invariant's.
LEMMA ExpectedIs == ASSUME IInv PROVE Expected = Left
<1>1. PICK n, acc : n = Len(got[reading]) /\ acc = accepted[reading]
  OBVIOUS
<1>2. \A k : FramesFrom(reading, k) = FramesOf(acc, k)
  BY <1>1 DEF FramesFrom, FramesOf, FrameList
<1>3. acc \in Seq(Messages) /\ reading \in Streams
  BY <1>1 DEF IInv, TypeOK
<1>4. CASE headerRead
  <2>1. Out(reading)
    BY <1>4 DEF IInv, DecoderInStep
  <2>2. Expected = Whole
    BY <1>1, <1>2, <1>4 DEF Expected, Whole, Undelivered
  <2> QED BY <2>1, <2>2 DEF Left
<1>5. CASE ~headerRead
  <2>1. n = 0
    BY <1>1, <1>5 DEF IInv, DecoderInStep
  <2>2. Expected = Cat(IF reading = stream /\ ~headerOut THEN <<>> ELSE StreamHeader, FramesOf(acc, 0))
    BY <1>1, <1>2, <1>5, <2>1 DEF Expected, Cat
  <2>3. CASE Out(reading)
    <3>1. Expected = Due(acc)
      BY <2>2, <2>3 DEF Out, Due
    <3> QED BY <1>1, <1>5, <2>3, <3>1 DEF Left, Whole, Undelivered
  <2>4. CASE ~Out(reading)
    <3>1. acc = <<>> /\ reading = stream /\ ~headerOut
      BY <1>1, <1>3, <2>4, NotOut
    <3>2. FramesOf(acc, 0) = <<>>
      <4>1. 0 \in 0 .. Len(acc) /\ 0 = Len(acc)
        BY <3>1
      <4> QED BY <1>3, <4>1, FramesType
    <3>3. <<>> \in Seq(Cell)
      OBVIOUS
    <3>4. Cat(<<>>, <<>>) = <<>>
      BY <3>3, CatEmpty
    <3> QED BY <2>2, <2>4, <3>1, <3>2, <3>4 DEF Left
  <2> QED BY <2>3, <2>4
<1> QED BY <1>4, <1>5

LEMMA ConservationFollows == ASSUME IInv PROVE Conservation
<1> SUFFICES ASSUME ~decBroken, decPc # "closed"
             PROVE  window \o pipe[reading] \o Behind(reading) = Expected
  BY DEF Conservation
<1>1. Cat(Cat(window, pipe[reading]), Behind(reading)) = Left
  BY DEF IInv, Conserved, Here
<1> QED BY <1>1, ExpectedIs DEF Cat

\* No byte of a stream is lost, sent twice or moved, through short writes,
\* failed flushes, retries and reads that break off anywhere.
THEOREM NoByteIsLost == Spec => []Conservation
<1>1. IInv => Conservation
  BY ConservationFollows
<1> QED BY InvariantHolds, <1>1, PTL

LEMMA EndIsClean ==
    ASSUME IInv, Next, result' = "eof", result # "eof"
    PROVE  pipe[reading] = <<>> /\ Behind(reading) = Expected
<1>1. ReadEnds
  BY DEF Next, Encode, EncodeFails, Flush, Close, Write, ResetEncoder, Decode, Read,
         ReadFails, Parse, ReadHeader, ReadFrameLen, DecodeBody, ResetDecoder,
         CloseDecoder, Return, Break, decVars
<1>2. pipe[reading] = <<>> /\ window = <<>>
  BY <1>1 DEF ReadEnds, Return, Break
<1>3. decPc # "closed" /\ ~decBroken
  BY <1>1, WhoReads DEF ReadEnds
<1>4. Cat(Cat(window, pipe[reading]), Behind(reading)) = Left
  BY <1>3 DEF IInv, Conserved, Here
<1>5. Behind(reading) \in Seq(Cell) /\ <<>> \in Seq(Cell)
  BY BehindType
<1>6. Cat(<<>>, <<>>) = <<>> /\ Cat(<<>>, Behind(reading)) = Behind(reading)
  BY <1>5, CatEmpty
<1> QED BY <1>2, <1>4, <1>6, ExpectedIs

\* io.EOF is returned only where the reader has all that is out, and what is not
\* out is nothing but whole frames.
THEOREM EndsAreClean == Spec => CleanEnd
<1> DEFINE A == result' = "eof" /\ result # "eof" =>
                    pipe[reading] = <<>> /\ Behind(reading) = Expected
<1>1. IInv /\ [Next]_vars => [A]_vars
  BY EndIsClean
<1> HIDE DEF A
<1>2. [][A]_vars <=> CleanEnd
  BY DEF A, CleanEnd
<1> QED BY InvariantHolds, <1>1, <1>2, PTL DEF Spec

-----------------------------------------------------------------------------
(* The messages that have left the encoder *)

\* The fewer messages a reader has, the more bytes are due to it.
LEMMA FramesShrink ==
    ASSUME NEW acc \in Seq(Messages), NEW n \in 0 .. Len(acc), NEW k \in 0 .. Len(acc), k < n
    PROVE  Len(FramesOf(acc, k)) > Len(FramesOf(acc, n))
<1> DEFINE size(i) == Len(FramesOf(acc, i))
           Odd == {d \in 1 .. n : ~ (size(n - d) > size(n))}
<1>1. Len(acc) \in Nat /\ n \in Nat /\ n <= Len(acc)
  OBVIOUS
<1>2. \A i \in 0 .. Len(acc) : size(i) \in Nat
  BY FramesType
<1>3. ASSUME NEW i \in 0 .. Len(acc), i < Len(acc)
      PROVE  size(i) > size(i + 1) /\ i + 1 \in 0 .. Len(acc)
  <2>1. PICK m, f, g : m = acc[i + 1] /\ f = Frame(m, i) /\ g = FramesOf(acc, i + 1)
    OBVIOUS
  <2>2. i + 1 \in 0 .. Len(acc) /\ m \in Messages /\ FramesOf(acc, i) = Cat(f, g) /\ i \in Nat
    BY <1>3, <2>1, FramesNext
  <2>3. f \in Seq(Cell) /\ g \in Seq(Cell)
    BY <2>1, <2>2, FrameType, FramesType
  <2>4. Len(f) \in Nat \ {0} /\ Len(g) \in Nat
    BY <2>1, <2>2, <2>3, FrameLong
  <2>5. Len(Cat(f, g)) = Len(f) + Len(g)
    BY <2>3, CatType
  <2>6. size(i) = Len(Cat(f, g)) /\ size(i + 1) = Len(g)
    BY <2>1, <2>2
  <2> HIDE DEF size
  <2> QED BY <2>2, <2>4, <2>5, <2>6
<1> HIDE DEF size
<1>4. Odd = {}
  <2> SUFFICES ASSUME Odd # {} PROVE FALSE
    OBVIOUS
  <2>1. PICK d \in Odd : d = 1 \/ (d - 1 \in Nat \ {0} /\ d - 1 \notin Odd)
    <3>1. Odd \in SUBSET (Nat \ {0})
      OBVIOUS
    <3> HIDE DEF Odd
    <3> QED BY <3>1, Least
  <2>2. d \in 1 .. n /\ ~ (size(n - d) > size(n))
    OBVIOUS
  <2>3. d # 1 => d - 1 \in 1 .. n /\ size(n - (d - 1)) > size(n)
    BY <2>1, <2>2
  <2> HIDE DEF Odd
  <2>4. PICK i : i = n - d
    OBVIOUS
  <2>5. i \in 0 .. Len(acc) /\ i < Len(acc) /\ i + 1 = n - (d - 1) /\ (d = 1 => i + 1 = n)
    BY <1>1, <2>2, <2>4
  <2>6. size(i) > size(i + 1) /\ size(i) \in Nat /\ size(i + 1) \in Nat /\ size(n) \in Nat
    BY <1>1, <1>2, <1>3, <2>5
  <2>7. CASE d = 1
    BY <2>2, <2>4, <2>5, <2>6, <2>7
  <2>8. CASE d # 1
    <3>1. size(i + 1) > size(n)
      BY <2>3, <2>5, <2>8
    <3>2. size(i) > size(n)
      BY <2>6, <3>1
    <3> QED BY <2>2, <2>4, <3>2
  <2> QED BY <2>7, <2>8
<1>5. PICK d : d = n - k
  OBVIOUS
<1>6. d \in 1 .. n /\ n - d = k
  BY <1>1, <1>5
<1>7. size(n - d) > size(n)
  BY <1>4, <1>6
<1>8. size(k) > size(n)
  BY <1>6, <1>7
<1> QED BY <1>8 DEF size

\* Departed, of the messages and of how many bytes are not out.
Gone(acc, rest) == {n \in 1 .. Len(acc) : Len(FramesOf(acc, n)) >= rest}

LEMMA DepartedIs == ASSUME NEW s PROVE Departed(s) = Gone(accepted[s], Len(Behind(s)))
  BY DEF Departed, Gone, FramesFrom, FramesOf, FrameList

\* None leaves before those in front of it, and the fewer bytes are not out,
\* the more have left.
LEMMA GoneInOrder ==
    ASSUME NEW acc \in Seq(Messages), NEW rest \in Nat
    PROVE  /\ Gone(acc, rest) \subseteq 1 .. Len(acc)
           /\ \A n \in Gone(acc, rest) : 1 .. n \subseteq Gone(acc, rest)
           /\ \A less \in 0 .. rest : Gone(acc, rest) \subseteq Gone(acc, less)
<1>1. Len(acc) \in Nat
  OBVIOUS
<1>2. \A i \in 0 .. Len(acc) : Len(FramesOf(acc, i)) \in Nat
  BY FramesType
<1>3. ASSUME NEW n \in Gone(acc, rest), NEW k \in 1 .. n PROVE k \in Gone(acc, rest)
  <2>1. n \in 1 .. Len(acc) /\ Len(FramesOf(acc, n)) >= rest
    BY DEF Gone
  <2>2. /\ k \in 1 .. Len(acc) /\ k \in 0 .. Len(acc) /\ n \in 0 .. Len(acc)
        /\ (k = n \/ k < n)
    BY <1>1, <2>1
  <2>3. CASE k = n
    BY <2>3
  <2>4. CASE k < n
    <3>1. PICK x, y : x = Len(FramesOf(acc, k)) /\ y = Len(FramesOf(acc, n))
      OBVIOUS
    <3>2. x > y
      BY <2>2, <2>4, <3>1, FramesShrink
    <3>3. x \in Nat /\ y \in Nat
      BY <1>2, <2>2, <3>1
    <3>4. x >= rest
      BY <2>1, <3>1, <3>2, <3>3
    <3> QED BY <2>2, <3>1, <3>4 DEF Gone
  <2> QED BY <2>2, <2>3, <2>4
<1>4. ASSUME NEW less \in 0 .. rest, NEW n \in Gone(acc, rest) PROVE n \in Gone(acc, less)
  <2>1. n \in 1 .. Len(acc) /\ Len(FramesOf(acc, n)) >= rest
    BY DEF Gone
  <2>2. n \in 0 .. Len(acc)
    BY <1>1, <2>1
  <2>3. PICK y : y = Len(FramesOf(acc, n))
    OBVIOUS
  <2>4. y \in Nat /\ y >= rest
    BY <1>2, <2>1, <2>2, <2>3
  <2>5. y >= less
    BY <2>4
  <2> QED BY <2>1, <2>3, <2>5 DEF Gone
<1> QED BY <1>3, <1>4 DEF Gone

\* A frame more behind the others: none has left that had not.
LEMMA GoneMore ==
    ASSUME NEW acc \in Seq(Messages), NEW m \in Messages, NEW rest \in Nat,
           NEW more, more = rest + Len(Frame(m, Len(acc)))
    PROVE  Gone(Append(acc, m), more) = Gone(acc, rest)
<1>1. PICK a, K, f : a = Append(acc, m) /\ K = Len(acc) /\ f = Frame(m, K)
  OBVIOUS
<1>2. a \in Seq(Messages) /\ Len(a) = K + 1 /\ K \in Nat
  BY <1>1, AppendProperties
<1>3. f \in Seq(Cell) /\ Len(f) \in Nat \ {0} /\ more = rest + Len(f)
  BY <1>1, <1>2, FrameType, FrameLong
<1>4. ASSUME NEW n \in 1 .. K
      PROVE  Len(FramesOf(a, n)) >= more <=> Len(FramesOf(acc, n)) >= rest
  <2>1. n \in 0 .. Len(acc)
    BY <1>1, <1>2
  <2>2. PICK g : g = FramesOf(acc, n)
    OBVIOUS
  <2>3. g \in Seq(Cell) /\ Len(g) \in Nat
    BY <2>1, <2>2, FramesType
  <2>4. FramesOf(a, n) = Cat(g, f)
    BY <1>1, <2>1, <2>2, FramesMore
  <2>5. Len(FramesOf(a, n)) = Len(g) + Len(f)
    BY <1>3, <2>3, <2>4, CatType
  <2> QED BY <1>3, <2>2, <2>3, <2>5
<1>5. ~ (Len(FramesOf(a, K + 1)) >= more)
  <2>1. K + 1 \in 0 .. Len(a) /\ K + 1 = Len(a)
    BY <1>2
  <2>2. FramesOf(a, K + 1) = <<>>
    BY <1>2, <2>1, FramesType
  <2>3. Len(FramesOf(a, K + 1)) = 0
    BY <2>2
  <2> QED BY <1>3, <2>3
<1>6. ASSUME NEW n PROVE n \in Gone(a, more) <=> n \in Gone(acc, rest)
  <2>1. n \in 1 .. K + 1 <=> n \in 1 .. K \/ n = K + 1
    BY <1>2
  <2>2. n \in Gone(a, more) <=> n \in 1 .. K + 1 /\ Len(FramesOf(a, n)) >= more
    BY <1>2 DEF Gone
  <2>3. n \in Gone(acc, rest) <=> n \in 1 .. K /\ Len(FramesOf(acc, n)) >= rest
    BY <1>1 DEF Gone
  <2> QED BY <1>4, <1>5, <2>1, <2>2, <2>3
<1> QED BY <1>1, <1>6

\* The header is behind no message.
LEMMA GoneHeaded ==
    ASSUME IInv, NEW headed, headed = Cat(buf, HeaderFirst(headerOut))
    PROVE  /\ headed \in Seq(Cell)
           /\ Gone(accepted[stream], Len(headed)) = Gone(accepted[stream], Len(buf))
<1>1. headed \in Seq(Cell)
  BY HeaderBehind
<1>2. CASE headerOut
  <2>1. buf \in Seq(Cell)
    BY DEF IInv, TypeOK
  <2>2. headed = buf
    BY <1>2, <2>1, CatEmpty DEF HeaderFirst
  <2> QED BY <1>1, <2>2
<1>3. CASE ~headerOut
  <2>1. accepted[stream] = <<>>
    BY <1>3 DEF IInv, EncoderInStep
  <2>2. ASSUME NEW rest PROVE Gone(accepted[stream], rest) = {}
    BY <2>1 DEF Gone
  <2> QED BY <1>1, <2>2
<1> QED BY <1>2, <1>3

Departures == [s \in Streams |-> Departed(s)]

LEMMA DepartedNext == ASSUME NEW s PROVE Departed(s)' = Gone(accepted'[s], Len(Behind(s)'))
  BY DEF Departed, Gone, FramesFrom, FramesOf, FrameList

\* None leaves where neither the messages change nor what is not out.
LEMMA NoneLeaves ==
    ASSUME NEW s, accepted'[s] = accepted[s], Behind(s)' = Behind(s)
    PROVE  Departed(s)' = Departed(s)
  BY DepartedIs, DepartedNext

LEMMA EncodePosts ==
    ASSUME IInv, NEW m \in Messages, Encode(m)
    PROVE  Departures' = Departures
<1>1. /\ UNCHANGED <<stream, unsent>>
      /\ accepted' = [accepted EXCEPT ![stream] = Append(accepted[stream], m)]
      /\ ~encBroken /\ encSeen = Len(accepted[stream])
  BY DEF Encode, CanEncode, IInv, EncoderInStep
<1>2. stream \in Streams /\ accepted[stream] \in Seq(Messages) /\ buf \in Seq(Cell)
  BY DEF IInv, TypeOK
<1>3. PICK acc, fr, headed : /\ acc = accepted[stream] /\ fr = Frame(m, Len(acc))
                             /\ headed = Cat(buf, HeaderFirst(headerOut))
  OBVIOUS
<1>4. buf' = Cat(headed, fr)
  BY <1>1, <1>3, HeadedIs DEF Encode, Cat
<1>5. /\ acc \in Seq(Messages) /\ Len(acc) \in Nat /\ headed \in Seq(Cell) /\ fr \in Seq(Cell)
      /\ Gone(acc, Len(headed)) = Gone(acc, Len(buf))
  <2>1. acc \in Seq(Messages) /\ Len(acc) \in Nat
    BY <1>2, <1>3
  <2> QED BY <1>3, <2>1, FrameType, GoneHeaded
<1>6. Len(headed) \in Nat /\ Len(buf') = Len(headed) + Len(fr)
  BY <1>4, <1>5, CatType
<1>7. Gone(Append(acc, m), Len(buf')) = Gone(acc, Len(buf))
  BY <1>3, <1>5, <1>6, GoneMore
<1>8. accepted'[stream] = Append(acc, m) /\ \A s \in Streams : s # stream => accepted'[s] = accepted[s]
  <2>1. accepted \in [Streams -> Seq(Messages)]
    BY DEF IInv, TypeOK
  <2> QED BY <1>1, <1>2, <1>3, <2>1
<1>9. ASSUME NEW s \in Streams PROVE Departed(s)' = Departed(s)
  <2>1. CASE s = stream
    <3>1. Behind(s) = buf /\ Behind(s)' = buf'
      BY <1>1, <2>1 DEF Behind
    <3> QED BY <1>3, <1>7, <1>8, <2>1, <3>1, DepartedIs, DepartedNext
  <2>2. CASE s # stream
    <3>1. Behind(s)' = Behind(s)
      BY <1>1, <2>2 DEF Behind
    <3> QED BY <1>8, <2>2, <3>1, NoneLeaves
  <2> QED BY <2>1, <2>2
<1> QED BY <1>9 DEF Departures

LEMMA EncodeFailsKeeps == ASSUME IInv, EncodeFails PROVE Departures' = Departures
<1>1. UNCHANGED <<stream, unsent, accepted>>
  BY DEF EncodeFails
<1>2. PICK headed : headed = Cat(buf, HeaderFirst(headerOut))
  OBVIOUS
<1>3. buf' = headed
  BY <1>2, HeadedIs DEF EncodeFails
<1>4. ASSUME NEW s \in Streams PROVE Departed(s)' = Departed(s)
  <2>1. CASE s = stream
    <3>1. Behind(s) = buf /\ Behind(s)' = headed
      BY <1>1, <1>3, <2>1 DEF Behind
    <3> QED BY <1>1, <1>2, <2>1, <3>1, GoneHeaded, DepartedIs, DepartedNext
  <2>2. CASE s # stream
    <3>1. Behind(s)' = Behind(s)
      BY <1>1, <2>2 DEF Behind
    <3> QED BY <1>1, <3>1, NoneLeaves
  <2> QED BY <2>1, <2>2
<1> QED BY <1>4 DEF Departures

LEMMA ResetEncoderKeeps == ASSUME IInv, ResetEncoder PROVE Departures' = Departures
<1>1. stream' = stream + 1 /\ buf' = <<>> /\ accepted' = accepted
  BY DEF ResetEncoder
<1>2. stream \in Streams /\ stream' # stream /\ stream' > stream
  BY <1>1, StreamsAreNumbers DEF IInv, TypeOK
<1>3. PICK headed : headed = Cat(buf, HeaderFirst(headerOut))
  OBVIOUS
<1>4. unsent'[stream] = headed /\ \A s \in Streams : s # stream => unsent'[s] = unsent[s]
  <2>1. unsent' = [unsent EXCEPT ![stream] = headed] /\ unsent \in [Streams -> Seq(Cell)]
    BY <1>3, HeadedIs DEF ResetEncoder, IInv, TypeOK
  <2> QED BY <1>2, <2>1
<1>5. ASSUME NEW s \in Streams PROVE Departed(s)' = Departed(s)
  <2>1. CASE s = stream
    <3>1. Behind(s) = buf /\ Behind(s)' = headed
      BY <1>1, <1>2, <1>4, <2>1 DEF Behind
    <3> QED BY <1>1, <1>3, <2>1, <3>1, GoneHeaded, DepartedIs, DepartedNext
  <2>2. CASE s = stream'
    <3>1. accepted[s] = <<>> /\ accepted'[s] = <<>>
      BY <1>1, <1>2, <2>2 DEF IInv, StreamsInOrder
    <3>2. ASSUME NEW rest PROVE Gone(<<>>, rest) = {}
      BY DEF Gone
    <3> QED BY <3>1, <3>2, DepartedIs, DepartedNext
  <2>3. CASE s # stream /\ s # stream'
    <3>1. Behind(s)' = Behind(s)
      BY <1>4, <2>3 DEF Behind
    <3> QED BY <1>1, <3>1, NoneLeaves
  <2> QED BY <2>1, <2>2, <2>3
<1> QED BY <1>5 DEF Departures

\* The bytes that a Write takes may be the last of some messages.
LEMMA WriteDeparts ==
    ASSUME IInv, NEW n, NEW err \in BOOLEAN, Write(n, err), NEW gone, gone = Departed(stream)'
    PROVE  /\ Departures' = [Departures EXCEPT ![stream] = gone]
           /\ Departures[stream] \subseteq gone
           /\ gone \subseteq 1 .. Len(accepted[stream])
           /\ \A k \in gone : 1 .. k \subseteq gone
<1>1. /\ n \in 0 .. Len(buf) /\ buf' = Drop(buf, n)
      /\ UNCHANGED <<stream, accepted, unsent>>
  BY DEF Write
<1>2. stream \in Streams /\ accepted[stream] \in Seq(Messages) /\ buf \in Seq(Cell)
  BY DEF IInv, TypeOK
<1>3. Len(buf) \in Nat /\ Len(buf') \in 0 .. Len(buf) /\ Len(buf') \in Nat
  <2>1. Len(buf') = Len(buf) - n
    BY <1>1, <1>2, DropType
  <2> QED BY <1>1, <1>2, <2>1
<1>4. Behind(stream) = buf /\ gone = Gone(accepted[stream], Len(buf'))
  <2>1. Behind(stream)' = buf'
    BY <1>1 DEF Behind
  <2> QED BY <1>1, <2>1, DepartedNext DEF Behind
<1>5. /\ Gone(accepted[stream], Len(buf)) \subseteq gone /\ gone \subseteq 1 .. Len(accepted[stream])
      /\ \A k \in gone : 1 .. k \subseteq gone
  BY <1>2, <1>3, <1>4, GoneInOrder
<1>6. Departures[stream] = Gone(accepted[stream], Len(buf))
  BY <1>2, <1>4, DepartedIs DEF Departures
<1>7. ASSUME NEW s \in Streams, s # stream PROVE Departed(s)' = Departed(s)
  <2>1. Behind(s)' = Behind(s)
    BY <1>1, <1>7 DEF Behind
  <2> QED BY <1>1, <2>1, NoneLeaves
<1>8. Departures' = [Departures EXCEPT ![stream] = gone]
  <2>1. Departures' = [s \in Streams |-> Departed(s)']
    BY DEF Departures
  <2>2. ASSUME NEW s \in Streams
        PROVE  Departed(s)' = IF s = stream THEN gone ELSE Departed(s)
    <3>1. CASE s = stream
      <4>1. Behind(s)' = buf'
        BY <1>1, <3>1 DEF Behind
      <4>2. Departed(s)' = Gone(accepted[s], Len(buf'))
        BY <1>1, <4>1, DepartedNext
      <4> QED BY <1>4, <3>1, <4>2
    <3>2. CASE s # stream
      BY <1>7, <3>2
    <3> QED BY <3>1, <3>2
  <2>3. [Departures EXCEPT ![stream] = gone] = [s \in Streams |-> IF s = stream THEN gone ELSE Departed(s)]
    BY DEF Departures
  <2> QED BY <2>1, <2>2, <2>3
<1> QED BY <1>5, <1>6, <1>8

\* What the decoder does moves nothing out of the encoder.
LEMMA DecoderKeeps == ASSUME UNCHANGED encVars PROVE Departures' = Departures
<1>1. ASSUME NEW s \in Streams PROVE Departed(s)' = Departed(s)
  <2>1. Behind(s)' = Behind(s) /\ accepted'[s] = accepted[s]
    BY DEF Behind, encVars
  <2> QED BY <2>1, NoneLeaves
<1> QED BY <1>1 DEF Departures

-----------------------------------------------------------------------------
(* The streams implement the channel *)

\* The message that is handed out has left the encoder whole.
LEMMA BodyHasLeft ==
    ASSUME IInv, decPc = "body", ~Filling, NEW n, n = Len(got[reading])
    PROVE  n + 1 \in Departed(reading)
<1>1. PICK acc, rest : acc = accepted[reading] /\ rest = Behind(reading)
  OBVIOUS
<1>2. PICK front : front = Cat(Drop(window, frameLen), pipe[reading])
  OBVIOUS
<1>3. /\ n \in Nat /\ n < Len(acc) /\ n + 1 \in 0 .. Len(acc)
      /\ Drop(window, frameLen) \in Seq(Cell)
      /\ Cat(front, rest) = FramesOf(acc, n + 1)
  <2>1. PICK m : m = acc[n + 1]
    OBVIOUS
  <2> QED BY <1>1, <1>2, <2>1, NextBody
<1>4. reading \in Streams /\ pipe[reading] \in Seq(Cell) /\ rest \in Seq(Cell) /\ front \in Seq(Cell)
  <2>1. reading \in Streams /\ pipe[reading] \in Seq(Cell) /\ rest \in Seq(Cell)
    BY <1>1, BehindType DEF IInv, TypeOK
  <2> QED BY <1>2, <1>3, <2>1, CatType
<1>5. Len(FramesOf(acc, n + 1)) = Len(front) + Len(rest) /\ Len(front) \in Nat /\ Len(rest) \in Nat
  <2>1. Len(Cat(front, rest)) = Len(front) + Len(rest)
    BY <1>4, CatType
  <2> QED BY <1>3, <1>4, <2>1
<1>6. Len(FramesOf(acc, n + 1)) >= Len(rest)
  BY <1>5
<1>7. n + 1 \in 1 .. Len(acc)
  BY <1>3
<1>8. n + 1 \in Gone(acc, Len(rest))
  BY <1>6, <1>7 DEF Gone
<1> QED BY <1>1, <1>8, DepartedIs

\* Where the decoder finds the end, nothing has left that it has not taken.
LEMMA EndHasLeft ==
    ASSUME IInv, ~decBroken, decPc \in {"header", "length"}, window = <<>>,
           pipe[reading] = <<>>, NEW n, n = Len(got[reading])
    PROVE  Departed(reading) \subseteq 1 .. n
<1>1. PICK acc, rest : acc = accepted[reading] /\ rest = Behind(reading)
  OBVIOUS
<1>2. /\ acc \in Seq(Messages) /\ rest \in Seq(Cell) /\ n \in 0 .. Len(acc) /\ Len(acc) \in Nat
  BY <1>1, BehindType, Standing DEF IInv, TypeOK
<1>3. rest = Left
  <2>1. Cat(Cat(window, pipe[reading]), rest) = Left
    BY <1>1 DEF IInv, Conserved, Here
  <2>2. <<>> \in Seq(Cell)
    OBVIOUS
  <2>3. Cat(<<>>, <<>>) = <<>> /\ Cat(<<>>, rest) = rest
    BY <1>2, <2>2, CatEmpty
  <2> QED BY <2>1, <2>3
<1>4. \A i \in 0 .. Len(acc) : Len(FramesOf(acc, i)) \in Nat
  BY <1>2, FramesType
<1>5. ASSUME NEW k \in Gone(acc, Len(rest)), k > n PROVE FALSE
  <2>1. k \in 1 .. Len(acc) /\ k \in 0 .. Len(acc) /\ Len(FramesOf(acc, k)) >= Len(rest)
    BY <1>2 DEF Gone
  <2>2. Out(reading)
    <3>1. acc # <<>>
      BY <2>1
    <3>2. reading \in Streams
      BY DEF IInv, TypeOK
    <3> QED BY <1>1, <3>1, <3>2, NotOut
  <2>3. rest = Whole
    BY <1>3, <2>2 DEF Left
  <2>4. PICK x, y : x = Len(FramesOf(acc, n)) /\ y = Len(FramesOf(acc, k))
    OBVIOUS
  <2>5. x \in Nat /\ y \in Nat /\ x > y
    BY <1>2, <1>4, <1>5, <2>1, <2>4, FramesShrink
  <2>6. Len(rest) >= x
    <3>1. CASE headerRead
      <4>1. rest = FramesOf(acc, n)
        BY <1>1, <2>3, <3>1 DEF Whole, Undelivered
      <4> QED BY <2>4, <2>5, <4>1
    <3>2. CASE ~headerRead
      <4>1. n = 0
        BY <3>2 DEF IInv, DecoderInStep
      <4>2. rest = Cat(StreamHeader, FramesOf(acc, n))
        BY <1>1, <2>3, <3>2, <4>1 DEF Whole, Undelivered, Due
      <4>3. FramesOf(acc, n) \in Seq(Cell) /\ StreamHeader \in Seq(Cell)
        BY <1>2, FramesType, HeaderType
      <4>4. Len(rest) = Len(StreamHeader) + x
        BY <2>4, <4>2, <4>3, CatType
      <4>5. Len(StreamHeader) \in Nat
        BY HeaderType
      <4> QED BY <2>5, <4>4, <4>5
    <3> QED BY <3>1, <3>2
  <2>7. Len(rest) \in Nat /\ y >= Len(rest)
    BY <1>2, <2>1, <2>4
  <2> QED BY <2>5, <2>6, <2>7
<1>6. ASSUME NEW k \in Gone(acc, Len(rest)) PROVE k \in 1 .. n
  <2>1. k \in 1 .. Len(acc)
    BY DEF Gone
  <2>2. ~ (k > n)
    BY <1>5
  <2> QED BY <1>2, <2>1, <2>2
<1> QED BY <1>1, <1>6, DepartedIs

ChannelVars == <<stream, reading, accepted, Departures, got, result = "eof">>

\* What the decoder does besides handing out a message, telling the end and
\* going on to the next stream is at most to take back that it is the end.
LEMMA DecoderAsks ==
    ASSUME UNCHANGED <<encVars, reading, got>>, result' = result \/ result' # "eof"
    PROVE  [Channel!Next]_ChannelVars
<1>1. Departures' = Departures /\ UNCHANGED <<stream, accepted>>
  BY DecoderKeeps DEF encVars
<1>2. CASE result' = result
  BY <1>1, <1>2 DEF ChannelVars
<1>3. CASE result' # "eof"
  <2>1. Channel!Ask
    BY <1>1, <1>3 DEF Channel!Ask, Departures
  <2> QED BY <2>1 DEF Channel!Next
<1> QED BY <1>2, <1>3

LEMMA EncodeImplements ==
    ASSUME IInv, NEW m \in Messages, Encode(m)
    PROVE  Channel!Post(m)
<1>1. Departures' = Departures
  BY EncodePosts
<1>2. /\ UNCHANGED <<stream, reading, got, result>>
      /\ accepted' = [accepted EXCEPT ![stream] = Append(@, m)]
  BY DEF Encode, decVars
<1> QED BY <1>1, <1>2 DEF Channel!Post, Departures

LEMMA WriteImplements ==
    ASSUME IInv, NEW n, NEW err \in BOOLEAN, Write(n, err)
    PROVE  Channel!Next
<1>1. PICK gone : gone = Departed(stream)'
  OBVIOUS
<1>2. /\ Departures' = [Departures EXCEPT ![stream] = gone]
      /\ Departures[stream] \subseteq gone
      /\ gone \subseteq 1 .. Len(accepted[stream])
      /\ \A k \in gone : 1 .. k \subseteq gone
  BY <1>1, WriteDeparts
<1>3. UNCHANGED <<stream, reading, accepted, got, result>>
  BY DEF Write, decVars
<1>4. Channel!Depart(gone)
  BY <1>2, <1>3 DEF Channel!Depart, Departures
<1>5. gone \in SUBSET (1 .. Len(accepted[stream]))
  BY <1>2
<1> QED BY <1>4, <1>5 DEF Channel!Next

LEMMA ResetEncoderImplements == ASSUME IInv, ResetEncoder PROVE Channel!StartNext
<1>1. Departures' = Departures
  BY ResetEncoderKeeps
<1>2. /\ stream < MaxStreams /\ stream' = stream + 1
      /\ UNCHANGED <<reading, accepted, got, result>>
  BY DEF ResetEncoder, decVars
<1> QED BY <1>1, <1>2 DEF Channel!StartNext, Departures

LEMMA DecodeBodyImplements ==
    ASSUME IInv, NEW ok \in BOOLEAN, DecodeBody(ok)
    PROVE  [Channel!Next]_ChannelVars
<1>1. decPc = "body" /\ ~Filling /\ UNCHANGED <<encVars, reading>>
  BY DEF DecodeBody
<1>2. PICK n, acc : n = Len(got[reading]) /\ acc = accepted[reading]
  OBVIOUS
<1>3. n + 1 \in Departed(reading) /\ reading \in Streams
  BY <1>1, <1>2, BodyHasLeft DEF IInv, TypeOK
<1>4. Departures' = Departures /\ UNCHANGED <<stream, accepted>>
  BY <1>1, DecoderKeeps DEF encVars
<1>5. CASE got' = [got EXCEPT ![reading] = Append(got[reading], acc[n + 1])] /\ result' = "value"
  <2>1. n + 1 \in Departures[reading]
    BY <1>3 DEF Departures
  <2>2. Channel!Take
    BY <1>1, <1>2, <1>4, <1>5, <2>1 DEF Channel!Take, Departures
  <2> QED BY <2>2 DEF Channel!Next
<1>6. CASE got' = got /\ result' = "error"
  BY <1>1, <1>6, DecoderAsks
<1> QED BY <1>2, <1>5, <1>6, Delivered

LEMMA ReadEndsImplements == ASSUME IInv, ReadEnds PROVE [Channel!Next]_ChannelVars
<1>1. /\ pipe[reading] = <<>> /\ UNCHANGED <<encVars, reading, got>>
      /\ result' = "error" \/ (AtBoundary /\ window = <<>> /\ result' = "eof")
  BY DEF ReadEnds, Return, Break
<1>2. CASE result' = "error"
  BY <1>1, <1>2, DecoderAsks
<1>3. CASE AtBoundary /\ window = <<>> /\ result' = "eof"
  <2>1. ~decBroken /\ decPc \in {"header", "length"}
    BY <1>3, WhoReads DEF ReadEnds, AtBoundary
  <2>2. reading \in Streams /\ Departed(reading) \subseteq 1 .. Len(got[reading])
    BY <1>1, <1>3, <2>1, EndHasLeft DEF IInv, TypeOK
  <2>3. Departures[reading] \subseteq 1 .. Len(got[reading])
    BY <2>2 DEF Departures
  <2>4. Departures' = Departures /\ UNCHANGED <<stream, accepted>>
    BY <1>1, DecoderKeeps DEF encVars
  <2>5. Channel!End
    BY <1>1, <1>3, <2>3, <2>4 DEF Channel!End, Departures
  <2> QED BY <2>5 DEF Channel!Next
<1> QED BY <1>1, <1>2, <1>3

LEMMA ResetDecoderImplements == ASSUME ResetDecoder PROVE Channel!ReadNext
<1>1. /\ reading < stream /\ reading' = reading + 1 /\ result' = "none"
      /\ UNCHANGED <<got, encVars>>
  BY DEF ResetDecoder
<1>2. Departures' = Departures /\ UNCHANGED <<stream, accepted>>
  BY <1>1, DecoderKeeps DEF encVars
<1> QED BY <1>1, <1>2 DEF Channel!ReadNext, Departures

\* The steps that the caller of neither end can tell from none.
LEMMA EncoderStutters ==
    ASSUME UNCHANGED <<buf, stream, accepted, unsent, decVars>>
    PROVE  UNCHANGED ChannelVars
<1>1. ASSUME NEW s \in Streams PROVE Departed(s)' = Departed(s)
  <2>1. Behind(s)' = Behind(s) /\ accepted'[s] = accepted[s]
    BY DEF Behind
  <2> QED BY <2>1, NoneLeaves
<1>2. Departures' = Departures
  BY <1>1 DEF Departures
<1> QED BY <1>2 DEF ChannelVars, decVars

LEMMA ChannelStep == ASSUME IInv, [Next]_vars PROVE [Channel!Next]_ChannelVars
<1>1. CASE \E m \in Messages : Encode(m)
  <2>1. PICK m \in Messages : Encode(m)
    BY <1>1
  <2>2. Channel!Post(m)
    BY <2>1, EncodeImplements
  <2> QED BY <2>2 DEF Channel!Next
<1>2. CASE EncodeFails
  BY <1>2, EncodeFailsKeeps DEF EncodeFails, ChannelVars, decVars
<1>3. CASE Flush \/ Close \/ UNCHANGED vars
  BY <1>3, EncoderStutters DEF Flush, Close, vars, encVars
<1>4. CASE \E n \in 0 .. Len(buf), err \in BOOLEAN : Write(n, err)
  BY <1>4, WriteImplements
<1>5. CASE ResetEncoder
  BY <1>5, ResetEncoderImplements DEF Channel!Next
<1>6. CASE Decode \/ ReadHeader \/ ReadFrameLen \/ CloseDecoder
  <2>1. UNCHANGED <<encVars, reading, got>> /\ (result' = result \/ result' # "eof")
    BY <1>6 DEF Decode, ReadHeader, ReadFrameLen, CloseDecoder, Break, Return
  <2> QED BY <2>1, DecoderAsks
<1>7. CASE \E n \in 0 .. Len(pipe[reading]) : Read(n) \/ ReadFails(n)
  <2>1. UNCHANGED <<encVars, reading, got>> /\ (result' = result \/ result' # "eof")
    BY <1>7 DEF Read, ReadFails, Break, Return
  <2> QED BY <2>1, DecoderAsks
<1>8. CASE ReadEnds
  BY <1>8, ReadEndsImplements
<1>9. CASE \E ok \in BOOLEAN : DecodeBody(ok)
  BY <1>9, DecodeBodyImplements
<1>10. CASE ResetDecoder
  BY <1>10, ResetDecoderImplements DEF Channel!Next
<1> QED BY <1>1, <1>2, <1>3, <1>4, <1>5, <1>6, <1>7, <1>8, <1>9, <1>10 DEF Next, Parse

LEMMA ChannelInit == Init => Channel!Init
<1> SUFFICES ASSUME Init PROVE Channel!Init
  OBVIOUS
<1>1. ASSUME NEW s \in Streams PROVE Departed(s) = {}
  <2>1. accepted[s] = <<>>
    BY DEF Init
  <2> QED BY <2>1, DepartedIs DEF Gone
<1>2. [s \in Streams |-> Departed(s)] = [s \in Streams |-> {}]
  BY <1>1
<1> QED BY <1>2 DEF Init, Channel!Init, Channel!Streams, Streams

\* Encoder, writer, reader and decoder are a channel of messages: Decode hands
\* out the next message of the stream that Encode accepted, once and in order,
\* only when its last byte has left the encoder; io.EOF comes only where it has
\* handed out all that have left; nothing of another stream is ever handed out.
THEOREM ImplementsChannel == Spec => Delivery
<1>1. IInv /\ [Next]_vars => [Channel!Next]_ChannelVars
  BY ChannelStep
<1> QED
  BY <1>1, ChannelInit, InvariantHolds, PTL
     DEF Spec, Delivery, Channel!Spec, Channel!vars, ChannelVars, Departures
=============================================================================
