------------------------- MODULE EncoderPoolProofs -------------------------
(***************************************************************************)
(* EncoderPool, for any number of goroutines, any requests and any of the  *)
(* size limits: every call writes its own message, nothing returned is     *)
(* written again, and no setting of an earlier call is worked under.  The  *)
(* argument is one of ownership: an array belongs to one goroutine, to the *)
(* idle encoder, or to nobody, and a call writes what its goroutine owns.  *)
(***************************************************************************)
EXTENDS EncoderPool, FiniteSetTheorems, SequenceTheorems, TLAPS

-----------------------------------------------------------------------------
(* Memory *)

Mem == Seq(Seq(Unit))

\* The slices a memory holds.
SliceIn(m) == {s \in [array : Nat, len : Nat] :
                    s.array <= Len(m) /\ s.len <= Cap(m, s)}

\* n has the arrays of m, and has written to those in A alone.
Unwritten(m, n, A) ==
    /\ Len(m) <= Len(n)
    /\ \A a \in 1 .. Len(m) : Len(n[a]) = Len(m[a]) /\ (a \notin A => n[a] = m[a])

LEMMA SliceFacts ==
    ASSUME NEW m \in Mem, NEW s \in SliceIn(m)
    PROVE  /\ s.array \in Nat /\ s.len \in Nat /\ Len(m) \in Nat
           /\ s.array = 0 => s.len = 0 /\ s = NilSlice
           /\ s.array # 0 => s.array \in 1 .. Len(m) /\ m[s.array] \in Seq(Unit)
                             /\ Len(m[s.array]) \in Nat /\ s.len <= Len(m[s.array])
  BY DEF Mem, SliceIn, Cap, NilSlice

LEMMA NilFacts ==
    ASSUME NEW m \in Mem
    PROVE  NilSlice \in SliceIn(m) /\ Bytes(m, NilSlice) = <<>> /\ NilSlice.array = 0
  BY DEF Mem, SliceIn, Cap, NilSlice, Bytes

LEMMA BytesType ==
    ASSUME NEW m \in Mem, NEW s \in SliceIn(m)
    PROVE  /\ Bytes(m, s) \in Seq(Unit)
           /\ Len(Bytes(m, s)) = s.len
           /\ \A i \in 1 .. s.len : Bytes(m, s)[i] = m[s.array][i]
<1>1. CASE s.array = 0
  <2>1. s.len = 0 /\ Bytes(m, s) = <<>>
    BY <1>1, SliceFacts DEF Bytes
  <2> QED
    BY <2>1
<1>2. CASE s.array # 0
  <2> DEFINE x == m[s.array]
  <2>1. x \in Seq(Unit) /\ s.len \in Nat /\ s.len <= Len(x) /\ Len(x) \in Nat
    BY <1>2, SliceFacts
  <2>2. Bytes(m, s) = SubSeq(x, 1, s.len)
    BY <1>2 DEF Bytes
  <2> HIDE DEF x
  <2>3. \A i \in 1 .. s.len : x[i] \in Unit
    BY <2>1
  <2>4. /\ SubSeq(x, 1, s.len) \in Seq(Unit)
        /\ Len(SubSeq(x, 1, s.len)) = s.len
        /\ \A i \in 1 .. s.len : SubSeq(x, 1, s.len)[i] = x[i]
    BY <2>1, <2>3
  <2> QED
    BY <2>2, <2>4 DEF x
<1> QED
  BY <1>1, <1>2

\* What a slice reads is all there is to it.
LEMMA BytesEqual ==
    ASSUME NEW m \in Mem, NEW n \in Mem, NEW r \in SliceIn(m), NEW s \in SliceIn(n),
           r.len = s.len, \A i \in 1 .. r.len : m[r.array][i] = n[s.array][i]
    PROVE  Bytes(m, r) = Bytes(n, s)
<1>1. /\ Bytes(m, r) \in Seq(Unit) /\ Len(Bytes(m, r)) = r.len
      /\ \A i \in 1 .. r.len : Bytes(m, r)[i] = m[r.array][i]
  BY BytesType
<1>2. /\ Bytes(n, s) \in Seq(Unit) /\ Len(Bytes(n, s)) = s.len
      /\ \A i \in 1 .. s.len : Bytes(n, s)[i] = n[s.array][i]
  BY BytesType
<1> QED
  BY <1>1, <1>2, SeqEqual

\* A slice survives, and keeps its bytes when its array is not written.
LEMMA SliceKept ==
    ASSUME NEW m \in Mem, NEW n \in Mem, NEW A, Unwritten(m, n, A), NEW s \in SliceIn(m)
    PROVE  /\ s \in SliceIn(n)
           /\ Cap(n, s) = Cap(m, s)
           /\ s.array = 0 \/ s.array \notin A => Bytes(n, s) = Bytes(m, s)
<1>1. CASE s.array = 0
  <2>1. s = NilSlice
    BY <1>1, SliceFacts
  <2> QED
    BY <1>1, <2>1, NilFacts DEF Cap
<1>2. CASE s.array # 0
  <2>1. /\ s.array \in 1 .. Len(m) /\ s.len \in Nat /\ s.len <= Len(m[s.array])
        /\ s.array \in Nat /\ Len(m) \in Nat /\ Len(n) \in Nat
    BY <1>2, SliceFacts DEF Mem
  <2>2. Len(m) <= Len(n) /\ Len(n[s.array]) = Len(m[s.array])
    BY <2>1 DEF Unwritten
  <2>3. Cap(n, s) = Cap(m, s)
    BY <1>2, <2>2 DEF Cap
  <2>4. s \in SliceIn(n)
    BY <2>1, <2>2, <2>3 DEF SliceIn
  <2>5. s.array \notin A => Bytes(n, s) = Bytes(m, s)
    BY <1>2, <2>1 DEF Unwritten, Bytes
  <2> QED
    BY <1>2, <2>3, <2>4, <2>5
<1> QED
  BY <1>1, <1>2

LEMMA UnwrittenChain ==
    ASSUME NEW m \in Mem, NEW n \in Mem, NEW o \in Mem, NEW A, NEW B, NEW C,
           Unwritten(m, n, A), Unwritten(n, o, B),
           \A a \in 1 .. Len(m) : a \in A \/ a \in B => a \in C
    PROVE  Unwritten(m, o, C)
<1>1. Len(m) \in Nat /\ Len(n) \in Nat /\ Len(o) \in Nat /\ Len(m) <= Len(n)
  BY DEF Mem, Unwritten
<1> SUFFICES ASSUME NEW a \in 1 .. Len(m)
             PROVE  Len(o[a]) = Len(m[a]) /\ (a \notin C => o[a] = m[a])
  BY <1>1 DEF Unwritten
<1>2. a \in 1 .. Len(n)
  BY <1>1
<1> QED
  BY <1>2 DEF Unwritten

\* Allocation: a new array, and no other changes.
LEMMA Allocated ==
    ASSUME NEW m \in Mem, NEW x \in Seq(Unit)
    PROVE  /\ Append(m, x) \in Mem
           /\ Len(Append(m, x)) = Len(m) + 1 /\ Len(m) \in Nat
           /\ Append(m, x)[Len(m) + 1] = x
           /\ Unwritten(m, Append(m, x), {})
  BY DEF Mem, Unwritten

LEMMA Units ==
    Blank \in Unit /\ Header \in Unit /\ PatchHeader \in Unit
    /\ \A t \in Threads : <<"body", t>> \in Unit
<1>1. NThreads \in Nat
  BY PoolAssumption
<1>2. 0 \in 0 .. NThreads /\ \A t \in Threads : t \in 0 .. NThreads
  BY <1>1 DEF Threads
<1>3. "blank" \in Kinds /\ "header" \in Kinds /\ "patch" \in Kinds /\ "body" \in Kinds
  BY DEF Kinds
<1> QED
  BY <1>2, <1>3 DEF Blank, Header, PatchHeader, Unit

LEMMA ZeroedType ==
    ASSUME NEW n \in Nat
    PROVE  Zeroed(n) \in Seq(Unit) /\ Len(Zeroed(n)) = n
  BY Units DEF Zeroed

LEMMA MakeFacts ==
    ASSUME NEW m \in Mem, NEW n \in Nat
    PROVE  LET b == Make(m, n)
           IN  /\ b.mem \in Mem
               /\ b.slice \in SliceIn(b.mem)
               /\ b.slice.array = Len(m) + 1 /\ b.slice.len = 0
               /\ Unwritten(m, b.mem, {})
<1> DEFINE x == Zeroed(n)
<1>1. x \in Seq(Unit) /\ Len(x) \in Nat
  BY ZeroedType
<1> HIDE DEF x
<1>2. /\ Append(m, x) \in Mem
      /\ Len(Append(m, x)) = Len(m) + 1 /\ Len(m) \in Nat
      /\ Append(m, x)[Len(m) + 1] = x
      /\ Unwritten(m, Append(m, x), {})
  BY <1>1, Allocated
<1>3. [array |-> Len(m) + 1, len |-> 0] \in SliceIn(Append(m, x))
  BY <1>1, <1>2 DEF SliceIn, Cap
<1> QED
  BY <1>2, <1>3 DEF Make, x

LEMMA CloneFacts ==
    ASSUME NEW m \in Mem, NEW s \in SliceIn(m)
    PROVE  LET b == Clone(m, s)
           IN  /\ b.mem \in Mem
               /\ b.slice \in SliceIn(b.mem)
               /\ b.slice.array = Len(m) + 1 /\ b.slice.array # 0
               /\ Unwritten(m, b.mem, {})
<1> DEFINE x == Bytes(m, s)
<1>1. x \in Seq(Unit) /\ Len(x) = s.len /\ s.len \in Nat
  BY BytesType, SliceFacts
<1> HIDE DEF x
<1>2. /\ Append(m, x) \in Mem
      /\ Len(Append(m, x)) = Len(m) + 1 /\ Len(m) \in Nat
      /\ Append(m, x)[Len(m) + 1] = x
      /\ Unwritten(m, Append(m, x), {})
  BY <1>1, Allocated
<1>3. [array |-> Len(m) + 1, len |-> s.len] \in SliceIn(Append(m, x))
  BY <1>1, <1>2 DEF SliceIn, Cap
<1> QED
  BY <1>2, <1>3 DEF Clone, x

\* append: the bytes and one more, in place or in a new array.  A slice of the
\* same array that ends no later keeps its bytes.
LEMMA PushFacts ==
    ASSUME NEW m \in Mem, NEW s \in SliceIn(m), NEW u \in Unit
    PROVE  LET p == Push(m, s, u)
           IN  /\ p.mem \in Mem
               /\ p.slice \in SliceIn(p.mem)
               /\ p.slice.len = s.len + 1 /\ p.slice.array # 0
               /\ p.slice.array = s.array \/ p.slice.array = Len(m) + 1
               /\ Bytes(p.mem, p.slice) = Append(Bytes(m, s), u)
               /\ Unwritten(m, p.mem, {s.array})
               /\ \A r \in SliceIn(m) : r.len <= s.len => Bytes(p.mem, r) = Bytes(m, r)
<1> DEFINE p == Push(m, s, u)
           old == Bytes(m, s)
<1>1. /\ old \in Seq(Unit) /\ Len(old) = s.len /\ s.len \in Nat
      /\ \A i \in 1 .. s.len : old[i] = m[s.array][i]
  BY BytesType, SliceFacts
<1> HIDE DEF old
<1>2. CASE s.len < Cap(m, s)
  <2> DEFINE a == s.array
             x == [m[a] EXCEPT ![s.len + 1] = u]
             n == [m EXCEPT ![a] = x]
             z == [s EXCEPT !.len = s.len + 1]
  <2>1. a # 0
    BY <1>1, <1>2 DEF Cap
  <2>2. /\ a \in 1 .. Len(m) /\ a \in Nat /\ m[a] \in Seq(Unit) /\ Len(m[a]) \in Nat
        /\ s.len + 1 \in 1 .. Len(m[a])
    BY <1>1, <1>2, <2>1, SliceFacts DEF Cap
  <2>3. x \in Seq(Unit) /\ Len(x) = Len(m[a])
        /\ \A i \in 1 .. Len(m[a]) : x[i] = IF i = s.len + 1 THEN u ELSE m[a][i]
    BY <2>2
  <2> HIDE DEF x
  <2>4. /\ n \in Mem /\ Len(n) = Len(m) /\ n[a] = x
        /\ \A b \in 1 .. Len(m) : b # a => n[b] = m[b]
    BY <2>2, <2>3 DEF Mem
  <2>5. p.mem = n /\ p.slice = z
    <3>1. p.mem = [m EXCEPT ![s.array][s.len + 1] = u]
      BY <1>2 DEF Push
    <3>2. p.slice = z
      BY <1>2 DEF Push
    <3>3. [m EXCEPT ![s.array][s.len + 1] = u] = n
      BY DEF x
    <3> QED
      BY <3>1, <3>2, <3>3
  <2>6. z.array = a /\ z.len = s.len + 1 /\ z \in [array : Nat, len : Nat]
    BY <1>1, <2>2 DEF SliceIn
  <2> HIDE DEF p, n, z
  <2>7. z \in SliceIn(n)
    BY <2>1, <2>2, <2>3, <2>4, <2>6 DEF SliceIn, Cap
  <2>8. Bytes(n, z) = Append(old, u)
    <3>1. /\ Bytes(n, z) \in Seq(Unit) /\ Len(Bytes(n, z)) = s.len + 1
          /\ \A i \in 1 .. s.len + 1 : Bytes(n, z)[i] = x[i]
      BY <2>4, <2>6, <2>7, BytesType
    <3>2. /\ Append(old, u) \in Seq(Unit) /\ Len(Append(old, u)) = s.len + 1
          /\ \A i \in 1 .. s.len : Append(old, u)[i] = old[i]
          /\ Append(old, u)[s.len + 1] = u
      BY <1>1
    <3>3. ASSUME NEW i \in 1 .. s.len + 1 PROVE Bytes(n, z)[i] = Append(old, u)[i]
      <4>1. i \in 1 .. Len(m[a]) /\ (i = s.len + 1 \/ i \in 1 .. s.len)
        BY <1>1, <2>2
      <4>2. i \in 1 .. s.len => i # s.len + 1
        BY <1>1
      <4> QED
        BY <1>1, <2>3, <3>1, <3>2, <4>1, <4>2
    <3> QED
      BY <3>1, <3>2, <3>3, SeqEqual
  <2>9. Unwritten(m, n, {a})
    BY <2>3, <2>4 DEF Unwritten, Mem
  <2>10. ASSUME NEW r \in SliceIn(m), r.len <= s.len PROVE Bytes(n, r) = Bytes(m, r)
    <3>1. CASE r.array # a
      BY <2>4, <2>9, <3>1, SliceKept
    <3>2. CASE r.array = a
      <4>1. r \in SliceIn(n) /\ r.len \in Nat
        BY <2>4, <2>9, SliceKept, SliceFacts
      <4>2. ASSUME NEW i \in 1 .. r.len PROVE n[r.array][i] = m[r.array][i]
        <5>1. i \in 1 .. Len(m[a]) /\ i # s.len + 1
          BY <1>1, <2>2, <2>10, <4>1
        <5> QED
          BY <2>3, <2>4, <3>2, <5>1
      <4> QED
        BY <2>4, <4>1, <4>2, BytesEqual
    <3> QED
      BY <3>1, <3>2
  <2> QED
    BY <2>1, <2>4, <2>5, <2>6, <2>7, <2>8, <2>9, <2>10 DEF p, old
<1>3. CASE ~(s.len < Cap(m, s))
  <2> DEFINE w == Larger(InitialEncBuf, 2 * s.len) - s.len - 1
             x == old \o <<u>> \o Zeroed(w)
             n == Append(m, x)
             z == [array |-> Len(m) + 1, len |-> s.len + 1]
  <2>1. w \in Nat
    BY <1>1, PoolAssumption DEF Larger
  <2> HIDE DEF w
  <2>2. Zeroed(w) \in Seq(Unit) /\ Len(Zeroed(w)) = w
    BY <2>1, ZeroedType
  <2>3. <<u>> \in Seq(Unit) /\ Len(<<u>>) = 1 /\ <<u>>[1] = u
    OBVIOUS
  <2>4. /\ old \o <<u>> \in Seq(Unit) /\ Len(old \o <<u>>) = s.len + 1
        /\ \A i \in 1 .. s.len + 1 : (old \o <<u>>)[i] = IF i <= s.len THEN old[i] ELSE u
    <3>1. ASSUME NEW i \in 1 .. s.len + 1, ~(i <= s.len) PROVE i - s.len = 1
      BY <1>1, <3>1
    <3> QED
      BY <1>1, <2>3, <3>1, ConcatProperties
  <2>5. /\ x \in Seq(Unit) /\ Len(x) = s.len + 1 + w
        /\ \A i \in 1 .. s.len + 1 : x[i] = (old \o <<u>>)[i]
    <3> DEFINE y == old \o <<u>>
               v == Zeroed(w)
    <3>1. y \in Seq(Unit) /\ Len(y) = s.len + 1 /\ v \in Seq(Unit) /\ Len(v) = w
      BY <2>2, <2>4
    <3> HIDE DEF y, v
    <3>2. /\ y \o v \in Seq(Unit)
          /\ Len(y \o v) = Len(y) + Len(v)
          /\ \A i \in 1 .. Len(y) + Len(v) :
                (y \o v)[i] = IF i <= Len(y) THEN y[i] ELSE v[i - Len(y)]
      BY <3>1, ConcatProperties
    <3>3. \A i \in 1 .. s.len + 1 : i \in 1 .. s.len + 1 + w /\ i <= s.len + 1
      BY <1>1, <2>1
    <3> QED
      BY <3>1, <3>2, <3>3 DEF y, v, x
  <2> HIDE DEF x
  <2>6. p.mem = n /\ p.slice = z
    BY <1>3 DEF Push, x, old, w
  <2>7. /\ n \in Mem /\ Len(n) = Len(m) + 1 /\ Len(m) \in Nat
        /\ n[Len(m) + 1] = x /\ Unwritten(m, n, {})
    BY <2>5, Allocated
  <2> HIDE DEF n, p
  <2>8. z \in SliceIn(n)
    BY <1>1, <2>1, <2>5, <2>7 DEF SliceIn, Cap
  <2>9. z.len = s.len + 1 /\ z.array = Len(m) + 1 /\ z.array # 0
    BY <2>7
  <2> HIDE DEF z
  <2>10. Bytes(n, z) = Append(old, u)
    <3>1. /\ Bytes(n, z) \in Seq(Unit) /\ Len(Bytes(n, z)) = s.len + 1
          /\ \A i \in 1 .. s.len + 1 : Bytes(n, z)[i] = x[i]
      <4>1. /\ Bytes(n, z) \in Seq(Unit) /\ Len(Bytes(n, z)) = z.len
            /\ \A i \in 1 .. z.len : Bytes(n, z)[i] = n[z.array][i]
        BY <2>7, <2>8, BytesType
      <4>2. n[z.array] = x
        BY <2>7, <2>9
      <4> QED
        BY <2>9, <4>1, <4>2
    <3>2. /\ Append(old, u) \in Seq(Unit) /\ Len(Append(old, u)) = s.len + 1
          /\ \A i \in 1 .. s.len : Append(old, u)[i] = old[i]
          /\ Append(old, u)[s.len + 1] = u
      BY <1>1
    <3>3. ASSUME NEW i \in 1 .. s.len + 1 PROVE Bytes(n, z)[i] = Append(old, u)[i]
      <4>1. (i = s.len + 1 /\ ~(i <= s.len)) \/ (i \in 1 .. s.len /\ i <= s.len)
        BY <1>1
      <4> QED
        BY <2>4, <2>5, <3>1, <3>2, <4>1
    <3> QED
      BY <3>1, <3>2, <3>3, SeqEqual
  <2>11. \A r \in SliceIn(m) : Bytes(n, r) = Bytes(m, r)
    BY <2>7, SliceKept
  <2>12. Unwritten(m, n, {s.array})
    BY <2>7 DEF Unwritten
  <2> QED
    BY <2>6, <2>7, <2>8, <2>9, <2>10, <2>11, <2>12 DEF p, old
<1> QED
  BY <1>2, <1>3

\* The entropy pass rewrites the message behind start in place, and nothing in
\* front of it.
LEMMA EntropyFacts ==
    ASSUME NEW m \in Mem, NEW e, e.slice \in SliceIn(m), NEW start \in Nat
    PROVE  LET r == Entropy(e, m, start)
           IN  /\ r.mem \in Mem
               /\ r.slice \in SliceIn(r.mem)
               /\ r.slice.array = e.slice.array
               /\ Unwritten(m, r.mem, {e.slice.array})
               /\ \A q \in SliceIn(m) : q.len <= start => Bytes(r.mem, q) = Bytes(m, q)
<1> DEFINE s == e.slice
           r == Entropy(e, m, start)
           packs == e.opts \in WithRANS /\ s.len - start >= 1 + RansMin
<1>1. CASE ~packs
  <2>1. r.mem = m /\ r.slice = s
    BY <1>1 DEF Entropy
  <2>2. Unwritten(m, m, {s.array})
    BY DEF Unwritten, Mem
  <2> QED
    BY <2>1, <2>2
<1>2. CASE packs
  <2> DEFINE a == s.array
             old == m[a]
             flagged == Flagged(old[start + 1])
             packed == <<"packed", old[start + 2][2]>>
             x == [old EXCEPT ![start + 1] = flagged, ![start + 2] = packed]
             n == [m EXCEPT ![a] = x]
             z == [s EXCEPT !.len = start + 2]
  <2>1. s.len \in Nat /\ start + 2 <= s.len
    BY <1>2, SliceFacts, PoolAssumption
  <2>2. a # 0
    BY <2>1, SliceFacts
  <2>3. /\ a \in 1 .. Len(m) /\ a \in Nat /\ old \in Seq(Unit) /\ Len(old) \in Nat
        /\ start + 1 \in 1 .. Len(old) /\ start + 2 \in 1 .. Len(old)
    BY <2>1, <2>2, SliceFacts
  <2>4. flagged \in Unit /\ packed \in Unit
    <3>1. old[start + 1] \in Unit /\ old[start + 2] \in Kinds \X (0 .. NThreads)
      BY <2>3 DEF Unit
    <3>2. {"packed", "packed header", "packed patch"} \subseteq Kinds /\ 0 \in 0 .. NThreads
      BY PoolAssumption DEF Kinds
    <3>3. old[start + 2][2] \in 0 .. NThreads
      BY <3>1
    <3> QED
      BY <3>1, <3>2, <3>3 DEF Flagged, Unit
  <2>5. r.mem = n /\ r.slice = z
    <3>1. r.mem = [m EXCEPT ![a] = [old EXCEPT ![start + 1] = Flagged(@),
                                              ![start + 2] = <<"packed", @[2]>>]]
      BY <1>2 DEF Entropy
    <3>2. [old EXCEPT ![start + 1] = Flagged(@), ![start + 2] = <<"packed", @[2]>>] = x
      BY <2>3
    <3>3. r.slice = z
      BY <1>2 DEF Entropy
    <3> QED
      BY <3>1, <3>2, <3>3
  <2> HIDE DEF flagged, packed, r
  <2>6. /\ x \in Seq(Unit) /\ Len(x) = Len(old)
        /\ \A i \in 1 .. Len(old) : i <= start => x[i] = old[i]
    BY <2>3, <2>4
  <2> HIDE DEF x
  <2>7. /\ n \in Mem /\ Len(n) = Len(m) /\ n[a] = x
        /\ \A b \in 1 .. Len(m) : b # a => n[b] = m[b]
    BY <2>3, <2>6 DEF Mem
  <2>8. z.array = a /\ z.len = start + 2 /\ z \in [array : Nat, len : Nat]
    BY <2>3 DEF SliceIn
  <2> HIDE DEF n, z
  <2>9. z \in SliceIn(n)
    BY <2>2, <2>3, <2>6, <2>7, <2>8 DEF SliceIn, Cap
  <2>10. Unwritten(m, n, {a})
    BY <2>6, <2>7 DEF Unwritten, Mem
  <2>11. ASSUME NEW q \in SliceIn(m), q.len <= start PROVE Bytes(n, q) = Bytes(m, q)
    <3>1. CASE q.array # a
      BY <2>7, <2>10, <3>1, SliceKept
    <3>2. CASE q.array = a
      <4>1. q \in SliceIn(n) /\ q.len \in Nat
        BY <2>7, <2>10, SliceKept, SliceFacts
      <4>2. ASSUME NEW i \in 1 .. q.len PROVE n[q.array][i] = m[q.array][i]
        <5>1. i \in 1 .. Len(old) /\ i <= start
          BY <2>3, <2>11, <4>1
        <5> QED
          BY <2>6, <2>7, <3>2, <5>1
      <4> QED
        BY <2>7, <4>1, <4>2, BytesEqual
    <3> QED
      BY <3>1, <3>2
  <2> QED
    BY <2>5, <2>7, <2>8, <2>9, <2>10, <2>11 DEF r
<1> QED
  BY <1>1, <1>2

-----------------------------------------------------------------------------
(* Renaming: what a step settles into reads the same *)

HeldBy(c, k, t) == {k[t].slice, c[t].dst, c[t].out, c[t].enc.slice}

LEMMA HeldIndex ==
    ASSUME NEW c, NEW k, NEW t \in Threads, NEW s \in HeldBy(c, k, t)
    PROVE  \E i \in DOMAIN Held(c, k) : Held(c, k)[i] = s
<1>1. NThreads \in Nat /\ t \in Nat /\ t >= 1 /\ t <= NThreads
  BY PoolAssumption DEF Threads
<1>2. /\ (4 * t - 3 + 3) \div 4 = t /\ (4 * t - 2 + 3) \div 4 = t
      /\ (4 * t - 1 + 3) \div 4 = t /\ (4 * t + 3) \div 4 = t
  BY <1>1
<1>3. /\ (4 * t - 3) % 4 = 1 /\ (4 * t - 2) % 4 = 2
      /\ (4 * t - 1) % 4 = 3 /\ (4 * t) % 4 = 0
  BY <1>1
<1>4. /\ 4 * t - 3 \in 1 .. 4 * NThreads /\ 4 * t - 2 \in 1 .. 4 * NThreads
      /\ 4 * t - 1 \in 1 .. 4 * NThreads /\ 4 * t \in 1 .. 4 * NThreads
  BY <1>1
<1>5. DOMAIN Held(c, k) = 1 .. 4 * NThreads
  BY DEF Held
<1>6. Held(c, k)[4 * t - 3] = k[t].slice
  BY <1>2, <1>3, <1>4 DEF Held
<1>7. Held(c, k)[4 * t - 2] = c[t].dst
  BY <1>2, <1>3, <1>4 DEF Held
<1>8. Held(c, k)[4 * t - 1] = c[t].out
  <2> DEFINE i == 4 * t - 1
  <2>1. i \in 1 .. 4 * NThreads /\ (i + 3) \div 4 = t /\ i % 4 = 3
    BY <1>2, <1>3, <1>4
  <2> HIDE DEF i
  <2>2. Held(c, k)[i] = c[t].out
    BY <2>1 DEF Held
  <2> QED
    BY <2>2 DEF i
<1>9. Held(c, k)[4 * t] = c[t].enc.slice
  <2> DEFINE i == 4 * t
  <2>1. i \in 1 .. 4 * NThreads /\ (i + 3) \div 4 = t /\ i % 4 = 0
    BY <1>2, <1>3, <1>4
  <2> HIDE DEF i
  <2>2. Held(c, k)[i] = c[t].enc.slice
    BY <2>1 DEF Held
  <2> QED
    BY <2>2 DEF i
<1> QED
  BY <1>4, <1>5, <1>6, <1>7, <1>8, <1>9 DEF HeldBy

LEMMA HeldOwner ==
    ASSUME NEW c, NEW k, NEW i \in DOMAIN Held(c, k)
    PROVE  \E t \in Threads : Held(c, k)[i] \in HeldBy(c, k, t)
<1>1. NThreads \in Nat /\ i \in 1 .. 4 * NThreads
  BY PoolAssumption DEF Held
<1>2. (i + 3) \div 4 \in Threads
  BY <1>1 DEF Threads
<1> QED
  BY <1>1, <1>2 DEF Held, HeldBy

LEMMA NameFacts ==
    ASSUME NEW c, NEW k, NEW a
    PROVE  LET h == Held(c, k)
           IN  /\ a = 0 => NameOf(h, a) = 0
               /\ a # 0 /\ IsHeld(h, a) => /\ NameOf(h, a) \in 1 .. Spare - 1
                                           /\ NameOf(h, a) \in DOMAIN h
                                           /\ h[NameOf(h, a)].array = a
               /\ a # 0 /\ ~IsHeld(h, a) => NameOf(h, a) = Spare
<1>1. DOMAIN Held(c, k) = 1 .. Spare - 1
  BY PoolAssumption DEF Held, Spare
<1> QED
  BY <1>1 DEF NameOf, IsHeld

LEMMA SpareType == Spare \in Nat /\ Spare > 1
  BY PoolAssumption DEF Spare

LEMMA ContentsType ==
    ASSUME NEW h, NEW m \in Mem, NEW a \in 1 .. Len(m)
    PROVE  /\ Contents(h, m, a) \in Seq(Unit)
           /\ Len(Contents(h, m, a)) = Len(m[a]) /\ Len(m[a]) \in Nat
           /\ \A j \in 1 .. Len(m[a]) :
                (\E i \in DOMAIN h : h[i].array = a /\ j <= h[i].len) =>
                    Contents(h, m, a)[j] = m[a][j]
<1>1. m[a] \in Seq(Unit) /\ Len(m[a]) \in Nat /\ DOMAIN m[a] = 1 .. Len(m[a])
  BY DEF Mem
<1> QED
  BY <1>1, Units DEF Contents

LEMMA CollectedType ==
    ASSUME NEW c, NEW k, NEW m \in Mem, NEW idle,
           \A i \in DOMAIN Held(c, k) : Held(c, k)[i] \in SliceIn(m),
           idle \subseteq 0 .. Len(m)
    PROVE  /\ Collected(Held(c, k), idle, m) \in Mem
           /\ Len(Collected(Held(c, k), idle, m)) = Spare
<1> DEFINE h == Held(c, k)
           M == Collected(h, idle, m)
<1> SUFFICES ASSUME NEW i \in 1 .. Spare PROVE M[i] \in Seq(Unit)
  BY SpareType DEF Mem, Collected
<1>1. <<>> \in Seq(Unit)
  OBVIOUS
<1>2. CASE i < Spare
  <2>1. i \in DOMAIN h
    <3>1. DOMAIN h = 1 .. 4 * NThreads /\ NThreads \in Nat
      BY PoolAssumption DEF Held
    <3> QED
      BY <1>2, <3>1 DEF Spare
  <2>2. h[i] \in SliceIn(m)
    BY <2>1
  <2>3. h[i].array # 0 => h[i].array \in 1 .. Len(m)
    BY <2>2, SliceFacts
  <2> HIDE DEF h
  <2>4. M[i] = IF h[i].array # 0 /\ NameOf(h, h[i].array) = i
               THEN Contents(h, m, h[i].array) ELSE <<>>
    BY <1>2 DEF Collected
  <2> QED
    BY <1>1, <2>3, <2>4, ContentsType
<1>3. CASE ~(i < Spare)
  <2> DEFINE b == CHOOSE a \in idle : NameOf(h, a) = Spare
  <2>1. M[i] = IF \E a \in idle : NameOf(h, a) = Spare
               THEN Contents(h, m, b) ELSE <<>>
    BY <1>3 DEF Collected
  <2>2. ASSUME \E a \in idle : NameOf(h, a) = Spare PROVE b \in 1 .. Len(m)
    <3>1. b \in idle /\ NameOf(h, b) = Spare
      BY <2>2
    <3> HIDE DEF b
    <3>2. b # 0
      BY <3>1, NameFacts, SpareType
    <3>3. b \in 0 .. Len(m) /\ Len(m) \in Nat
      BY <3>1 DEF Mem
    <3> QED
      BY <3>2, <3>3
  <2> HIDE DEF b, h, M
  <2> QED
    BY <1>1, <2>1, <2>2, ContentsType
<1> QED
  BY <1>2, <1>3

\* Slice s of memory m, moved to memory n: it reads the same, and the names of
\* the arrays lead back to them.
ReadsAlike(h, m, n, s) ==
    /\ s \in SliceIn(m)
    /\ Moved(h, s) \in SliceIn(n) /\ Bytes(n, Moved(h, s)) = Bytes(m, s)
    /\ Moved(h, s).array = NameOf(h, s.array)
    /\ s.array = 0 => Moved(h, s) = s
    /\ s.array # 0 => /\ Moved(h, s).array # 0 /\ Moved(h, s).array # Spare
                      /\ h[Moved(h, s).array].array = s.array

\* A slice somebody holds reads the same under its array's new name, and two
\* of them share an array exactly when they did.
LEMMA HeldMoves ==
    ASSUME NEW c, NEW k, NEW m \in Mem, NEW idle,
           \A i \in DOMAIN Held(c, k) : Held(c, k)[i] \in SliceIn(m),
           idle \subseteq 0 .. Len(m),
           NEW t \in Threads, NEW s \in HeldBy(c, k, t)
    PROVE  ReadsAlike(Held(c, k), m, Collected(Held(c, k), idle, m), s)
<1> DEFINE h == Held(c, k)
           M == Collected(h, idle, m)
           z == Moved(h, s)
<1>1. PICK i \in DOMAIN h : h[i] = s
  BY HeldIndex
<1>2. s \in SliceIn(m) /\ s.len \in Nat /\ s.array \in Nat
  BY <1>1, SliceFacts
<1>3. M \in Mem /\ Len(M) = Spare
  BY CollectedType
<1>4. z.len = s.len /\ z.array = NameOf(h, s.array)
  BY <1>2 DEF Moved, SliceIn
<1>5. CASE s.array = 0
  <2>1. z = s /\ s = NilSlice
    BY <1>2, <1>5, NameFacts, SliceFacts DEF Moved, SliceIn
  <2> HIDE DEF h, M, z
  <2> QED
    BY <1>2, <1>3, <1>4, <1>5, <2>1, NilFacts DEF h, M, z, ReadsAlike
<1>6. CASE s.array # 0
  <2>1. IsHeld(h, s.array)
    BY <1>1 DEF IsHeld
  <2>2. z.array \in 1 .. Spare - 1 /\ z.array \in DOMAIN h /\ h[z.array].array = s.array
    BY <1>4, <1>6, <2>1, NameFacts
  <2>3. z.array \in 1 .. Spare /\ z.array < Spare /\ z.array # 0 /\ z.array # Spare
        /\ z.array \in Nat /\ z.array <= Spare
    BY <2>2, SpareType
  <2>4. s.array \in 1 .. Len(m) /\ s.len <= Len(m[s.array])
    BY <1>2, <1>6, SliceFacts
  <2> HIDE DEF h
  <2>5. M[z.array] = Contents(h, m, s.array)
    <3>1. \A j \in 1 .. Spare : j < Spare =>
            M[j] = IF h[j].array # 0 /\ NameOf(h, h[j].array) = j
                   THEN Contents(h, m, h[j].array) ELSE <<>>
      BY DEF Collected
    <3> HIDE DEF M, z
    <3> QED
      BY <1>4, <1>6, <2>2, <2>3, <3>1
  <2> HIDE DEF M
  <2>6. /\ Len(M[z.array]) = Len(m[s.array]) /\ Len(m[s.array]) \in Nat
        /\ \A j \in 1 .. s.len : M[z.array][j] = m[s.array][j]
    <3> DEFINE x == Contents(h, m, s.array)
    <3>1. /\ Len(x) = Len(m[s.array]) /\ Len(m[s.array]) \in Nat
          /\ \A j \in 1 .. Len(m[s.array]) :
                (\E l \in DOMAIN h : h[l].array = s.array /\ j <= h[l].len) =>
                    x[j] = m[s.array][j]
      BY <2>4, ContentsType
    <3>2. ASSUME NEW j \in 1 .. s.len
          PROVE  j \in 1 .. Len(m[s.array]) /\ h[i].array = s.array /\ j <= h[i].len
      BY <1>1, <1>2, <2>4, <3>1
    <3> HIDE DEF z, x
    <3>3. ASSUME NEW j \in 1 .. s.len PROVE x[j] = m[s.array][j]
      BY <1>1, <3>1, <3>2
    <3>4. M[z.array] = x
      BY <2>5 DEF x
    <3> QED
      BY <3>1, <3>3, <3>4
  <2>7. z \in SliceIn(M)
    <3>1. z \in [array : Nat, len : Nat]
      BY <1>2, <2>3 DEF Moved, SliceIn
    <3> HIDE DEF z
    <3>2. Cap(M, z) = Len(M[z.array])
      BY <2>3 DEF Cap
    <3> QED
      BY <1>3, <1>4, <2>3, <2>4, <2>6, <3>1, <3>2 DEF SliceIn
  <2>8. Bytes(M, z) = Bytes(m, s)
    <3> HIDE DEF z
    <3> QED
      BY <1>2, <1>3, <1>4, <2>6, <2>7, BytesEqual
  <2> HIDE DEF z
  <2> QED
    BY <1>2, <1>4, <1>6, <2>2, <2>3, <2>7, <2>8 DEF h, M, z, ReadsAlike
<1> QED
  BY <1>5, <1>6

\* The idle encoder's buffer keeps its capacity, under a name nobody holds.
LEMMA IdleMoves ==
    ASSUME NEW c, NEW k, NEW m \in Mem, NEW s \in SliceIn(m),
           \A i \in DOMAIN Held(c, k) : Held(c, k)[i] \in SliceIn(m),
           ~IsHeld(Held(c, k), s.array) \/ s.array = 0
    PROVE  LET h == Held(c, k)
               z == Moved(h, s)
           IN  z \in SliceIn(Collected(h, {s.array}, m)) /\ z.array \in {0, Spare}
<1> DEFINE h == Held(c, k)
           M == Collected(h, {s.array}, m)
           z == Moved(h, s)
<1>1. s.len \in Nat /\ s.array \in Nat /\ s.array <= Len(m) /\ Len(m) \in Nat
  BY SliceFacts DEF SliceIn
<1>2. M \in Mem /\ Len(M) = Spare
  <2>1. {s.array} \subseteq 0 .. Len(m)
    BY <1>1
  <2> QED
    BY <2>1, CollectedType
<1>3. z.len = s.len /\ z.array = NameOf(h, s.array)
  BY DEF Moved, SliceIn
<1>4. CASE s.array = 0
  <2>1. z = s /\ s = NilSlice
    BY <1>4, NameFacts, SliceFacts DEF Moved, SliceIn
  <2> HIDE DEF h, M, z
  <2> QED
    BY <1>2, <1>4, <2>1, NilFacts DEF h, M, z
<1>5. CASE s.array # 0
  <2>1. z.array = Spare
    BY <1>3, <1>5, NameFacts
  <2>2. s.array \in 1 .. Len(m) /\ s.len <= Len(m[s.array])
    BY <1>5, SliceFacts
  <2>3. M[Spare] = Contents(h, m, s.array)
    <3>1. NameOf(h, s.array) = Spare
      BY <1>3, <2>1
    <3>2. (CHOOSE a \in {s.array} : NameOf(h, a) = Spare) = s.array
      BY <3>1
    <3>3. Spare \in 1 .. Spare /\ ~(Spare < Spare)
      BY SpareType
    <3> HIDE DEF h
    <3> QED
      BY <3>1, <3>2, <3>3 DEF Collected
  <2>4. Len(M[Spare]) = Len(m[s.array]) /\ Len(m[s.array]) \in Nat
    <3> DEFINE x == Contents(h, m, s.array)
    <3>1. Len(x) = Len(m[s.array]) /\ Len(m[s.array]) \in Nat
      BY <2>2, ContentsType
    <3> HIDE DEF x, M
    <3>2. M[Spare] = x
      BY <2>3 DEF x
    <3> QED
      BY <3>1, <3>2
  <2>5. z \in [array : Nat, len : Nat]
    BY <2>1, SpareType DEF Moved, SliceIn
  <2>6. z \in SliceIn(M)
    <3> HIDE DEF z, M, h
    <3>1. Cap(M, z) = Len(M[Spare])
      BY <2>1, SpareType DEF Cap
    <3> QED
      BY <1>2, <1>3, <2>1, <2>2, <2>4, <2>5, <3>1, SpareType DEF SliceIn
  <2> QED
    BY <2>1, <2>6
<1> QED
  BY <1>4, <1>5

-----------------------------------------------------------------------------
(* The inductive invariant, of a state before it is settled *)

EncodersIn(m) == [slice : SliceIn(m), hint : Nat, opts : Options,
                  dict : Dicts \cup {NoDict}, headerOut : BOOLEAN]
CallsIn(m) == [op : Ops \cup {"idle"}, opts : Options, dict : Dicts \cup {NoDict},
               size : Nat, done : Nat, enc : EncodersIn(m), dst : SliceIn(m),
               before : Seq(Unit), out : SliceIn(m)]
KeptIn(m) == [slice : SliceIn(m), bytes : Seq(Unit)]

HeaderOf(c) == IF c.op = "diff" THEN PatchHeader ELSE Header
Body(t, n) == [i \in 1 .. n |-> <<"body", t>>]
Lead(c) == IF c.enc.headerOut THEN <<HeaderOf(c)>> ELSE <<>>

\* What a call of goroutine t has written when it is where c says.
Message(c, t) == c.before \o Lead(c) \o Body(t, c.done)

Appends(c) == c.op \in {"append", "append direct", "diff"}

\* Call c of goroutine t, which keeps k: it has written its message so far
\* behind the bytes of its dst, under its own settings, and in an array its
\* goroutine keeps only if that is the dst.
CallSound(c, k, m, t) ==
    c # Idle =>
        /\ c.op \in Ops /\ c.size > 0 /\ c.done <= c.size
        /\ Direct(c) \/ c.op = "diff" \/ c.done > 0 => c.enc.headerOut
        /\ \/ c.dst = NilSlice /\ c.before = <<>>
           \/ c.dst = k.slice /\ c.before = k.bytes /\ Appends(c)
        /\ Bytes(m, Working(c)) = Message(c, t)
        /\ ~Direct(c) => c.enc.opts = c.opts /\ c.enc.dict = c.dict
        /\ Working(c).array = k.slice.array /\ k.slice.array # 0 => c.dst = k.slice
        /\ c.enc.slice.array = k.slice.array /\ k.slice.array # 0 => Appends(c)

\* Nobody's array is another's.
Apart(p, c, k) ==
    /\ \A t, u \in Threads : t # u =>
            \A r \in HeldBy(c, k, t), s \in HeldBy(c, k, u) :
                r.array = s.array => r.array = 0
    /\ \A e \in p, t \in Threads : \A s \in HeldBy(c, k, t) :
            e.slice.array = s.array => s.array = 0
    /\ \A d, e \in p : d = e

Sound(p, c, k, m) ==
    /\ m \in Mem
    /\ p \subseteq EncodersIn(m)
    /\ c \in [Threads -> CallsIn(m)]
    /\ k \in [Threads -> KeptIn(m)]
    /\ Apart(p, c, k)
    /\ \A t \in Threads : Bytes(m, k[t].slice) = k[t].bytes /\ CallSound(c[t], k[t], m, t)

IInv == Sound(pool, call, kept, mem)

LEMMA HeldIn ==
    ASSUME NEW m \in Mem, NEW c \in [Threads -> CallsIn(m)], NEW k \in [Threads -> KeptIn(m)]
    PROVE  /\ \A t \in Threads : HeldBy(c, k, t) \subseteq SliceIn(m)
           /\ \A i \in DOMAIN Held(c, k) : Held(c, k)[i] \in SliceIn(m)
<1>1. ASSUME NEW t \in Threads PROVE HeldBy(c, k, t) \subseteq SliceIn(m)
  <2>1. c[t] \in CallsIn(m) /\ k[t] \in KeptIn(m)
    OBVIOUS
  <2>2. /\ k[t].slice \in SliceIn(m) /\ c[t].dst \in SliceIn(m)
        /\ c[t].out \in SliceIn(m) /\ c[t].enc \in EncodersIn(m)
    BY <2>1 DEF CallsIn, KeptIn
  <2>3. c[t].enc.slice \in SliceIn(m)
    BY <2>2 DEF EncodersIn
  <2> QED
    BY <2>2, <2>3 DEF HeldBy
<1> QED
  BY <1>1, HeldOwner

MovedCall(h, c) == [c EXCEPT !.enc.slice = Moved(h, @), !.dst = Moved(h, @),
                             !.out = Moved(h, @)]

LEMMA MovedCallFacts ==
    ASSUME NEW m, NEW n, NEW h, NEW c \in CallsIn(m),
           Moved(h, c.enc.slice) \in SliceIn(n), Moved(h, c.dst) \in SliceIn(n),
           Moved(h, c.out) \in SliceIn(n)
    PROVE  LET d == MovedCall(h, c)
           IN  /\ d \in CallsIn(n)
               /\ d.enc.slice = Moved(h, c.enc.slice) /\ d.dst = Moved(h, c.dst)
               /\ d.out = Moved(h, c.out)
               /\ d.op = c.op /\ d.opts = c.opts /\ d.dict = c.dict /\ d.size = c.size
               /\ d.done = c.done /\ d.before = c.before
               /\ d.enc.opts = c.enc.opts /\ d.enc.dict = c.enc.dict
               /\ d.enc.headerOut = c.enc.headerOut
<1> DEFINE g == [c.enc EXCEPT !.slice = Moved(h, c.enc.slice)]
           d == [c EXCEPT !.enc = g, !.dst = Moved(h, c.dst), !.out = Moved(h, c.out)]
<1>1. c.enc \in EncodersIn(m)
  BY DEF CallsIn
<1>2. /\ g \in EncodersIn(n) /\ g.slice = Moved(h, c.enc.slice)
      /\ g.opts = c.enc.opts /\ g.dict = c.enc.dict /\ g.headerOut = c.enc.headerOut
  BY <1>1 DEF EncodersIn
<1>3. MovedCall(h, c) = d
  BY DEF MovedCall, CallsIn
<1> HIDE DEF g
<1>4. d \in CallsIn(n)
  BY <1>2 DEF CallsIn
<1>5. /\ d.enc = g /\ d.dst = Moved(h, c.dst) /\ d.out = Moved(h, c.out)
      /\ d.op = c.op /\ d.opts = c.opts /\ d.dict = c.dict /\ d.size = c.size
      /\ d.done = c.done /\ d.before = c.before
  BY DEF CallsIn
<1> QED
  BY <1>2, <1>3, <1>4, <1>5

LEMMA NewEncoderType ==
    ASSUME NEW m \in Mem
    PROVE  NewEncoder \in EncodersIn(m) /\ NewEncoder.slice = NilSlice
<1>1. NilSlice \in SliceIn(m) /\ Speed \in Options /\ FALSE \in BOOLEAN
  BY NilFacts, PoolAssumption
<1> DEFINE no == FALSE
<1>2. no \in BOOLEAN
  OBVIOUS
<1> HIDE DEF no
<1>3. [slice |-> NilSlice, hint |-> 0, opts |-> Speed, dict |-> NoDict, headerOut |-> no]
        \in EncodersIn(m)
  BY <1>1, <1>2 DEF EncodersIn
<1> QED
  BY <1>3 DEF NewEncoder, no

LEMMA IdleType ==
    ASSUME NEW m \in Mem
    PROVE  Idle \in CallsIn(m) /\ Idle.enc = NewEncoder /\ Idle.dst = NilSlice
           /\ Idle.out = NilSlice
<1>1. NilSlice \in SliceIn(m) /\ Speed \in Options /\ NewEncoder \in EncodersIn(m)
  BY NilFacts, PoolAssumption, NewEncoderType
<1> HIDE DEF NilSlice, NewEncoder
<1> QED
  BY <1>1 DEF Idle, CallsIn

LEMMA MovedIdle ==
    ASSUME NEW c, NEW k, NEW m \in Mem
    PROVE  MovedCall(Held(c, k), Idle) = Idle
<1>1. Moved(Held(c, k), NilSlice) = NilSlice
  BY NameFacts DEF Moved, NilSlice
<1>2. NewEncoder \in EncodersIn(m) /\ NewEncoder.slice = NilSlice
  BY NewEncoderType
<1>3. [NewEncoder EXCEPT !.slice = NilSlice] = NewEncoder
  BY <1>2 DEF EncodersIn
<1>4. /\ Idle \in CallsIn(m) /\ Idle.enc = NewEncoder
      /\ Idle.dst = NilSlice /\ Idle.out = NilSlice
  BY IdleType
<1>5. [Idle EXCEPT !.enc = NewEncoder, !.dst = NilSlice, !.out = NilSlice] = Idle
  BY <1>4 DEF CallsIn
<1>6. MovedCall(Held(c, k), Idle)
        = [Idle EXCEPT !.enc = [NewEncoder EXCEPT !.slice = NilSlice],
                       !.dst = NilSlice, !.out = NilSlice]
  BY <1>1, <1>2, <1>4 DEF MovedCall
<1> QED
  BY <1>3, <1>5, <1>6

LEMMA Settling ==
    ASSUME NEW p, NEW c, NEW k, NEW m, Sound(p, c, k, m)
    PROVE  LET s == Settled(p, c, k, m) IN Sound(s.pool, s.call, s.kept, s.mem)
<1> DEFINE h == Held(c, k)
           idle == {e.slice.array : e \in p}
           M == Collected(h, idle, m)
           P == {[e EXCEPT !.slice = Moved(h, e.slice)] : e \in p}
           C == [t \in Threads |-> MovedCall(h, c[t])]
           K == [t \in Threads |-> [k[t] EXCEPT !.slice = Moved(h, k[t].slice)]]
<1>1. /\ m \in Mem /\ p \subseteq EncodersIn(m) /\ Apart(p, c, k)
      /\ c \in [Threads -> CallsIn(m)] /\ k \in [Threads -> KeptIn(m)]
      /\ \A t \in Threads : Bytes(m, k[t].slice) = k[t].bytes /\ CallSound(c[t], k[t], m, t)
  BY DEF Sound
<1>2. /\ \A t \in Threads : HeldBy(c, k, t) \subseteq SliceIn(m)
      /\ \A i \in DOMAIN h : h[i] \in SliceIn(m)
  BY <1>1, HeldIn
<1>3. idle \subseteq 0 .. Len(m)
  <2> SUFFICES ASSUME NEW e \in p PROVE e.slice.array \in 0 .. Len(m)
    OBVIOUS
  <2>1. e.slice \in SliceIn(m)
    BY <1>1 DEF EncodersIn
  <2> QED
    BY <1>1, <2>1, SliceFacts
<1>4. M \in Mem
  BY <1>1, <1>2, <1>3, CollectedType
<1> HIDE DEF idle
<1>5. ASSUME NEW t \in Threads, NEW s \in HeldBy(c, k, t)
      PROVE  /\ s \in SliceIn(m)
             /\ Moved(h, s) \in SliceIn(M) /\ Bytes(M, Moved(h, s)) = Bytes(m, s)
             /\ Moved(h, s).array = NameOf(h, s.array)
             /\ s.array = 0 => Moved(h, s) = s
             /\ s.array # 0 => /\ Moved(h, s).array # 0 /\ Moved(h, s).array # Spare
                               /\ h[Moved(h, s).array].array = s.array
  <2>1. m \in Mem /\ idle \subseteq 0 .. Len(m)
        /\ \A i \in DOMAIN Held(c, k) : Held(c, k)[i] \in SliceIn(m)
    BY <1>1, <1>2, <1>3
  <2>2. ReadsAlike(Held(c, k), m, Collected(Held(c, k), idle, m), s)
    BY <2>1, HeldMoves
  <2> QED
    BY <2>2 DEF ReadsAlike, h, M
<1>6. ASSUME NEW e \in p
      PROVE  /\ Moved(h, e.slice) \in SliceIn(M) /\ Moved(h, e.slice).array \in {0, Spare}
  <2>1. e \in EncodersIn(m) /\ e.slice \in SliceIn(m)
    BY <1>1 DEF EncodersIn
  <2>2. idle = {e.slice.array}
    BY <1>1 DEF Apart, idle
  <2>3. ~IsHeld(h, e.slice.array) \/ e.slice.array = 0
    BY <1>1, HeldOwner DEF IsHeld, Apart
  <2> QED
    BY <1>1, <1>2, <2>1, <2>2, <2>3, IdleMoves
<1> HIDE DEF M, h
<1>7. P \subseteq EncodersIn(M) /\ \A d, e \in P : d = e
  <2>1. ASSUME NEW e \in p PROVE [e EXCEPT !.slice = Moved(h, e.slice)] \in EncodersIn(M)
    <3>1. e \in EncodersIn(m)
      BY <1>1
    <3> QED
      BY <1>6, <3>1 DEF EncodersIn
  <2> QED
    BY <1>1, <2>1 DEF Apart
<1>8. ASSUME NEW t \in Threads
      PROVE  /\ C[t] \in CallsIn(M)
             /\ C[t].enc.slice = Moved(h, c[t].enc.slice) /\ C[t].dst = Moved(h, c[t].dst)
             /\ C[t].out = Moved(h, c[t].out)
             /\ C[t].op = c[t].op /\ C[t].opts = c[t].opts /\ C[t].dict = c[t].dict
             /\ C[t].size = c[t].size /\ C[t].done = c[t].done /\ C[t].before = c[t].before
             /\ C[t].enc.opts = c[t].enc.opts /\ C[t].enc.dict = c[t].enc.dict
             /\ C[t].enc.headerOut = c[t].enc.headerOut
             /\ C[t] # Idle => c[t] # Idle
  <2>1. c[t] \in CallsIn(m)
    BY <1>1
  <2>2. c[t].enc.slice \in HeldBy(c, k, t) /\ c[t].dst \in HeldBy(c, k, t)
        /\ c[t].out \in HeldBy(c, k, t)
    BY DEF HeldBy
  <2>3. /\ Moved(h, c[t].enc.slice) \in SliceIn(M) /\ Moved(h, c[t].dst) \in SliceIn(M)
        /\ Moved(h, c[t].out) \in SliceIn(M)
    BY <1>5, <2>2
  <2>4. C[t] = MovedCall(h, c[t])
    OBVIOUS
  <2>5. c[t] = Idle => MovedCall(h, c[t]) = Idle
    BY <1>1, MovedIdle DEF h
  <2> HIDE DEF C
  <2> QED
    BY <2>1, <2>3, <2>4, <2>5, MovedCallFacts
<1>9. ASSUME NEW t \in Threads
      PROVE  /\ K[t] \in KeptIn(M) /\ K[t].slice = Moved(h, k[t].slice)
             /\ K[t].bytes = k[t].bytes
  <2>1. k[t] \in KeptIn(m) /\ k[t].slice \in HeldBy(c, k, t)
    BY <1>1 DEF HeldBy
  <2>2. Moved(h, k[t].slice) \in SliceIn(M)
    BY <1>5, <2>1
  <2> QED
    BY <2>1, <2>2 DEF KeptIn
<1>10. C \in [Threads -> CallsIn(M)] /\ K \in [Threads -> KeptIn(M)]
  BY <1>8, <1>9
<1>11. ASSUME NEW t \in Threads, NEW z \in HeldBy(C, K, t)
       PROVE  \E s \in HeldBy(c, k, t) : z = Moved(h, s)
  <2> HIDE DEF C, K
  <2> QED
    BY <1>8, <1>9, <1>11 DEF HeldBy
<1> HIDE DEF C, K
<1>12. Apart(P, C, K)
  <2>1. ASSUME NEW t \in Threads, NEW u \in Threads, t # u,
               NEW r \in HeldBy(C, K, t), NEW s \in HeldBy(C, K, u),
               r.array = s.array, r.array # 0
        PROVE  FALSE
    <3>1. PICK r0 \in HeldBy(c, k, t) : r = Moved(h, r0)
      BY <1>11
    <3>2. PICK s0 \in HeldBy(c, k, u) : s = Moved(h, s0)
      BY <1>11
    <3>3. r0.array # 0 /\ s0.array # 0
      BY <1>5, <2>1, <3>1, <3>2
    <3>4. r0.array = s0.array
      BY <1>5, <2>1, <3>1, <3>2, <3>3
    <3> QED
      BY <1>1, <2>1, <3>3, <3>4 DEF Apart
  <2>2. ASSUME NEW e \in P, NEW t \in Threads, NEW s \in HeldBy(C, K, t),
               e.slice.array = s.array, s.array # 0
        PROVE  FALSE
    <3>1. PICK s0 \in HeldBy(c, k, t) : s = Moved(h, s0)
      BY <1>11
    <3>2. s0.array # 0 /\ s.array # Spare
      BY <1>5, <2>2, <3>1
    <3>3. PICK d \in p : e = [d EXCEPT !.slice = Moved(h, d.slice)]
      OBVIOUS
    <3>4. e.slice.array \in {0, Spare}
      <4>1. d \in EncodersIn(m)
        BY <1>1
      <4>2. e.slice = Moved(h, d.slice)
        BY <3>3, <4>1 DEF EncodersIn
      <4> QED
        BY <1>6, <4>2
    <3> QED
      BY <2>2, <3>2, <3>4
  <2> QED
    BY <1>7, <2>1, <2>2 DEF Apart
<1>13. ASSUME NEW t \in Threads PROVE Bytes(M, K[t].slice) = K[t].bytes
  <2>1. k[t].slice \in HeldBy(c, k, t)
    BY DEF HeldBy
  <2> QED
    BY <1>1, <1>5, <1>9, <2>1
<1>14. ASSUME NEW t \in Threads PROVE CallSound(C[t], K[t], M, t)
  <2> SUFFICES ASSUME C[t] # Idle PROVE CallSound(C[t], K[t], M, t)
    BY DEF CallSound
  <2>1. c[t] # Idle /\ CallSound(c[t], k[t], m, t)
    BY <1>1, <1>8
  <2>2. Direct(C[t]) = Direct(c[t]) /\ Appends(C[t]) = Appends(c[t])
    BY <1>8 DEF Direct, Appends
  <2>3. Message(C[t], t) = Message(c[t], t)
    BY <1>8 DEF Message, Lead, HeaderOf
  <2>4. /\ Working(c[t]) \in HeldBy(c, k, t) /\ k[t].slice \in HeldBy(c, k, t)
        /\ c[t].dst \in HeldBy(c, k, t) /\ c[t].enc.slice \in HeldBy(c, k, t)
    BY DEF Working, HeldBy
  <2>5. Working(C[t]) = Moved(h, Working(c[t]))
    BY <1>8, <2>2 DEF Working
  <2>6. Bytes(M, Working(C[t])) = Message(C[t], t)
    BY <1>5, <2>1, <2>3, <2>4, <2>5 DEF CallSound
  <2>7. \/ C[t].dst = NilSlice /\ C[t].before = <<>>
        \/ C[t].dst = K[t].slice /\ C[t].before = K[t].bytes /\ Appends(C[t])
    <3>1. NilSlice.array = 0
      BY DEF NilSlice
    <3>2. c[t].dst = NilSlice => C[t].dst = NilSlice
      BY <1>5, <1>8, <2>4, <3>1
    <3> QED
      BY <1>8, <1>9, <2>1, <2>2, <3>2 DEF CallSound
  <2>8. ASSUME Working(C[t]).array = K[t].slice.array, K[t].slice.array # 0
        PROVE  C[t].dst = K[t].slice
    <3>1. k[t].slice.array # 0 /\ Working(c[t]).array # 0
      BY <1>5, <1>9, <2>4, <2>5, <2>8
    <3>2. Working(c[t]).array = k[t].slice.array
      BY <1>5, <1>9, <2>4, <2>5, <2>8, <3>1
    <3> QED
      BY <1>8, <1>9, <2>1, <3>1, <3>2 DEF CallSound
  <2>9. ASSUME C[t].enc.slice.array = K[t].slice.array, K[t].slice.array # 0
        PROVE  Appends(C[t])
    <3>1. k[t].slice.array # 0 /\ c[t].enc.slice.array # 0
      BY <1>5, <1>8, <1>9, <2>4, <2>9
    <3>2. c[t].enc.slice.array = k[t].slice.array
      BY <1>5, <1>8, <1>9, <2>4, <2>9, <3>1
    <3> QED
      BY <2>1, <2>2, <3>1, <3>2 DEF CallSound
  <2>10. /\ C[t].op \in Ops /\ C[t].size > 0 /\ C[t].done <= C[t].size
         /\ Direct(C[t]) \/ C[t].op = "diff" \/ C[t].done > 0 => C[t].enc.headerOut
         /\ ~Direct(C[t]) => C[t].enc.opts = C[t].opts /\ C[t].enc.dict = C[t].dict
    BY <1>8, <2>1, <2>2 DEF CallSound
  <2> QED
    BY <2>6, <2>7, <2>8, <2>9, <2>10 DEF CallSound
<1>15. Sound(P, C, K, M)
  BY <1>4, <1>7, <1>10, <1>12, <1>13, <1>14 DEF Sound
<1>16. LET s == Settled(p, c, k, m)
       IN  s.pool = P /\ s.call = C /\ s.kept = K /\ s.mem = M
  BY DEF Settled, P, C, K, M, h, idle, MovedCall
<1> QED
  BY <1>15, <1>16

-----------------------------------------------------------------------------
(* One goroutine's step *)

\* The arrays goroutine t may write and hold after a step that leaves pool q:
\* new ones, its own, and that of the encoder it took.
MayUse(p, q, c, k, m, t) ==
    {a \in Nat : \/ a = 0
                 \/ a > Len(m)
                 \/ \E s \in HeldBy(c, k, t) : s.array = a
                 \/ \E e \in p : e \notin q /\ e.slice.array = a}

Held4(d, l) == {l.slice, d.dst, d.out, d.enc.slice}

\* What a goroutine does with arrays it may use disturbs no other's.
LEMMA ThreadStep ==
    ASSUME NEW p, NEW q, NEW c, NEW k, NEW m, NEW n \in Mem, Sound(p, c, k, m),
           NEW t \in Threads, NEW d \in CallsIn(n), NEW l \in KeptIn(n),
           Unwritten(m, n, MayUse(p, q, c, k, m, t)),
           \A s \in Held4(d, l) : s.array \in MayUse(p, q, c, k, m, t),
           q \subseteq EncodersIn(n), \A e, f \in q : e = f,
           \A e \in q : e \in p \/ e.slice.array \in MayUse(p, q, c, k, m, t),
           \A e \in q : \A s \in Held4(d, l) : e.slice.array = s.array => s.array = 0,
           Bytes(n, l.slice) = l.bytes, CallSound(d, l, n, t)
    PROVE  Sound(q, [c EXCEPT ![t] = d], [k EXCEPT ![t] = l], n)
<1> DEFINE C == [c EXCEPT ![t] = d]
           K == [k EXCEPT ![t] = l]
           A == MayUse(p, q, c, k, m, t)
<1>1. /\ m \in Mem /\ p \subseteq EncodersIn(m) /\ Apart(p, c, k)
      /\ c \in [Threads -> CallsIn(m)] /\ k \in [Threads -> KeptIn(m)]
      /\ \A u \in Threads : Bytes(m, k[u].slice) = k[u].bytes /\ CallSound(c[u], k[u], m, u)
      /\ \A u \in Threads : HeldBy(c, k, u) \subseteq SliceIn(m)
  BY HeldIn DEF Sound
<1>2. ASSUME NEW u \in Threads, u # t, NEW s \in HeldBy(c, k, u)
      PROVE  s.array \in A => s.array = 0
  <2>1. s \in SliceIn(m)
    BY <1>1, <1>2
  <2>2. s.array \in Nat /\ s.array <= Len(m) /\ Len(m) \in Nat
    BY <1>1, <2>1, SliceFacts DEF SliceIn
  <2>3. \A r \in HeldBy(c, k, t) : r.array = s.array => s.array = 0
    BY <1>1, <1>2 DEF Apart
  <2>4. \A e \in p : e.slice.array = s.array => s.array = 0
    BY <1>1 DEF Apart
  <2> QED
    BY <2>2, <2>3, <2>4 DEF MayUse
<1> HIDE DEF A
<1>3. ASSUME NEW u \in Threads, u # t, NEW s \in HeldBy(c, k, u)
      PROVE  s \in SliceIn(n) /\ Bytes(n, s) = Bytes(m, s)
  <2>1. s \in SliceIn(m) /\ Unwritten(m, n, A)
    BY <1>1, <1>3 DEF A
  <2>2. s.array \in A => s.array = 0
    BY <1>2, <1>3
  <2> QED
    BY <1>1, <2>1, <2>2, SliceKept
<1>4. C[t] = d /\ K[t] = l /\ \A u \in Threads : u # t => C[u] = c[u] /\ K[u] = k[u]
  BY <1>1
<1>5. ASSUME NEW u \in Threads, u # t
      PROVE  /\ c[u] \in CallsIn(n) /\ k[u] \in KeptIn(n)
             /\ Bytes(n, k[u].slice) = k[u].bytes /\ CallSound(c[u], k[u], n, u)
  <2>1. /\ k[u].slice \in HeldBy(c, k, u) /\ c[u].dst \in HeldBy(c, k, u)
        /\ c[u].out \in HeldBy(c, k, u) /\ c[u].enc.slice \in HeldBy(c, k, u)
        /\ Working(c[u]) \in HeldBy(c, k, u)
    BY DEF HeldBy, Working
  <2>2. /\ k[u].slice \in SliceIn(n) /\ c[u].dst \in SliceIn(n)
        /\ c[u].out \in SliceIn(n) /\ c[u].enc.slice \in SliceIn(n)
        /\ Bytes(n, k[u].slice) = Bytes(m, k[u].slice)
        /\ Bytes(n, Working(c[u])) = Bytes(m, Working(c[u]))
    BY <1>3, <1>5, <2>1
  <2>3. c[u] \in CallsIn(m) /\ k[u] \in KeptIn(m)
    BY <1>1
  <2>4. c[u].enc \in EncodersIn(n)
    <3>1. c[u].enc \in EncodersIn(m)
      BY <2>3 DEF CallsIn
    <3> QED
      BY <2>2, <3>1 DEF EncodersIn
  <2>5. c[u] \in CallsIn(n) /\ k[u] \in KeptIn(n)
    BY <2>2, <2>3, <2>4 DEF CallsIn, KeptIn
  <2>6. Bytes(m, k[u].slice) = k[u].bytes /\ CallSound(c[u], k[u], m, u)
    BY <1>1
  <2> QED
    BY <2>2, <2>5, <2>6 DEF CallSound
<1>6. C \in [Threads -> CallsIn(n)] /\ K \in [Threads -> KeptIn(n)]
  BY <1>1, <1>4, <1>5
<1>7. /\ HeldBy(C, K, t) = Held4(d, l)
      /\ \A u \in Threads : u # t => HeldBy(C, K, u) = HeldBy(c, k, u)
  BY <1>4 DEF HeldBy, Held4
<1> HIDE DEF C, K
<1>8. Apart(q, C, K)
  <2>1. ASSUME NEW u \in Threads, u # t, NEW r \in Held4(d, l), NEW s \in HeldBy(c, k, u),
               r.array = s.array
        PROVE  r.array = 0
    <3>1. r.array \in A
      BY DEF A
    <3> QED
      BY <1>2, <2>1, <3>1
  <2>2. ASSUME NEW v \in Threads, NEW u \in Threads, v # u,
               NEW r \in HeldBy(C, K, v), NEW s \in HeldBy(C, K, u), r.array = s.array
        PROVE  r.array = 0
    <3>1. CASE v = t
      BY <1>7, <2>1, <2>2, <3>1
    <3>2. CASE u = t
      BY <1>7, <2>1, <2>2, <3>2
    <3>3. CASE v # t /\ u # t
      BY <1>1, <1>7, <2>2, <3>3 DEF Apart
    <3> QED
      BY <3>1, <3>2, <3>3
  <2>3. ASSUME NEW e \in q, NEW u \in Threads, NEW s \in HeldBy(C, K, u),
               e.slice.array = s.array
        PROVE  s.array = 0
    <3>1. CASE u = t
      BY <1>7, <2>3, <3>1
    <3>2. CASE u # t
      <4>1. s \in HeldBy(c, k, u)
        BY <1>7, <3>2
      <4>2. CASE e \in p
        BY <1>1, <2>3, <4>1, <4>2 DEF Apart
      <4>3. CASE e \notin p
        <5>1. e.slice.array \in A
          BY <4>3 DEF A
        <5> QED
          BY <1>2, <2>3, <3>2, <4>1, <5>1
      <4> QED
        BY <4>2, <4>3
    <3> QED
      BY <3>1, <3>2
  <2> QED
    BY <2>2, <2>3 DEF Apart
<1>9. ASSUME NEW u \in Threads
      PROVE  Bytes(n, K[u].slice) = K[u].bytes /\ CallSound(C[u], K[u], n, u)
  BY <1>4, <1>5
<1>10. Sound(q, C, K, n)
  BY <1>6, <1>8, <1>9 DEF Sound
<1> QED
  BY <1>10 DEF C, K

LEMMA BecomeSound ==
    ASSUME NEW p, NEW c, NEW k, NEW m, Sound(p, c, k, m), Become(p, c, k, m)
    PROVE  IInv'
<1> DEFINE s == Settled(p, c, k, m)
<1>1. Sound(s.pool, s.call, s.kept, s.mem)
  BY Settling
<1>2. pool' = s.pool /\ call' = s.call /\ kept' = s.kept /\ mem' = s.mem
  BY DEF Become
<1> HIDE DEF s
<1> QED
  BY <1>1, <1>2 DEF IInv

-----------------------------------------------------------------------------
(* Messages *)

LEMMA ConcatAppend ==
    ASSUME NEW S, NEW x \in Seq(S), NEW y \in Seq(S), NEW u \in S
    PROVE  x \o Append(y, u) = Append(x \o y, u)
<1>1. Append(y, u) = y \o <<u>> /\ x \o y \in Seq(S) /\ <<u>> \in Seq(S)
  BY AppendIsConcat, ConcatProperties
<1>2. Append(x \o y, u) = (x \o y) \o <<u>>
  BY <1>1, AppendIsConcat
<1>3. (x \o y) \o <<u>> = x \o (y \o <<u>>)
  BY <1>1, ConcatAssociative
<1> QED
  BY <1>1, <1>2, <1>3

LEMMA BodyGrows ==
    ASSUME NEW t \in Threads, NEW n \in Nat
    PROVE  /\ Body(t, n) \in Seq(Unit) /\ Len(Body(t, n)) = n
           /\ Body(t, 0) = <<>>
           /\ Body(t, n + 1) = Append(Body(t, n), <<"body", t>>)
<1> DEFINE u == <<"body", t>>
<1>1. u \in Unit
  BY Units
<1> HIDE DEF u
<1>2. \A j \in Nat : Body(t, j) = [i \in 1 .. j |-> u]
  BY DEF Body, u
<1>3. \A j \in Nat : /\ Body(t, j) \in Seq(Unit) /\ Len(Body(t, j)) = j
                    /\ \A i \in 1 .. j : Body(t, j)[i] = u
  BY <1>1, <1>2
<1>4. Body(t, 0) = <<>>
  BY <1>3
<1> DEFINE x == Body(t, n)
           y == Body(t, n + 1)
<1>5. /\ x \in Seq(Unit) /\ Len(x) = n /\ \A i \in 1 .. n : x[i] = u
      /\ y \in Seq(Unit) /\ Len(y) = n + 1 /\ \A i \in 1 .. n + 1 : y[i] = u
  BY <1>3
<1> HIDE DEF x, y
<1>6. /\ Append(x, u) \in Seq(Unit) /\ Len(Append(x, u)) = n + 1
      /\ \A i \in 1 .. n + 1 : Append(x, u)[i] = u
  BY <1>1, <1>5
<1>7. y = Append(x, u)
  BY <1>5, <1>6, SeqEqual
<1> QED
  BY <1>3, <1>4, <1>7 DEF x, y, u

LEMMA LeadType == \A c : Lead(c) \in Seq(Unit)
  BY Units DEF Lead, HeaderOf

LEMMA MessageType ==
    ASSUME NEW c, NEW t \in Threads, c.before \in Seq(Unit), c.done \in Nat
    PROVE  /\ c.before \o Lead(c) \in Seq(Unit)
           /\ Message(c, t) \in Seq(Unit)
           /\ Len(Message(c, t)) >= Len(c.before)
<1> DEFINE x == c.before \o Lead(c)
           y == Body(t, c.done)
<1>1. Lead(c) \in Seq(Unit) /\ y \in Seq(Unit)
  BY LeadType, BodyGrows
<1>2. x \in Seq(Unit) /\ Len(x) = Len(c.before) + Len(Lead(c))
  BY <1>1, ConcatProperties
<1>3. Message(c, t) = x \o y
  BY DEF Message
<1> HIDE DEF x, y
<1>4. x \o y \in Seq(Unit) /\ Len(x \o y) = Len(x) + Len(y)
  BY <1>1, <1>2, ConcatProperties
<1>5. Len(y) \in Nat /\ Len(Lead(c)) \in Nat /\ Len(c.before) \in Nat
  BY <1>1, LenProperties
<1>6. Len(x \o y) >= Len(c.before)
  BY <1>2, <1>4, <1>5
<1> QED
  BY <1>2, <1>3, <1>4, <1>6 DEF x

\* Nothing behind the header yet.
LEMMA MessageBegins ==
    ASSUME NEW c, NEW t \in Threads, c.before \in Seq(Unit), c.done = 0
    PROVE  Message(c, t) = IF c.enc.headerOut THEN Append(c.before, HeaderOf(c)) ELSE c.before
<1>1. Body(t, 0) = <<>>
  BY BodyGrows
<1>2. Message(c, t) = c.before \o Lead(c)
  <2> DEFINE x == c.before \o Lead(c)
  <2>1. x \in Seq(Unit)
    BY LeadType, ConcatProperties
  <2> HIDE DEF x
  <2>2. Message(c, t) = x \o <<>>
    BY <1>1 DEF Message, x
  <2> QED
    BY <2>1, <2>2, ConcatEmptySeq DEF x
<1>3. CASE c.enc.headerOut
  <2> DEFINE u == HeaderOf(c)
  <2>1. u \in Unit /\ Lead(c) = <<u>> /\ Append(<<>>, u) = <<u>> /\ <<>> \in Seq(Unit)
    BY <1>3, Units DEF HeaderOf, Lead
  <2> HIDE DEF u
  <2>2. c.before \o Append(<<>>, u) = Append(c.before \o <<>>, u)
    BY <2>1, ConcatAppend
  <2>3. c.before \o <<>> = c.before
    BY ConcatEmptySeq
  <2> QED
    BY <1>2, <1>3, <2>1, <2>2, <2>3 DEF u
<1>4. CASE ~c.enc.headerOut
  <2>1. Lead(c) = <<>> /\ c.before \o <<>> = c.before
    BY <1>4, ConcatEmptySeq DEF Lead
  <2> QED
    BY <1>2, <1>4, <2>1
<1> QED
  BY <1>3, <1>4

\* One unit of the body more.
LEMMA MessageGrows ==
    ASSUME NEW c, NEW d, NEW t \in Threads, c.before \in Seq(Unit), c.done \in Nat,
           d.before = c.before, d.op = c.op, d.enc.headerOut = c.enc.headerOut,
           d.done = c.done + 1
    PROVE  Message(d, t) = Append(Message(c, t), <<"body", t>>)
<1> DEFINE x == c.before \o Lead(c)
           u == <<"body", t>>
           y == Body(t, c.done)
<1>1. x \in Seq(Unit) /\ u \in Unit /\ y \in Seq(Unit)
      /\ Body(t, c.done + 1) = Append(y, u)
  BY MessageType, Units, BodyGrows
<1>2. Message(d, t) = x \o Body(t, c.done + 1) /\ Message(c, t) = x \o y
  BY DEF Message, Lead, HeaderOf
<1> HIDE DEF x, u, y
<1>3. x \o Append(y, u) = Append(x \o y, u)
  BY <1>1, ConcatAppend
<1> QED
  BY <1>1, <1>2, <1>3 DEF u

-----------------------------------------------------------------------------
(* Entering a call *)

\* Shrinking the pool asks less of a step.
LEMMA PoolShrinks ==
    ASSUME NEW p, NEW q, NEW c, NEW k, NEW m, NEW n \in Mem, Sound(p, c, k, m),
           NEW t \in Threads, NEW d \in CallsIn(n), NEW l \in KeptIn(n),
           q \subseteq p,
           Unwritten(m, n, MayUse(p, q, c, k, m, t)),
           \A s \in Held4(d, l) : s.array \in MayUse(p, q, c, k, m, t),
           Bytes(n, l.slice) = l.bytes, CallSound(d, l, n, t)
    PROVE  Sound(q, [c EXCEPT ![t] = d], [k EXCEPT ![t] = l], n)
<1> DEFINE A == MayUse(p, q, c, k, m, t)
<1>1. /\ m \in Mem /\ p \subseteq EncodersIn(m) /\ Apart(p, c, k)
      /\ c \in [Threads -> CallsIn(m)] /\ k \in [Threads -> KeptIn(m)]
  BY DEF Sound
<1>2. ASSUME NEW e \in q PROVE e \in EncodersIn(n)
  <2>1. e \in EncodersIn(m)
    BY <1>1, <1>2
  <2>2. e.slice \in SliceIn(n)
    <3>1. e.slice \in SliceIn(m)
      BY <2>1 DEF EncodersIn
    <3> QED
      BY <1>1, <3>1, SliceKept
  <2> QED
    BY <2>1, <2>2 DEF EncodersIn
<1>3. \A e, f \in q : e = f
  BY <1>1 DEF Apart
<1>4. ASSUME NEW e \in q, NEW s \in Held4(d, l), e.slice.array = s.array
      PROVE  s.array = 0
  <2>1. s.array \in A
    BY <1>4
  <2>2. e \in p /\ e.slice \in SliceIn(m)
    BY <1>1, <1>4 DEF EncodersIn
  <2>3. e.slice.array <= Len(m) /\ e.slice.array \in Nat /\ Len(m) \in Nat
    BY <1>1, <2>2, SliceFacts DEF SliceIn
  <2>4. CASE \E r \in HeldBy(c, k, t) : r.array = s.array
    BY <1>1, <1>4, <2>2, <2>4 DEF Apart
  <2>5. CASE \E f \in p : f \notin q /\ f.slice.array = s.array
    BY <1>1, <2>2, <2>5 DEF Apart
  <2> QED
    BY <1>4, <2>1, <2>3, <2>4, <2>5 DEF MayUse
<1> QED
  BY <1>2, <1>3, <1>4, ThreadStep

\* The invariant in its parts.
LEMMA Parts ==
    ASSUME IInv
    PROVE  /\ mem \in Mem /\ Len(mem) \in Nat /\ pool \subseteq EncodersIn(mem)
           /\ Apart(pool, call, kept)
           /\ \A t \in Threads : /\ call[t] \in CallsIn(mem) /\ kept[t] \in KeptIn(mem)
                                 /\ kept[t].slice \in SliceIn(mem)
                                 /\ kept[t].bytes \in Seq(Unit)
                                 /\ call[t].enc \in EncodersIn(mem)
                                 /\ call[t].enc.slice \in SliceIn(mem)
                                 /\ call[t].dst \in SliceIn(mem)
                                 /\ call[t].out \in SliceIn(mem)
                                 /\ Bytes(mem, kept[t].slice) = kept[t].bytes
                                 /\ CallSound(call[t], kept[t], mem, t)
<1>1. /\ mem \in Mem /\ pool \subseteq EncodersIn(mem) /\ Apart(pool, call, kept)
      /\ call \in [Threads -> CallsIn(mem)] /\ kept \in [Threads -> KeptIn(mem)]
      /\ \A t \in Threads : Bytes(mem, kept[t].slice) = kept[t].bytes
                            /\ CallSound(call[t], kept[t], mem, t)
  BY DEF IInv, Sound
<1>2. \A t \in Threads : call[t] \in CallsIn(mem) /\ kept[t] \in KeptIn(mem)
  BY <1>1
<1>3. \A t \in Threads : /\ kept[t].slice \in SliceIn(mem) /\ kept[t].bytes \in Seq(Unit)
                         /\ call[t].enc \in EncodersIn(mem)
                         /\ call[t].dst \in SliceIn(mem) /\ call[t].out \in SliceIn(mem)
  BY <1>2 DEF CallsIn, KeptIn
<1>4. \A t \in Threads : call[t].enc.slice \in SliceIn(mem)
  BY <1>3 DEF EncodersIn
<1> QED
  BY <1>1, <1>2, <1>3, <1>4 DEF Mem

\* Where goroutine t may write when it has left q of the pool.
Own(q, t) == MayUse(pool, q, call, kept, mem, t)

\* An encoder to enter a call with: its slice holds x, and is the caller's when
\* it lies in an array of the caller.
Prepared(g, t, d, x) ==
    /\ g \in [enc : EncodersIn(g.mem), idle : SUBSET pool, mem : Mem]
    /\ Unwritten(mem, g.mem, Own(g.idle, t))
    /\ g.enc.slice.array \in Own(g.idle, t)
    /\ Bytes(g.mem, g.enc.slice) = x
    /\ Bytes(g.mem, kept[t].slice) = kept[t].bytes
    /\ g.enc.slice.array = kept[t].slice.array /\ kept[t].slice.array # 0 => d = kept[t]

LEMMA OwnFacts ==
    ASSUME IInv, NEW t \in Threads, NEW q
    PROVE  /\ 0 \in Own(q, t) /\ Len(mem) + 1 \in Own(q, t)
           /\ \A s \in HeldBy(call, kept, t) : s.array \in Own(q, t)
           /\ kept[t].slice \in HeldBy(call, kept, t) /\ call[t].dst \in HeldBy(call, kept, t)
           /\ call[t].out \in HeldBy(call, kept, t) /\ call[t].enc.slice \in HeldBy(call, kept, t)
<1>1. \A s \in HeldBy(call, kept, t) : s.array \in Nat
  BY Parts, SliceFacts DEF HeldBy
<1>2. Len(mem) \in Nat
  BY Parts
<1>3. \A s \in HeldBy(call, kept, t) : s.array \in Own(q, t)
  BY <1>1 DEF Own, MayUse
<1>4. 0 \in Own(q, t) /\ Len(mem) + 1 \in Own(q, t)
  BY <1>2 DEF Own, MayUse
<1> QED
  BY <1>3, <1>4 DEF HeldBy

\* What Get and Reset leave: an encoder of nobody's, empty and without settings.
Fresh(g) ==
    /\ g \in [enc : EncodersIn(g.mem), idle : SUBSET pool, mem : Mem]
    /\ Unwritten(mem, g.mem, {})
    /\ \/ g.enc.slice.array = 0 \/ g.enc.slice.array > Len(mem)
       \/ \E e \in pool : e \notin g.idle /\ e.slice.array = g.enc.slice.array

LEMMA AcquirableFacts ==
    ASSUME IInv, NEW a \in Acquirable
    PROVE  Fresh(a)
<1>1. /\ mem \in Mem /\ Len(mem) \in Nat /\ pool \subseteq EncodersIn(mem)
  BY Parts
<1>2. ASSUME NEW e \in pool, a = [enc |-> e, idle |-> pool \ {e}, mem |-> mem]
      PROVE  Fresh(a)
  <2>1. e \in EncodersIn(mem) /\ pool \ {e} \in SUBSET pool /\ e \notin pool \ {e}
    BY <1>1
  <2>2. Unwritten(mem, mem, {})
    BY <1>1 DEF Unwritten, Mem
  <2> QED
    BY <1>1, <1>2, <2>1, <2>2 DEF Fresh
<1>3. ASSUME a = [enc  |-> [NewEncoder EXCEPT !.slice = Make(mem, InitialEncBuf).slice],
                  idle |-> pool, mem |-> Make(mem, InitialEncBuf).mem]
      PROVE  Fresh(a)
  <2> DEFINE b == Make(mem, InitialEncBuf)
             e == [NewEncoder EXCEPT !.slice = b.slice]
  <2>1. /\ b.mem \in Mem /\ b.slice \in SliceIn(b.mem)
        /\ b.slice.array = Len(mem) + 1 /\ Unwritten(mem, b.mem, {})
    BY <1>1, MakeFacts, PoolAssumption
  <2> HIDE DEF b
  <2>2. NewEncoder \in EncodersIn(b.mem)
    BY <2>1, NewEncoderType
  <2> HIDE DEF NewEncoder
  <2>3. e \in EncodersIn(b.mem) /\ e.slice = b.slice
    BY <2>1, <2>2 DEF EncodersIn
  <2>4. a = [enc |-> e, idle |-> pool, mem |-> b.mem] /\ pool \in SUBSET pool
    BY <1>3 DEF b
  <2> HIDE DEF e
  <2> QED
    BY <1>1, <2>1, <2>3, <2>4 DEF Fresh
<1> QED
  BY <1>2, <1>3 DEF Acquirable

LEMMA ResetFacts ==
    ASSUME IInv, NEW a \in Acquirable
    PROVE  LET g == Reset(a)
           IN  /\ Fresh(g)
               /\ g.enc.slice.len = 0 /\ g.enc.headerOut = FALSE
               /\ g.enc.opts = Speed /\ g.enc.dict = NoDict
<1> DEFINE z == [a.enc.slice EXCEPT !.len = 0]
           hinted == /\ Cap(a.mem, z) = 0 /\ a.enc.hint > InitialEncBuf
                     /\ a.enc.hint <= MaxHintedBuf
           b == IF hinted THEN Make(a.mem, a.enc.hint) ELSE [mem |-> a.mem, slice |-> z]
           e == [NewEncoder EXCEPT !.slice = b.slice, !.hint = a.enc.hint]
<1>1. Fresh(a) /\ mem \in Mem /\ Len(mem) \in Nat
  BY AcquirableFacts, Parts
<1>2. /\ a.enc \in EncodersIn(a.mem) /\ a.mem \in Mem /\ a.idle \in SUBSET pool
      /\ Unwritten(mem, a.mem, {})
      /\ a \in [enc : EncodersIn(a.mem), idle : SUBSET pool, mem : Mem]
  BY <1>1 DEF Fresh
<1>3. a.enc.slice \in SliceIn(a.mem) /\ a.enc.hint \in Nat
  BY <1>2 DEF EncodersIn
<1>4. z \in SliceIn(a.mem) /\ z.array = a.enc.slice.array /\ z.len = 0
  <2>1. a.enc.slice.array \in Nat /\ a.enc.slice.array <= Len(a.mem)
        /\ a.enc.slice \in [array : Nat, len : Nat]
    BY <1>3 DEF SliceIn
  <2>2. z.array = a.enc.slice.array /\ z.len = 0 /\ z \in [array : Nat, len : Nat]
    BY <2>1
  <2>3. Cap(a.mem, z) \in Nat
    BY <1>2, <1>3, <2>2, SliceFacts DEF Cap
  <2> HIDE DEF z
  <2> QED
    BY <2>1, <2>2, <2>3 DEF SliceIn
<1>5. Reset(a) = [enc |-> e, idle |-> a.idle, mem |-> b.mem]
  <2>1. Reset(a) = [a EXCEPT !.enc = e, !.mem = b.mem]
    BY Zenon DEF Reset
  <2> HIDE DEF e, b
  <2> QED
    BY <1>2, <2>1
<1>6. /\ b.mem \in Mem /\ b.slice \in SliceIn(b.mem) /\ b.slice.len = 0
      /\ Unwritten(a.mem, b.mem, {})
      /\ b.slice.array = a.enc.slice.array \/ b.slice.array = Len(a.mem) + 1
  <2> HIDE DEF z
  <2>1. CASE hinted
    BY <1>2, <1>3, <2>1, MakeFacts
  <2>2. CASE ~hinted
    <3>1. Unwritten(a.mem, a.mem, {})
      BY <1>2 DEF Unwritten, Mem
    <3>2. b = [mem |-> a.mem, slice |-> z]
      BY <2>2
    <3> QED
      BY <1>2, <1>4, <3>1, <3>2
  <2> QED
    BY <2>1, <2>2
<1>7. Unwritten(mem, b.mem, {})
  BY <1>1, <1>2, <1>6, UnwrittenChain
<1>8. Len(mem) <= Len(a.mem) /\ Len(a.mem) \in Nat
  BY <1>2 DEF Unwritten, Mem
<1> HIDE DEF b
<1>9. NewEncoder \in EncodersIn(b.mem)
  BY <1>6, NewEncoderType
<1>10. NewEncoder.headerOut = FALSE /\ NewEncoder.opts = Speed /\ NewEncoder.dict = NoDict
  BY DEF NewEncoder
<1> HIDE DEF NewEncoder
<1>11. /\ e \in EncodersIn(b.mem) /\ e.slice = b.slice
       /\ e.headerOut = NewEncoder.headerOut
       /\ e.opts = NewEncoder.opts /\ e.dict = NewEncoder.dict
  BY <1>3, <1>6, <1>9 DEF EncodersIn
<1> HIDE DEF e
<1> DEFINE g == [enc |-> e, idle |-> a.idle, mem |-> b.mem]
<1>12. g \in [enc : EncodersIn(g.mem), idle : SUBSET pool, mem : Mem]
  BY <1>2, <1>6, <1>11
<1>13. /\ g.enc.slice.len = 0 /\ g.enc.headerOut = FALSE
       /\ g.enc.opts = Speed /\ g.enc.dict = NoDict
  BY <1>6, <1>10, <1>11
<1>14. \/ b.slice.array = 0 \/ b.slice.array > Len(mem)
       \/ \E f \in pool : f \notin a.idle /\ f.slice.array = b.slice.array
  BY <1>1, <1>6, <1>8 DEF Fresh
<1>15. Fresh(g)
  BY <1>7, <1>11, <1>12, <1>14 DEF Fresh
<1> QED
  BY <1>5, <1>13, <1>15

\* A fresh encoder with options and dictionary: nothing written.
LEMMA FreshPrepared ==
    ASSUME IInv, NEW t \in Threads, NEW g, Fresh(g), g.enc.slice.len = 0
    PROVE  Prepared(g, t, NothingKept, <<>>)
<1>1. /\ g \in [enc : EncodersIn(g.mem), idle : SUBSET pool, mem : Mem]
      /\ Unwritten(mem, g.mem, {}) /\ mem \in Mem /\ Len(mem) \in Nat
      /\ kept[t].slice \in SliceIn(mem) /\ Bytes(mem, kept[t].slice) = kept[t].bytes
      /\ pool \subseteq EncodersIn(mem) /\ Apart(pool, call, kept)
  BY Parts DEF Fresh
<1>2. g.mem \in Mem /\ g.enc \in EncodersIn(g.mem)
  BY <1>1
<1>3. g.enc.slice \in SliceIn(g.mem)
  BY <1>2 DEF EncodersIn
<1>4. g.enc.slice.array \in Own(g.idle, t)
  BY <1>2, <1>3, SliceFacts DEF Own, MayUse, Fresh
<1>5. Unwritten(mem, g.mem, Own(g.idle, t))
  BY <1>1 DEF Unwritten
<1>6. Bytes(g.mem, kept[t].slice) = kept[t].bytes
  BY <1>1, <1>2, SliceKept
<1>7. Bytes(g.mem, g.enc.slice) = <<>>
  <2>1. Bytes(g.mem, g.enc.slice) \in Seq(Unit) /\ Len(Bytes(g.mem, g.enc.slice)) = 0
    BY <1>2, <1>3, BytesType
  <2> QED
    BY <2>1, EmptySeq
<1>8. ~(g.enc.slice.array = kept[t].slice.array /\ kept[t].slice.array # 0)
  <2> SUFFICES ASSUME g.enc.slice.array = kept[t].slice.array, kept[t].slice.array # 0
               PROVE  FALSE
    OBVIOUS
  <2>1. kept[t].slice.array <= Len(mem) /\ kept[t].slice.array \in Nat
    BY <1>1, SliceFacts DEF SliceIn
  <2>2. PICK e \in pool : e.slice.array = g.enc.slice.array
    BY <1>1, <2>1 DEF Fresh
  <2>3. kept[t].slice \in HeldBy(call, kept, t)
    BY DEF HeldBy
  <2> QED
    BY <1>1, <2>2, <2>3 DEF Apart
<1> QED
  BY <1>1, <1>4, <1>5, <1>6, <1>7, <1>8 DEF Prepared

\* The record of Acquirable and Reset, its encoder changed.
Changed(g, h) ==
    /\ h \in [enc : EncodersIn(g.mem), idle : SUBSET pool, mem : Mem]
    /\ h.idle = g.idle /\ h.mem = g.mem

Configured(g, o, x) == [g EXCEPT !.enc.opts = o, !.enc.dict = x]
Sliced(g, s) == [g EXCEPT !.enc.slice = s]
OptedAndSliced(g, o, s) == [g EXCEPT !.enc.opts = o, !.enc.slice = s]

LEMMA EncoderChanged ==
    ASSUME NEW g, g \in [enc : EncodersIn(g.mem), idle : SUBSET pool, mem : Mem],
           NEW e \in EncodersIn(g.mem), NEW h, h = [g EXCEPT !.enc = e]
    PROVE  Changed(g, h) /\ h.enc = e
  BY DEF Changed

LEMMA SettingsSet ==
    ASSUME NEW g, g \in [enc : EncodersIn(g.mem), idle : SUBSET pool, mem : Mem],
           NEW o \in Options, NEW x \in Dicts \cup {NoDict},
           NEW h, h = Configured(g, o, x)
    PROVE  /\ Changed(g, h) /\ h.enc.slice = g.enc.slice
           /\ h.enc.opts = o /\ h.enc.dict = x /\ h.enc.headerOut = g.enc.headerOut
<1> DEFINE e == [g.enc EXCEPT !.opts = o, !.dict = x]
<1>1. g.enc \in EncodersIn(g.mem)
  OBVIOUS
<1>2. /\ e \in EncodersIn(g.mem) /\ e.slice = g.enc.slice
      /\ e.opts = o /\ e.dict = x /\ e.headerOut = g.enc.headerOut
  BY <1>1 DEF EncodersIn
<1>3. h = [g EXCEPT !.enc = e]
  BY DEF Configured
<1> HIDE DEF e
<1>4. Changed(g, h) /\ h.enc = e
  BY <1>2, <1>3, EncoderChanged
<1> QED
  BY <1>2, <1>4

LEMMA SliceSet ==
    ASSUME NEW g, g \in [enc : EncodersIn(g.mem), idle : SUBSET pool, mem : Mem],
           NEW s \in SliceIn(g.mem), NEW h, h = Sliced(g, s)
    PROVE  /\ Changed(g, h) /\ h.enc.slice = s
           /\ h.enc.opts = g.enc.opts /\ h.enc.dict = g.enc.dict
           /\ h.enc.headerOut = g.enc.headerOut
<1> DEFINE e == [g.enc EXCEPT !.slice = s]
<1>1. g.enc \in EncodersIn(g.mem)
  OBVIOUS
<1>2. /\ e \in EncodersIn(g.mem) /\ e.slice = s
      /\ e.opts = g.enc.opts /\ e.dict = g.enc.dict /\ e.headerOut = g.enc.headerOut
  BY <1>1 DEF EncodersIn
<1>3. h = [g EXCEPT !.enc = e]
  BY DEF Sliced
<1> HIDE DEF e
<1>4. Changed(g, h) /\ h.enc = e
  BY <1>2, <1>3, EncoderChanged
<1> QED
  BY <1>2, <1>4

LEMMA OptionsAndSliceSet ==
    ASSUME NEW g, g \in [enc : EncodersIn(g.mem), idle : SUBSET pool, mem : Mem],
           NEW o \in Options, NEW s \in SliceIn(g.mem),
           NEW h, h = OptedAndSliced(g, o, s)
    PROVE  /\ Changed(g, h) /\ h.enc.slice = s
           /\ h.enc.opts = o /\ h.enc.dict = g.enc.dict
           /\ h.enc.headerOut = g.enc.headerOut
<1> DEFINE e == [g.enc EXCEPT !.opts = o, !.slice = s]
<1>1. g.enc \in EncodersIn(g.mem)
  OBVIOUS
<1>2. /\ e \in EncodersIn(g.mem) /\ e.slice = s
      /\ e.opts = o /\ e.dict = g.enc.dict /\ e.headerOut = g.enc.headerOut
  BY <1>1 DEF EncodersIn
<1>3. h = [g EXCEPT !.enc = e]
  BY DEF OptedAndSliced
<1> HIDE DEF e
<1>4. Changed(g, h) /\ h.enc = e
  BY <1>2, <1>3, EncoderChanged
<1> QED
  BY <1>2, <1>4

LEMMA FreshSet ==
    ASSUME NEW g, Fresh(g), NEW h, Changed(g, h), h.enc.slice = g.enc.slice
    PROVE  Fresh(h)
  BY DEF Fresh, Changed

\* The caller's slice in place of the encoder's.
LEMMA DstPrepared ==
    ASSUME IInv, NEW t \in Threads, NEW d \in Destinations(t), NEW g, Fresh(g),
           NEW h, Changed(g, h), h.enc.slice = d.slice
    PROVE  Prepared(h, t, d, d.bytes)
<1>1. /\ g \in [enc : EncodersIn(g.mem), idle : SUBSET pool, mem : Mem]
      /\ Unwritten(mem, g.mem, {}) /\ mem \in Mem
      /\ kept[t].slice \in SliceIn(mem) /\ Bytes(mem, kept[t].slice) = kept[t].bytes
  BY Parts DEF Fresh
<1>2. g.mem \in Mem
  BY <1>1
<1>3. d = NothingKept \/ d = kept[t]
  BY DEF Destinations
<1>4. Bytes(g.mem, kept[t].slice) = kept[t].bytes
  BY <1>1, <1>2, SliceKept
<1>5. NothingKept.slice = NilSlice /\ NothingKept.bytes = <<>>
  BY DEF NothingKept
<1>6. /\ d.slice.array \in Own(g.idle, t) /\ Bytes(g.mem, d.slice) = d.bytes
      /\ d.slice.array = kept[t].slice.array /\ kept[t].slice.array # 0 => d = kept[t]
  <2>1. CASE d = NothingKept
    BY <1>2, <1>5, <2>1, NilFacts, OwnFacts
  <2>2. CASE d = kept[t]
    BY <1>4, <2>2, OwnFacts
  <2> QED
    BY <1>3, <2>1, <2>2
<1>7. Unwritten(mem, g.mem, Own(g.idle, t))
  BY <1>1 DEF Unwritten
<1> QED
  BY <1>2, <1>4, <1>6, <1>7 DEF Prepared, Changed

\* A header more.
SettingsKept(g, w) ==
    w.enc.headerOut = TRUE /\ w.enc.opts = g.enc.opts /\ w.enc.dict = g.enc.dict

LEMMA HeaderPrepared ==
    ASSUME IInv, NEW t \in Threads, NEW d, NEW x \in Seq(Unit), NEW g, Prepared(g, t, d, x),
           NEW u \in Unit, NEW w, w = WithHeader(g, u),
           d = NothingKept \/ d = kept[t], d = NothingKept \/ g.enc.slice = d.slice
    PROVE  Prepared(w, t, d, Append(x, u)) /\ SettingsKept(g, w)
<1> DEFINE s == g.enc.slice
           p == Push(g.mem, s, u)
<1>1. /\ g \in [enc : EncodersIn(g.mem), idle : SUBSET pool, mem : Mem]
      /\ mem \in Mem /\ Len(mem) \in Nat /\ kept[t].slice \in SliceIn(mem)
      /\ Unwritten(mem, g.mem, Own(g.idle, t)) /\ s.array \in Own(g.idle, t)
      /\ Bytes(g.mem, s) = x /\ Bytes(g.mem, kept[t].slice) = kept[t].bytes
      /\ s.array = kept[t].slice.array /\ kept[t].slice.array # 0 => d = kept[t]
  BY Parts DEF Prepared
<1>2. g.mem \in Mem /\ g.enc \in EncodersIn(g.mem)
  BY <1>1
<1>3. s \in SliceIn(g.mem) /\ kept[t].slice \in SliceIn(g.mem)
  BY <1>1, <1>2, SliceKept DEF EncodersIn
<1>4. /\ p.mem \in Mem
      /\ p.slice \in SliceIn(p.mem)
      /\ p.slice.array # 0
      /\ p.slice.array = s.array \/ p.slice.array = Len(g.mem) + 1
      /\ Bytes(p.mem, p.slice) = Append(x, u)
      /\ Unwritten(g.mem, p.mem, {s.array})
      /\ \A r \in SliceIn(g.mem) : r.len <= s.len => Bytes(p.mem, r) = Bytes(g.mem, r)
  BY <1>1, <1>2, <1>3, PushFacts
<1> DEFINE on == TRUE
           e == [g.enc EXCEPT !.slice = p.slice, !.headerOut = on]
<1>5. w = [g EXCEPT !.enc = e, !.mem = p.mem] /\ on \in BOOLEAN
  BY <1>2 DEF WithHeader, EncodersIn
<1> HIDE DEF p, on
<1>6. /\ e \in EncodersIn(p.mem) /\ e.slice = p.slice /\ e.headerOut = on
      /\ e.opts = g.enc.opts /\ e.dict = g.enc.dict
  BY <1>2, <1>4, <1>5 DEF EncodersIn
<1> HIDE DEF e
<1>7. /\ w.enc = e /\ w.idle = g.idle /\ w.mem = p.mem
      /\ w \in [enc : EncodersIn(w.mem), idle : SUBSET pool, mem : Mem]
  BY <1>1, <1>4, <1>5, <1>6
<1>8. Unwritten(mem, p.mem, Own(g.idle, t))
  BY <1>1, <1>2, <1>4, UnwrittenChain
<1>9. Len(mem) <= Len(g.mem) /\ Len(g.mem) \in Nat
  BY <1>1, <1>2 DEF Unwritten, Mem
<1>10. p.slice.array \in Own(g.idle, t)
  BY <1>1, <1>4, <1>9 DEF Own, MayUse
<1>11. p.slice.array = kept[t].slice.array /\ kept[t].slice.array # 0 => d = kept[t]
  <2>1. kept[t].slice.array <= Len(mem) /\ kept[t].slice.array \in Nat
    BY <1>1, SliceFacts DEF SliceIn
  <2> QED
    BY <1>1, <1>4, <1>9, <2>1
<1>12. Bytes(p.mem, kept[t].slice) = kept[t].bytes
  <2>1. CASE s.array = kept[t].slice.array /\ kept[t].slice.array # 0
    <3>1. d = kept[t]
      BY <1>1, <2>1
    <3>2. NothingKept.slice.array = 0
      BY DEF NothingKept, NilSlice
    <3>3. s = kept[t].slice /\ s.len \in Nat
      BY <1>2, <1>3, <2>1, <3>1, <3>2, SliceFacts
    <3>4. kept[t].slice.len <= s.len
      BY <3>3
    <3> QED
      BY <1>1, <1>3, <1>4, <3>4
  <2>2. CASE ~(s.array = kept[t].slice.array /\ kept[t].slice.array # 0)
    <3>1. kept[t].slice.array = 0 \/ kept[t].slice.array \notin {s.array}
      BY <2>2
    <3>2. Bytes(p.mem, kept[t].slice) = Bytes(g.mem, kept[t].slice)
      BY <1>2, <1>3, <1>4, <3>1, SliceKept
    <3> QED
      BY <1>1, <3>2
  <2> QED
    BY <2>1, <2>2
<1>13. Prepared(w, t, d, Append(x, u))
  BY <1>4, <1>6, <1>7, <1>8, <1>10, <1>11, <1>12 DEF Prepared
<1>14. SettingsKept(g, w)
  BY <1>6, <1>7 DEF on, SettingsKept
<1> QED
  BY <1>7, <1>13, <1>14

LEMMA RequestFacts ==
    ASSUME NEW t \in Threads, NEW o, NEW q \in Asked(t, o)
    PROVE  /\ q.op = o /\ q.op \in Ops /\ q.opts \in Options /\ q.dict \in Dicts \cup {NoDict}
           /\ q.size \in Nat /\ q.size > 0
           /\ q.op = "diff" => q.dict = NoDict
<1>1. q \in Requests[t] /\ Requests[t] \subseteq Request /\ q.op = o
  BY PoolAssumption DEF Asked
<1>2. q \in Request
  BY <1>1
<1> QED
  BY <1>1, <1>2 DEF Request

LEMMA NoneDone == \A n \in Nat : 0 <= n /\ ~(0 > 0)
  OBVIOUS

\* A goroutine enters a call with the message it has so far.
LEMMA EnterSound ==
    ASSUME IInv, NEW t \in Threads, NEW q, NEW d, NEW g, NEW out,
           Enter(t, q, d, g, out),
           q.op \in Ops, q.opts \in Options, q.dict \in Dicts \cup {NoDict}, q.size \in Nat,
           q.size > 0,
           d = NothingKept \/ d = kept[t],
           d = NothingKept \/ q.op \in {"append", "append direct", "diff"},
           Prepared(g, t, d, IF g.enc.headerOut
                             THEN Append(d.bytes, IF q.op = "diff" THEN PatchHeader ELSE Header)
                             ELSE d.bytes),
           out = IF q.op \in {"direct", "append direct"} THEN g.enc.slice ELSE NilSlice,
           q.op \in {"direct", "append direct", "diff"} => g.enc.headerOut,
           q.op \notin {"direct", "append direct"} =>
               g.enc.opts = q.opts /\ g.enc.dict = q.dict
    PROVE  IInv'
<1> DEFINE c == [op |-> q.op, opts |-> q.opts, dict |-> q.dict, size |-> q.size,
                 done |-> 0, enc |-> g.enc, dst |-> d.slice, before |-> d.bytes,
                 out |-> out]
           n == g.mem
           l == kept[t]
           A == MayUse(pool, g.idle, call, kept, mem, t)
<1>1. /\ g \in [enc : EncodersIn(n), idle : SUBSET pool, mem : Mem]
      /\ Unwritten(mem, n, A) /\ g.enc.slice.array \in A
      /\ Bytes(n, l.slice) = l.bytes
      /\ g.enc.slice.array = l.slice.array /\ l.slice.array # 0 => d = l
  BY DEF Prepared, Own
<1>2. /\ mem \in Mem /\ l.slice \in SliceIn(mem) /\ l.bytes \in Seq(Unit) /\ l \in KeptIn(mem)
  BY Parts
<1>3. n \in Mem /\ g.enc \in EncodersIn(n) /\ g.idle \subseteq pool
  BY <1>1
<1>4. g.enc.slice \in SliceIn(n) /\ l.slice \in SliceIn(n) /\ NilSlice \in SliceIn(n)
  <2> HIDE DEF n, l, A
  <2>1. g.enc.slice \in SliceIn(n)
    BY <1>3 DEF EncodersIn
  <2>2. l.slice \in SliceIn(n)
    BY <1>1, <1>2, <1>3, SliceKept
  <2> QED
    BY <1>3, <2>1, <2>2, NilFacts
<1>5. NothingKept.slice = NilSlice /\ NothingKept.bytes = <<>> /\ NilSlice.array = 0
      /\ <<>> \in Seq(Unit)
  <2>1. NothingKept.slice = NilSlice /\ NothingKept.bytes = <<>> /\ NilSlice.array = 0
    BY DEF NothingKept, NilSlice
  <2> QED
    BY <2>1, EmptySeq
<1>6. d.slice \in SliceIn(n) /\ d.bytes \in Seq(Unit) /\ out \in SliceIn(n)
  <2>1. d.slice \in SliceIn(n) /\ d.bytes \in Seq(Unit)
    BY <1>2, <1>4, <1>5
  <2> QED
    BY <1>4, <2>1
<1>7. /\ c.op = q.op /\ c.opts = q.opts /\ c.dict = q.dict /\ c.size = q.size /\ c.done = 0
      /\ c.enc = g.enc /\ c.dst = d.slice /\ c.before = d.bytes /\ c.out = out
  OBVIOUS
<1>8. c \in CallsIn(n)
  BY <1>3, <1>6 DEF CallsIn
<1>9. Become(g.idle, [call EXCEPT ![t] = c], kept, g.mem)
  BY DEF Enter
<1> HIDE DEF c
<1>10. l \in KeptIn(n)
  BY <1>2, <1>4 DEF KeptIn
<1>11. \A s \in Held4(c, l) : s.array \in A
  <2>1. 0 \in A /\ l.slice.array \in A
    BY OwnFacts DEF Own
  <2>2. c.enc.slice.array \in A /\ c.dst.array \in A /\ c.out.array \in A
    BY <1>1, <1>5, <1>7, <2>1
  <2> QED
    BY <2>1, <2>2 DEF Held4
<1>12. CallSound(c, l, n, t)
  <2>1. Working(c) = g.enc.slice
    BY <1>7 DEF Working, Direct
  <2>2. Bytes(n, Working(c)) = Message(c, t)
    <3>1. Bytes(n, Working(c)) = IF c.enc.headerOut THEN Append(c.before, HeaderOf(c))
                                 ELSE c.before
      BY <1>7, <2>1 DEF Prepared, HeaderOf
    <3> QED
      BY <1>6, <1>7, <3>1, MessageBegins
  <2>3. \/ c.dst = NilSlice /\ c.before = <<>>
        \/ c.dst = l.slice /\ c.before = l.bytes /\ Appends(c)
    BY <1>5, <1>7 DEF Appends
  <2>4. g.enc.slice.array = l.slice.array /\ l.slice.array # 0 =>
            c.dst = l.slice /\ Appends(c)
    <3> SUFFICES ASSUME g.enc.slice.array = l.slice.array, l.slice.array # 0
                 PROVE  c.dst = l.slice /\ Appends(c)
      OBVIOUS
    <3>1. d = l /\ d # NothingKept
      BY <1>1, <1>5
    <3> QED
      BY <1>7, <3>1 DEF Appends
  <2>5. c.op \in Ops /\ c.size > 0 /\ c.done <= c.size /\ ~(c.done > 0)
    BY <1>7, NoneDone
  <2>6. Direct(c) \/ c.op = "diff" \/ c.done > 0 => c.enc.headerOut
    BY <1>7, <2>5 DEF Direct
  <2>7. ~Direct(c) => c.enc.opts = c.opts /\ c.enc.dict = c.dict
    BY <1>7 DEF Direct
  <2> QED
    BY <1>7, <2>1, <2>2, <2>3, <2>4, <2>5, <2>6, <2>7 DEF CallSound
<1>13. Sound(g.idle, [call EXCEPT ![t] = c], [kept EXCEPT ![t] = l], n)
  BY <1>1, <1>3, <1>8, <1>10, <1>11, <1>12, PoolShrinks DEF IInv
<1>14. [kept EXCEPT ![t] = l] = kept
  BY DEF IInv, Sound
<1> QED
  BY <1>9, <1>13, <1>14, BecomeSound

LEMMA DstIn ==
    ASSUME IInv, NEW t \in Threads, NEW d \in Destinations(t), NEW g, Fresh(g)
    PROVE  d.slice \in SliceIn(g.mem) /\ d.bytes \in Seq(Unit)
<1>1. /\ g.mem \in Mem /\ Unwritten(mem, g.mem, {}) /\ mem \in Mem
      /\ kept[t].slice \in SliceIn(mem) /\ kept[t].bytes \in Seq(Unit)
  BY Parts DEF Fresh
<1>2. kept[t].slice \in SliceIn(g.mem) /\ NilSlice \in SliceIn(g.mem)
  BY <1>1, SliceKept, NilFacts
<1>3. NothingKept.slice = NilSlice /\ NothingKept.bytes = <<>> /\ <<>> \in Seq(Unit)
  BY DEF NothingKept
<1>4. d = NothingKept \/ d = kept[t]
  BY DEF Destinations
<1> QED
  BY <1>1, <1>2, <1>3, <1>4

LEMMA MarshalSound ==
    ASSUME IInv, NEW t \in Threads, Marshal(t)
    PROVE  IInv'
<1>0. PICK q \in Asked(t, "marshal") :
        \E g \in Acquired(q) : Enter(t, q, NothingKept, g, NilSlice)
  BY DEF Marshal
<1>1. PICK g \in Acquired(q) : Enter(t, q, NothingKept, g, NilSlice)
  BY <1>0
<1>2. PICK a \in Acquirable : g = [Reset(a) EXCEPT !.enc.opts = q.opts, !.enc.dict = q.dict]
  BY <1>1 DEF Acquired
<1> DEFINE r == Reset(a)
<1>3. /\ Fresh(r) /\ r.enc.slice.len = 0 /\ r.enc.headerOut = FALSE
      /\ r \in [enc : EncodersIn(r.mem), idle : SUBSET pool, mem : Mem]
  BY ResetFacts DEF Fresh
<1>4. q.op = "marshal" /\ q.op \in Ops /\ q.opts \in Options /\ q.dict \in Dicts \cup {NoDict}
      /\ q.size \in Nat /\ q.size > 0
  BY RequestFacts
<1> HIDE DEF r
<1>5. g = Configured(r, q.opts, q.dict)
  BY <1>2, Zenon DEF r, Configured
<1>6. /\ Changed(r, g) /\ g.enc.slice = r.enc.slice
      /\ g.enc.opts = q.opts /\ g.enc.dict = q.dict /\ g.enc.headerOut = FALSE
  BY <1>3, <1>4, <1>5, SettingsSet
<1>7. Prepared(g, t, NothingKept, <<>>)
  BY <1>3, <1>6, FreshSet, FreshPrepared
<1>8. NothingKept.bytes = <<>>
  BY DEF NothingKept
<1> QED
  BY <1>1, <1>4, <1>6, <1>7, <1>8, EnterSound

LEMMA AppendMarshalSound ==
    ASSUME IInv, NEW t \in Threads, AppendMarshal(t)
    PROVE  IInv'
<1>0. PICK q \in Asked(t, "append"), d \in Destinations(t) : \E f \in Acquired(q) :
        Enter(t, q, d, [f EXCEPT !.enc.slice = d.slice], NilSlice)
  BY DEF AppendMarshal
<1>1. PICK f \in Acquired(q) : Enter(t, q, d, Sliced(f, d.slice), NilSlice)
  BY <1>0 DEF Sliced
<1>2. PICK a \in Acquirable : f = [Reset(a) EXCEPT !.enc.opts = q.opts, !.enc.dict = q.dict]
  BY <1>1 DEF Acquired
<1> DEFINE r == Reset(a)
           g == Sliced(f, d.slice)
<1>3. /\ Fresh(r) /\ r.enc.headerOut = FALSE
      /\ r \in [enc : EncodersIn(r.mem), idle : SUBSET pool, mem : Mem]
  BY ResetFacts DEF Fresh
<1>4. q.op = "append" /\ q.op \in Ops /\ q.opts \in Options /\ q.dict \in Dicts \cup {NoDict}
      /\ q.size \in Nat /\ q.size > 0
  BY RequestFacts
<1>5. d.slice \in SliceIn(r.mem)
  BY <1>1, <1>3, DstIn
<1> HIDE DEF r
<1>6. /\ Changed(r, f) /\ f.enc.slice = r.enc.slice
      /\ f.enc.opts = q.opts /\ f.enc.dict = q.dict /\ f.enc.headerOut = FALSE
  <2>1. f = Configured(r, q.opts, q.dict)
    BY <1>2, Zenon DEF r, Configured
  <2> QED
    BY <1>3, <1>4, <2>1, SettingsSet
<1>7. /\ Changed(r, g) /\ g.enc.slice = d.slice
      /\ g.enc.opts = q.opts /\ g.enc.dict = q.dict /\ g.enc.headerOut = FALSE
  <2>1. /\ f \in [enc : EncodersIn(f.mem), idle : SUBSET pool, mem : Mem]
        /\ d.slice \in SliceIn(f.mem)
    BY <1>5, <1>6 DEF Changed
  <2>2. /\ Changed(f, g) /\ g.enc.slice = d.slice
        /\ g.enc.opts = f.enc.opts /\ g.enc.dict = f.enc.dict
        /\ g.enc.headerOut = f.enc.headerOut
    BY <2>1, SliceSet
  <2> QED
    BY <1>6, <2>2 DEF Changed
<1>8. Enter(t, q, d, g, NilSlice) /\ (d = NothingKept \/ d = kept[t])
  BY <1>1 DEF Destinations
<1> HIDE DEF g
<1>9. Prepared(g, t, d, d.bytes)
  BY <1>1, <1>3, <1>7, DstPrepared
<1> QED
  BY <1>4, <1>7, <1>8, <1>9, EnterSound

LEMMA MarshalDirectSound ==
    ASSUME IInv, NEW t \in Threads, MarshalDirect(t)
    PROVE  IInv'
<1> DEFINE W(a) == WithHeader(Reset(a), Header)
<1>1. PICK q \in Asked(t, "direct"), a \in Acquirable :
        Enter(t, q, NothingKept, W(a), W(a).enc.slice)
  BY DEF MarshalDirect
<1> DEFINE r == Reset(a)
           g == WithHeader(r, Header)
<1>2. Fresh(r) /\ r.enc.slice.len = 0 /\ Header \in Unit
  BY ResetFacts, Units
<1>3. q.op = "direct" /\ q.op \in Ops /\ q.opts \in Options /\ q.dict \in Dicts \cup {NoDict}
      /\ q.size \in Nat /\ q.size > 0
  BY <1>1, RequestFacts
<1>4. Enter(t, q, NothingKept, g, g.enc.slice)
  BY <1>1
<1> HIDE DEF r, g
<1>5. Prepared(r, t, NothingKept, <<>>) /\ <<>> \in Seq(Unit)
  BY <1>2, FreshPrepared
<1>6. Prepared(g, t, NothingKept, Append(<<>>, Header)) /\ g.enc.headerOut = TRUE
  BY <1>2, <1>5, HeaderPrepared DEF g, SettingsKept
<1>7. NothingKept.bytes = <<>>
  BY DEF NothingKept
<1> QED
  BY <1>3, <1>4, <1>6, <1>7, EnterSound

LEMMA AppendMarshalDirectSound ==
    ASSUME IInv, NEW t \in Threads, AppendMarshalDirect(t)
    PROVE  IInv'
<1> DEFINE W(a, d) == WithHeader(Sliced(Reset(a), d.slice), Header)
<1>1. PICK q \in Asked(t, "append direct"), d \in Destinations(t), a \in Acquirable :
        Enter(t, q, d, W(a, d), W(a, d).enc.slice)
  BY DEF AppendMarshalDirect, Sliced
<1> DEFINE r == Reset(a)
           f == Sliced(r, d.slice)
           g == WithHeader(f, Header)
<1>2. /\ Fresh(r) /\ Header \in Unit
      /\ r \in [enc : EncodersIn(r.mem), idle : SUBSET pool, mem : Mem]
  BY ResetFacts, Units DEF Fresh
<1>3. q.op = "append direct" /\ q.op \in Ops /\ q.opts \in Options
      /\ q.dict \in Dicts \cup {NoDict} /\ q.size \in Nat /\ q.size > 0
  BY <1>1, RequestFacts
<1>4. d.slice \in SliceIn(r.mem)
  BY <1>1, <1>2, DstIn
<1>5. Enter(t, q, d, g, g.enc.slice) /\ (d = NothingKept \/ d = kept[t])
  BY <1>1 DEF Destinations
<1> HIDE DEF r
<1>6. Changed(r, f) /\ f.enc.slice = d.slice
  BY <1>2, <1>4, SliceSet
<1> HIDE DEF f, g, W
<1>7. Prepared(f, t, d, d.bytes)
  BY <1>1, <1>2, <1>6, DstPrepared
<1>8. d.bytes \in Seq(Unit)
  BY <1>1, <1>2, DstIn
<1>9. Prepared(g, t, d, Append(d.bytes, Header)) /\ g.enc.headerOut = TRUE
  <2>1. g = WithHeader(f, Header) /\ Header \in Unit
    BY <1>2 DEF g
  <2>2. (d = NothingKept \/ d = kept[t]) /\ f.enc.slice = d.slice
    BY <1>5, <1>6
  <2>3. Prepared(g, t, d, Append(d.bytes, Header)) /\ SettingsKept(f, g)
    BY <1>7, <1>8, <2>1, <2>2, HeaderPrepared
  <2> QED
    BY <2>3 DEF SettingsKept
<1> QED
  BY <1>3, <1>5, <1>9, EnterSound

LEMMA AppendDiffSound ==
    ASSUME IInv, NEW t \in Threads, AppendDiff(t)
    PROVE  IInv'
<1> DEFINE W(a, q, d) ==
        WithHeader(OptedAndSliced(Reset(a), q.opts, d.slice), PatchHeader)
<1>1. PICK q \in Asked(t, "diff"), d \in Destinations(t), a \in Acquirable :
        Enter(t, q, d, W(a, q, d), NilSlice)
  BY DEF AppendDiff, OptedAndSliced
<1> DEFINE r == Reset(a)
           f == OptedAndSliced(r, q.opts, d.slice)
           g == WithHeader(f, PatchHeader)
<1>2. /\ Fresh(r) /\ PatchHeader \in Unit /\ r.enc.dict = NoDict
      /\ r \in [enc : EncodersIn(r.mem), idle : SUBSET pool, mem : Mem]
  BY ResetFacts, Units DEF Fresh
<1>3. /\ q.op = "diff" /\ q.op \in Ops /\ q.opts \in Options
      /\ q.dict \in Dicts \cup {NoDict} /\ q.dict = NoDict /\ q.size \in Nat /\ q.size > 0
  BY <1>1, RequestFacts
<1>4. d.slice \in SliceIn(r.mem)
  BY <1>1, <1>2, DstIn
<1>5. Enter(t, q, d, g, NilSlice) /\ (d = NothingKept \/ d = kept[t])
  BY <1>1 DEF Destinations
<1> HIDE DEF r
<1>6. /\ Changed(r, f) /\ f.enc.slice = d.slice
      /\ f.enc.opts = q.opts /\ f.enc.dict = q.dict
  BY <1>2, <1>3, <1>4, OptionsAndSliceSet
<1> HIDE DEF f, g, W
<1>7. Prepared(f, t, d, d.bytes)
  BY <1>1, <1>2, <1>6, DstPrepared
<1>8. d.bytes \in Seq(Unit)
  BY <1>1, <1>2, DstIn
<1>9. /\ Prepared(g, t, d, Append(d.bytes, PatchHeader)) /\ g.enc.headerOut = TRUE
      /\ g.enc.opts = f.enc.opts /\ g.enc.dict = f.enc.dict
  <2>1. g = WithHeader(f, PatchHeader) /\ PatchHeader \in Unit
    BY <1>2 DEF g
  <2>2. (d = NothingKept \/ d = kept[t]) /\ f.enc.slice = d.slice
    BY <1>5, <1>6
  <2>3. Prepared(g, t, d, Append(d.bytes, PatchHeader)) /\ SettingsKept(f, g)
    BY <1>7, <1>8, <2>1, <2>2, HeaderPrepared
  <2> QED
    BY <2>3 DEF SettingsKept
<1> QED
  BY <1>3, <1>5, <1>6, <1>9, EnterSound

-----------------------------------------------------------------------------
(* Writing *)

Advanced(c, s, j, b) ==
    LET d == [c EXCEPT !.done = j, !.enc.headerOut = b]
    IN  IF Direct(c) THEN [d EXCEPT !.out = s] ELSE [d EXCEPT !.enc.slice = s]

SameCall(c, d) ==
    /\ d.op = c.op /\ d.opts = c.opts /\ d.dict = c.dict /\ d.size = c.size
    /\ d.dst = c.dst /\ d.before = c.before
    /\ d.enc.opts = c.enc.opts /\ d.enc.dict = c.enc.dict

LEMMA AdvancedFacts ==
    ASSUME NEW m, NEW n, NEW c \in CallsIn(m), NEW s \in SliceIn(n), NEW j \in Nat,
           NEW b \in BOOLEAN, NEW f, f = Advanced(c, s, j, b),
           c.enc.slice \in SliceIn(n), c.dst \in SliceIn(n), c.out \in SliceIn(n)
    PROVE  /\ f \in CallsIn(n) /\ SameCall(c, f) /\ f.done = j /\ f.enc.headerOut = b
           /\ f.out = IF Direct(c) THEN s ELSE c.out
           /\ f.enc.slice = IF Direct(c) THEN c.enc.slice ELSE s
<1>1. c.enc \in EncodersIn(m)
  BY DEF CallsIn
<1> DEFINE e1 == [c.enc EXCEPT !.headerOut = b]
           e2 == [c.enc EXCEPT !.headerOut = b, !.slice = s]
<1>2. /\ e1 \in EncodersIn(n) /\ e1.slice = c.enc.slice /\ e1.headerOut = b
      /\ e1.opts = c.enc.opts /\ e1.dict = c.enc.dict
  BY <1>1 DEF EncodersIn
<1>3. /\ e2 \in EncodersIn(n) /\ e2.slice = s /\ e2.headerOut = b
      /\ e2.opts = c.enc.opts /\ e2.dict = c.enc.dict
  BY <1>1 DEF EncodersIn
<1>4. CASE Direct(c)
  <2>1. f = [c EXCEPT !.done = j, !.enc = e1, !.out = s]
    BY <1>4 DEF Advanced, CallsIn
  <2> HIDE DEF e1
  <2>2. f \in CallsIn(n)
    BY <1>2, <2>1 DEF CallsIn
  <2>3. /\ f.op = c.op /\ f.opts = c.opts /\ f.dict = c.dict /\ f.size = c.size
        /\ f.dst = c.dst /\ f.before = c.before /\ f.enc = e1 /\ f.out = s /\ f.done = j
    BY <2>1 DEF CallsIn
  <2> QED
    BY <1>2, <1>4, <2>2, <2>3 DEF SameCall
<1>5. CASE ~Direct(c)
  <2>1. f = [c EXCEPT !.done = j, !.enc = e2]
    BY <1>5 DEF Advanced, CallsIn
  <2> HIDE DEF e2
  <2>2. f \in CallsIn(n)
    BY <1>3, <2>1 DEF CallsIn
  <2>3. /\ f.op = c.op /\ f.opts = c.opts /\ f.dict = c.dict /\ f.size = c.size
        /\ f.dst = c.dst /\ f.before = c.before /\ f.enc = e2 /\ f.out = c.out /\ f.done = j
    BY <2>1 DEF CallsIn
  <2> QED
    BY <1>3, <1>5, <2>2, <2>3 DEF SameCall
<1> QED
  BY <1>4, <1>5

\* The working slice of a call that is going on, and what its goroutine keeps.
LEMMA WorkingFacts ==
    ASSUME IInv, NEW t \in Threads, call[t] # Idle
    PROVE  LET s == Working(call[t])
               l == kept[t]
           IN  /\ s \in HeldBy(call, kept, t) /\ s \in SliceIn(mem)
               /\ Bytes(mem, s) = Message(call[t], t)
               /\ s.array = l.slice.array /\ l.slice.array # 0 =>
                    call[t].dst = l.slice /\ l.slice.len <= s.len
<1> DEFINE c == call[t]
           s == Working(c)
           l == kept[t]
<1>1. /\ c \in CallsIn(mem) /\ l.slice \in SliceIn(mem) /\ l.bytes \in Seq(Unit)
      /\ c.enc.slice \in SliceIn(mem) /\ c.out \in SliceIn(mem)
      /\ Bytes(mem, l.slice) = l.bytes /\ CallSound(c, l, mem, t) /\ mem \in Mem
  BY Parts
<1>2. s \in HeldBy(call, kept, t) /\ s \in SliceIn(mem)
  BY <1>1 DEF HeldBy, Working
<1>3. /\ Bytes(mem, s) = Message(c, t)
      /\ s.array = l.slice.array /\ l.slice.array # 0 => c.dst = l.slice
      /\ \/ c.dst = NilSlice /\ c.before = <<>>
         \/ c.dst = l.slice /\ c.before = l.bytes
  BY <1>1 DEF CallSound
<1>4. ASSUME s.array = l.slice.array, l.slice.array # 0
      PROVE  l.slice.len <= s.len
  <2>1. c.dst = l.slice /\ c.before = l.bytes
    BY <1>3, <1>4, NilFacts, <1>1
  <2>2. c.before \in Seq(Unit) /\ c.done \in Nat
    BY <1>1 DEF CallsIn
  <2>3. Len(Message(c, t)) >= Len(c.before)
    BY <2>2, MessageType
  <2>4. Len(Bytes(mem, s)) = s.len /\ Len(l.bytes) = l.slice.len
        /\ s.len \in Nat /\ l.slice.len \in Nat
    BY <1>1, <1>2, BytesType, SliceFacts
  <2> HIDE DEF c, s, l
  <2> QED
    BY <1>3, <2>1, <2>3, <2>4
<1> QED
  BY <1>2, <1>3, <1>4

LEMMA WriteSound ==
    ASSUME IInv, NEW t \in Threads, Write(t)
    PROVE  IInv'
<1> DEFINE c == call[t]
           l == kept[t]
           s == Working(c)
           h == ~Direct(c) /\ ~c.enc.headerOut
           u == IF h THEN Header ELSE <<"body", t>>
           p == Push(mem, s, u)
           j == IF h THEN c.done ELSE c.done + 1
           b == c.enc.headerOut \/ h
           f == Advanced(c, p.slice, j, b)
           A == MayUse(pool, pool, call, kept, mem, t)
<1>1. c # Idle /\ c.done < c.size /\ Become(pool, [call EXCEPT ![t] = f], kept, p.mem)
  BY DEF Write, Advanced
<1>2. /\ mem \in Mem /\ Len(mem) \in Nat /\ c \in CallsIn(mem) /\ l \in KeptIn(mem)
      /\ c.enc \in EncodersIn(mem) /\ c.enc.slice \in SliceIn(mem)
      /\ c.dst \in SliceIn(mem) /\ c.out \in SliceIn(mem)
      /\ l.slice \in SliceIn(mem) /\ l.bytes \in Seq(Unit)
      /\ Bytes(mem, l.slice) = l.bytes /\ CallSound(c, l, mem, t)
  BY Parts
<1>3. /\ s \in HeldBy(call, kept, t) /\ s \in SliceIn(mem)
      /\ Bytes(mem, s) = Message(c, t)
      /\ s.array = l.slice.array /\ l.slice.array # 0 => c.dst = l.slice /\ l.slice.len <= s.len
  BY <1>1, WorkingFacts
<1>4. u \in Unit /\ c.done \in Nat /\ j \in Nat /\ b \in BOOLEAN /\ c.before \in Seq(Unit)
  BY <1>2, Units DEF CallsIn, EncodersIn
<1>5. /\ c.op \in Ops /\ c.size > 0 /\ c.size \in Nat
      /\ Direct(c) \/ c.op = "diff" \/ c.done > 0 => c.enc.headerOut
      /\ \/ c.dst = NilSlice /\ c.before = <<>>
         \/ c.dst = l.slice /\ c.before = l.bytes /\ Appends(c)
      /\ ~Direct(c) => c.enc.opts = c.opts /\ c.enc.dict = c.dict
      /\ c.enc.slice.array = l.slice.array /\ l.slice.array # 0 => Appends(c)
      /\ s.array = l.slice.array /\ l.slice.array # 0 => c.dst = l.slice
  BY <1>1, <1>2 DEF CallSound, CallsIn
<1> HIDE DEF u, s, A
<1>6. /\ p.mem \in Mem
      /\ p.slice \in SliceIn(p.mem)
      /\ p.slice.array # 0
      /\ p.slice.array = s.array \/ p.slice.array = Len(mem) + 1
      /\ Bytes(p.mem, p.slice) = Append(Message(c, t), u)
      /\ Unwritten(mem, p.mem, {s.array})
      /\ \A r \in SliceIn(mem) : r.len <= s.len => Bytes(p.mem, r) = Bytes(mem, r)
  <2> HIDE DEF c, l, f, b, j, h
  <2>1. mem \in Mem /\ s \in SliceIn(mem) /\ u \in Unit
    BY <1>2, <1>3, <1>4
  <2>2. /\ p.mem \in Mem
        /\ p.slice \in SliceIn(p.mem)
        /\ p.slice.array # 0
        /\ p.slice.array = s.array \/ p.slice.array = Len(mem) + 1
        /\ Bytes(p.mem, p.slice) = Append(Bytes(mem, s), u)
        /\ Unwritten(mem, p.mem, {s.array})
        /\ \A r \in SliceIn(mem) : r.len <= s.len => Bytes(p.mem, r) = Bytes(mem, r)
    BY <2>1, PushFacts
  <2> QED
    BY <1>3, <2>2
<1> HIDE DEF p
<1>7. /\ c.enc.slice \in SliceIn(p.mem) /\ c.dst \in SliceIn(p.mem) /\ c.out \in SliceIn(p.mem)
      /\ l.slice \in SliceIn(p.mem)
  BY <1>2, <1>6, SliceKept
<1> HIDE DEF j, b
<1>8. /\ f \in CallsIn(p.mem) /\ SameCall(c, f) /\ f.done = j /\ f.enc.headerOut = b
      /\ f.out = IF Direct(c) THEN p.slice ELSE c.out
      /\ f.enc.slice = IF Direct(c) THEN c.enc.slice ELSE p.slice
  <2>1. /\ c \in CallsIn(mem) /\ p.slice \in SliceIn(p.mem) /\ j \in Nat /\ b \in BOOLEAN
        /\ c.enc.slice \in SliceIn(p.mem) /\ c.dst \in SliceIn(p.mem)
        /\ c.out \in SliceIn(p.mem) /\ f = Advanced(c, p.slice, j, b)
    BY <1>2, <1>4, <1>6, <1>7
  <2> HIDE DEF c, f, h
  <2> QED
    BY <2>1, AdvancedFacts
<1> HIDE DEF f
<1>9. /\ f.op = c.op /\ f.opts = c.opts /\ f.dict = c.dict /\ f.size = c.size
      /\ f.dst = c.dst /\ f.before = c.before
      /\ f.enc.opts = c.enc.opts /\ f.enc.dict = c.enc.dict
      /\ Direct(f) = Direct(c) /\ Appends(f) = Appends(c) /\ HeaderOf(f) = HeaderOf(c)
      /\ Working(f) = p.slice
  BY <1>8 DEF SameCall, Direct, Appends, HeaderOf, Working
<1>10. s.array \in A /\ p.slice.array \in A /\ l.slice.array \in A /\ c.dst.array \in A
       /\ c.out.array \in A /\ c.enc.slice.array \in A
  BY <1>3, <1>6, OwnFacts DEF Own, A
<1>11. Unwritten(mem, p.mem, A)
  BY <1>6, <1>10 DEF Unwritten
<1>12. \A r \in Held4(f, l) : r.array \in A
  <2>1. f.out.array \in A /\ f.enc.slice.array \in A /\ f.dst.array \in A
    BY <1>8, <1>9, <1>10
  <2> QED
    BY <1>10, <2>1 DEF Held4
<1>13. Bytes(p.mem, l.slice) = l.bytes
  <2>1. CASE s.array = l.slice.array /\ l.slice.array # 0
    BY <1>2, <1>3, <1>6, <2>1
  <2>2. CASE ~(s.array = l.slice.array /\ l.slice.array # 0)
    <3>1. l.slice.array = 0 \/ l.slice.array \notin {s.array}
      BY <2>2
    <3>2. Bytes(p.mem, l.slice) = Bytes(mem, l.slice)
      BY <1>2, <1>6, <3>1, SliceKept
    <3> QED
      BY <1>2, <3>2
  <2> QED
    BY <2>1, <2>2
<1>14. Bytes(p.mem, p.slice) = Message(f, t)
  <2>1. CASE h
    <3>1. ~c.enc.headerOut /\ c.done = 0 /\ c.op # "diff"
      BY <1>4, <1>5, <2>1
    <3>2. j = c.done /\ b = TRUE /\ u = Header /\ HeaderOf(f) = Header
      BY <1>9, <2>1, <3>1 DEF j, b, u, HeaderOf
    <3>3. Message(c, t) = c.before
      BY <1>4, <3>1, MessageBegins
    <3>4. Message(f, t) = Append(c.before, Header)
      BY <1>4, <1>8, <1>9, <3>1, <3>2, MessageBegins
    <3> QED
      BY <1>6, <3>2, <3>3, <3>4
  <2>2. CASE ~h
    <3>1. c.enc.headerOut
      BY <1>5, <2>2
    <3>2. j = c.done + 1 /\ b = c.enc.headerOut /\ u = <<"body", t>>
      BY <2>2, <3>1 DEF j, b, u
    <3>3. Message(f, t) = Append(Message(c, t), <<"body", t>>)
      BY <1>4, <1>8, <1>9, <3>2, MessageGrows
    <3> QED
      BY <1>6, <3>2, <3>3
  <2> QED
    BY <2>1, <2>2
<1>15. CallSound(f, l, p.mem, t)
  <2>1. f.op \in Ops /\ f.size > 0 /\ f.done <= f.size
    <3>1. j <= c.size
      BY <1>1, <1>4, <1>5 DEF j
    <3> QED
      BY <1>5, <1>8, <1>9, <3>1
  <2>2. f.enc.headerOut
    <3>1. b
      BY <1>5 DEF b
    <3> QED
      BY <1>8, <3>1
  <2>3. \/ f.dst = NilSlice /\ f.before = <<>>
        \/ f.dst = l.slice /\ f.before = l.bytes /\ Appends(f)
    BY <1>5, <1>9
  <2>4. ~Direct(f) => f.enc.opts = f.opts /\ f.enc.dict = f.dict
    BY <1>5, <1>9
  <2>5. l.slice.array # 0 /\ p.slice.array = l.slice.array => f.dst = l.slice
    <3>1. l.slice.array <= Len(mem) /\ l.slice.array \in Nat
      BY <1>2, SliceFacts DEF SliceIn
    <3> QED
      BY <1>2, <1>5, <1>6, <1>9, <3>1
  <2>6. f.enc.slice.array = l.slice.array /\ l.slice.array # 0 => Appends(f)
    <3>1. CASE Direct(c)
      BY <1>5, <1>8, <1>9, <3>1
    <3>2. CASE ~Direct(c)
      <4> SUFFICES ASSUME f.enc.slice.array = l.slice.array, l.slice.array # 0
                   PROVE  Appends(f)
        OBVIOUS
      <4>1. p.slice.array = l.slice.array
        BY <1>8, <3>2
      <4>2. f.dst = l.slice
        BY <2>5, <4>1
      <4>3. NilSlice.array = 0
        BY DEF NilSlice
      <4> QED
        BY <2>3, <4>2, <4>3
    <3> QED
      BY <3>1, <3>2
  <2> QED
    BY <1>9, <1>14, <2>1, <2>2, <2>3, <2>4, <2>5, <2>6 DEF CallSound
<1>16. l \in KeptIn(p.mem)
  BY <1>2, <1>7 DEF KeptIn
<1>17. Sound(pool, [call EXCEPT ![t] = f], [kept EXCEPT ![t] = l], p.mem)
  BY <1>6, <1>8, <1>11, <1>12, <1>13, <1>15, <1>16, PoolShrinks DEF IInv, A
<1>18. [kept EXCEPT ![t] = l] = kept
  BY DEF IInv, Sound
<1> QED
  BY <1>1, <1>17, <1>18, BecomeSound

-----------------------------------------------------------------------------
(* Leaving a call *)

\* A memory goroutine t may leave: others' arrays and what it keeps are intact.
Left(t, n) ==
    /\ n \in Mem
    /\ Unwritten(mem, n, Own(pool, t))
    /\ Bytes(n, kept[t].slice) = kept[t].bytes

LEMMA LeftFacts ==
    ASSUME IInv, NEW t \in Threads
    PROVE  /\ Left(t, mem)
           /\ \A n : Left(t, n) => kept[t].slice \in SliceIn(n)
<1>1. mem \in Mem /\ Bytes(mem, kept[t].slice) = kept[t].bytes
      /\ kept[t].slice \in SliceIn(mem)
  BY Parts
<1>2. Unwritten(mem, mem, Own(pool, t))
  BY <1>1 DEF Unwritten, Mem
<1> QED
  BY <1>1, <1>2, SliceKept DEF Left

LEMMA IdleSound ==
    ASSUME NEW k, NEW m, NEW t
    PROVE  CallSound(Idle, k, m, t)
  BY DEF CallSound

\* putEnc leaves one idle encoder: the one that was there, or this one.
LEMMA OneIdle ==
    ASSUME NEW p, \A d, e \in p : d = e, NEW f, Cardinality(p \cup {f}) <= 1
    PROVE  p \cup {f} = p \/ p \cup {f} = {f}
<1>1. CASE p = {}
  BY <1>1
<1>2. CASE p # {}
  <2>1. PICK x \in p : p = {x}
    BY <1>2
  <2>2. CASE f = x
    BY <2>1, <2>2
  <2>3. CASE f # x
    <3>1. IsFiniteSet({x}) /\ Cardinality({x}) = 1
      BY FS_Singleton
    <3>2. Cardinality({x} \cup {f}) = Cardinality({x}) + 1
      BY <2>3, <3>1, FS_AddElement
    <3> QED
      BY <2>1, <3>1, <3>2
  <2> QED
    BY <2>2, <2>3
<1> QED
  BY <1>1, <1>2

LEMMA Leaving ==
    ASSUME IInv, NEW t \in Threads, NEW n, Left(t, n), NEW e \in EncodersIn(n),
           NEW l \in KeptIn(n), Bytes(n, l.slice) = l.bytes,
           e.slice.array \in Own(pool, t), l.slice.array \in Own(pool, t),
           e.slice.array = l.slice.array => l.slice.array = 0,
           NEW k, k = [kept EXCEPT ![t] = l],
           Leave(t, PutEnc(pool, e, n), k, n)
    PROVE  IInv'
<1> DEFINE f == IF Cap(n, e.slice) > MaxPooledBuf THEN [e EXCEPT !.slice = NilSlice] ELSE e
           q == PutEnc(pool, e, n)
<1>1. n \in Mem /\ Apart(pool, call, kept)
      /\ Cardinality(q) <= 1 /\ Become(q, [call EXCEPT ![t] = Idle], k, n)
  BY Parts DEF Left, Leave
<1>2. f \in EncodersIn(n) /\ (f.slice = e.slice \/ f.slice = NilSlice)
  <2>1. NilSlice \in SliceIn(n)
    BY <1>1, NilFacts
  <2> QED
    BY <2>1 DEF EncodersIn
<1>3. q = pool \cup {f}
  BY DEF PutEnc
<1> HIDE DEF f
<1>4. q = pool \/ q = {f}
  <2>1. \A x, y \in pool : x = y
    BY <1>1 DEF Apart
  <2> QED
    BY <1>1, <1>3, <2>1, OneIdle
<1> HIDE DEF q
<1>5. NilSlice.array = 0
  BY DEF NilSlice
<1>6. f.slice.array \in Own(pool, t) /\ (f.slice.array = l.slice.array => l.slice.array = 0)
  BY <1>2, <1>5, OwnFacts
<1>7. /\ Idle \in CallsIn(n) /\ Idle.dst = NilSlice /\ Idle.out = NilSlice
      /\ Idle.enc.slice = NilSlice
  BY <1>1, IdleType, NewEncoderType
<1>8. /\ \A s \in Held4(Idle, l) : s = l.slice \/ s = NilSlice
      /\ \A s \in Held4(Idle, l) : s.array \in Own(pool, t)
  BY <1>5, <1>7, OwnFacts DEF Held4
<1>9. CallSound(Idle, l, n, t)
  BY IdleSound
<1>10. Sound(q, [call EXCEPT ![t] = Idle], k, n)
  <2>1. CASE q = pool
    <3>1. Unwritten(mem, n, MayUse(pool, q, call, kept, mem, t))
      BY <2>1 DEF Left, Own
    <3>2. \A s \in Held4(Idle, l) : s.array \in MayUse(pool, q, call, kept, mem, t)
      BY <1>8, <2>1 DEF Own
    <3> QED
      BY <1>1, <1>7, <1>9, <2>1, <3>1, <3>2, PoolShrinks DEF IInv
  <2>2. CASE q = {f}
    <3>1. \A a \in Own(pool, t) : a \in MayUse(pool, q, call, kept, mem, t)
      BY DEF Own, MayUse
    <3>2. Unwritten(mem, n, MayUse(pool, q, call, kept, mem, t))
      BY <3>1 DEF Left, Unwritten
    <3>3. \A s \in Held4(Idle, l) : s.array \in MayUse(pool, q, call, kept, mem, t)
      BY <1>8, <3>1
    <3>4. /\ q \subseteq EncodersIn(n) /\ \A x, y \in q : x = y
          /\ \A x \in q : x \in pool \/ x.slice.array \in MayUse(pool, q, call, kept, mem, t)
      BY <1>2, <1>6, <2>2, <3>1
    <3>5. \A x \in q : \A s \in Held4(Idle, l) : x.slice.array = s.array => s.array = 0
      BY <1>5, <1>6, <1>8, <2>2
    <3> QED
      BY <1>1, <1>7, <1>9, <3>2, <3>3, <3>4, <3>5, ThreadStep DEF IInv
  <2> QED
    BY <1>4, <2>1, <2>2
<1> QED
  BY <1>1, <1>10, BecomeSound

LEMMA EncoderWithSlice ==
    ASSUME NEW m, NEW n, NEW e \in EncodersIn(m), NEW s \in SliceIn(n)
    PROVE  [e EXCEPT !.slice = s] \in EncodersIn(n) /\ [e EXCEPT !.slice = s].slice = s
  BY DEF EncodersIn

LEMMA PanicSound ==
    ASSUME IInv, NEW t \in Threads, Panic(t)
    PROVE  IInv'
<1> DEFINE l == kept[t]
<1>1. Become(pool, [call EXCEPT ![t] = Idle], kept, mem)
  BY DEF Panic, Leave
<1>2. /\ mem \in Mem /\ l \in KeptIn(mem) /\ Bytes(mem, l.slice) = l.bytes
      /\ [kept EXCEPT ![t] = l] = kept
  BY Parts DEF IInv, Sound
<1>3. Unwritten(mem, mem, MayUse(pool, pool, call, kept, mem, t))
  BY LeftFacts DEF Left, Own
<1>4. /\ Idle \in CallsIn(mem) /\ Idle.dst = NilSlice /\ Idle.out = NilSlice
      /\ Idle.enc.slice = NilSlice /\ NilSlice.array = 0
  BY <1>2, IdleType, NewEncoderType, NilFacts
<1> HIDE DEF l
<1>5. \A s \in Held4(Idle, l) : s.array \in MayUse(pool, pool, call, kept, mem, t)
  BY <1>4, OwnFacts DEF Held4, Own, l
<1>6. Sound(pool, [call EXCEPT ![t] = Idle], [kept EXCEPT ![t] = l], mem)
  BY <1>2, <1>3, <1>4, <1>5, IdleSound, PoolShrinks DEF IInv
<1> QED
  BY <1>1, <1>2, <1>6, BecomeSound

LEMMA FailSound ==
    ASSUME IInv, NEW t \in Threads, Fail(t)
    PROVE  IInv'
<1> DEFINE c == call[t]
           l == kept[t]
           e == IF Appends(c) THEN [c.enc EXCEPT !.slice = NilSlice] ELSE c.enc
<1>1. c # Idle /\ Leave(t, PutEnc(pool, e, mem), kept, mem)
  BY DEF Fail, Appends
<1>2. /\ mem \in Mem /\ l \in KeptIn(mem) /\ Bytes(mem, l.slice) = l.bytes
      /\ c.enc \in EncodersIn(mem) /\ CallSound(c, l, mem, t)
      /\ [kept EXCEPT ![t] = l] = kept
  BY Parts DEF IInv, Sound
<1>3. Left(t, mem) /\ NilSlice \in SliceIn(mem) /\ NilSlice.array = 0
  BY <1>2, LeftFacts, NilFacts
<1>4. /\ c.enc.slice.array \in Own(pool, t) /\ l.slice.array \in Own(pool, t)
      /\ 0 \in Own(pool, t)
  BY OwnFacts
<1>5. c.enc.slice.array = l.slice.array /\ l.slice.array # 0 => Appends(c)
  BY <1>1, <1>2 DEF CallSound
<1>6. /\ e \in EncodersIn(mem) /\ e.slice.array \in Own(pool, t)
      /\ e.slice.array = l.slice.array => l.slice.array = 0
  <2>1. CASE Appends(c)
    BY <1>2, <1>3, <1>4, <2>1, EncoderWithSlice
  <2>2. CASE ~Appends(c)
    BY <1>2, <1>4, <1>5, <2>2
  <2> QED
    BY <2>1, <2>2
<1> HIDE DEF e, l
<1>7. kept = [kept EXCEPT ![t] = l] /\ l.slice.array \in Own(pool, t)
  BY <1>2, <1>4 DEF l
<1> QED
  BY <1>1, <1>2, <1>3, <1>6, <1>7, Leaving

LEMMA PoolDropSound ==
    ASSUME IInv, PoolDrop
    PROVE  IInv'
<1>1. PICK e \in pool : Become(pool \ {e}, call, kept, mem)
  BY DEF PoolDrop
<1>2. Sound(pool \ {e}, call, kept, mem)
  BY DEF IInv, Sound, Apart
<1> QED
  BY <1>1, <1>2, BecomeSound

\* The encoder back in the pool, a slice to the caller: they share no array.
LEMMA Returning ==
    ASSUME IInv, NEW t \in Threads, NEW n, Left(t, n), NEW e \in EncodersIn(n),
           NEW s \in SliceIn(n),
           e.slice.array \in Own(pool, t), s.array \in Own(pool, t),
           e.slice.array = s.array => s.array = 0,
           e.slice.array = kept[t].slice.array => kept[t].slice.array = 0,
           Return(t, e, n, s)
    PROVE  IInv'
<1>1. /\ n \in Mem /\ Bytes(n, kept[t].slice) = kept[t].bytes
      /\ kept[t].slice \in SliceIn(n) /\ kept[t] \in KeptIn(mem)
      /\ kept[t].bytes \in Seq(Unit) /\ kept[t].slice.array \in Own(pool, t)
  BY LeftFacts, OwnFacts, Parts DEF Left
<1>2. CASE t \in Keepers
  <2> DEFINE l == [slice |-> s, bytes |-> Bytes(n, s)]
  <2>1. l \in KeptIn(n) /\ Bytes(n, l.slice) = l.bytes /\ l.slice = s
    BY <1>1, BytesType DEF KeptIn
  <2>2. Leave(t, PutEnc(pool, e, n), [kept EXCEPT ![t] = l], n)
    BY <1>2 DEF Return
  <2> HIDE DEF l
  <2> QED
    BY <2>1, <2>2, Leaving
<1>3. CASE t \notin Keepers
  <2> DEFINE l == kept[t]
  <2>1. kept = [kept EXCEPT ![t] = l]
    BY DEF IInv, Sound
  <2>2. Leave(t, PutEnc(pool, e, n), kept, n)
    BY <1>3 DEF Return
  <2>3. l \in KeptIn(n)
    BY <1>1 DEF KeptIn
  <2>4. Bytes(n, l.slice) = l.bytes /\ l.slice.array \in Own(pool, t)
        /\ (e.slice.array = l.slice.array => l.slice.array = 0)
    BY <1>1
  <2> HIDE DEF l
  <2> QED
    BY <2>1, <2>2, <2>3, <2>4, Leaving
<1> QED
  BY <1>2, <1>3

\* A copy: a new array, that no slice of before lies in.
LEMMA Cloned ==
    ASSUME IInv, NEW t \in Threads, NEW n, Left(t, n), NEW s \in SliceIn(n),
           NEW b, b = Clone(n, s)
    PROVE  /\ Left(t, b.mem) /\ b.slice \in SliceIn(b.mem)
           /\ b.slice.array \in Own(pool, t) /\ b.slice.array # 0
           /\ \A r \in SliceIn(n) : r \in SliceIn(b.mem) /\ r.array # b.slice.array
<1>1. /\ mem \in Mem /\ n \in Mem /\ Unwritten(mem, n, Own(pool, t))
      /\ Bytes(n, kept[t].slice) = kept[t].bytes
      /\ kept[t].slice \in SliceIn(n)
  BY LeftFacts, Parts DEF Left
<1>2. /\ b.mem \in Mem /\ b.slice \in SliceIn(b.mem)
      /\ b.slice.array = Len(n) + 1 /\ b.slice.array # 0 /\ Unwritten(n, b.mem, {})
  BY <1>1, CloneFacts
<1>3. Unwritten(mem, b.mem, Own(pool, t))
  BY <1>1, <1>2, UnwrittenChain
<1>4. Bytes(b.mem, kept[t].slice) = kept[t].bytes
  BY <1>1, <1>2, SliceKept
<1>5. Len(n) \in Nat /\ Len(mem) \in Nat /\ Len(mem) <= Len(n)
  BY <1>1 DEF Mem, Unwritten
<1>6. b.slice.array \in Own(pool, t)
  BY <1>2, <1>5 DEF Own, MayUse
<1>7. ASSUME NEW r \in SliceIn(n) PROVE r \in SliceIn(b.mem) /\ r.array # b.slice.array
  <2>1. r.array <= Len(n) /\ r.array \in Nat
    BY <1>1, SliceFacts DEF SliceIn
  <2>2. r \in SliceIn(b.mem)
    BY <1>1, <1>2, SliceKept
  <2> QED
    BY <1>2, <1>5, <2>1, <2>2
<1> QED
  BY <1>2, <1>3, <1>4, <1>6, <1>7 DEF Left

\* The entropy pass of a call of the encoder's own writes behind the dst.
LEMMA Packing ==
    ASSUME IInv, NEW t \in Threads, call[t] # Idle, ~Direct(call[t]),
           NEW start \in Nat, start = call[t].dst.len \/ ~Appends(call[t]),
           NEW r, r = Entropy(call[t].enc, mem, start)
    PROVE  /\ Left(t, r.mem) /\ r.slice \in SliceIn(r.mem)
           /\ r.slice.array \in Own(pool, t)
           /\ r.slice.array = kept[t].slice.array /\ kept[t].slice.array # 0 => Appends(call[t])
           /\ call[t].enc.slice \in SliceIn(r.mem)
<1> DEFINE c == call[t]
           l == kept[t]
           a == c.enc.slice.array
<1>1. /\ mem \in Mem /\ c.enc.slice \in SliceIn(mem) /\ l.slice \in SliceIn(mem)
      /\ Bytes(mem, l.slice) = l.bytes /\ CallSound(c, l, mem, t)
  BY Parts
<1>2. /\ r.mem \in Mem /\ r.slice \in SliceIn(r.mem) /\ r.slice.array = a
      /\ Unwritten(mem, r.mem, {a})
      /\ \A q \in SliceIn(mem) : q.len <= start => Bytes(r.mem, q) = Bytes(mem, q)
  BY <1>1, EntropyFacts
<1>3. a \in Own(pool, t)
  BY OwnFacts
<1>4. Unwritten(mem, r.mem, Own(pool, t))
  BY <1>2, <1>3 DEF Unwritten
<1>5. a = l.slice.array /\ l.slice.array # 0 => Appends(c) /\ c.dst = l.slice
  BY <1>1 DEF CallSound, Working
<1>6. Bytes(r.mem, l.slice) = l.bytes
  <2>1. CASE a = l.slice.array /\ l.slice.array # 0
    <3>1. start = l.slice.len /\ l.slice.len \in Nat
      BY <1>1, <1>5, <2>1, SliceFacts
    <3>2. l.slice.len <= start
      BY <3>1
    <3> QED
      BY <1>1, <1>2, <3>2
  <2>2. CASE ~(a = l.slice.array /\ l.slice.array # 0)
    <3>1. l.slice.array = 0 \/ l.slice.array \notin {a}
      BY <2>2
    <3>2. Bytes(r.mem, l.slice) = Bytes(mem, l.slice)
      BY <1>1, <1>2, <3>1, SliceKept
    <3> QED
      BY <1>1, <3>2
  <2> QED
    BY <2>1, <2>2
<1>7. c.enc.slice \in SliceIn(r.mem)
  BY <1>1, <1>2, SliceKept
<1> QED
  BY <1>2, <1>3, <1>4, <1>5, <1>6, <1>7 DEF Left

LEMMA HandedOverFacts ==
    ASSUME NEW m, NEW n \in Mem, NEW s \in SliceIn(n), NEW e \in EncodersIn(m),
           NEW d, d = HandedOver(e, n, s)
    PROVE  d \in EncodersIn(n) /\ d.slice = NilSlice
<1>1. Cap(n, s) \in Nat /\ NilSlice \in SliceIn(n)
  BY SliceFacts, NilFacts DEF Cap
<1> HIDE DEF NilSlice
<1>2. d = [e EXCEPT !.slice = NilSlice, !.hint = Cap(n, s)]
  BY DEF HandedOver
<1> QED
  BY <1>1, <1>2 DEF EncodersIn

LEMMA FinishMarshalSound ==
    ASSUME IInv, NEW t \in Threads, FinishMarshal(t)
    PROVE  IInv'
<1> DEFINE c == call[t]
           r == Entropy(c.enc, mem, 0)
           e == [c.enc EXCEPT !.slice = r.slice]
           b == Clone(r.mem, r.slice)
<1>1. /\ c.op = "marshal"
      /\ IF Cap(r.mem, r.slice) > MarshalDetachThreshold
         THEN Return(t, HandedOver(e, r.mem, r.slice), r.mem, r.slice)
         ELSE Return(t, e, b.mem, b.slice)
  BY DEF FinishMarshal
<1>2. c # Idle /\ ~Direct(c) /\ ~Appends(c) /\ c.enc \in EncodersIn(mem)
  BY <1>1, Parts DEF Idle, Direct, Appends
<1> HIDE DEF r
<1>3. /\ Left(t, r.mem) /\ r.slice \in SliceIn(r.mem) /\ r.slice.array \in Own(pool, t)
      /\ r.slice.array = kept[t].slice.array => kept[t].slice.array = 0
  BY <1>2, Packing DEF r
<1>4. r.mem \in Mem /\ NilSlice.array = 0 /\ 0 \in Own(pool, t)
  BY <1>3, OwnFacts DEF Left, NilSlice
<1>5. CASE Cap(r.mem, r.slice) > MarshalDetachThreshold
  <2> DEFINE d == HandedOver(e, r.mem, r.slice)
  <2>1. Return(t, d, r.mem, r.slice)
    BY <1>1, <1>5
  <2>2. e \in EncodersIn(r.mem) /\ d = HandedOver(e, r.mem, r.slice)
    BY <1>2, <1>3, EncoderWithSlice
  <2> HIDE DEF d, e
  <2>3. d \in EncodersIn(r.mem) /\ d.slice = NilSlice
    BY <1>3, <1>4, <2>2, HandedOverFacts
  <2> QED
    BY <1>3, <1>4, <2>1, <2>3, Returning
<1>6. CASE ~(Cap(r.mem, r.slice) > MarshalDetachThreshold)
  <2> HIDE DEF b
  <2>1. /\ Left(t, b.mem) /\ b.slice \in SliceIn(b.mem)
        /\ b.slice.array \in Own(pool, t) /\ b.slice.array # 0
        /\ r.slice \in SliceIn(b.mem) /\ r.slice.array # b.slice.array
    BY <1>3, Cloned DEF b
  <2>2. e \in EncodersIn(b.mem) /\ e.slice = r.slice
    BY <1>2, <2>1, EncoderWithSlice
  <2>3. Return(t, e, b.mem, b.slice)
    BY <1>1, <1>6
  <2> HIDE DEF e
  <2> QED
    BY <1>3, <2>1, <2>2, <2>3, Returning
<1> QED
  BY <1>5, <1>6

LEMMA FinishAppendSound ==
    ASSUME IInv, NEW t \in Threads, FinishAppend(t)
    PROVE  IInv'
<1> DEFINE c == call[t]
           r == Entropy(c.enc, mem, c.dst.len)
           e == [c.enc EXCEPT !.slice = NilSlice]
<1>1. c.op = "append" /\ Return(t, e, r.mem, r.slice)
  BY DEF FinishAppend
<1>2. c # Idle /\ ~Direct(c) /\ c.enc \in EncodersIn(mem) /\ c.dst \in SliceIn(mem)
      /\ mem \in Mem
  BY <1>1, Parts DEF Idle, Direct
<1>3. c.dst.len \in Nat
  BY <1>2, SliceFacts
<1> HIDE DEF r
<1>4. Left(t, r.mem) /\ r.slice \in SliceIn(r.mem) /\ r.slice.array \in Own(pool, t)
  BY <1>2, <1>3, Packing DEF r
<1>5. NilSlice \in SliceIn(r.mem) /\ NilSlice.array = 0 /\ 0 \in Own(pool, t)
  BY <1>4, NilFacts, OwnFacts DEF Left
<1>6. e \in EncodersIn(r.mem) /\ e.slice = NilSlice
  BY <1>2, <1>5, EncoderWithSlice
<1> HIDE DEF e
<1> QED
  BY <1>1, <1>4, <1>5, <1>6, Returning

LEMMA FinishDiffSound ==
    ASSUME IInv, NEW t \in Threads, FinishDiff(t)
    PROVE  IInv'
<1> DEFINE c == call[t]
           r == Entropy(c.enc, mem, c.dst.len)
           b == Clone(r.mem, r.slice)
           e == [c.enc EXCEPT !.slice = NilSlice]
<1>1. c.op = "diff" /\ Return(t, e, b.mem, b.slice)
  BY DEF FinishDiff
<1>2. c # Idle /\ ~Direct(c) /\ c.enc \in EncodersIn(mem) /\ c.dst \in SliceIn(mem)
      /\ mem \in Mem
  BY <1>1, Parts DEF Idle, Direct
<1>3. c.dst.len \in Nat
  BY <1>2, SliceFacts
<1> HIDE DEF b, r
<1>4. Left(t, r.mem) /\ r.slice \in SliceIn(r.mem)
  BY <1>2, <1>3, Packing DEF r
<1>5. /\ Left(t, b.mem) /\ b.slice \in SliceIn(b.mem)
      /\ b.slice.array \in Own(pool, t) /\ b.slice.array # 0
  BY <1>4, Cloned DEF b
<1>6. NilSlice \in SliceIn(b.mem) /\ NilSlice.array = 0 /\ 0 \in Own(pool, t)
  BY <1>5, NilFacts, OwnFacts DEF Left
<1>7. e \in EncodersIn(b.mem) /\ e.slice = NilSlice
  BY <1>2, <1>6, EncoderWithSlice
<1> HIDE DEF e
<1> QED
  BY <1>1, <1>5, <1>6, <1>7, Returning

LEMMA FinishAppendDirectSound ==
    ASSUME IInv, NEW t \in Threads, FinishAppendDirect(t)
    PROVE  IInv'
<1> DEFINE c == call[t]
           e == [c.enc EXCEPT !.slice = NilSlice]
<1>1. Return(t, e, mem, c.out)
  BY DEF FinishAppendDirect
<1>2. c.enc \in EncodersIn(mem) /\ c.out \in SliceIn(mem) /\ mem \in Mem
      /\ c.out.array \in Own(pool, t) /\ Left(t, mem)
  BY Parts, OwnFacts, LeftFacts
<1>3. NilSlice \in SliceIn(mem) /\ NilSlice.array = 0 /\ 0 \in Own(pool, t)
  BY <1>2, NilFacts, OwnFacts
<1>4. e \in EncodersIn(mem) /\ e.slice = NilSlice
  BY <1>2, <1>3, EncoderWithSlice
<1> HIDE DEF e
<1> QED
  BY <1>1, <1>2, <1>3, <1>4, Returning

LEMMA FinishDirectSound ==
    ASSUME IInv, NEW t \in Threads, FinishDirect(t)
    PROVE  IInv'
<1> DEFINE c == call[t]
           s == [c.out EXCEPT !.len = 0]
           e == [c.enc EXCEPT !.slice = s]
           b == Clone(mem, c.out)
<1>1. /\ c.op = "direct"
      /\ IF Cap(mem, c.out) > MarshalDetachThreshold
         THEN Return(t, HandedOver(c.enc, mem, c.out), mem, c.out)
         ELSE Return(t, e, b.mem, b.slice)
  BY DEF FinishDirect
<1>2. /\ c # Idle /\ Direct(c) /\ ~Appends(c) /\ c.enc \in EncodersIn(mem)
      /\ c.out \in SliceIn(mem) /\ mem \in Mem /\ CallSound(c, kept[t], mem, t)
      /\ c.out.array \in Own(pool, t) /\ Left(t, mem)
  BY <1>1, Parts, OwnFacts, LeftFacts DEF Idle, Direct, Appends
<1>3. c.out.array = kept[t].slice.array => kept[t].slice.array = 0
  <2>1. Working(c) = c.out /\ NilSlice.array = 0
    BY <1>2 DEF Working, NilSlice
  <2> QED
    BY <1>2, <2>1 DEF CallSound
<1>4. NilSlice.array = 0 /\ 0 \in Own(pool, t)
  BY OwnFacts DEF NilSlice
<1>5. CASE Cap(mem, c.out) > MarshalDetachThreshold
  <2> DEFINE d == HandedOver(c.enc, mem, c.out)
  <2>1. d = HandedOver(c.enc, mem, c.out) /\ Return(t, d, mem, c.out)
    BY <1>1, <1>5
  <2> HIDE DEF d
  <2>2. d \in EncodersIn(mem) /\ d.slice = NilSlice
    BY <1>2, <2>1, HandedOverFacts
  <2> QED
    BY <1>2, <1>3, <1>4, <2>1, <2>2, Returning
<1>6. CASE ~(Cap(mem, c.out) > MarshalDetachThreshold)
  <2> HIDE DEF b
  <2>1. /\ Left(t, b.mem) /\ b.slice \in SliceIn(b.mem)
        /\ b.slice.array \in Own(pool, t) /\ b.slice.array # 0
        /\ \A r \in SliceIn(mem) : r \in SliceIn(b.mem) /\ r.array # b.slice.array
    BY <1>2, Cloned DEF b
  <2>2. s \in SliceIn(mem) /\ s.array = c.out.array
    <3>1. c.out \in [array : Nat, len : Nat] /\ c.out.array <= Len(mem)
      BY <1>2 DEF SliceIn
    <3>2. s \in [array : Nat, len : Nat] /\ s.array = c.out.array /\ s.len = 0
      BY <3>1
    <3>3. Cap(mem, s) \in Nat
      BY <1>2, <3>2, SliceFacts DEF Cap
    <3> HIDE DEF s
    <3> QED
      BY <3>1, <3>2, <3>3 DEF SliceIn
  <2> HIDE DEF s
  <2>3. e \in EncodersIn(b.mem) /\ e.slice = s
    BY <1>2, <2>1, <2>2, EncoderWithSlice
  <2>4. Return(t, e, b.mem, b.slice)
    BY <1>1, <1>6
  <2> HIDE DEF e
  <2> QED
    BY <1>2, <1>3, <2>1, <2>2, <2>3, <2>4, Returning
<1> QED
  BY <1>5, <1>6

-----------------------------------------------------------------------------
(* The invariant *)

LEMMA InitSound == Init => IInv
<1> SUFFICES ASSUME Init PROVE IInv
  OBVIOUS
<1>1. /\ pool = {} /\ call = [t \in Threads |-> Idle]
      /\ kept = [t \in Threads |-> NothingKept] /\ mem = [i \in 1 .. Spare |-> <<>>]
  BY DEF Init, Spare
<1>2. Spare \in Nat /\ <<>> \in Seq(Unit)
  BY SpareType, EmptySeq
<1>3. mem \in Mem
  BY <1>1, <1>2 DEF Mem
<1>4. /\ NothingKept.slice = NilSlice /\ NothingKept.bytes = <<>> /\ NilSlice \in SliceIn(mem)
      /\ Bytes(mem, NilSlice) = <<>> /\ NilSlice.array = 0
  BY <1>3, NilFacts DEF NothingKept
<1>5. NothingKept \in KeptIn(mem)
  BY <1>2, <1>4 DEF NothingKept, KeptIn
<1>6. /\ Idle \in CallsIn(mem) /\ Idle.enc.slice = NilSlice /\ Idle.dst = NilSlice
      /\ Idle.out = NilSlice
  BY <1>3, IdleType, NewEncoderType
<1> HIDE DEF NothingKept, Idle, NilSlice
<1>7. call \in [Threads -> CallsIn(mem)] /\ kept \in [Threads -> KeptIn(mem)]
  BY <1>1, <1>5, <1>6
<1>8. \A t \in Threads : call[t] = Idle /\ kept[t] = NothingKept
  BY <1>1
<1>9. \A t \in Threads : \A s \in HeldBy(call, kept, t) : s.array = 0
  BY <1>4, <1>6, <1>8 DEF HeldBy
<1>10. Apart(pool, call, kept)
  BY <1>1, <1>9 DEF Apart
<1>11. \A t \in Threads : Bytes(mem, kept[t].slice) = kept[t].bytes
                          /\ CallSound(call[t], kept[t], mem, t)
  BY <1>4, <1>8, IdleSound
<1> QED
  BY <1>1, <1>3, <1>7, <1>10, <1>11 DEF IInv, Sound

LEMMA StepSound == IInv /\ [Next]_vars => IInv'
<1> SUFFICES ASSUME IInv, [Next]_vars PROVE IInv'
  OBVIOUS
<1>1. CASE UNCHANGED vars
  BY <1>1 DEF vars, IInv
<1>2. ASSUME NEW t \in Threads,
             \/ Marshal(t) \/ AppendMarshal(t) \/ MarshalDirect(t)
             \/ AppendMarshalDirect(t) \/ AppendDiff(t)
             \/ Write(t) \/ Fail(t) \/ Panic(t)
             \/ FinishMarshal(t) \/ FinishAppend(t) \/ FinishDirect(t)
             \/ FinishAppendDirect(t) \/ FinishDiff(t)
      PROVE  IInv'
  BY <1>2, MarshalSound, AppendMarshalSound, MarshalDirectSound, AppendMarshalDirectSound,
     AppendDiffSound, WriteSound, FailSound, PanicSound, FinishMarshalSound,
     FinishAppendSound, FinishDirectSound, FinishAppendDirectSound, FinishDiffSound
<1>3. CASE PoolDrop
  BY <1>3, PoolDropSound
<1> QED
  BY <1>1, <1>2, <1>3 DEF Next

\* Whatever the goroutines encode, and in whatever order: arrays are apart, and
\* every call has written its own message.
THEOREM InvariantHolds == Spec => []IInv
<1>1. Init => IInv
  BY InitSound
<1>2. IInv /\ [Next]_vars => IInv'
  BY StepSound
<1> QED
  BY <1>1, <1>2, PTL DEF Spec

\* What a goroutine was given keeps its bytes for as long as it has it.
THEOREM ResultsKeepTheirBytes == Spec => []ResultsIntact
<1>1. IInv => ResultsIntact
  BY DEF IInv, Sound, ResultsIntact
<1> QED
  BY <1>1, InvariantHolds, PTL

\* A call works under its own options and its own dictionary.
THEOREM CallsHaveTheirOwnSettings == Spec => []OwnSettings
<1>1. IInv => OwnSettings
  BY DEF IInv, Sound, OwnSettings, CallSound
<1> QED
  BY <1>1, InvariantHolds, PTL

\* The next call that takes the idle encoder writes to an array nobody reads.
THEOREM IdleBuffersAreNobodys == Spec => []PoolOwnsItsBuffers
<1>1. ASSUME IInv, NEW e \in pool, e.slice.array # 0, NEW t \in Threads
      PROVE  e.slice.array \notin {kept[t].slice.array, call[t].dst.array,
                                   call[t].out.array, call[t].enc.slice.array}
  <2>1. \A s \in HeldBy(call, kept, t) : e.slice.array = s.array => s.array = 0
    BY <1>1, Parts DEF Apart
  <2>2. \A s \in HeldBy(call, kept, t) : e.slice.array # s.array
    BY <1>1, <2>1
  <2> QED
    BY <2>2, OwnFacts, <1>1
<1>2. IInv => PoolOwnsItsBuffers
  BY <1>1 DEF PoolOwnsItsBuffers
<1> QED
  BY <1>2, InvariantHolds, PTL

LEMMA PrefixByItems ==
    ASSUME NEW S, NEW a \in Seq(S), NEW w \in Seq(S), Len(a) <= Len(w),
           \A i \in 1 .. Len(a) : a[i] = w[i]
    PROVE  IsPrefix(a, w)
<1>1. Len(a) \in Nat /\ Len(w) \in Nat
  BY LenProperties
<1>2. /\ SubSeq(w, 1, Len(a)) \in Seq(S) /\ Len(SubSeq(w, 1, Len(a))) = Len(a)
      /\ \A i \in 1 .. Len(a) : SubSeq(w, 1, Len(a))[i] = w[i]
  BY <1>1
<1>3. SubSeq(a, 1, Len(a)) = a
  BY <1>1
<1>4. SubSeq(w, 1, Len(a)) = a
  BY <1>2, SeqEqual
<1> QED
  BY <1>3, <1>4 DEF IsPrefix

LEMMA LongerPrefix ==
    ASSUME NEW S, NEW h \in Seq(S), NEW y \in Seq(S), NEW z \in Seq(S),
           Len(y) <= Len(z), \A i \in 1 .. Len(y) : y[i] = z[i]
    PROVE  IsPrefix(h \o y, h \o z)
<1> DEFINE a == h \o y
           w == h \o z
<1>1. /\ a \in Seq(S) /\ Len(a) = Len(h) + Len(y)
      /\ \A i \in 1 .. Len(h) + Len(y) : a[i] = IF i <= Len(h) THEN h[i] ELSE y[i - Len(h)]
  BY ConcatProperties
<1>2. /\ w \in Seq(S) /\ Len(w) = Len(h) + Len(z)
      /\ \A i \in 1 .. Len(h) + Len(z) : w[i] = IF i <= Len(h) THEN h[i] ELSE z[i - Len(h)]
  BY ConcatProperties
<1>3. Len(h) \in Nat /\ Len(y) \in Nat /\ Len(z) \in Nat
  BY LenProperties
<1> HIDE DEF a, w
<1>4. Len(a) <= Len(w)
  BY <1>1, <1>2, <1>3
<1>5. ASSUME NEW i \in 1 .. Len(a) PROVE a[i] = w[i]
  <2>1. i \in 1 .. Len(h) + Len(y) /\ i \in 1 .. Len(h) + Len(z)
    BY <1>1, <1>2, <1>3
  <2>2. CASE i <= Len(h)
    BY <1>1, <1>2, <2>1, <2>2
  <2>3. CASE ~(i <= Len(h))
    <3>1. i - Len(h) \in 1 .. Len(y)
      BY <1>3, <2>1, <2>3
    <3> QED
      BY <1>1, <1>2, <2>1, <2>3, <3>1
  <2> QED
    BY <2>2, <2>3
<1> QED
  BY <1>1, <1>2, <1>4, <1>5, PrefixByItems DEF a, w

\* A prefix of a message, and all of it.
WholeOf(c, t) == c.before \o <<HeaderOf(c)>> \o Body(t, c.size)

LEMMA MessageIsPrefix ==
    ASSUME NEW c, NEW t \in Threads, c.before \in Seq(Unit), c.done \in Nat, c.size \in Nat,
           c.done <= c.size, c.size > 0, c.done = 0 \/ c.enc.headerOut,
           NEW w, w = WholeOf(c, t)
    PROVE  /\ IsPrefix(Message(c, t), w)
           /\ c.done = c.size => Message(c, t) = w
<1> DEFINE x == c.before
           u == <<HeaderOf(c)>>
           y == Body(t, c.done)
           z == Body(t, c.size)
<1>1. x \in Seq(Unit) /\ u \in Seq(Unit)
  BY Units DEF HeaderOf
<1>2. y \in Seq(Unit) /\ z \in Seq(Unit) /\ Len(y) = c.done /\ Len(z) = c.size
  BY BodyGrows
<1>3. \A i \in 1 .. c.done : y[i] = z[i]
  BY DEF Body
<1>4. w = (x \o u) \o z
  BY DEF WholeOf
<1>5. CASE c.enc.headerOut
  <2>1. Message(c, t) = (x \o u) \o y
    BY <1>5 DEF Message, Lead
  <2>2. c.done = c.size => y = z
    OBVIOUS
  <2> HIDE DEF x, u, y, z
  <2>3. x \o u \in Seq(Unit)
    BY <1>1, ConcatProperties
  <2>4. IsPrefix((x \o u) \o y, (x \o u) \o z)
    BY <1>2, <1>3, <2>3, LongerPrefix
  <2> QED
    BY <1>4, <2>1, <2>2, <2>4
<1>6. CASE ~c.enc.headerOut
  <2>1. c.done = 0 /\ ~(c.done = c.size)
    BY <1>6
  <2>2. Message(c, t) = x
    BY <1>6, <2>1, MessageBegins
  <2> HIDE DEF x, u, y, z
  <2>3. /\ u \o z \in Seq(Unit) /\ <<>> \in Seq(Unit) /\ x \o <<>> = x
        /\ (x \o u) \o z = x \o (u \o z)
    <3>1. u \o z \in Seq(Unit) /\ x \o <<>> = x
      BY <1>1, <1>2, ConcatProperties, ConcatEmptySeq
    <3>2. (x \o u) \o z = x \o (u \o z)
      BY <1>1, <1>2, ConcatAssociative
    <3> QED
      BY <3>1, <3>2, EmptySeq
  <2>4. Len(<<>>) = 0 /\ Len(u \o z) \in Nat
    BY <2>3, LenProperties
  <2>5. IsPrefix(x \o <<>>, x \o (u \o z))
    <3>1. Len(<<>>) <= Len(u \o z) /\ \A i \in 1 .. Len(<<>>) : <<>>[i] = (u \o z)[i]
      BY <2>4
    <3> QED
      BY <1>1, <2>3, <3>1, LongerPrefix
  <2> QED
    BY <1>4, <2>1, <2>2, <2>3, <2>5
<1> QED
  BY <1>5, <1>6

\* What a call has written is the start of its message and in the end all of it.
THEOREM MessagesAreTheirOwn == Spec => []MessageIntact
<1>1. ASSUME IInv, NEW t \in Threads, call[t] # Idle
      PROVE  /\ IsPrefix(Bytes(mem, Working(call[t])), Whole(t))
             /\ call[t].done = call[t].size => Bytes(mem, Working(call[t])) = Whole(t)
  <2> DEFINE c == call[t]
             w == Whole(t)
  <2>1. c \in CallsIn(mem) /\ CallSound(c, kept[t], mem, t)
    BY <1>1, Parts
  <2>2. /\ c.before \in Seq(Unit) /\ c.done \in Nat /\ c.size \in Nat
        /\ c.done <= c.size /\ c.size > 0 /\ (c.done = 0 \/ c.enc.headerOut)
        /\ Bytes(mem, Working(c)) = Message(c, t)
    BY <1>1, <2>1 DEF CallsIn, CallSound
  <2>3. w = WholeOf(c, t)
    BY DEF Whole, WholeOf, HeaderOf, Body
  <2> HIDE DEF c, w
  <2>4. c.done <= c.size /\ c.size > 0
    BY <2>2
  <2>5. IsPrefix(Message(c, t), w) /\ (c.done = c.size => Message(c, t) = w)
    BY <2>2, <2>3, MessageIsPrefix
  <2> QED
    BY <2>2, <2>5 DEF c, w
<1>2. IInv => MessageIntact
  BY <1>1 DEF MessageIntact
<1> QED
  BY <1>2, InvariantHolds, PTL

\* Every variable has its type, and no slice reaches past its array.
THEOREM TypesHold == Spec => []TypeOK
<1>1. ASSUME IInv PROVE TypeOK
  <2>1. \A s \in SliceIn(mem) : s \in Slices /\ s.len <= Cap(mem, s)
    <3>1. Len(mem) \in Nat
      BY <1>1, Parts
    <3> QED
      BY <3>1 DEF SliceIn, Slices
  <2>2. \A e \in EncodersIn(mem) : e \in Encoders /\ e.slice \in SliceIn(mem)
    BY <2>1 DEF EncodersIn, Encoders
  <2>3. \A c \in CallsIn(mem) : c \in Calls
    BY <2>1, <2>2 DEF CallsIn, Calls
  <2>4. \A k \in KeptIn(mem) : k \in [slice : Slices, bytes : Seq(Unit)]
    BY <2>1 DEF KeptIn
  <2>5. call \in [Threads -> Calls] /\ kept \in [Threads -> [slice : Slices, bytes : Seq(Unit)]]
    BY <1>1, <2>3, <2>4 DEF IInv, Sound
  <2>6. pool \subseteq Encoders /\ mem \in Seq(Seq(Unit))
    BY <1>1, <2>2, Parts DEF Mem
  <2>7. \A e \in pool \cup {call[t].enc : t \in Threads} : e.slice.len <= Cap(mem, e.slice)
    BY <1>1, <2>1, <2>2, Parts
  <2>8. \A t \in Threads : kept[t].slice.len <= Cap(mem, kept[t].slice)
    BY <1>1, <2>1, Parts
  <2> QED
    BY <2>5, <2>6, <2>7, <2>8 DEF TypeOK
<1> QED
  BY <1>1, InvariantHolds, PTL
=============================================================================
