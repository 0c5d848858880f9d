----------------------------- MODULE IntUnpack -----------------------------
(***************************************************************************)
(* The readers of IntPack's columns, and Skip over them.  A reader starts  *)
(* at the tag and returns the values, where it stopped, and what it left   *)
(* in the decoder's deltaScratch, a buffer the next column unpacks into    *)
(* without clearing it.  cap is colMaxLen: the row count inside a columnar *)
(* value, the block length inside a block, 0 elsewhere.  Skip walks the    *)
(* same bytes by their headers alone.                                      *)
(***************************************************************************)
EXTENDS IntPack

\* colLenOK
LenOK(n, cap) == cap = 0 \/ n <= cap

Got(vals, next, scratch) == [ok |-> TRUE, vals |-> vals, next |-> next, scratch |-> scratch]

\* deltaScratch[:n], grown when it is too short.
Scratch(scratch, n) == IF Len(scratch) < n THEN Zeros(n) ELSE scratch

\* The body of n numbers of b bits at i; it lies in the buffer.
HasBody(w, i, n, b) == i + BytesFor(n * b) - 1 <= Len(w)
Body(w, i, n, b) == Payload(w, i, BytesFor(n * b))

ReadRaw(w, i, kind, scratch) ==
    LET n == w[i + 2][2] IN
    IF w[i + 1] # B(kind) \/ i + 2 + n > Len(w) THEN Refused
    ELSE Got([k \in 1 .. n |-> Value(kind, w[i + 2 + k][2])], i + 3 + n, scratch)

Raised(kind, mn, deltas) == [k \in DOMAIN deltas |-> Value(kind, mn + deltas[k])]

ReadFor(w, i, kind, cap, scratch, vector) ==
    LET b == w[i + 2][2]
        mn == OffWire(kind, w[i + 3][2])
        n == w[i + 4][2]
    IN IF \/ w[i + 1] # B(kind) \/ b > MaxBits \/ ~LenOK(n, cap)
          \/ ~HasBody(w, i + 5, n, b) \/ (b = 0 /\ n > MaxStandalone)
       THEN Refused
       ELSE Got(Raised(kind, mn, Unpack(Zeros(n), Body(w, i + 5, n, b), b, vector)),
                i + 5 + BytesFor(n * b), scratch)

\* Values grow from the first by a delta each.
Climb(kind, first, steps) ==
    LET f[k \in 1 .. Len(steps) + 1] ==
            IF k = 1 THEN first ELSE Value(kind, f[k - 1] + steps[k - 1])
    IN [k \in 1 .. Len(steps) + 1 |-> f[k]]

\* Numbers unpacked into the scratch stay there.
ThroughScratch(vals, next, grown, unpacked) == Got(vals, next, Overwrite(grown, 0, unpacked))

Climbed(kind, first, minDelta, next, grown, tmp) ==
    ThroughScratch(Climb(kind, first, [k \in DOMAIN tmp |-> tmp[k] + minDelta]), next, grown, tmp)

ReadDeltaFor(w, i, kind, cap, scratch, vector) ==
    LET b == w[i + 2][2]
        first == OffWire(kind, w[i + 3][2])
        minDelta == Unzigzag(w[i + 4][2])
        n == w[i + 5][2]
        m == LargerOf(n - 1, 0)
        next == i + 6 + BytesFor(m * b)
        grown == Scratch(scratch, m)
    IN CASE \/ w[i + 1] # B(kind) \/ b > MaxBits \/ ~LenOK(n, cap)
            \/ ~HasBody(w, i + 6, m, b) \/ (n >= 2 /\ b = 0 /\ n > MaxStandalone)
              -> Refused
         [] n = 0 -> Got(<<>>, next, scratch)
         [] n = 1 -> Got(<<first>>, next, scratch)
         [] n >= 2 /\ b = 0 -> Got(Climb(kind, first, [k \in 1 .. m |-> minDelta]), next, scratch)
         [] OTHER -> Climbed(kind, first, minDelta, next, grown,
                             Unpack(SubSeq(grown, 1, m), Body(w, i + 6, m, b), b, vector))

\* Where the runs at i that make up n values end; 0 when they do not add up.
RunsEnd(w, i, n) ==
    LET f[k \in 0 .. n] ==      \* the next unit and the values so far, after k runs
            IF k = 0 THEN [at |-> i, done |-> 0]
            ELSE LET s == f[k - 1] IN
                 IF s.at = 0 \/ s.done = n THEN s
                 ELSE IF s.at + 1 > Len(w) \/ w[s.at + 1][2] = 0 \/ s.done + w[s.at + 1][2] > n
                      THEN [s EXCEPT !.at = 0]
                      ELSE [at |-> s.at + 2, done |-> s.done + w[s.at + 1][2]]
    IN f[n].at

Expanded(w, i, kind, end, scratch) ==
    IF end = 0 THEN Refused
    ELSE Got(Flat((end - i) \div 2,
                  LAMBDA k : [j \in 1 .. w[i + 2 * k - 1][2] |-> OffWire(kind, w[i + 2 * k - 2][2])]),
             end, scratch)

ReadRLE(w, i, kind, cap, scratch) ==
    LET n == w[i + 2][2]
    IN IF w[i + 1] # B(kind) \/ ~LenOK(n, cap) \/ (cap = 0 /\ n > MaxStandalone) THEN Refused
       ELSE Expanded(w, i + 3, kind, RunsEnd(w, i + 3, n), scratch)

\* The entries, in order from i on, that the indices name.
Named(w, i, kind, count, idx, next, grown) ==
    IF \E k \in DOMAIN idx : idx[k] >= count THEN Refused
    ELSE ThroughScratch([k \in DOMAIN idx |-> OffWire(kind, w[i + idx[k]][2])], next, grown, idx)

ReadDict(w, i, kind, cap, scratch, vector) ==
    LET count == w[i + 2][2]
        b == BitsForDistinct(count)
        at == i + 3 + count
        n == w[at][2]
        next == at + 1 + BytesFor(n * b)
        grown == Scratch(scratch, n)
    IN CASE \/ w[i + 1] # B(kind) \/ count = 0 \/ count > MaxDistinct \/ ~LenOK(n, cap)
            \/ (b = 0 /\ n > MaxStandalone) \/ ~HasBody(w, at + 1, n, b) -> Refused
         [] b = 0 -> Got([k \in 1 .. n |-> OffWire(kind, w[i + 3][2])], next, scratch)
         [] OTHER -> Named(w, i + 3, kind, count,
                           Unpack(SubSeq(grown, 1, n), Body(w, at + 1, n, b), b, vector), next, grown)

\* Exceptions as pairs of a gap and a difference after the unit at: their
\* positions from 0, and what each number is with them.
Positions(w, at) ==
    LET pos[k \in 0 .. w[at][2]] == IF k = 0 THEN 0 ELSE pos[k - 1] + w[at + 2 * k - 1][2]
    IN pos

Patched(w, at, pos, deltas) ==
    [p \in DOMAIN deltas |->
        LET hits == {k \in 1 .. w[at][2] : pos[k] = p - 1}
        IN IF hits = {} THEN deltas[p] ELSE w[at + 2 * (CHOOSE k \in hits : TRUE)][2]]

ReadPFor(w, i, kind, cap, scratch, vector) ==
    LET n == w[i + 2][2]
        b == w[i + 3][2]
        at == i + 5 + BytesFor(n * b)
        excN == w[at][2]
    IN IF \/ w[i + 1] # B(kind) \/ b > MaxBits \/ ~LenOK(n, cap) \/ ~HasBody(w, i + 5, n, b)
          \/ (b = 0 /\ n > MaxStandalone) \/ excN > n \/ at + 2 * excN > Len(w)
          \/ \E k \in 2 .. excN : w[at + 2 * k - 1][2] = 0
          \/ excN > 0 /\ Positions(w, at)[excN] >= n
       THEN Refused
       ELSE Got(Raised(kind, OffWire(kind, w[i + 4][2]),
                       Patched(w, at, Positions(w, at), Unpack(Zeros(n), Body(w, i + 5, n, b), b, vector))),
                at + 1 + 2 * excN, scratch)

\* readQPackUint64, readQPackInt64: every codec but the containers.
ReadInt(w, i, kind, cap, scratch, vector) ==
    CASE w[i] = B("raw") -> ReadRaw(w, i, kind, scratch)
      [] w[i] = B("for") -> ReadFor(w, i, kind, cap, scratch, vector)
      [] w[i] = B("deltaFor") -> ReadDeltaFor(w, i, kind, cap, scratch, vector)
      [] w[i] = B("rle") -> ReadRLE(w, i, kind, cap, scratch)
      [] w[i] = B("dict") -> ReadDict(w, i, kind, cap, scratch, vector)
      [] w[i] = B("pfor") -> ReadPFor(w, i, kind, cap, scratch, vector)
      [] OTHER -> Refused

-----------------------------------------------------------------------------
(* Skip: where the value at i ends, 0 for an error *)

SkipRaw(w, i) == LET next == i + 3 + w[i + 2][2] IN IF next > Len(w) + 1 THEN 0 ELSE next

SkipFor(w, i) ==
    LET b == w[i + 2][2]  n == w[i + 4][2] IN
    IF b > MaxBits \/ ~HasBody(w, i + 5, n, b) THEN 0 ELSE i + 5 + BytesFor(n * b)

SkipDeltaFor(w, i) ==
    LET b == w[i + 2][2]  n == w[i + 5][2] IN
    CASE b > MaxBits -> 0
      [] b <= MaxBits /\ n < 2 -> i + 6
      [] OTHER -> IF HasBody(w, i + 6, n - 1, b) THEN i + 6 + BytesFor((n - 1) * b) ELSE 0

SkipRLE(w, i) == RunsEnd(w, i + 3, w[i + 2][2])

SkipDict(w, i) ==
    LET count == w[i + 2][2]
        b == BitsForDistinct(count)
        at == i + 3 + count
    IN IF count = 0 \/ count > MaxDistinct THEN 0
       ELSE IF b = 0 THEN at + 1
       ELSE IF HasBody(w, at + 1, w[at][2], b) THEN at + 1 + BytesFor(w[at][2] * b) ELSE 0

\* Mutant of SkipPFor: the exceptions are not walked.
MutSkipPFor(w, i) ==
    LET next == i + 5 + BytesFor(w[i + 2][2] * w[i + 3][2]) IN IF next > Len(w) THEN 0 ELSE next + 1

SkipPFor(w, i) ==
    LET n == w[i + 2][2]
        b == w[i + 3][2]
        at == i + 5 + BytesFor(n * b)
    IN IF b > MaxBits \/ ~HasBody(w, i + 5, n, b) \/ w[at][2] > n THEN 0
       ELSE at + 1 + 2 * w[at][2]

SkipInt(w, i) ==
    CASE w[i] = B("raw") -> SkipRaw(w, i)
      [] w[i] = B("for") -> SkipFor(w, i)
      [] w[i] = B("deltaFor") -> SkipDeltaFor(w, i)
      [] w[i] = B("rle") -> SkipRLE(w, i)
      [] w[i] = B("dict") -> SkipDict(w, i)
      [] w[i] = B("pfor") -> SkipPFor(w, i)
      [] OTHER -> 0
=============================================================================
