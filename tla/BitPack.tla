------------------------------ MODULE BitPack ------------------------------
(***************************************************************************)
(* internal/bitpack: numbers of b bits packed one after the other, least   *)
(* significant bit first, into bytes.  Packing fills a word and stores it  *)
(* whole while a word still fits; unpacking refills a window of two words  *)
(* from the input, a word at a time and at the end of the input byte by    *)
(* byte.  Where the processor has them, vector kernels take groups of      *)
(* numbers off the front and leave the rest to the window.                 *)
(*                                                                         *)
(* Bytes and words have ByteBits and ByteBits * WordBytes bits (8 and 64   *)
(* in the code).  The operands of every | in the code share no bit, so it  *)
(* is an addition here; a shift drops what leaves the word.                *)
(***************************************************************************)
EXTENDS Integers, Sequences

CONSTANTS
    ByteBits,       \* bits in a byte
    WordBytes,      \* bytes in a word
    ChunkLen        \* numbers a writer stages before it packs them

ASSUME BitPackAssumption ==
    /\ ByteBits \in Nat \ {0} /\ WordBytes \in Nat \ {0, 1}
    /\ ChunkLen \in Nat \ {0} /\ ChunkLen % ByteBits = 0

WordBits == ByteBits * WordBytes
Byte == 2 ^ ByteBits
Word == 2 ^ WordBits
MaxBits == WordBits - ByteBits

Shl(x, k) == IF k >= WordBits THEN 0 ELSE (x * 2 ^ k) % Word
Shr(x, k) == IF k >= WordBits THEN 0 ELSE x \div 2 ^ k

BytesFor(bits) == (bits + ByteBits - 1) \div ByteBits
Zeros(n) == [i \in 1 .. n |-> 0]
SmallerOf(a, b) == IF a < b THEN a ELSE b
LargerOf(a, b) == IF a > b THEN a ELSE b

\* State after the steps Op(s, lo + 1), ..., Op(s, hi), each state bound before
\* the step from it; and after the first n, in stretches of eight to keep the
\* evaluation shallow.
Stretch(Op(_, _), s, lo, hi) ==
    LET f[i \in lo .. hi] == IF i = lo THEN s ELSE CHOOSE u \in {Op(t, i) : t \in {f[i - 1]}} : TRUE
    IN f[hi]

Steps(Op(_, _), start, n) ==
    LET f[k \in 0 .. (n + 7) \div 8] ==
            IF k = 0 THEN start
            ELSE CHOOSE u \in {Stretch(Op, t, 8 * (k - 1), SmallerOf(8 * k, n)) : t \in {f[k - 1]}} : TRUE
    IN f[(n + 7) \div 8]

\* The bits in d, as bits.Len64.
BitsForDelta(d) ==
    CHOOSE k \in 0 .. WordBits : d < 2 ^ k /\ (k > 0 => d >= 2 ^ (k - 1))

LittleEndian(x) == [j \in 1 .. WordBytes |-> Shr(x, (j - 1) * ByteBits) % Byte]

\* The word stored in little endian order from byte pos (from 0) on.
WordAt(in, pos) ==
    LET f[j \in 0 .. WordBytes] ==
            IF j = 0 THEN 0 ELSE f[j - 1] + Shl(in[pos + j], (j - 1) * ByteBits)
    IN f[WordBytes]

Overwrite(out, pos, bytes) ==
    [j \in DOMAIN out |-> IF j - pos \in DOMAIN bytes THEN bytes[j - pos] ELSE out[j]]

-----------------------------------------------------------------------------
(* Packing *)

\* Store the whole bytes of the accumulator.
Drain(s) ==
    LET k == s.have \div ByteBits IN
    [s EXCEPT !.out = Overwrite(@, s.pos, [j \in 1 .. k |-> Shr(s.acc, (j - 1) * ByteBits) % Byte]),
              !.pos = @ + k, !.acc = Shr(@, k * ByteBits), !.have = @ - k * ByteBits]

\* One value while a whole word still fits: a value that straddles the word
\* completes it and opens the next one.
PackWordwise(s, x, b) ==
    LET space == WordBits - s.have IN
    IF b < space
    THEN [s EXCEPT !.acc = @ + Shl(x, s.have), !.have = @ + b]
    ELSE [s EXCEPT !.out = Overwrite(@, s.pos, LittleEndian(s.acc + Shl(x, s.have))),
                   !.pos = @ + WordBytes, !.have = b - space, !.acc = Shr(x, space)]

PackBytewise(s, x, b) == Drain([s EXCEPT !.acc = @ + Shl(x, s.have), !.have = @ + b])

PackOne(s, x, b) ==
    IF s.pos + WordBytes <= Len(s.out) THEN PackWordwise(s, x, b) ELSE PackBytewise(s, x, b)

\* A byte that the bits before bitOff already lie in goes on from them, and
\* the bits past the last value keep what the body had.
OpenByte(body, bitOff) ==
    [acc |-> IF bitOff % ByteBits > 0 THEN body[bitOff \div ByteBits + 1] ELSE 0,
     have |-> bitOff % ByteBits, pos |-> bitOff \div ByteBits, out |-> body]
CloseByte(s) ==
    IF s.have = 0 THEN s.out
    ELSE [s.out EXCEPT ![s.pos + 1] = (s.acc % Byte) + (@ - (@ % 2 ^ s.have))]

PackChunk(body, vals, b, elemOff) ==
    IF b = 0 \/ vals = <<>> THEN body
    ELSE CloseByte(Drain(Steps(LAMBDA s, i : PackOne(s, vals[i] % 2 ^ b, b),
                               OpenByte(body, elemOff * b), Len(vals))))

\* The loop of every writer: chunks of the column into a cleared body.
PackColumn(vals, b) ==
    Steps(LAMBDA body, c :
              PackChunk(body, SubSeq(vals, (c - 1) * ChunkLen + 1, SmallerOf(c * ChunkLen, Len(vals))),
                        b, (c - 1) * ChunkLen),
          Zeros(BytesFor(Len(vals) * b)), (Len(vals) + ChunkLen - 1) \div ChunkLen)

-----------------------------------------------------------------------------
(* Unpacking *)

\* A byte that straddles the two words of the window is split between them.
TakeByte(s, in) ==
    LET v == in[s.pos + 1] IN
    [s EXCEPT !.lo = @ + Shl(v, s.have),
              !.hi = IF s.have > MaxBits THEN @ + Shr(v, WordBits - s.have) ELSE @,
              !.pos = @ + 1, !.have = @ + ByteBits]

Refill(s, in) ==
    IF s.pos + WordBytes <= Len(in)
    THEN LET v == WordAt(in, s.pos) IN
         [s EXCEPT !.lo = @ + Shl(v, s.have),
                   !.hi = IF s.have > 0 THEN Shr(v, WordBits - s.have) ELSE @,
                   !.pos = @ + WordBytes, !.have = @ + WordBits]
    ELSE Steps(LAMBDA t, i : TakeByte(t, in), s, SmallerOf(Len(in) - s.pos, BytesFor(WordBits - s.have)))

\* Number i out of the window, if it is all there.
TakeBits(r, i, b) ==
    IF r.have < b THEN r
    ELSE [r EXCEPT !.out[i] = r.lo % 2 ^ b,
                   !.lo = Shr(r.lo, b) + Shl(r.hi, WordBits - b),
                   !.hi = Shr(r.hi, b), !.have = @ - b]

\* Where the input runs out the rest of out keeps what it held.
UnpackWindow(out, in, b) ==
    IF b = 0 THEN Zeros(Len(out))
    ELSE Steps(LAMBDA s, i : TakeBits(IF s.have < b THEN Refill(s, in) ELSE s, i, b),
               [lo |-> 0, hi |-> 0, have |-> 0, pos |-> 0, out |-> out], Len(out)).out

\* What a lane of the vector kernels computes: one word load, a shift, a mask.
Lane(in, bitOff, k, b) ==
    Shr(WordAt(in, bitOff \div ByteBits), (bitOff % ByteBits) + k * b) % 2 ^ b

Lanes(b) == IF 4 * b <= MaxBits THEN 4 ELSE IF 2 * b <= MaxBits THEN 2 ELSE 0

\* Groups the kernel takes: the load of the last one stays inside the input,
\* and the window resumes on a whole byte.
Groups(in, n, b) ==
    LET L == Lanes(b)
        fits == {g \in 1 .. n \div L :
                    /\ ((g - 1) * L * b) \div ByteBits + WordBytes <= Len(in)
                    /\ (L * g * b) % ByteBits = 0}
    IN IF L = 0 \/ fits = {} THEN 0 ELSE CHOOSE g \in fits : \A h \in fits : h <= g

\* The first done numbers by lanes, L at a time, the others by the window.
UnpackFrom(out, in, b, L, done) ==
    [i \in 1 .. done |-> Lane(in, ((i - 1) \div L) * L * b, (i - 1) % L, b)]
    \o UnpackWindow(SubSeq(out, done + 1, Len(out)), SubSeq(in, (done * b) \div ByteBits + 1, Len(in)), b)

\* How many numbers the kernels take: none where they are not built in.
InLanes(in, n, b, vector) == IF vector /\ b > 0 THEN Lanes(b) * Groups(in, n, b) ELSE 0

\* Unpack is built with the kernels or without.
Unpack(out, in, b, vector) ==
    UnpackFrom(out, in, b, Lanes(b), InLanes(in, Len(out), b, vector))

\* Booleans are numbers of one bit.
PackBools(bools) == PackColumn([i \in DOMAIN bools |-> IF bools[i] THEN 1 ELSE 0], 1)
UnpackBools(in, n) ==
    [i \in 1 .. n |-> Shr(in[(i - 1) \div ByteBits + 1], (i - 1) % ByteBits) % 2 = 1]
=============================================================================
