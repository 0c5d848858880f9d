----------------------------- MODULE BlockPack -----------------------------
(***************************************************************************)
(* The block container of qpack_block.go.  A long column whose parts look  *)
(* different is written twice, whole and cut into blocks that pick a codec *)
(* each behind a table of offsets, and the shorter form is kept.  A query  *)
(* decodes only the blocks its rows lie in.                                *)
(***************************************************************************)
EXTENDS IntUnpack

BlockCount(n) == (n + BlockLen - 1) \div BlockLen
BlockOf(s, k) == SubSeq(s, (k - 1) * BlockLen + 1, SmallerOf(k * BlockLen, Len(s)))
BlockSize(k, blocks, n) == IF k = blocks THEN n - (k - 1) * BlockLen ELSE BlockLen

\* Sampled windows at the head of blocks differ in width.
RegimeLikely(s, wholeForBits) ==
    LET blocks == BlockCount(Len(s))
        step == LargerOf(blocks \div GateSamples, 1)
        sampled == {k \in 1 .. blocks : (k - 1) % step = 0}
        Window(k) == SubSeq(s, (k - 1) * BlockLen + 1,
                            SmallerOf((k - 1) * BlockLen + GateWindow, Len(s)))
        widths == {BitsForDelta((Greatest(Window(k)) - Least(Window(k))) % Word) : k \in sampled}
    IN /\ wholeForBits > 2
       /\ \E a \in widths : \E b \in widths : a - b >= GateSpread

BlocksPlausible(e, s, p) ==
    /\ ~e.rans
    /\ Len(s) >= 2 * BlockLen
    /\ p.forBits >= GateWide \/ p.deltaBits >= GateWide
    /\ RegimeLikely(s, p.forBits)

Container(kind, n, bodies) ==
    <<B("block"), B(kind), B(BlockLen), V(n)>>
    \o [k \in DOMAIN bodies |-> Half(SumUpTo(k - 1, LAMBDA j : Len(bodies[j])))]
    \o Flat(Len(bodies), LAMBDA k : bodies[k])

EmitBest(kind, s) == Emit(kind, s, Pick(kind, s))

WriteBlocks(kind, s) ==
    Container(kind, Len(s), [k \in 1 .. BlockCount(Len(s)) |-> EmitBest(kind, BlockOf(s, k))])

\* writeQPackUint64, writeQPackInt64: the header latch is that of before the
\* attempt whichever form is kept.
Shorter(a, b) == IF WireLen(a.buf) < WireLen(b.buf) THEN a ELSE b

WriteWholeOrBlocks(e, kind, s, p, whole) ==
    IF BlocksPlausible(e, s, p) THEN Shorter(Put(e, WriteBlocks(kind, s)), whole) ELSE whole

WriteInts(e, kind, s) ==
    \* the plan is bound before it is used
    CHOOSE r \in {WriteWholeOrBlocks(e, kind, s, p, Put(e, Emit(kind, s, p))) : p \in {Pick(kind, s)}} : TRUE

\* Half words are widened to be priced, and stay as they are unless a codec
\* is smaller than that.
EmitHalves(kind, s, p) ==
    IF p.cost >= RawSize(kind, Len(s)) \/ ConstantOverCap(Len(s), p)
    THEN WriteRaw(kind, s) ELSE Emit(Wide(kind), s, p)

WriteHalves(e, kind, s) == Put(e, EmitHalves(kind, s, Pick(Wide(kind), s)))

\* The header and the offset table; the table starts at 0 and climbs.
BlockHeader(w, i, kind, cap) ==
    LET n == w[i + 3][2]
        blocks == BlockCount(n)
        body == i + 4 + blocks
        Off(k) == w[i + 3 + k][2]
    IN IF \/ w[i + 1] # B(kind) \/ w[i + 2] # B(BlockLen) \/ ~LenOK(n, cap) \/ n = 0
          \/ body - 1 > Len(w)
       THEN Refused
       ELSE IF \/ Off(1) # 0
               \/ \E k \in 2 .. blocks : Off(k) <= Off(k - 1)
               \/ \E k \in 1 .. blocks : body + Off(k) > Len(w) + 1
       THEN Refused
       ELSE [ok |-> TRUE, n |-> n, blocks |-> blocks, at |-> [k \in 1 .. blocks |-> body + Off(k)]]

\* Inside a block colMaxLen is the block length.
ReadBlock(w, h, k, kind, scratch, vector) ==
    Then(ReadInt(w, h.at[k], kind, BlockLen, scratch, vector),
         LAMBDA r : IF Len(r.vals) = BlockSize(k, h.blocks, h.n) THEN r ELSE Refused)

\* The blocks one after the other, from the header on.
JoinBlocks(w, i, h, kind, scratch, vector) ==
    Steps(LAMBDA r, k :
              Then(r, LAMBDA before :
                   Then(ReadBlock(w, h, k, kind, before.scratch, vector),
                        LAMBDA b : [b EXCEPT !.vals = before.vals \o @])),
          Got(<<>>, i, scratch), h.blocks)

ReadBlocks(w, i, kind, cap, scratch, vector) ==
    Then(BlockHeader(w, i, kind, cap), LAMBDA h : JoinBlocks(w, i, h, kind, scratch, vector))

ReadInts(w, i, kind, cap, scratch, vector) ==
    IF w[i] = B("block") THEN ReadBlocks(w, i, kind, cap, scratch, vector)
    ELSE ReadInt(w, i, kind, cap, scratch, vector)

\* decodeBlockColumnSelective: only the blocks that matched rows lie in, and 0
\* for the rows that are not matched.
BlockIndex(m) == (m - 1) \div BlockLen + 1

SelectBlocks(w, i, h, kind, matched, scratch, vector) ==
    Steps(LAMBDA r, k :
              IF \A m \in matched : BlockIndex(m) # k THEN r
              ELSE Then(r, LAMBDA before :
                        Then(ReadBlock(w, h, k, kind, before.scratch, vector),
                             LAMBDA b : Got([m \in DOMAIN before.vals |->
                                                IF m \in matched /\ BlockIndex(m) = k
                                                THEN b.vals[m - (k - 1) * BlockLen] ELSE before.vals[m]],
                                            i, b.scratch))),
          Got(Zeros(h.n), i, scratch), h.blocks)

ReadSelected(w, i, kind, n, matched, scratch, vector) ==
    Then(BlockHeader(w, i, kind, n),
         LAMBDA h : IF h.n # n THEN Refused ELSE SelectBlocks(w, i, h, kind, matched, scratch, vector))

\* decodeSliceInt32, decodeSliceUint32: raw halves, or a wide column narrowed.
ReadHalves(w, i, kind, cap, scratch, vector) ==
    IF w[i] = B("raw") /\ w[i + 1] # B(Wide(kind)) THEN ReadRaw(w, i, kind, scratch)
    ELSE Then(ReadInts(w, i, Wide(kind), cap, scratch, vector),
              LAMBDA r : [r EXCEPT !.vals = [k \in DOMAIN @ |-> Value(kind, @[k])]])

\* Skip walks the headers, but decodes blocks and throws the values away.
Walked(next, scratch) == IF next = 0 THEN Refused ELSE Got(<<>>, next, scratch)

SkipInts(w, i, cap, scratch, vector) ==
    IF w[i] # B("block") THEN Walked(SkipInt(w, i), scratch)
    ELSE ReadBlocks(w, i, w[i + 1][2], cap, scratch, vector)
=============================================================================
