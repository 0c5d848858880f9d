---------------------------- MODULE PackedColumns ----------------------------
(***************************************************************************)
(* A message of packed columns.  One encoder writes them one after the     *)
(* other into its buffer; one decoder then takes them off in turn, reading *)
(* or skipping each.  From column to column the encoder keeps its header   *)
(* latch, the window of Chimp, the table of FSST and the interned strings, *)
(* the decoder its deltaScratch and its own interned strings: nothing is   *)
(* cleared, so a column meets what the ones before it left.                *)
(***************************************************************************)
EXTENDS FloatPack, StrPack

CONSTANTS
    Messages,       \* the sequences of columns an application sends
    Opts,           \* the encoder's options, records [rans, dense, fsst]
    Tables,         \* what FSST's trainer may return
    Stale           \* what an earlier message left in deltaScratch

VARIABLES
    message,        \* the columns, records [kind, vals], and [kind, strs] for strings
    enc,            \* the encoder: its buffer, options and what it keeps
    ends,           \* history: units in the buffer after each column
    vector,         \* the decoder is built with the vector kernels
    at,             \* the decoder's position
    dec,            \* what the decoder keeps: [scratch, strings]
    got             \* its results, one for each column

vars == <<message, enc, ends, vector, at, dec, got>>

Floats == {"f64", "f32"}
Words == {"uint", "int"}
Halves == {"u32", "i32"}
Vals(c) == IF c.kind = "str" THEN c.strs ELSE c.vals
KeptByEncoder == {"buf", "header", "rans", "dense", "fsst", "chimp", "table", "served", "strings"}

TypeOK ==
    /\ message \in Messages /\ vector \in BOOLEAN
    /\ DOMAIN enc = KeptByEncoder /\ enc.header \in BOOLEAN
    /\ enc.chimp.epoch \in 0 .. EpochLimit - 1 /\ enc.served \in 0 .. FsstInterval
    /\ Len(ends) <= Len(message) /\ \A k \in DOMAIN ends : ends[k] <= Len(enc.buf)
    /\ at \in 1 .. Len(enc.buf) + 2 /\ Len(got) <= Len(ends)
    /\ \A k \in DOMAIN dec.scratch : dec.scratch[k] \in 0 .. Word - 1

Init ==
    /\ message \in Messages /\ vector \in BOOLEAN
    /\ \E o \in Opts :
          enc = [buf |-> <<>>, header |-> FALSE, rans |-> o.rans, dense |-> o.dense, fsst |-> o.fsst,
                 chimp |-> FreshChimp, table |-> <<>>, served |-> 0, strings |-> <<>>]
    /\ ends = <<>> /\ at = 2 /\ got = <<>>
    /\ dec = [scratch |-> Stale, strings |-> <<>>]

-----------------------------------------------------------------------------
(* The encoder: one action for each slice type *)

Unwritten == Len(ends) + 1
Column == message[Unwritten]

Written(e) ==
    /\ enc' = e /\ ends' = Append(ends, Len(e.buf))
    /\ UNCHANGED <<message, vector, at, dec, got>>

WriteWords ==
    /\ Unwritten <= Len(message) /\ Column.kind \in Words
    /\ \E e \in {WriteInts(enc, Column.kind, Column.vals)} : Written(e)

WriteHalfWords ==
    /\ Unwritten <= Len(message) /\ Column.kind \in Halves
    /\ \E e \in {WriteHalves(enc, Column.kind, Column.vals)} : Written(e)

WriteFloatWords ==
    /\ Unwritten <= Len(message) /\ Column.kind \in Floats
    /\ \E e \in {WriteFloats(enc, Column.kind, Column.vals)} : Written(e)

WriteStringColumn ==
    /\ Unwritten <= Len(message) /\ Column.kind = "str"
    /\ \E t \in Tables : \E e \in {WriteStrings(enc, Column.strs, t)} : Written(e)

-----------------------------------------------------------------------------
(* The decoder, once the message is complete *)

Unread == Len(got) + 1
Readable == Unread <= Len(message) /\ Len(ends) = Len(message)
Kind == message[Unread].kind

Read(r, scratch, strings) ==
    /\ got' = Append(got, IF r.ok THEN [ok |-> TRUE, vals |-> r.vals] ELSE Refused)
    /\ at' = IF r.ok THEN r.next ELSE at
    /\ dec' = IF r.ok THEN [scratch |-> scratch, strings |-> strings] ELSE dec
    /\ UNCHANGED <<message, enc, ends, vector>>

Decoded(kind, cap) ==
    CASE kind \in Words -> ReadInts(enc.buf, at, kind, cap, dec.scratch, vector)
      [] kind \in Halves -> ReadHalves(enc.buf, at, kind, cap, dec.scratch, vector)
      [] kind \in Floats -> ReadFloats(enc.buf, at, kind, cap, dec.scratch, vector)

\* A slice on its own, or as a column of rows, where the row count caps it.
ReadSlice ==
    /\ Readable /\ Kind # "str"
    /\ \E cap \in {0, Len(Vals(message[Unread]))} : \E r \in {Decoded(Kind, cap)} :
          Read(r, IF r.ok THEN r.scratch ELSE <<>>, dec.strings)

ReadStringColumn ==
    /\ Readable /\ Kind = "str"
    /\ \E r \in {ReadStrings(enc.buf, at, Len(Vals(message[Unread])), dec, vector)} :
          Read(r, IF r.ok THEN r.scratch ELSE <<>>, IF r.ok THEN r.strings ELSE <<>>)

Skipped == [ok |-> TRUE]

SkipSlice ==
    /\ Readable /\ Kind # "str"
    /\ \E r \in {IF Kind \in Floats THEN Walked(SkipFloats(enc.buf, at), dec.scratch)
                 ELSE SkipInts(enc.buf, at, 0, dec.scratch, vector)} :
          /\ got' = Append(got, IF r.ok THEN Skipped ELSE Refused)
          /\ at' = IF r.ok THEN r.next ELSE at
          /\ dec' = IF r.ok THEN [dec EXCEPT !.scratch = r.scratch] ELSE dec
    /\ UNCHANGED <<message, enc, ends, vector>>

\* A query that projects a block column decodes the blocks of the matched rows
\* alone, and the cursor moves on by the length the message gives the column.
SelectRows ==
    /\ Readable /\ Kind \in Words /\ enc.buf[at] = B("block")
    /\ \E row \in DOMAIN Vals(message[Unread]) : LET matched == {row, Len(Vals(message[Unread]))} IN
          \E r \in {ReadSelected(enc.buf, at, Kind, Len(Vals(message[Unread])), matched, dec.scratch, vector)} :
              /\ got' = Append(got, IF r.ok THEN [ok |-> TRUE, rows |-> matched, vals |-> r.vals] ELSE Refused)
              /\ at' = ends[Unread] + 1
              /\ dec' = IF r.ok THEN [dec EXCEPT !.scratch = r.scratch] ELSE dec
    /\ UNCHANGED <<message, enc, ends, vector>>

Next ==
    \/ WriteWords \/ WriteHalfWords \/ WriteFloatWords \/ WriteStringColumn
    \/ ReadSlice \/ ReadStringColumn \/ SkipSlice \/ SelectRows

Spec == Init /\ [][Next]_vars

-----------------------------------------------------------------------------

\* Every column comes back as it was sent, whatever codec the picker chose,
\* whatever the columns before it left with the encoder and the decoder, with
\* the vector kernels and without.  The rows a query selects from a block
\* column come back too, and 0 for the others: the row may lie in any block.
Lossless ==
    \A k \in DOMAIN got :
        /\ got[k].ok
        /\ IF "rows" \in DOMAIN got[k]
           THEN \A m \in DOMAIN got[k].vals :
                    got[k].vals[m] = IF m \in got[k].rows THEN message[k].vals[m] ELSE 0
           ELSE "vals" \in DOMAIN got[k] => got[k].vals = Vals(message[k])

\* Reading a column and skipping it stop at the same place, where the next
\* one starts.
CursorInStep == at = IF got = <<>> THEN 2 ELSE ends[Len(got)] + 1

Size(k) == WireLen(SubSeq(enc.buf, (IF k = 1 THEN 2 ELSE ends[k - 1] + 1), ends[k]))

\* What a column takes when no codec is tried: its raw form, and for strings
\* the larger of raw and value by value, as the one is tried before the other.
Plain(c) ==
    IF c.kind # "str" THEN RawSize(c.kind, Len(c.vals))
    ELSE LargerOf(WireLen(RawUnits(c.strs)), RawFloor(c.strs) + Len(c.strs))

\* No codec makes a column larger than its plain form.
NeverLarger == \A k \in DOMAIN ends : Size(k) <= Plain(message[k])

\* The price the picker announced, or would have paid for the form it chose.
PriceOf(c, p) == IF ConstantOverCap(Len(c.vals), p) THEN RawSize(c.kind, Len(c.vals)) ELSE p.cost
Price(c) ==
    IF c.kind \in Floats THEN DecimalPlan(c.kind, c.vals).cost ELSE PriceOf(c, Pick(Wide(c.kind), c.vals))

\* What a column of numbers takes is no more than what the picker chose it
\* for: the estimate is an upper bound, and an attempt that is kept beats it.
PriceKept ==
    \A k \in DOMAIN ends :
        message[k].kind # "str" /\ Vals(message[k]) # <<>> =>
            Size(k) <= SmallerOf(Price(message[k]), RawSize(message[k].kind, Len(message[k].vals)))
=============================================================================
