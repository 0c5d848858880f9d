---------------------------- MODULE MCReplication ----------------------------
(***************************************************************************)
(* Types and values for Replication.  A letter is a number above the       *)
(* integers.  In the passing run all strings next to another string have   *)
(* one letter, no []byte of a row is empty and not nil, and elements       *)
(* compared by their memory have nothing hidden.                           *)
(***************************************************************************)
EXTENDS Replication

a == <<10>>
b == <<11>>

\* struct { Rows []struct { ID int `key`; S string }; Note string }
KeyedRow == StructOf(<<Int2, Text>>, 1, "none")
KeyedDoc == StructOf(<<SliceOf(KeyedRow), Text>>, 0, "none")
KeyedValues ==
    <<<<Nil, a>>, <<Seq1(<<>>), a>>,
      <<Seq1(<<<<1, a>>, <<2, b>>>>), a>>, <<Seq1(<<<<2, b>>, <<1, a>>>>), b>>,
      <<Seq1(<<<<2, b>>, <<3, a>>, <<1, a>>>>), a>>, <<Seq1(<<<<1, a>>, <<1, b>>>>), a>>,
      <<Seq1(<<<<2, b>>, <<3, a>>, <<1, b>>>>), a>>>>

\* struct { Rows []struct { N int; F bool; S string; P *int; Q *string; B []byte }; Note string }
FlatRow == StructOf(<<Int2, Bool, Text, PointerTo(Int2), PointerTo(Text), Bytes>>, 0, "none")
FlatDoc == StructOf(<<SliceOf(FlatRow), Text>>, 0, "none")
Row(n, f, s, p, q, z) == <<n, f, s, p, q, z>>
R0 == Row(3, 0, a, <<>>, <<a>>, Nil)
Same4(r) == <<Seq1(<<r, r, r, r>>), a>>
FlatValues ==
    <<Same4(R0), <<Seq1(<<R0, R0, R0, Row(1, 0, a, <<>>, <<a>>, Seq1(a))>>), b>>,
      Same4(Row(0, 1, b, <<1>>, <<a>>, Nil)),
      <<Seq1(<<R0, Row(2, 1, a, <<2>>, <<a>>, Nil), R0, Row(3, 1, b, <<>>, <<a>>, Seq1(b))>>), a>>,
      <<Seq1(<<R0, Row(3, 0, a, <<>>, <<>>, Nil), R0, R0>>), a>>,
      <<Seq1(<<R0, R0>>), a>>>>

\* struct { M map[int]struct { A int; L []int } }
Entry == StructOf(<<Int2, SliceOf(Int2)>>, 0, "none")
MapDoc == StructOf(<<MapOf(Entry)>>, 0, "none")
Pair(k, v, l, x) == [q \in {k, l} |-> IF q = k THEN v ELSE x]
MapValues ==
    <<<<Nil>>, <<Seq1(<<>>)>>,
      <<Seq1(Pair(1, <<1, Nil>>, 2, <<2, Seq1(<<1, 2>>)>>))>>,
      <<Seq1(Pair(1, <<1, Seq1(<<>>)>>, 3, <<2, Seq1(<<1>>)>>))>>,
      <<Seq1(Pair(2, <<2, Seq1(<<1, 2, 3>>)>>, 3, <<0, Nil>>))>>,
      <<Seq1(Pair(3, <<2, Seq1(<<3>>)>>, 3, <<2, Seq1(<<3>>)>>))>>>>

\* struct { P *struct { A int; B bool }; L []int; R [2]int; Z []byte; G struct with a gap; Q *int }
Gapped == StructOf(<<Bool, Int2>>, 0, "gap")
MixedDoc == StructOf(<<PointerTo(StructOf(<<Int2, Bool>>, 0, "none")), SliceOf(Int2),
                       ArrayOf(2, Int2), Bytes, Gapped, PointerTo(Int2)>>, 0, "none")
MixedValues ==
    <<<< <<>>, Nil, <<0, 1>>, Nil, <<0, 0, 0>>, <<>> >>,
      << <<<<1, 0>>>>, Seq1(<<>>), <<0, 1>>, Seq1(<<>>), <<0, 0, 1>>, <<1>> >>,
      << <<<<2, 0>>>>, Seq1(<<1>>), <<1, 1>>, Seq1(a), <<1, 0, 1>>, <<2>> >>,
      << <<<<2, 1>>>>, Seq1(<<1, 2>>), <<1, 0>>, Seq1(<<10, 11>>), <<1, 2, 0>>, <<2>> >>,
      << <<<<2, 1>>>>, Seq1(<<2>>), <<1, 0>>, Nil, <<1, 2, 1>>, <<>> >>>>

MCScenarios ==
    <<[type |-> KeyedDoc, values |-> KeyedValues], [type |-> FlatDoc, values |-> FlatValues],
      [type |-> MapDoc, values |-> MapValues], [type |-> MixedDoc, values |-> MixedValues]>>

-----------------------------------------------------------------------------
\* Rows whose []byte goes from nil to empty.
BytesValues == <<Same4(R0), Same4(Row(3, 0, a, <<>>, <<a>>, Seq1(<<>>)))>>
BytesScenarios == <<[type |-> FlatDoc, values |-> BytesValues]>>

\* Elements with a place the codec does not see, between or beside the fields.
HiddenDoc == StructOf(<<SliceOf(StructOf(<<Bool, Int2>>, 0, "gap")), Text>>, 0, "none")
HiddenValues == <<<<Seq1(<<<<0, 1, 0>>, <<0, 1, 0>>>>), a>>, <<Seq1(<<<<0, 1, 1>>, <<0, 2, 0>>>>), a>>>>
HiddenScenarios == <<[type |-> HiddenDoc, values |-> HiddenValues]>>

\* Two strings one after the other.
NamesDoc == StructOf(<<Text, Text>>, 0, "none")
NamesValues == << << <<10, 11>>, <<>> >>, << a, b >>, << b, b >> >>
NamesScenarios == <<[type |-> NamesDoc, values |-> NamesValues]>>
=============================================================================
