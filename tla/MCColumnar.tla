------------------------------ MODULE MCColumnar ------------------------------
(***************************************************************************)
(* Messages for Columnar: events, all of whose fields transpose, with      *)
(* zones of two rows; orders, whose lists of lines are slices of their own *)
(* and whose losing columns are demoted at both levels.                    *)
(***************************************************************************)
EXTENDS Columnar

Field(name, kind) == [name |-> name, kind |-> kind, null |-> FALSE, of |-> <<>>]
Optional(name, kind) == [name |-> name, kind |-> kind, null |-> TRUE, of |-> <<>>]
List(name, of) == [name |-> name, kind |-> "list", null |-> FALSE, of |-> of]

-----------------------------------------------------------------------------
(* Events: sorted and unsorted numbers, strings in blocks and one by one *)

Id == Field("id", "int")
Load == Field("load", "float")
Num == Field("n", "uint")
Tag == Field("tag", "string")
Note == Field("note", "string")
Raw == Field("raw", "bytes")
Opt == Optional("opt", "int")
Lab == Optional("lab", "string")
When == Field("at", "time")
Up == Field("up", "bool")

Event == <<Id, Num, Load, Tag, Opt, Note, Raw, When, Up>>

Ids == <<3, 5, 8, 13, 21, 34>>
Ns == <<9, 2, 2, 7, 40, 1>>
Loads == <<4, NaN, 1, Highest, 2, 2>>
Tags == <<"north", "north", "south", "south", "north", "south">>
Opts == <<<<>>, <<4>>, <<0>>, <<>>, <<4>>, <<7>>>>
Short == <<"a", "", "b", "c", "", "d">>
Long == <<"red", "north", "blue", "red", "green", "blue">>

\* notes and raws are the strings that are written one by one.
Events(from, to, notes, raws) ==
    [k \in 1 .. to - from + 1 |->
        LET i == from + k - 1
        IN <<Ids[i], Ns[i], Loads[i], Tags[i], Opts[i], notes[i], raws[i], <<i, 2 * i>>, i % 2 = 0>>]

Slice(type, rows) == [type |-> type, rows |-> rows]
ShortEvents == Slice(Event, Events(1, 6, Short, Short))
LongEvents == Slice(Event, Events(1, 6, Long, Long))
FewEvents == Slice(Event, Events(2, 4, Long, Short))

Labels == <<<<"north">>, <<>>, <<"x">>, <<"north">>, <<>>, <<"x">>>>
Labelled == <<Id, Opt, Lab, Note>>
LabelledEvents == Slice(Labelled, [i \in 1 .. 6 |-> <<400 - 10 * Ids[i], Opts[i], Labels[i], Long[i]>>])

-----------------------------------------------------------------------------
(* Orders of lines *)

Line == <<Field("a", "int"), Field("b", "int"), Field("w", "vec"), Field("t", "string")>>
Lines == [i \in 1 .. 4 |-> <<Ids[i], 40 - 11 * i, <<i>>, "warehouse">>]
Order == <<Field("k", "int"), Field("s", "string"), List("xs", Line), Field("v", "vec")>>
Orders ==
    Slice(Order, [i \in 1 .. 4 |-> <<Ns[i + 1], "customer", IF i = 2 THEN SubSeq(Lines, 1, 1) ELSE Lines, <<i, 5>>>>])
\* The same fields under other columns: another partial plan of the same type.
OtherOrders ==
    Slice(Order, [i \in 1 .. 4 |-> <<300, "customer", IF i = 1 THEN Lines ELSE <<>>, <<1>>>>])

LooseLines == Slice(Line, Lines)

-----------------------------------------------------------------------------

Options == [index : BOOLEAN, zonemap : BOOLEAN, fsst : BOOLEAN, blocks : BOOLEAN]
Message(o, slices) == [index |-> o.index, zonemap |-> o.zonemap, fsst |-> o.fsst, blocks |-> o.blocks,
                       slices |-> slices]

\* With lengths of columns, strings written one by one are too short to be
\* referred to (MCColumnar_index_skip lifts this).
ShortMessages == {Message(o, <<ShortEvents>>) : o \in Options}
LongMessages ==
    {Message(o, s) : o \in {x \in Options : ~x.index /\ x.zonemap = x.fsst},
                     s \in {<<LongEvents>>, <<LabelledEvents>>, <<FewEvents, LongEvents>>, <<FewEvents>>,
                            <<LongEvents, LabelledEvents>>}}
OrderMessages ==
    {Message(o, s) : o \in {x \in Options : x.fsst /\ ~x.blocks /\ ~x.index},
                     s \in {<<Orders>>, <<Orders, LooseLines, Orders>>, <<Orders, OtherOrders, Orders>>,
                            <<OtherOrders, LongEvents, Orders>>}}
AllMessages == ShortMessages \cup LongMessages \cup OrderMessages

\* A note of one event is referred to by its raw, a column behind.
LateMessages == {Message(o, <<LongEvents>>) : o \in {x \in Options : x.index}}

\* A query that keeps two columns of strings in block form.
TwoStrings == <<Id, Tag, Field("tag2", "string")>>
Tags2 == <<"up", "down", "down", "up", "up", "down">>
BlockMessages ==
    {Message(o, <<Slice(TwoStrings, [i \in 1 .. 6 |-> <<Ids[i], Tags[i], Tags2[i]>>])>>) : o \in Options}

-----------------------------------------------------------------------------

SomeTargets ==
    {Event, Order,
     <<Up, Tag, Id>>, <<Field("new", "string"), Raw, Load, Optional("gone", "int"), Opt, Lab>>,
     <<List("xs", <<Field("t", "string"), Field("a", "int")>>), Field("k", "int")>>}
StringTargets == {TwoStrings}
SomeQueryTargets == {Event, <<Field("new", "string"), Load, Tag, Opt>>}
SomeBatchTargets == {<<Id, Tag>>, <<Num, Note, Raw>>, <<Field("k", "int"), Field("s", "string")>>}
SomeSelections == {{}, {"id", "note"}, {"lab"}}

-----------------------------------------------------------------------------
(* Queries *)

IdLow == Leaf(WhereCmp(1, "id", "int", {"lt", "eq"}, 8))
IdHigh == Leaf(WhereCmp(2, "id", "int", {"gt"}, 13))
IdMid == Leaf(WhereRange(3, "id", "int", 5, 21))
N2 == Leaf(WhereCmp(4, "n", "uint", {"eq"}, 2))
LoadLow == Leaf(WhereRange(5, "load", "float", Lowest, 2))
LoadNot == Leaf(WhereCmp(6, "load", "float", {"lt", "gt"}, 2))
LoadNaN == Leaf(WhereCmp(7, "load", "float", {"eq"}, NaN))
Opt4 == Leaf(WhereCmp(8, "opt", "int", {"eq"}, 4))
NoteRed == Leaf(Where(9, "note", "string", {"red", "north", "a", "c"}))
LabX == Leaf(Where(14, "lab", "string", {"x"}))
IdFunc == Leaf(Where(10, "id", "int", {3, 34}))
Unknown4 == Leaf(WhereCmp(11, "none", "int", {"eq"}, 4))
Mistyped == Leaf(WhereCmp(12, "id", "uint", {"eq"}, 4))

And(s) == Combine("and", s)
Or(s) == Combine("or", s)
Not(n) == Combine("not", <<n>>)

Conds ==
    {<<>>, <<IdLow>>, <<IdMid>>, <<LoadLow>>, <<LoadNaN>>, <<NoteRed>>,
     <<IdHigh, Opt4>>, <<Not(Opt4)>>, <<Not(Not(Opt4))>>, <<Not(LoadNot)>>, <<Not(LabX)>>,
     <<Or(<<LabX, Not(Opt4)>>)>>, <<Not(And(<<Opt4, IdMid>>))>>,
     <<Or(<<IdLow, N2, Or(<<IdHigh, IdLow>>)>>)>>, <<Or(<<N2, Not(Or(<<Opt4, LoadLow>>))>>)>>,
     <<And(<<IdMid, IdMid>>), And(<<LoadNot>>)>>, <<IdFunc, IdMid>>, <<And(<<>>)>>, <<Or(<<>>)>>,
     <<Unknown4>>, <<Mistyped>>, <<And(<<IdLow, SelectOption>>)>>, <<Or(<<IdLow, And(<<SelectOption>>)>>)>>}

Ask(opts, select) == [opts |-> opts, select |-> select]
SomeQueries ==
    {Ask(c, s) : c \in Conds, s \in {{}, {"n", "tag"}, {"load", "note", "id"}}}

StringQueries == {Ask(<<IdMid>>, {}), Ask(<<IdMid>>, {"tag"}),
                  Ask(<<Leaf(Where(13, "tag", "string", {"north"}))>>, {"tag2"})}

NotANumber == 1000
Bottom == -900
Ceiling == 900
OneSlab == 1 .. 1
TwoSlabs == 1 .. 2
=============================================================================
