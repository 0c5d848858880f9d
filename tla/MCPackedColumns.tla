--------------------------- MODULE MCPackedColumns ---------------------------
(***************************************************************************)
(* Columns that make each codec the cheapest, at the edges of its widths   *)
(* and counts, alone and after columns that leave something behind.        *)
(***************************************************************************)
EXTENDS PackedColumns, TLC

MCLzField == [k \in {"f64", "f32"} |-> IF k = "f64" THEN 3 ELSE 2]
MCMbField == [k \in {"f64", "f32"} |-> IF k = "f64" THEN 4 ELSE 3]
MCControl == [k \in {"f64", "f32"} |-> IF k = "f64" THEN 9 ELSE 7]
MCRounds == <<0, 2, 4, 6>>
MCStale == [i \in 1 .. 9 |-> 1234]

Ints == {"uint", "int", "u32", "i32"}
Col(kinds, vals) == [kind : kinds, vals : vals]

Edges(k) == CASE k = "uint" -> {0, 1, 9, 4095} [] k = "int" -> {-2048, -1, 0, 3, 2047}
              [] k = "u32" -> {0, 63} [] OTHER -> {-32, 0, 31}
Fit(k, x) == Value(k, x % Word)

Short1(k) == UNION {[1 .. n -> Edges(k)] : n \in 0 .. 3}
Two(k) == UNION {[1 .. 7 -> m] : m \in {{0, 1}, {3, Value(k, 2000)}}}
Lines(k) == {[i \in 1 .. n |-> Fit(k, a + d * i + (IF i = o THEN x ELSE 0))] :
                n \in {8, 16, 18}, a \in {0, 4000}, d \in {0, 1, 5, 4090}, o \in {3, 16, 40}, x \in {1, 2000}}
Regimes(k) == {[i \in 1 .. n |-> IF i <= m THEN Fit(k, i \div 3) ELSE Fit(k, i * i * 777)] :
                n \in {16, 18, 24}, m \in {4, 8, 12, 16}}
Noise(k) == {[i \in 1 .. n |-> Fit(k, ((i * 5 + a) % 7) + (IF i \in o THEN 400 + i ELSE 0))] :
                n \in {16, 17, 18}, a \in {0, 3}, o \in {{}, {1}, {4, 15}, {16}}}

IntColumns == UNION {Col({k}, Short1(k) \cup Two(k) \cup Lines(k) \cup Regimes(k) \cup Noise(k)) : k \in Ints}

FEdges(k) == IF k = "f64" THEN {0, 1, 100, 2047, 4095} ELSE {0, 5, 63}
FShort(k) == UNION {[1 .. n -> FEdges(k)] : n \in 0 .. 3}
FPair(k) == [1 .. 7 -> {7, Value(k, 2056)}]
FRamp(k) == {[i \in 1 .. n |-> Fit(k, a + d * (i \div r))] :
                n \in {8, 11, 17, 24}, a \in {0, 1000, 4090}, d \in {1, 10, 100, 512}, r \in {1, 3}}
FMix(k) == {[i \in 1 .. n |-> Fit(k, IF i \in o THEN 4093 ELSE 100 * ((i * a) % 9) + b)] :
                n \in {9, 16, 20}, a \in {1, 4}, b \in {0, 30, 7}, o \in {{}, {2}, {5, 6}}}
\* Four bits on the left from 12 on, noise on the right.
FLeft(k) == LET right == 2 ^ (Width(k) - 4) IN
    {[i \in 1 .. n |-> (IF i % 7 \in o THEN 12 + (i % 4) ELSE 14) * right + ((i * i * 37 + a) % right)] :
        n \in {16, 18, 24}, a \in {0, 5}, o \in {{}, {1}, {1, 4}}}
FRing(k) == {[i \in 1 .. n |-> Fit(k, IF i % 2 = 0 THEN a + 128 * (i % 4) ELSE b * i)] :
                n \in {8, 20}, a \in {5, 1365}, b \in {0, 64, 300}}
            \cup {[i \in 1 .. n |-> Fit(k, a + d * i + (IF i % 2 = 0 THEN m ELSE 0))] :
                n \in {8, 11, 20}, a \in {3500, 3840}, d \in 0 .. 3, m \in {3, 15, 32}}

FloatColumns == UNION {Col({k}, FShort(k) \cup FPair(k) \cup FRamp(k) \cup FMix(k) \cup FLeft(k) \cup FRing(k)) :
                         k \in {"f64", "f32"}}

\* Strings over few characters and many, with long and short prefixes.
Strs == {<<>>, <<1>>, <<1, 2>>, <<1, 2, 3>>}
SPick(t, n, a) == [i \in 1 .. n |-> t[((i * a) % Len(t)) + 1]]
SNum(i, m) == <<i % m, (i \div m) % m>>
Stems == <<<<4, 4, 1>>, <<4, 4, 2>>, <<4, 4, 2, 3>>>>
STables == {Stems, <<<<1, 2>>, <<>>>>, <<<<1, 2, 3>>, <<3>>>>, <<<<1, 2, 3, 4>>, <<1, 2, 3>>, <<1, 2, 3, 3, 1>>>>,
            <<<<5>>, <<6, 5>>, <<5, 6, 1, 2, 3, 4>>, <<0>>>>}
SColumns ==
    UNION {[1 .. n -> Strs] : n \in 1 .. 2}
    \cup {SPick(t, n, a) : t \in STables, n \in {4, 6, 9, 12}, a \in {1, 2}}
    \cup {[i \in 1 .. n |-> t[(((i + a) \div r) % Len(t)) + 1]] : n \in {18, 27}, t \in STables, a \in {0, 5}, r \in {1, 7}}
    \cup {[i \in 1 .. n |-> SNum(i + a, m)] : n \in {5, 7, 9}, a \in {0, 3}, m \in {2, 3, 7}}
    \cup {[i \in 1 .. n |-> p \o SNum(i, 6) \o q] : n \in {4, 6, 9, 13}, p \in {<<1, 2, 3, 4>>, <<>>}, q \in {<<5, 5, 6>>, <<>>}}
    \cup {[i \in 1 .. n |-> IF i <= 5 THEN <<2, 1, 2>> \o SNum(i, 3) ELSE <<2, 1, 2, 0, 1>>] : n \in {6, 10, 14}}

MCTables == {<<<<1, 2, 3>>, <<1, 2>>, <<5>>>>, <<<<4, 4>>, <<5, 5, 6>>>>}
MCOpts == {[rans |-> FALSE, dense |-> TRUE, fsst |-> FALSE], [rans |-> TRUE, dense |-> FALSE, fsst |-> TRUE]}

\* Columns that leave something behind for those that follow.
Strings(t, n) == [kind |-> "str", strs |-> SPick(t, n, 1)]
Numbers(k, n, d) == [kind |-> k, vals |-> [i \in 1 .. n |-> Fit(k, d * i + ((i * i) % 3))]]
Ringed(n, a, d, m) == [kind |-> "f64", vals |-> [i \in 1 .. n |-> a + d * i + (IF i % 2 = 0 THEN m ELSE 0)]]
Fables(n, o) == [kind |-> "str", strs |-> [i \in 1 .. n |-> IF i = o THEN <<5, 5, 6>> ELSE <<1, 2, 3, 1, 2, 3>>]]
Sequels ==
    {<<Strings(Stems, a), Strings(Stems, b), Strings(<<<<5>>, <<4, 4, 2>>>>, 3)>> : a \in {2, 3}, b \in {3, 4}}
    \cup {<<Ringed(11, 3840, d, 15), Ringed(8, 3500, 0, 3), Ringed(11, 3840, 2, m), Ringed(8, 3840, d, 15)>> :
            d \in {0, 1}, m \in {3, 32}}
    \cup {<<Fables(9, a), Fables(7, b), Fables(9, a)>> : a \in {0, 4}, b \in {0, 1}}
    \cup {<<Numbers(k, 18, 5), Strings(<<<<1, 2, 3>>, <<3>>>>, 18), Numbers("int", 9, 1), Numbers(k, 24, 300)>> : k \in Ints}

MCMessages == {<<c>> : c \in IntColumns \cup FloatColumns \cup [kind : {"str"}, strs : SColumns]} \cup Sequels
=============================================================================
