---------------------------- MODULE MCFieldDelta ----------------------------
(* FieldDelta with two fields and four strings: two that share a stem, one *)
(* with a stem of its own, one too short to be interned.                    *)
EXTENDS FieldDelta

CONSTANTS f1, f2, stem1, stem2, x, y, z, none

Values == {<<stem1, x>>, <<stem1, y>>, <<stem2, x>>, <<stem2, z>>}
Short == {<<stem2, z>>}
MCStems == {stem1, stem2}
MCTails == {x, y, z}
BothFields == {f1, f2}
Balanced == [mtf |-> TRUE, pairPred |-> TRUE]
=============================================================================
