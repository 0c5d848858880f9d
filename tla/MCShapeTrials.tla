--------------------------- MODULE MCShapeTrials ---------------------------
(* ShapeTrials with two strings, one generated struct and one map shape;   *)
(* every id needs a two-byte uvarint, so that the pair and MTF forms occur. *)
EXTENDS ShapeTrials, TLC

CONSTANTS a, b, tok, key

Values1 == {a, b, tok, key}
PlainStrings == {a, b}
Tokens == {tok}
Keys == {key}
None == {}
Symmetry == Permutations({a, b})
Balanced == [mtf |-> TRUE, pairPred |-> TRUE]
=============================================================================
