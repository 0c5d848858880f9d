--------------------------- MODULE MCDenseStream ---------------------------
(* DenseStream on a small instance: four strings that can be interned and *)
(* one that cannot, ids of which two need a two-byte uvarint, a ring of    *)
(* two slots so that emissions fall out of it.                             *)
EXTENDS DenseStream, TLC

CONSTANTS s1, s2, s3, s4, tiny

Mask(d, m, p) == [dense |-> d, mtf |-> m, pairPred |-> p]

AllStrings == {s1, s2, s3, s4, tiny}
Tiny == {tiny}
Masks == {Mask(FALSE, FALSE, FALSE), Mask(TRUE, TRUE, TRUE),
          Mask(TRUE, TRUE, FALSE), Mask(TRUE, FALSE, TRUE)}
Balanced == {Mask(FALSE, FALSE, FALSE), Mask(TRUE, TRUE, TRUE)}
Registered1 == {s1}
Symmetry == Permutations({s2, s3, s4})
=============================================================================
