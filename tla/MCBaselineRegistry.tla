------------------------- MODULE MCBaselineRegistry -------------------------
EXTENDS BaselineRegistry, TLC

CONSTANTS a, b, o1, o2, o3, t1, t2

TwoContents == {a, b}
Heap == {o1, o2, o3}
Goroutines == {t1, t2}

\* A step forward, a step back, and one without the fingerprint of its base.
Arriving == {[base |-> a, target |-> b, hasFP |-> TRUE],
             [base |-> b, target |-> a, hasFP |-> TRUE],
             [base |-> a, target |-> b, hasFP |-> FALSE]}

Symmetry == Permutations(Heap) \cup Permutations(Goroutines)
=============================================================================
