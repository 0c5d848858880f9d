----------------------------- MODULE MCStream -----------------------------
(* Stream with one message whose length prefix is one byte and one whose  *)
(* prefix is two, and a buffer that a pair of frames fills.                *)
EXTENDS Stream

CONSTANTS short, long

Both == {short, long}
Sizes == [m \in Both |-> IF m = short THEN 1 ELSE 2]
Counts == <<2, 1>>
=============================================================================
