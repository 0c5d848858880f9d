------------------------------ MODULE MCDescCache ------------------------------
(* A tree whose nodes hold their children by a slice, and a struct that    *)
(* holds such a slice and a channel.                                       *)
EXTENDS DescCache

CONSTANTS p1, p2, int, tree, children, bad, chan

MCThreads == {p1, p2}

MCTypes == {int, tree, children, bad, chan}

MCKind ==
    [t \in MCTypes |->
        CASE t = int -> "scalar" [] t = children -> "slice"
          [] t = chan -> "other" [] OTHER -> "struct"]

MCParts ==
    [t \in MCTypes |->
        CASE t \in {int, chan} -> <<>>
          [] t = tree -> <<int, children>>
          [] t = children -> <<tree>>
          [] t = bad -> <<children, chan>>]
=============================================================================
