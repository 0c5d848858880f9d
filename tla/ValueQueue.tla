----------------------------- MODULE ValueQueue -----------------------------
(***************************************************************************)
(* What a codec promises, whatever it puts on the wire: a lossless FIFO.   *)
(* Values come out once each, unchanged, in the order they went in; there  *)
(* is no step that drops, alters or fails to deliver one.                  *)
(***************************************************************************)
EXTENDS Sequences

CONSTANT Values     \* what may be written

VARIABLES
    queue,          \* written and not yet read
    latest          \* the value the last read returned

Init ==
    /\ queue = <<>>
    /\ latest \in Values

Send(v) ==
    /\ queue' = Append(queue, v)
    /\ UNCHANGED latest

Receive ==
    /\ queue # <<>>
    /\ latest' = Head(queue)
    /\ queue' = Tail(queue)

Next ==
    \/ \E v \in Values : Send(v)
    \/ Receive

Spec == Init /\ [][Next]_<<queue, latest>>
=============================================================================
