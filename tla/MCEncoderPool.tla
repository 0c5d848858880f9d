--------------------------- MODULE MCEncoderPool ---------------------------
EXTENDS EncoderPool

Short(op) == [op |-> op, opts |-> "speed", dict |-> "none", size |-> 1]

\* What takes a dictionary is given one.
Long(op) == [op |-> op, size |-> 2,
             opts |-> IF op \in {"marshal", "append", "diff"}
                      THEN "rans" ELSE "speed",
             dict |-> IF op \in {"marshal", "append"} THEN "trained" ELSE "none"]

\* One goroutine does everything and keeps its results; the other drops them
\* and writes large messages into the buffers of the encoders it finds.
Workload == << {Short(op) : op \in Ops} \cup {Long(op) : op \in Ops},
               {Long("marshal")} >>

\* A goroutine on its own, with messages that need 2 and 8 units of capacity.
Alone == << {Short("marshal"), [Short("marshal") EXCEPT !.size = 4]} >>
=============================================================================
