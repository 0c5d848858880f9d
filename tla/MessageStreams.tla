--------------------------- MODULE MessageStreams ---------------------------
(***************************************************************************)
(* What a StreamEncoder and a StreamDecoder promise together, without a    *)
(* byte: streams of messages, one after the other.  A message that is      *)
(* posted leaves the writer some time later, behind those before it, or    *)
(* never when the writer goes on to the next stream.  The reader takes the *)
(* messages that have left, each once and in order, and is told the end    *)
(* only where it has taken them all.                                       *)
(***************************************************************************)
EXTENDS Naturals, Sequences

CONSTANTS
    Messages,
    MaxStreams      \* bound: streams, one after the other

VARIABLES
    writing,        \* the stream being written
    reading,        \* the stream being read
    posted,         \* per stream, the messages accepted
    departed,       \* per stream, the numbers of those that have left whole
    taken,          \* per stream, the messages returned
    ended           \* the reader was told the end, and has not asked again

vars == <<writing, reading, posted, departed, taken, ended>>

Streams == 1 .. MaxStreams

Init ==
    /\ writing = 1 /\ reading = 1
    /\ posted = [s \in Streams |-> <<>>]
    /\ departed = [s \in Streams |-> {}]
    /\ taken = [s \in Streams |-> <<>>]
    /\ ended = FALSE

Post(m) ==
    /\ posted' = [posted EXCEPT ![writing] = Append(@, m)]
    /\ UNCHANGED <<writing, reading, departed, taken, ended>>

\* Some more of them leave, none before its predecessors.
Depart(gone) ==
    /\ departed[writing] \subseteq gone
    /\ \A n \in gone : 1 .. n \subseteq gone
    /\ departed' = [departed EXCEPT ![writing] = gone]
    /\ UNCHANGED <<writing, reading, posted, taken, ended>>

\* The writer goes on to the next stream; what has not left never will.
StartNext ==
    /\ writing < MaxStreams
    /\ writing' = writing + 1
    /\ UNCHANGED <<reading, posted, departed, taken, ended>>

Take ==
    LET next == Len(taken[reading]) + 1 IN
    /\ next \in departed[reading]
    /\ taken' = [taken EXCEPT ![reading] = Append(@, posted[reading][next])]
    /\ ended' = FALSE
    /\ UNCHANGED <<writing, reading, posted, departed>>

End ==
    /\ departed[reading] \subseteq 1 .. Len(taken[reading])
    /\ ended' = TRUE
    /\ UNCHANGED <<writing, reading, posted, departed, taken>>

Ask ==
    /\ ended' = FALSE
    /\ UNCHANGED <<writing, reading, posted, departed, taken>>

ReadNext ==
    /\ reading < writing
    /\ reading' = reading + 1
    /\ ended' = FALSE
    /\ UNCHANGED <<writing, posted, departed, taken>>

Next ==
    \/ \E m \in Messages : Post(m)
    \/ \E gone \in SUBSET (1 .. Len(posted[writing])) : Depart(gone)
    \/ StartNext
    \/ Take
    \/ End
    \/ Ask
    \/ ReadNext

Spec == Init /\ [][Next]_vars
=============================================================================
