------------------------------ MODULE Replication ------------------------------
(***************************************************************************)
(* A producer's value moves on and each change goes out as a patch, Diff   *)
(* of the value it was made from and the value it makes.  The network      *)
(* loses, repeats and reorders patches; the consumer applies what arrives  *)
(* to the value it has, in place.  The base fingerprint is what keeps a    *)
(* patch off a value it was not made from; without it the caller answers   *)
(* for that.                                                               *)
(***************************************************************************)
EXTENDS DeltaApply

CONSTANTS
    Scenarios,      \* sequence of [type, values]: a type and the values it takes
    MaxVersions,    \* bound: values of the producer, the first included
    MaxInFlight     \* bound: patches in the network

ASSUME ReplicationAssumption ==
    /\ \A i \in DOMAIN Scenarios : DOMAIN Scenarios[i] = {"type", "values"}
    /\ MaxVersions \in Nat /\ MaxInFlight \in Nat

VARIABLES
    scenario,       \* which type, fixed
    versions,       \* the values the producer had (history)
    net,            \* patches that may still arrive
    replica,        \* the consumer's value
    last            \* how the last Apply ended

vars == <<scenario, versions, net, replica, last>>

T == Scenarios[scenario].type

\* A patch knows its two versions only as history; fp says whether the
\* fingerprint of the base is in its header.
Diff(from, to, fp, down) ==
    [from |-> from, to |-> to, fp |-> fp,
     base |-> IF fp THEN Fingerprint(T, versions[from]) ELSE <<>>,
     body |-> DiffValue(T, versions[from], versions'[to], down)]

BaseMatches(p, base) == p.fp => Fingerprint(T, base) = p.base

Outcome(r) == [how |-> IF r.ok THEN "applied" ELSE "invalid", v |-> r.v]
Apply(p, base) ==
    IF ~BaseMatches(p, base) THEN [how |-> "mismatch", v |-> base]
    ELSE IF p.body = <<>> THEN [how |-> "applied", v |-> base]
    ELSE Outcome(ApplyValue(T, p.body, 1, base))

Init ==
    /\ scenario \in DOMAIN Scenarios
    /\ \E i \in DOMAIN Scenarios[scenario].values :
        /\ versions = <<Scenarios[scenario].values[i]>>
        /\ replica = Copied(T, Scenarios[scenario].values[i])
    /\ net = {}
    /\ last = "none"

\* The value moves on.  The patch is made from the version before, or, for a
\* consumer that has missed some, from an older one.
Produce(i, from, fp, down) ==
    /\ Len(versions) < MaxVersions /\ Cardinality(net) < MaxInFlight
    /\ from \in DOMAIN versions
    /\ versions' = Append(versions, Scenarios[scenario].values[i])
    /\ net' = net \cup {Diff(from, Len(versions) + 1, fp, down)}
    /\ UNCHANGED <<scenario, replica, last>>

\* The patch stays in the network: it may arrive again.
Deliver(p) ==
    /\ UNCHANGED <<scenario, versions, net>>
    /\ p.fp \/ Same(T, replica, versions[p.from])
    /\ \E r \in {Apply(p, replica)} : replica' = r.v /\ last' = r.how

Lose(p) ==
    /\ net' = net \ {p}
    /\ UNCHANGED <<scenario, versions, replica, last>>

\* A consumer that cannot go on asks for the whole value.
Resync ==
    /\ replica' = Copied(T, versions[Len(versions)])
    /\ last' = "none"
    /\ UNCHANGED <<scenario, versions, net>>

Next ==
    \/ \E i \in DOMAIN Scenarios[scenario].values, from \in 1 .. MaxVersions, fp, down \in BOOLEAN :
          Produce(i, from, fp, down)
    \/ \E p \in net : Deliver(p) \/ Lose(p)
    \/ Resync

Spec == Init /\ [][Next]_vars

-----------------------------------------------------------------------------
\* Applied to the value it was made from, whichever copy of it, in whatever
\* form the body was picked, a patch makes the value it was made for (Diff and
\* Apply of delta.go).
Exact ==
    [][\A p \in net : Same(T, replica, versions[p.from]) /\ Deliver(p) =>
          last' = "applied" /\ Same(T, replica', versions[p.to])]_vars

\* A patch that arrives where it does not belong, late, repeated or after one
\* that was lost, is refused by the fingerprint of its base and changes nothing.
WrongBaseRefused ==
    [][\A p \in net : ~Same(T, replica, versions[p.from]) /\ Deliver(p) =>
          last' = "mismatch" /\ replica' = replica]_vars
=============================================================================
