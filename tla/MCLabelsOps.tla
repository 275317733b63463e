---------------------------- MODULE MCLabelsOps ----------------------------
(* Small instances of LabelsOps. *)
EXTENDS LabelsOps

CONSTANTS a, b, MaxCount1, MaxCount2

Rows(n) == [1..n -> Value]
DistinctSeqs(S, n) == {s \in UNION {[1..m -> S] : m \in 0..n} : Distinct(s)}

Fresh(names, vals) ==
    [names |-> names, values |-> vals, filled |-> FALSE, positions |-> NoPositions]

(* No dimension; one dimension; two dimensions, in both orders. *)
MCInputs ==
    {Fresh(<<>>, <<>>)}
    \cup {Fresh(<<a>>, v) : v \in DistinctSeqs(Rows(1), MaxCount1)}
    \cup {Fresh(<<b, a>>, v) : v \in DistinctSeqs(Rows(2), MaxCount2)}
    \cup {Fresh(<<b>>, << <<0>> >>)}
=============================================================================
