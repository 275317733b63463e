--------------------------- MODULE NeighborLists ----------------------------
(***************************************************************************)
(* The neighbors lists of the ASE calculator (_compute_ase_neighbors), and *)
(* the way they become part of the graph of torch (NeighborsAutograd of    *)
(* atomistic/system.cpp).                                                  *)
(*                                                                         *)
(* ase or vesin finds all pairs within the cutoff, each from both ends.    *)
(* The calculator keeps one of the two, and adds its mirror image for a    *)
(* full list. Positions, cell vectors and distances are vectors whose      *)
(* coordinates do not mix: they are numbers here, one coordinate each.     *)
(***************************************************************************)
EXTENDS Integers, FiniteSets, Functions

CONSTANTS
  NumberOfAtoms,
  Shifts,          \* cell shifts that pairs may have
  Positions,       \* coordinates of the atoms
  CellVectors,     \* coordinates of the three cell vectors
  Upstream,        \* gradients of a model with respect to the distances
  MaxPairs         \* bound: pairs within the cutoff

Atom == 0..(NumberOfAtoms - 1)
Minus(S) == [a \in 1..3 |-> - S[a]]

ASSUME ShiftsAssumption ==
    /\ NumberOfAtoms \in Nat
    /\ Shifts \subseteq [1..3 -> Int] /\ \A S \in Shifts : Minus(S) \in Shifts
    /\ Positions \subseteq Int /\ CellVectors \subseteq [1..3 -> Int]
    /\ Upstream \subseteq Int

Pair == [first : Atom, second : Atom, shift : Shifts]
Mirror(p) == [first |-> p.second, second |-> p.first, shift |-> Minus(p.shift)]
Mirrors(P) == {Mirror(p) : p \in P}

(* An atom and itself, in the same cell.                                   *)
Trivial(p) == p.first = p.second /\ p.shift = [a \in 1..3 |-> 0]

VARIABLES
  positions, cell,
  nl,          \* pairs that ase found
  block,       \* the list: the distance of every sample
  full_list,   \* the kind of list that was asked for
  gradients    \* the results of backward

vars == <<positions, cell, nl, block, full_list, gradients>>

NoBlock == [p \in {} |-> 0]
NoGradients == [done |-> FALSE]

-----------------------------------------------------------------------------
(* The distance of a pair: positions[j] - positions[i] + shift * cell.     *)
Distance(p, pos, vectors) ==
    pos[p.second] - pos[p.first]
      + p.shift[1] * vectors[1] + p.shift[2] * vectors[2] + p.shift[3] * vectors[3]

(* Pairs that are dropped: the second time a pair is found, pairs of an    *)
(* atom with itself, and one of two opposite images of an atom.            *)
rejected_FirstOnly(p) ==   \* mutant: does not choose between images in a plane
    \/ p.second < p.first
    \/ /\ p.first = p.second
       /\ \/ p.shift[1] = 0 /\ p.shift[2] = 0 /\ p.shift[3] = 0
          \/ p.shift[1] + p.shift[2] + p.shift[3] < 0

rejected(p) ==
    \/ p.second < p.first
    \/ /\ p.first = p.second
       /\ \/ p.shift[1] = 0 /\ p.shift[2] = 0 /\ p.shift[3] = 0
          \/ p.shift[1] + p.shift[2] + p.shift[3] < 0
          \/ /\ p.shift[1] + p.shift[2] + p.shift[3] = 0
             /\ p.shift[3] < 0 \/ (p.shift[3] = 0 /\ p.shift[2] < 0)

selected == {p \in nl : ~ rejected(p)}

(* Samples and distances of the block, a full list has two of each pair.   *)
Samples(full) == IF full THEN selected \union Mirrors(selected) ELSE selected

full_distance_Same(p) ==   \* mutant: the distance of a mirror image is not turned
    IF p \in selected THEN Distance(p, positions, cell) ELSE Distance(Mirror(p), positions, cell)

full_distance(p) ==
    IF p \in selected THEN Distance(p, positions, cell) ELSE - Distance(Mirror(p), positions, cell)

-----------------------------------------------------------------------------
(* Atoms are somewhere else in the next call.                              *)
Move ==
    /\ positions' \in [Atom -> Positions] /\ cell' \in CellVectors
    /\ nl' = {} /\ block' = NoBlock /\ full_list' = FALSE /\ gradients' = NoGradients

(* A pair within the cutoff is found from both of its ends.                *)
Find ==
    /\ block = NoBlock /\ Cardinality(nl) < 2 * MaxPairs
    /\ \E p \in Pair : ~ Trivial(p) /\ p \notin nl /\ nl' = nl \union {p, Mirror(p)}
    /\ UNCHANGED <<positions, cell, block, full_list, gradients>>

_compute_ase_neighbors ==
    /\ nl # {} /\ block = NoBlock
    /\ full_list' \in BOOLEAN
    /\ block' = [p \in Samples(full_list') |-> full_distance(p)]
    /\ UNCHANGED <<positions, cell, nl, gradients>>

(* NeighborsAutograd::backward: gradients are added up atom by atom, and   *)
(* cell vector by cell vector.                                             *)
positions_grad_Last(g) ==   \* mutant: a later pair of an atom replaces an earlier one
    [a \in Atom |-> LET ends == {p \in DOMAIN block : a \in {p.first, p.second}}
                    IN IF ends = {} THEN 0
                       ELSE LET p == CHOOSE q \in ends : TRUE IN IF p.second = a THEN g[p] ELSE - g[p]]

positions_grad(g) ==
    [a \in Atom |-> SumFunctionOnSet(g, {p \in DOMAIN block : p.second = a})
                      - SumFunctionOnSet(g, {p \in DOMAIN block : p.first = a})]

cell_grad(g) == [c \in 1..3 |-> SumFunction([p \in DOMAIN block |-> p.shift[c] * g[p]])]

backward ==
    /\ block # NoBlock /\ gradients = NoGradients
    /\ \E g \in [DOMAIN block -> Upstream] :
        gradients' = [done |-> TRUE, upstream |-> g, positions |-> positions_grad(g), cell |-> cell_grad(g)]
    /\ UNCHANGED <<positions, cell, nl, block, full_list>>

Init ==
    /\ positions \in [Atom -> Positions] /\ cell \in CellVectors
    /\ nl = {} /\ block = NoBlock /\ full_list = FALSE /\ gradients = NoGradients

Next == Move \/ Find \/ _compute_ase_neighbors \/ backward
Spec == Init /\ [][Next]_vars

-----------------------------------------------------------------------------
(* A half list has every pair from exactly one of its ends, and a full     *)
(* list from both; no pair is lost, and none is there twice: a block can   *)
(* not have the same sample twice.                                         *)
EachPairOnce ==
    /\ selected \intersect Mirrors(selected) = {}
    /\ selected \union Mirrors(selected) = nl

(* The distance of every sample is the one that belongs to its atoms and   *)
(* shift: the check of NeighborsAutograd::forward never fails.             *)
DistancesMatch == \A p \in DOMAIN block : block[p] = Distance(p, positions, cell)

(* The gradients are those of the distances: an atom or a cell vector that *)
(* moves by one changes the sum of distances, weighted by the gradients    *)
(* upstream, by the gradient of that atom or vector.                       *)
BackwardIsTheGradient ==
    gradients.done =>
        LET weighted(pos, vectors) ==
              SumFunction([p \in DOMAIN block |-> gradients.upstream[p] * Distance(p, pos, vectors)])
        IN /\ \A a \in Atom :
                weighted([positions EXCEPT ![a] = @ + 1], cell) - weighted(positions, cell) = gradients.positions[a]
           /\ \A c \in 1..3 :
                weighted(positions, [cell EXCEPT ![c] = @ + 1]) - weighted(positions, cell) = gradients.cell[c]
=============================================================================
