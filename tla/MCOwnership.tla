---------------------------- MODULE MCOwnership ----------------------------
(* Small instances of Ownership. *)
EXTENDS Ownership, TLC

Symmetry ==
    Permutations(Block) \cup Permutations(Tensor)
    \cup Permutations(Object) \cup Permutations(Parameter)
=============================================================================
