----------------------------- MODULE LabelsData -----------------------------
(***************************************************************************)
(* Labels as plain data (metatensor-core/src/labels.rs): the names of the  *)
(* dimensions, and the entries, of one integer per dimension. The rest of  *)
(* the type (the index of the positions, shared ownership) is in LabelsOps *)
(* and is not needed by the code that merges and reshapes blocks.          *)
(***************************************************************************)
EXTENDS Integers, Sequences, FiniteSets, SequencesExt

Labels(names, values) == [names |-> names, values |-> values]
size(l) == Len(l.names)
count(l) == Len(l.values)
is_empty(l) == count(l) = 0
Entries(l) == ToSet(l.values)
position(l, e) == CHOOSE k \in 1..count(l) : l.values[k] = e

(* Labels::new refuses a name that comes twice. *)
ValidNames(names) == IsInjective(names)

(* What an entry says: pairs of a dimension and its value, "_" standing for none. *)
Named(l, e) == {<<l.names[d], e[d]>> : d \in {d \in 1..size(l) : l.names[d] # "_"}}
=============================================================================
