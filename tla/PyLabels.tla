------------------------------- MODULE PyLabels -------------------------------
(***************************************************************************)
(* The class Labels of Python (metatensor_core/metatensor/labels.py), as   *)
(* functions of plain data. A call either returns a value or raises, and   *)
(* what it raises is a record with the type of the exception. Positions    *)
(* are 1-based in sequences; an index that the user gives is 0-based.      *)
(*                                                                         *)
(* The set operations and select are calls to the shared library, whose    *)
(* loops are in LabelsOps: here they are what those loops compute.         *)
(***************************************************************************)
EXTENDS LabelsData, TLC

Raise(kind) == [error |-> kind]
Failed(r) == "error" \in DOMAIN r

(***************************************************************************)
(* Labels.__init__, with the checks of the library: one column per name,   *)
(* no name and no entry twice, no entry without a name. Without entries    *)
(* the number of columns is not looked at.                                 *)
(***************************************************************************)
NewLabels(names, values) ==
    IF \E e \in ToSet(values) : Len(e) # Len(names) THEN Raise("ValueError")
    ELSE IF ~IsInjective(names) \/ ~IsInjective(values) \/ (names = <<>> /\ values # <<>>)
         THEN Raise("MetatensorError")
    ELSE Labels(names, values)

single == Labels(<<"_">>, << <<0>> >>)
range(name, end) == Labels(<<name>>, [i \in 1..end |-> <<i - 1>>])

(* column and __contains__, as everything else in this module, are for labels that are no view. *)
column(l, dimension) ==
    IF dimension \notin ToSet(l.names) THEN Raise("ValueError")
    ELSE LET d == CHOOSE d \in 1..size(l) : l.names[d] = dimension
         IN  [i \in 1..count(l) |-> l.values[i][d]]
contains(l, e) == e \in Entries(l)

Pick(e, ixs) == [k \in 1..Len(ixs) |-> e[ixs[k]]]
PickAll(values, ixs) == [i \in 1..Len(values) |-> Pick(values[i], ixs)]
DimensionsOf(l, names) ==
    [k \in 1..Len(names) |-> CHOOSE d \in 1..size(l) : l.names[d] = names[k]]

(* view: some columns, which can hold an entry several times. *)
view(l, names) ==
    IF ~(ToSet(names) \subseteq ToSet(l.names)) THEN Raise("ValueError")
    ELSE Labels(names, PickAll(l.values, DimensionsOf(l, names)))

-----------------------------------------------------------------------------
(* The dimensions *)

insert(l, index, name, values) ==
    IF Len(values) # count(l) THEN Raise("ValueError")
    ELSE IF index > size(l) THEN Raise("IndexError")
    ELSE NewLabels(InsertAt(l.names, index + 1, name),
             [i \in 1..count(l) |-> InsertAt(l.values[i], index + 1, values[i])])

(* The new dimension is put before the one whose number is the length of the labels. *)
append(l, name, values) == insert(l, count(l), name, values)

permute(l, dimensions_indexes) ==
    IF Len(dimensions_indexes) # size(l) THEN Raise("ValueError")
    ELSE IF \E d \in ToSet(dimensions_indexes) : d >= size(l) THEN Raise("IndexError")
    ELSE LET ixs == [k \in 1..size(l) |-> dimensions_indexes[k] + 1]
         IN  NewLabels(Pick(l.names, ixs), PickAll(l.values, ixs))

remove(l, name) ==
    IF name \notin ToSet(l.names) THEN Raise("ValueError")
    ELSE LET ixs == SelectSeq([d \in 1..size(l) |-> d], LAMBDA d : l.names[d] # name)
         IN  NewLabels(Pick(l.names, ixs), PickAll(l.values, ixs))

rename(l, old, new) ==
    IF old \notin ToSet(l.names) THEN Raise("ValueError")
    ELSE NewLabels([d \in 1..size(l) |-> IF l.names[d] = old THEN new ELSE l.names[d]], l.values)

-----------------------------------------------------------------------------
(* The set operations *)

union(a, b) ==
    IF a.names # b.names THEN Raise("MetatensorError")
    ELSE Labels(a.names, a.values \o SelectSeq(b.values, LAMBDA e : e \notin Entries(a)))

(* The entries come in the order of the shorter of the two. *)
intersection(a, b) ==
    IF a.names # b.names THEN Raise("MetatensorError")
    ELSE LET first == count(a) <= count(b)
             shorter == IF first THEN a ELSE b
             longer == IF first THEN b ELSE a
         IN  Labels(a.names, SelectSeq(shorter.values, LAMBDA e : e \in Entries(longer)))

(***************************************************************************)
(* select: the positions, from 1, of the entries that agree with one of    *)
(* the selection; in the order of the selection when it has all the names  *)
(* in the same order, in the order of the labels otherwise.                *)
(***************************************************************************)
Agrees(l, e, selection) ==
    \E s \in Entries(selection) : s = Pick(e, DimensionsOf(l, selection.names))

select(l, selection) ==
    IF selection.names = l.names
    THEN LET found == SelectSeq(selection.values, LAMBDA e : e \in Entries(l))
         IN  [k \in 1..Len(found) |-> position(l, found[k])]
    ELSE SelectSeq([i \in 1..count(l) |-> i], LAMBDA i : Agrees(l, l.values[i], selection))

CanSelect(l, selection) == ToSet(selection.names) \subseteq ToSet(l.names)
=============================================================================
