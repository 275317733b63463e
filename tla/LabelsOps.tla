------------------------------ MODULE LabelsOps ------------------------------
(***************************************************************************)
(* Labels (metatensor-core/src/labels.rs): named, unique, ordered entries, *)
(* and the operations that combine two of them. `union`, `intersection`    *)
(* and `select` are modelled with one action per iteration of their loop,  *)
(* together with the mapping arrays the caller may ask for, and the        *)
(* `positions` hash map that a union hands, already filled, to its result. *)
(*                                                                         *)
(* An entry is a tuple of values, one per name. Positions are the code's   *)
(* 0-based indexes; the k-th entry of a sequence has position k - 1.       *)
(***************************************************************************)
EXTENDS Integers, Sequences, FiniteSets

CONSTANTS
    Name,       \* names of dimensions
    Value,      \* values a dimension can take (i32 in the code)
    Inputs      \* the Labels a caller can pass, all made by Labels::new

Distinct(s) == \A k, l \in 1..Len(s) : s[k] = s[l] => k = l
EntrySet(s) == {s[k] : k \in 1..Len(s)}

(***************************************************************************)
(* A `positions` map: a function from entries to positions. The OnceCell   *)
(* of the code is a pair: whether the cell was filled, and with what.      *)
(***************************************************************************)
NoPositions == [e \in {} |-> 0]

(***************************************************************************)
(* Labels::new: the names are distinct and so are the entries. Labels with *)
(* no names have no entries. The positions cell starts empty.              *)
(***************************************************************************)
new_impl(l) ==
    /\ Distinct(l.names)
    /\ l.names = <<>> => l.values = <<>>
    /\ Distinct(l.values)
    /\ ~l.filled
    /\ l.positions = NoPositions

IsLabels(l) ==
    /\ l = [names |-> l.names, values |-> l.values,
            filled |-> l.filled, positions |-> l.positions]
    /\ l.names \in Seq(Name)
    /\ l.values \in Seq(Seq(Value))
    /\ \A k \in 1..Len(l.values) : Len(l.values[k]) = Len(l.names)

ASSUME InputsAssumption == \A l \in Inputs : IsLabels(l) /\ new_impl(l)

size(l) == Len(l.names)
count(l) == Len(l.values)

(***************************************************************************)
(* init_positions and get_or_init_positions. A filled cell is returned as  *)
(* it is, never recomputed: only init_positions looks at the values.       *)
(***************************************************************************)
init_positions(values) ==
    [e \in EntrySet(values) |-> CHOOSE p \in 0..(Len(values) - 1) : values[p + 1] = e]

get_or_init_positions(l) ==
    IF l.filled THEN l.positions ELSE init_positions(l.values)

VARIABLES
    op,             \* the running operation, or "none"
    pc,             \* "idle", "loop", "done", "error" (Err), "panic"
    self, other,    \* the two Labels of the call (`other`: the selection)
    i,              \* iterations of the loop already done
    values,         \* entries of the result so far
    positions,      \* union's own positions map
    first_mapping,  \* the caller's array for `self`, <<>> if not asked for
    second_mapping, \* the same for `other`
    selected,       \* select's output array
    n_selected,     \* number of valid positions in `selected`
    last            \* Labels returned by the last successful set operation

vars == <<op, pc, self, other, i, values, positions, first_mapping,
          second_mapping, selected, n_selected, last>>
args == <<op, self, other>>

Init ==
    /\ op = "none" /\ pc = "idle"
    /\ last \in Inputs
    /\ self = last /\ other = last
    /\ i = 0
    /\ values = <<>> /\ positions = NoPositions
    /\ first_mapping = <<>> /\ second_mapping = <<>>
    /\ selected = <<>> /\ n_selected = 0

Filled(n, x) == [k \in 1..n |-> x]

-----------------------------------------------------------------------------
(* Labels::union *)

(***************************************************************************)
(* Every operation starts the same way: `self` and `other` are any labels  *)
(* the caller has, the result of the previous call included.               *)
(***************************************************************************)
Call(o) ==
    /\ pc = "idle"
    /\ op' = o
    /\ self' \in Inputs \cup {last}
    /\ other' \in Inputs \cup {last}
    /\ i' = 0
    /\ UNCHANGED last

Fail(outcome) ==
    /\ pc' = outcome
    /\ values' = <<>> /\ positions' = NoPositions
    /\ first_mapping' = <<>> /\ second_mapping' = <<>>
    /\ selected' = <<>> /\ n_selected' = 0

(* The check that opens union and intersection. *)
EqualNames(l1, l2) == l1.names = l2.names

(***************************************************************************)
(* chunks_exact(0) and `% 0` panic: labels without dimensions can not be   *)
(* iterated, and have no positions.                                        *)
(***************************************************************************)
SetOperationFails ==
    \/ ~EqualNames(self', other') /\ Fail("error")
    \/ EqualNames(self', other') /\ size(self') = 0 /\ Fail("panic")

(***************************************************************************)
(* The start of union: self's positions and values are copied, and self's  *)
(* mapping, when asked for, is the identity.                               *)
(***************************************************************************)
UnionStart ==
    /\ EqualNames(self', other') /\ size(self') # 0
    /\ pc' = "loop"
    /\ positions' = get_or_init_positions(self')
    /\ values' = self'.values
    /\ first_mapping' \in {<<>>, [k \in 1..count(self') |-> k - 1]}
    /\ second_mapping' \in {<<>>, Filled(count(other'), 0)}
    /\ selected' = <<>> /\ n_selected' = 0

CallUnion == Call("union") /\ (UnionStart \/ SetOperationFails)

NewPosition_TooLarge(p) == Cardinality(DOMAIN p) + 1
NewPosition(p) == Cardinality(DOMAIN p)

InsertPosition(p, e) ==
    [x \in DOMAIN p \cup {e} |-> IF x \in DOMAIN p THEN p[x] ELSE NewPosition(p)]

Occupied(p, e) == e \in DOMAIN p

(***************************************************************************)
(* One entry of `other`: an occupied entry gives its position, a vacant    *)
(* one is appended to the values and gets the next position.               *)
(***************************************************************************)
UnionStep ==
    /\ pc = "loop" /\ op = "union" /\ i < count(other)
    /\ LET entry == other.values[i + 1]
       IN  /\ positions' = InsertPosition(positions, entry)
           /\ values' = IF Occupied(positions, entry) THEN values ELSE Append(values, entry)
           /\ second_mapping' =
                  IF second_mapping = <<>> THEN <<>>
                  ELSE [second_mapping EXCEPT ![i + 1] =
                            IF Occupied(positions, entry) THEN positions[entry]
                                                          ELSE NewPosition(positions)]
    /\ i' = i + 1
    /\ UNCHANGED <<args, pc, first_mapping, selected, n_selected, last>>

(* The result of union carries the map it was built with. *)
ResultPositions_OfSelf == get_or_init_positions(self)
ResultPositions == positions
UnionReturn ==
    /\ pc = "loop" /\ op = "union" /\ i = count(other)
    /\ pc' = "done"
    /\ last' = [names |-> self.names, values |-> values,
                filled |-> TRUE, positions |-> ResultPositions]
    /\ UNCHANGED <<args, i, values, positions, first_mapping, second_mapping,
                   selected, n_selected>>

-----------------------------------------------------------------------------
(* Labels::intersection *)

(***************************************************************************)
(* The loop runs over the Labels with the fewest entries (self on a tie),  *)
(* and looks its entries up in the other ones.                             *)
(***************************************************************************)
SelfIsSmaller == count(self) <= count(other)
smaller == IF SelfIsSmaller THEN self ELSE other
larger  == IF SelfIsSmaller THEN other ELSE self

IntersectionMappings_NoFill(first, second) ==
    /\ first_mapping' \in {<<>>, Filled(first, 0)}
    /\ second_mapping' \in {<<>>, Filled(second, 0)}
IntersectionMappings(first, second) ==
    /\ first_mapping' \in {<<>>, Filled(first, -1)}
    /\ second_mapping' \in {<<>>, Filled(second, -1)}

IntersectionStart ==
    /\ EqualNames(self', other') /\ size(self') # 0
    /\ pc' = "loop"
    /\ positions' = NoPositions
    /\ values' = <<>>
    /\ IntersectionMappings(count(self'), count(other'))
    /\ selected' = <<>> /\ n_selected' = 0

CallIntersection == Call("intersection") /\ (IntersectionStart \/ SetOperationFails)

SetMapping(mapping, p, new) ==
    IF mapping = <<>> THEN <<>> ELSE [mapping EXCEPT ![p + 1] = new]

IntersectionStep ==
    /\ pc = "loop" /\ op = "intersection" /\ i < count(smaller)
    /\ LET entry == smaller.values[i + 1]
           found == get_or_init_positions(larger)
           new   == Len(values)
           inSelf  == IF SelfIsSmaller THEN i ELSE found[entry]
           inOther == IF SelfIsSmaller THEN found[entry] ELSE i
       IN  \/ /\ Occupied(found, entry)
              /\ values' = Append(values, entry)
              /\ first_mapping' = SetMapping(first_mapping, inSelf, new)
              /\ second_mapping' = SetMapping(second_mapping, inOther, new)
           \/ /\ ~Occupied(found, entry)
              /\ UNCHANGED <<values, first_mapping, second_mapping>>
    /\ i' = i + 1
    /\ UNCHANGED <<args, pc, positions, selected, n_selected, last>>

(* The result of intersection starts with an empty positions cell. *)
IntersectionReturn ==
    /\ pc = "loop" /\ op = "intersection" /\ i = count(smaller)
    /\ pc' = "done"
    /\ last' = [names |-> self.names, values |-> values,
                filled |-> FALSE, positions |-> NoPositions]
    /\ UNCHANGED <<args, i, values, positions, first_mapping, second_mapping,
                   selected, n_selected>>

-----------------------------------------------------------------------------
(* Labels::select *)

(***************************************************************************)
(* Positions in `self` of the names of the selection: the dimensions to    *)
(* match, in the order of the selection's names.                           *)
(***************************************************************************)
dimensions_to_match ==
    [d \in 1..size(other) |-> CHOOSE k \in 1..size(self) : self.names[k] = other.names[d]]
candidate_SelfOrder(entry) == SubSeq(entry, 1, size(other))
candidate(entry) == [d \in 1..size(other) |-> entry[dimensions_to_match[d]]]

SameNames == self.names = other.names

(* The length of the output array, which is what the caller must provide. *)
SelectedLength_OfSelection(l, selection) == count(selection)
SelectedLength(l, selection) == count(l)

SelectStart ==
    /\ EntrySet(other'.names) \subseteq EntrySet(self'.names)
    /\ ~(self'.names = other'.names /\ size(self') = 0)
    /\ pc' = "loop"
    /\ positions' = NoPositions /\ values' = <<>>
    /\ first_mapping' = <<>> /\ second_mapping' = <<>>
    /\ selected' = Filled(SelectedLength(self', other'), -1) /\ n_selected' = 0

SelectFails ==
    \/ ~(EntrySet(other'.names) \subseteq EntrySet(self'.names)) /\ Fail("error")
    \/ self'.names = other'.names /\ size(self') = 0 /\ Fail("panic")

CallSelect == Call("select") /\ (SelectStart \/ SelectFails)

(* selected[n_selected] = p; an index past the end of `selected` panics *)
Pick(p) ==
    /\ selected' = [selected EXCEPT ![n_selected + 1] = p]
    /\ n_selected' = n_selected + 1
    /\ pc' = IF n_selected < Len(selected) THEN pc ELSE "panic"

Skip == UNCHANGED <<selected, n_selected, pc>>

(***************************************************************************)
(* With the same names the loop is over the selection, and finds positions *)
(* in self. Otherwise it is over self, and looks for each entry, reduced   *)
(* to the dimensions of the selection, in the selection: with a selection  *)
(* of no dimension, its positions can not be initialized and this panics.  *)
(***************************************************************************)
SelectSameNames ==
    /\ SameNames /\ i < count(other)
    /\ LET entry == other.values[i + 1]
           found == get_or_init_positions(self)
       IN  \/ Occupied(found, entry) /\ Pick(found[entry])
           \/ ~Occupied(found, entry) /\ Skip

SelectOtherNames ==
    /\ ~SameNames /\ size(other) # 0 /\ i < count(self)
    /\ LET wanted == get_or_init_positions(other)
       IN  \/ Occupied(wanted, candidate(self.values[i + 1])) /\ Pick(i)
           \/ ~Occupied(wanted, candidate(self.values[i + 1])) /\ Skip

SelectNoDimension ==
    /\ ~SameNames /\ size(other) = 0 /\ i < count(self)
    /\ pc' = "panic"
    /\ UNCHANGED <<selected, n_selected>>

SelectStep ==
    /\ pc = "loop" /\ op = "select"
    /\ SelectSameNames \/ SelectOtherNames \/ SelectNoDimension
    /\ i' = i + 1
    /\ UNCHANGED <<args, values, positions, first_mapping, second_mapping, last>>

SelectReturn ==
    /\ pc = "loop" /\ op = "select"
    /\ i = IF SameNames THEN count(other) ELSE count(self)
    /\ pc' = "done"
    /\ UNCHANGED <<args, i, values, positions, first_mapping, second_mapping,
                   selected, n_selected, last>>

-----------------------------------------------------------------------------
(* The caller is done with the outcome of the call. *)
Finish ==
    /\ pc \in {"done", "error", "panic"}
    /\ op' = "none" /\ pc' = "idle"
    /\ self' = last /\ other' = last
    /\ i' = 0
    /\ values' = <<>> /\ positions' = NoPositions
    /\ first_mapping' = <<>> /\ second_mapping' = <<>>
    /\ selected' = <<>> /\ n_selected' = 0
    /\ UNCHANGED last

Next ==
    \/ CallUnion \/ UnionStep \/ UnionReturn
    \/ CallIntersection \/ IntersectionStep \/ IntersectionReturn
    \/ CallSelect \/ SelectStep \/ SelectReturn
    \/ Finish

Spec == Init /\ [][Next]_vars

-----------------------------------------------------------------------------
(* Properties *)

(* The k-th of the entries is where its mapping says it is in the result. *)
MapsTo(mapping, entries, result) ==
    mapping # <<>> =>
        /\ Len(mapping) = Len(entries)
        /\ \A k \in 1..Len(entries) :
              /\ mapping[k] \in 0..(Len(result) - 1)
              /\ result[mapping[k] + 1] = entries[k]

(* As above, and the entries absent from the result are mapped to -1. *)
MapsToOrMissing(mapping, entries, result) ==
    mapping # <<>> =>
        /\ Len(mapping) = Len(entries)
        /\ \A k \in 1..Len(entries) :
              IF entries[k] \in EntrySet(result)
              THEN mapping[k] \in 0..(Len(result) - 1) /\ result[mapping[k] + 1] = entries[k]
              ELSE mapping[k] = -1

(* Operations, their locals and their results stay in the ranges that the code gives them. *)
TypeOK ==
    /\ op \in {"none", "union", "intersection", "select"}
    /\ pc \in {"idle", "loop", "done", "error", "panic"}
    /\ IsLabels(self) /\ IsLabels(other) /\ IsLabels(last)
    /\ i \in Nat
    /\ values \in Seq(Seq(Value))
    /\ first_mapping \in Seq(Int) /\ second_mapping \in Seq(Int)
    /\ selected \in Seq(Int) /\ n_selected \in Nat

(***************************************************************************)
(* A finished union holds the entries of both inputs, each exactly once,   *)
(* starts with the entries of the first one in their order, and both       *)
(* mappings send every input entry to its place in the result.             *)
(***************************************************************************)
UnionCorrect ==
    pc = "done" /\ op = "union" =>
        /\ EntrySet(values) = EntrySet(self.values) \cup EntrySet(other.values)
        /\ Distinct(values)
        /\ \A k \in 1..count(self) : values[k] = self.values[k]
        /\ MapsTo(first_mapping, self.values, values)
        /\ MapsTo(second_mapping, other.values, values)

(***************************************************************************)
(* A finished intersection holds the common entries, each exactly once,    *)
(* whichever of the two inputs the loop went over, and the mappings send   *)
(* the common entries to their place and the others to -1.                 *)
(***************************************************************************)
IntersectionCorrect ==
    pc = "done" /\ op = "intersection" =>
        /\ EntrySet(values) = EntrySet(self.values) \cap EntrySet(other.values)
        /\ Distinct(values)
        /\ MapsToOrMissing(first_mapping, self.values, values)
        /\ MapsToOrMissing(second_mapping, other.values, values)

(* An entry of self agrees with an entry of the selection on every name of the selection. *)
Matches(entry, wanted) ==
    \A d \in 1..size(other), k \in 1..size(self) :
        other.names[d] = self.names[k] => wanted[d] = entry[k]

(***************************************************************************)
(* A finished select has listed the position of every entry of self that   *)
(* matches an entry of the selection, and of no other entry, once each,    *)
(* and left -1 in the rest of the array.                                   *)
(***************************************************************************)
SelectCorrect ==
    pc = "done" /\ op = "select" =>
        /\ n_selected \in 0..Len(selected)
        /\ {selected[k] : k \in 1..n_selected} =
              {p \in 0..(count(self) - 1) :
                  \E e \in EntrySet(other.values) : Matches(self.values[p + 1], e)}
        /\ Distinct(SubSeq(selected, 1, n_selected))
        /\ \A k \in (n_selected + 1)..Len(selected) : selected[k] = -1

(***************************************************************************)
(* select only panics on labels without dimensions: its output array,      *)
(* sized for the entries of self, is never too short for the entries of    *)
(* the selection that are found.                                           *)
(***************************************************************************)
SelectNeverOverflows ==
    pc = "panic" /\ op = "select" => size(other) = 0

(***************************************************************************)
(* Labels that are returned to the caller are valid for all later calls:   *)
(* entries are unique although no constructor checked them, and a          *)
(* positions map that came with the result is the one init_positions would *)
(* compute, so that lookups in the result find what is in its values.      *)
(***************************************************************************)
ResultsAreLabels ==
    /\ Distinct(last.values)
    /\ last.filled => last.positions = init_positions(last.values)

=============================================================================
