--------------------------------- MODULE Join ---------------------------------
(***************************************************************************)
(* join (metatensor_operations/join.py): several tensor maps are put into  *)
(* one, with a new dimension "tensor" of the keys, which is then moved to  *)
(* the samples or to the properties by the library (MoveKeys, step by      *)
(* step), and taken away if the labels are different without it.           *)
(***************************************************************************)
EXTENDS MoveKeys, Metadata, Reordering

CONSTANTS
    Joins       \* the arguments: [tensors, axis, different_keys, sort_samples, remove_tensor_name]

VARIABLES
    args,       \* the arguments
    tensors,    \* the tensor maps, once they have the same keys
    returned    \* what was returned or raised

join_vars == <<args, tensors, returned>>
all_vars == <<vars, join_vars>>

NotYet == [error |-> "running"]
NoCall == [keys |-> Labels(<<>>, <<>>), blocks |-> <<>>, sort_samples |-> FALSE]

JoinInit ==
    /\ args \in Joins
    /\ tensors = args.tensors /\ returned = NotYet
    /\ call = NoCall /\ pc = "join" /\ new_blocks = <<>> /\ j = 1 /\ new_block = NoBlock
    /\ assertion = TRUE

-----------------------------------------------------------------------------
(* Tensor maps with the same keys *)

FoldKeys(ts, F(_, _)) ==
    FoldLeft(LAMBDA acc, t : IF Failed(acc) THEN acc ELSE F(acc, t.keys), ts[1].keys, Tail(ts))

tensors_intersection_ByPosition(ts) ==
    LET all_keys == FoldKeys(ts, intersection)
    IN  IF Failed(all_keys) THEN all_keys
        ELSE [tensors |-> [n \in 1..Len(ts) |->
                 [keys |-> all_keys,
                  blocks |-> [k \in 1..count(all_keys) |-> ts[n].blocks[k]]]]]
tensors_intersection(ts) ==
    LET all_keys == FoldKeys(ts, intersection)
    IN  IF Failed(all_keys) THEN all_keys
        ELSE [tensors |-> [n \in 1..Len(ts) |->
                 [keys |-> all_keys,
                  blocks |-> [k \in 1..count(all_keys) |-> block(ts[n], all_keys.values[k])]]]]

(* A block for a missing key: without samples, or without properties; the rest from the first block with that key. *)
empty_block(reference, axis) ==
    LET none(l) == Labels(l.names, <<>>)
        samples(l) == IF axis = "samples" THEN none(l) ELSE l
        properties == IF axis = "samples" THEN reference.properties ELSE none(reference.properties)
        array(l, components) == Array(samples(l), components, properties, Zero)
    IN  IF AnyNested(reference, DOMAIN reference.gradients) THEN Raise("NotImplementedError")
        ELSE [reference EXCEPT
                 !.samples = samples(@), !.properties = properties,
                 !.values = array(reference.samples, reference.components),
                 !.gradients = [p \in DOMAIN @ |-> [@[p] EXCEPT
                     !.samples = samples(@), !.values = array(reference.gradients[p].samples, reference.gradients[p].components)]]]

reference_block(ts, e) ==
    LET n == CHOOSE n \in 1..Len(ts) : contains(ts[n].keys, e)
                /\ \A k \in 1..(n - 1) : ~contains(ts[k].keys, e)
    IN  block(ts[n], e)

AddMissing(t, ts, all_keys, axis) ==
    LET missing == SelectSeq(all_keys.values, LAMBDA e : ~contains(t.keys, e))
    IN  TensorMapOf(union(t.keys, Labels(t.keys.names, missing)),
            t.blocks \o [k \in 1..Len(missing) |-> empty_block(reference_block(ts, missing[k]), axis)])

tensors_union(ts, axis) ==
    LET all_keys == FoldKeys(ts, union)
        new == [n \in 1..Len(ts) |-> AddMissing(ts[n], ts, all_keys, axis)]
    IN  IF Failed(all_keys) THEN all_keys
        ELSE IF \E n \in 1..Len(new) : Failed(new[n]) THEN SelectSeq(new, Failed)[1]
        ELSE [tensors |-> new]

SameKeys ==
    LET ts == args.tensors
    IN  CASE args.different_keys = "error" ->
                IF \E n \in 2..Len(ts) : check_same_keys_impl(ts[1], ts[n]) # "" THEN Raise("NotEqualError")
                ELSE [tensors |-> ts]
          [] args.different_keys = "intersection" -> tensors_intersection(ts)
          [] args.different_keys = "union" -> tensors_union(ts, args.axis)
          [] OTHER -> Raise("ValueError")

-----------------------------------------------------------------------------
(* The names are the same when all the tensor maps have as many as there are different ones. *)
NamesOf(t, axis) ==
    IF t.blocks = <<>> THEN <<>>
    ELSE IF axis = "samples" THEN t.blocks[1].samples.names ELSE t.blocks[1].properties.names

names_are_same(ts, axis) ==
    LET unique_names == UNION {ToSet(NamesOf(ts[n], axis)) : n \in 1..Len(ts)}
    IN  \A n \in 1..Len(ts) : Len(NamesOf(ts[n], axis)) = Cardinality(unique_names)

(* All the blocks, with the number of their tensor map in the keys; properties with other names are numbered. *)
tensor_keys(ts) ==
    Concat([n \in 1..Len(ts) |-> [k \in 1..count(ts[n].keys) |-> <<n - 1>> \o ts[n].keys.values[k]]])

NumberProperties(b, same) ==
    IF AnyNested(b, DOMAIN b.gradients) THEN Raise("NotImplementedError")
    ELSE IF same THEN b ELSE [b EXCEPT !.properties = range("property", count(@))]

stacked(ts, axis) ==
    LET keys == NewLabels(<<"tensor">> \o ts[1].keys.names, tensor_keys(ts))
        blocks == Concat([n \in 1..Len(ts) |-> ts[n].blocks])
        same == names_are_same(ts, axis)
    IN  IF axis = "samples" /\ ~same THEN Raise("ValueError")
        ELSE IF Failed(keys) THEN keys
        ELSE TensorMapOf(keys, [k \in 1..Len(blocks) |-> NumberProperties(blocks[k], same)])

Return(result) == returned' = result /\ pc' = "returned" /\ UNCHANGED <<args, call, new_blocks, j, new_block, assertion>>

(* join, up to tensor maps with the same keys, *)
CallJoin ==
    /\ pc = "join"
    /\ IF Len(args.tensors) < 1 \/ args.axis \notin {"samples", "properties"}
       THEN Return(Raise("ValueError")) /\ UNCHANGED tensors
       ELSE IF Len(args.tensors) = 1 THEN Return(args.tensors[1]) /\ UNCHANGED tensors
       ELSE \E same \in {SameKeys} :
            IF Failed(same) THEN Return(same) /\ UNCHANGED tensors
            ELSE /\ tensors' = same.tensors /\ pc' = "stack"
                 /\ UNCHANGED <<args, returned, call, new_blocks, j, new_block, assertion>>

(* up to the call of keys_to_samples or keys_to_properties, *)
Stack ==
    /\ pc = "stack"
    /\ \E tensor \in {stacked(tensors, args.axis)} :
          IF Failed(tensor) THEN Return(tensor) /\ UNCHANGED tensors
          ELSE /\ call' = tensor @@ [op |-> args.axis, keys_to_move |-> Labels(<<"tensor">>, <<>>),
                                     sort_samples |-> args.sort_samples]
               /\ pc' = "start"
               /\ UNCHANGED <<args, returned, tensors, new_blocks, j, new_block, assertion>>

(* its steps, *)
Move == Next /\ UNCHANGED join_vars

(* and what is done with its result. The search ends at the first blocks whose labels overlap, or can not be *)
(* compared because they have other names. *)
disjoint_tensor_labels(ts, axis) ==
    LET l(n, e) == IF axis = "samples" THEN block(ts[n], e).samples ELSE block(ts[n], e).properties
        common(m, n) == [k \in 1..count(ts[m].keys) |-> LET e == ts[m].keys.values[k] IN intersection(l(m, e), l(n, e))]
        all == Concat([m \in 1..(Len(ts) - 1) |-> Concat([n \in 1..(Len(ts) - m) |-> common(m, m + n)])])
        found == SelectSeq(all, LAMBDA c : Failed(c) \/ ~is_empty(c))
    IN  IF found = <<>> THEN [bool |-> TRUE]
        ELSE IF Failed(found[1]) THEN Raise("MetatensorError") ELSE [bool |-> FALSE]

PlainBlock(b) ==
    [samples |-> b.samples, components |-> b.components, properties |-> b.properties,
     values |-> b.values, gradients |-> b.gradients]

FinishJoin ==
    LET joined == [keys |-> splitted_keys, blocks |-> [k \in 1..Len(new_blocks) |-> PlainBlock(new_blocks[k])]]
        disjoint == disjoint_tensor_labels(tensors, args.axis)
    IN  /\ pc \in {"done", "error", "panic"} /\ returned = NotYet
        /\ UNCHANGED <<vars, args, tensors>>
        /\ returned' =
              IF pc # "done" THEN Raise("MetatensorError")
              ELSE IF ~args.remove_tensor_name THEN joined
              ELSE IF Failed(disjoint) THEN disjoint
              ELSE IF disjoint.bool THEN remove_dimension(joined, args.axis, "tensor")
              ELSE joined

Finished == returned # NotYet /\ UNCHANGED all_vars

JoinNext ==
    \/ CallJoin \/ Stack
    \/ (pc \notin {"join", "stack", "returned", "done", "error", "panic"} /\ Move)
    \/ FinishJoin \/ Finished

JoinSpec == JoinInit /\ [][JoinNext]_all_vars

-----------------------------------------------------------------------------
(* Properties *)

Joined == returned # NotYet /\ ~Failed(returned) /\ Len(args.tensors) > 1

(* What is returned is a tensor map its constructors accept, made of labels with unique entries. *)
JoinReturnsAMap ==
    Joined =>
        /\ TensorMap_allowed(returned.keys, returned.blocks) /\ IsInjective(returned.keys.values)
        /\ \A b \in ToSet(returned.blocks) :
              TensorBlock_allowed(b) /\ IsInjective(b.samples.values) /\ IsInjective(b.properties.values)

(***************************************************************************)
(* Each number of each tensor map is in the result, with all its labels    *)
(* and the number of its tensor map, unless that was taken away; and there *)
(* is nothing else but zeros. Of keys that are not in all the tensor maps  *)
(* only with different_keys "union". When the names of properties differ,  *)
(* the number of a property is what is left of them.                       *)
(***************************************************************************)
HasTensorName ==
    "tensor" \in UNION {ToSet(b.samples.names) \cup ToSet(b.properties.names) : b \in ToSet(returned.blocks)}

SaidOf(n) ==
    LET t == args.tensors[n]
        same == \A a, b \in UNION {ToSet(args.tensors[m].blocks) : m \in 1..Len(args.tensors)} : a.properties.names = b.properties.names
        kept == {k \in 1..count(t.keys) : args.different_keys # "intersection" \/
                    \A m \in 1..Len(args.tensors) : contains(args.tensors[m].keys, t.keys.values[k])}
        tensor_name == IF HasTensorName THEN {<<"tensor", n - 1>>} ELSE {}
    IN  UNION {BlockFacts(Named(t.keys, t.keys.values[k]) \cup tensor_name, NumberProperties(t.blocks[k], same)) : k \in kept}

JoinKeepsMeaning ==
    Joined => NonZero(Facts(returned.keys, returned.blocks)) = UNION {SaidOf(n) : n \in 1..Len(args.tensors)}

(* "whether to sort the samples of the merged tensors", also once the name of the tensor is taken away. *)
JoinSortsSamples ==
    Joined /\ args.sort_samples => \A b \in ToSet(returned.blocks) : Sorted(b.samples.values)

(***************************************************************************)
(* The parts of a tensor map that are disjoint along an axis and have the  *)
(* same keys are joined to it again.                                       *)
(***************************************************************************)
DisjointParts ==
    \A m, n \in 1..Len(args.tensors) : m # n => \A e \in Entries(args.tensors[1].keys) :
        LET l(t) == IF args.axis = "samples" THEN block(t, e).samples ELSE block(t, e).properties
        IN  Entries(l(args.tensors[m])) \cap Entries(l(args.tensors[n])) = {}

TensorNameIsRemoved ==
    Joined /\ args.remove_tensor_name /\ args.different_keys = "error" => (HasTensorName <=> ~DisjointParts)
=============================================================================
