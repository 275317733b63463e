------------------------------ MODULE Reordering ------------------------------
(***************************************************************************)
(* The operations that keep all the numbers of a tensor map and change     *)
(* their order or the dimensions of their labels (metatensor_operations:   *)
(* sort.py, manipulate_dimension.py), and the ones that make a tensor map  *)
(* with the labels of another one (zeros_like.py and the like). Arrays are *)
(* numpy arrays.                                                           *)
(***************************************************************************)
EXTENDS TensorData

(* zeros_like_block and the others: the labels, without the numbers. *)
like_block(b, gradients, fill) ==
    LET parameters == IF gradients.given THEN gradients.parameters ELSE DOMAIN b.gradients
    IN  IF ~(parameters \subseteq DOMAIN b.gradients) THEN Raise("ValueError")
        ELSE IF AnyNested(b, parameters) THEN Raise("NotImplementedError")
        ELSE [b EXCEPT !.values = [ix \in DOMAIN @ |-> fill],
                       !.gradients = [p \in parameters |->
                           [@[p] EXCEPT !.values = [ix \in DOMAIN @ |-> fill]]]]

zeros_like_block(b, gradients) == like_block(b, gradients, 0)
ones_like_block(b, gradients) == like_block(b, gradients, 1)
empty_like_block(b, gradients, unknown) == like_block(b, gradients, unknown)
random_uniform_like_block(b, gradients, random) == like_block(b, gradients, random)

like(t, gradients, fill) ==
    TensorMapOf(t.keys, [k \in 1..Len(t.blocks) |-> like_block(t.blocks[k], gradients, fill)])

zeros_like(t, gradients) == like(t, gradients, 0)
ones_like(t, gradients) == like(t, gradients, 1)
empty_like(t, gradients, unknown) == like(t, gradients, unknown)
random_uniform_like(t, gradients, random) == like(t, gradients, random)

-----------------------------------------------------------------------------
(* sort.py *)

sort_list_Ascending(data, reverse) == SortSeq(data, Before)
sort_list(data, reverse) ==
    LET sorted == SortSeq(data, Before) IN IF reverse THEN Reverse(sorted) ELSE sorted

(* The positions of the entries in order. The number of an entry is at its end when it is sorted. *)
argsort_labels_values(values, reverse) ==
    LET data == sort_list([i \in 1..Len(values) |-> Append(values[i], i)], reverse)
    IN  [k \in 1..Len(data) |-> Last(data[k])]

(* The array of the positions has no second axis to take the last column of. *)
argsort_fails(values) == values = <<>>

Order(l, axis, axes, descending) ==
    IF axis \in axes THEN argsort_labels_values(l.values, descending) ELSE Positions(l)

(* Where the samples of the block go: the place of an old sample in the sorted ones. *)
sorted_idx_inverse(sorted_idx, old) == CHOOSE k \in 1..Len(sorted_idx) : sorted_idx[k] = old

moved_gradient_samples(b, g, axes, descending) ==
    LET sorted_idx == argsort_labels_values(b.samples.values, descending)
    IN  IF "samples" \notin axes THEN g.samples
        ELSE Labels(g.samples.names, [i \in 1..count(g.samples) |->
                 [g.samples.values[i] EXCEPT ![1] = sorted_idx_inverse(sorted_idx, @ + 1) - 1]])

(* The rows, components and columns of a block or of a gradient, in their new order. *)
SortAxes(g, samples, properties, axes, descending) ==
    LET rows == Order(samples, "samples", axes, descending)
        components == Order(g.components, "components", axes, descending)
        columns == Order(properties, "properties", axes, descending)
    IN  [g EXCEPT !.samples = At(samples, rows), !.components = At(g.components, components),
                  !.values = take(g.values, rows, components, columns)]

SortFails(g, properties, axes) ==
    \/ "samples" \in axes /\ argsort_fails(g.samples.values)
    \/ "properties" \in axes /\ argsort_fails(properties.values)

sort_single_gradient_block(b, g, axes, descending) ==
    IF ("samples" \in axes /\ argsort_fails(b.samples.values)) \/ SortFails(g, b.properties, axes)
    THEN Raise("IndexError")
    ELSE SortAxes(g, moved_gradient_samples(b, g, axes, descending), b.properties, axes, descending)

(* A block without samples is not sorted at all, and comes with its gradients. *)
sort_single_block(b, axes, descending) ==
    IF is_empty(b.samples) THEN zeros_like_block(b, [given |-> FALSE])
    ELSE IF SortFails(b, b.properties, axes) THEN Raise("IndexError")
    ELSE [SortAxes(Ungraded(b), b.samples, b.properties, axes, descending)
             EXCEPT !.properties = At(@, Order(@, "properties", axes, descending))]

(* The gradients are added one by one, which a block that has them already refuses. *)
sort_block_(b, axes, descending) ==
    LET result == sort_single_block(b, axes, descending)
        gradients == [p \in DOMAIN b.gradients |->
                         sort_single_gradient_block(b, b.gradients[p], axes, descending)]
    IN  IF ~(axes \subseteq {"samples", "components", "properties"}) THEN Raise("ValueError")
        ELSE IF Failed(result) THEN result
        ELSE IF AnyNested(b, DOMAIN b.gradients) THEN Raise("NotImplementedError")
        ELSE IF \E p \in DOMAIN gradients : Failed(gradients[p]) THEN Raise("IndexError")
        ELSE IF DOMAIN gradients \cap DOMAIN result.gradients # {} THEN Raise("MetatensorError")
        ELSE TensorBlock([result EXCEPT !.gradients = gradients])

sort_block(b, axes, descending) ==
    sort_block_(b, IF axes = {"all"} THEN {"samples", "components", "properties"} ELSE axes, descending)

sort(t, axes, descending) ==
    LET sort_keys == axes = {"all"} \/ "keys" \in axes
        axes_list == IF axes = {"all"} THEN axes ELSE axes \ {"keys"}
        order == IF sort_keys THEN argsort_labels_values(t.keys.values, descending)
                 ELSE Positions(t.keys)
    IN  IF sort_keys /\ argsort_fails(t.keys.values) THEN Raise("IndexError")
        ELSE TensorMapOf(At(t.keys, order),
                 [k \in 1..Len(order) |-> sort_block(t.blocks[order[k]], axes_list, descending)])

-----------------------------------------------------------------------------
(***************************************************************************)
(* manipulate_dimension.py: F changes the labels of one axis. Gradients    *)
(* get the properties of the block, keep their samples, and lose their own *)
(* gradients, if any.                                                      *)
(***************************************************************************)
Axis == {"keys", "samples", "components", "properties"}

WithLabels(b, samples, components, properties) ==
    IF Failed(samples) THEN samples
    ELSE IF Failed(properties) THEN properties
    ELSE TensorBlock([b EXCEPT
             !.samples = samples, !.components = components, !.properties = properties,
             !.gradients = [p \in DOMAIN @ |-> [@[p] EXCEPT !.nested = FALSE]]])

ChangeAxis(t, axis, F(_)) ==
    LET keys == IF axis = "keys" THEN F(t.keys) ELSE t.keys
        changed(b) == WithLabels(b, IF axis = "samples" THEN F(b.samples) ELSE b.samples,
                                    b.components,
                                    IF axis = "properties" THEN F(b.properties) ELSE b.properties)
    IN  IF axis \notin Axis THEN Raise("ValueError")
        ELSE IF Failed(keys) THEN keys
        ELSE TensorMapOf(keys, [k \in 1..Len(t.blocks) |-> changed(t.blocks[k])])

(* An integer stands for an array, made by concatenating copies of it: at least one. *)
InsertValue(l, index, name, values) ==
    IF values.int
    THEN IF is_empty(l) THEN Raise("IndexError")
         ELSE insert(l, index, name, [i \in 1..count(l) |-> values.value])
    ELSE insert(l, index, name, values.array)

insert_dimension(t, axis, index, name, values) ==
    ChangeAxis(t, axis, LAMBDA l : InsertValue(l, index, name, values))

AxisNames(b, axis) == IF axis = "samples" THEN b.samples.names ELSE b.properties.names

append_dimension(t, axis, name, values) ==
    LET names == CASE axis = "keys" -> t.keys.names
                   [] t.blocks = <<>> -> <<>>
                   [] OTHER -> AxisNames(t.blocks[1], axis)
    IN  IF axis \notin Axis \ {"components"} THEN Raise("ValueError")
        ELSE insert_dimension(t, axis, Len(names), name, values)

permute_dimensions(t, axis, dimensions_indexes) ==
    ChangeAxis(t, axis, LAMBDA l : permute(l, dimensions_indexes))

remove_dimension(t, axis, name) == ChangeAxis(t, axis, LAMBDA l : remove(l, name))

(***************************************************************************)
(* rename_dimension also renames the components, and the dimensions of the *)
(* samples of gradients with the old name.                                 *)
(***************************************************************************)
RenameIn(l, old, new) == IF old \in ToSet(l.names) THEN rename(l, old, new) ELSE l

RenameGradient(g, axis, old, new) ==
    [g EXCEPT !.samples = IF axis = "samples" THEN RenameIn(@, old, new) ELSE @,
              !.components = IF axis = "components" THEN RenameIn(@, old, new) ELSE @]

RenameBlock(b, axis, old, new) ==
    LET gradients == [p \in DOMAIN b.gradients |-> RenameGradient(b.gradients[p], axis, old, new)]
        samples == IF axis = "samples" THEN rename(b.samples, old, new) ELSE b.samples
        properties == IF axis = "properties" THEN rename(b.properties, old, new) ELSE b.properties
        components == IF axis = "components" THEN RenameIn(b.components, old, new) ELSE b.components
    IN  IF ~Failed(samples) /\ \E p \in DOMAIN gradients : Failed(gradients[p].samples)
        THEN Raise("MetatensorError")
        ELSE WithLabels([b EXCEPT !.gradients = gradients], samples, components, properties)

rename_dimension(t, axis, old, new) ==
    LET keys == IF axis = "keys" THEN rename(t.keys, old, new) ELSE t.keys
    IN  IF axis \notin Axis THEN Raise("ValueError")
        ELSE IF Failed(keys) THEN keys
        ELSE TensorMapOf(keys, [k \in 1..Len(t.blocks) |-> RenameBlock(t.blocks[k], axis, old, new)])
=============================================================================
