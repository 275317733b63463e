------------------------------- MODULE Slicing -------------------------------
(***************************************************************************)
(* The operations that keep a part of a tensor map (metatensor_operations: *)
(* slice.py, split.py, filter_blocks.py, drop_blocks.py,                   *)
(* remove_gradients.py), as functions from tensor maps to tensor maps or   *)
(* to the exception that is raised. A selection is a list of indexes or    *)
(* an array ("list"), or Labels ("labels").                                *)
(***************************************************************************)
EXTENDS TensorData

AxisLabels(b, axis) == IF axis = "samples" THEN b.samples ELSE b.properties

(* The positions to keep, in the order of the selection. *)
selected(b, axis, selection) ==
    LET l == AxisLabels(b, axis)
    IN  IF selection.kind = "labels" THEN select(l, selection.labels)
        ELSE [k \in 1..Len(selection.indices) |-> selection.indices[k] + 1]

(***************************************************************************)
(* _slice_block along the samples: the rows come in the order of the       *)
(* selection. The rows of a gradient whose sample is kept stay in their    *)
(* order, and refer to the new place of their sample.                      *)
(***************************************************************************)
sample_map(sel, old) == (CHOOSE k \in 1..Len(sel) : sel[k] = old) - 1

renumber_Untouched(e, sel) == e
renumber(e, sel) == [e EXCEPT ![1] = sample_map(sel, e[1] + 1)]

slice_gradient_samples(g, properties, sel) ==
    LET kept == SelectSeq(Positions(g.samples), LAMBDA i : g.samples.values[i][1] + 1 \in ToSet(sel))
        samples == Labels(g.samples.names,
                          [k \in 1..Len(kept) |-> renumber(g.samples.values[kept[k]], sel)])
    IN  [g EXCEPT !.samples = samples,
                  !.values = take(g.values, kept, Positions(g.components), Positions(properties))]

slice_samples(b, sel) ==
    LET samples == At(b.samples, sel)
    IN  IF Failed(samples) THEN samples
        ELSE IF AnyNested(b, DOMAIN b.gradients) THEN Raise("NotImplementedError")
        ELSE TensorBlock([b EXCEPT
                 !.samples = samples,
                 !.values = take(b.values, sel, Positions(b.components), Positions(b.properties)),
                 !.gradients = [p \in DOMAIN @ |-> slice_gradient_samples(@[p], b.properties, sel)]])

(* _slice_block along the properties: a mask, so the columns keep their order. *)
slice_properties(b, sel) ==
    LET kept == SelectSeq(Positions(b.properties), LAMBDA i : i \in ToSet(sel))
        columns(g) == take(g.values, Positions(g.samples), Positions(g.components), kept)
    IN  IF AnyNested(b, DOMAIN b.gradients) THEN Raise("NotImplementedError")
        ELSE TensorBlock([b EXCEPT
                 !.properties = At(b.properties, kept),
                 !.values = columns(b),
                 !.gradients = [p \in DOMAIN @ |-> [@[p] EXCEPT !.values = columns(b.gradients[p])]]])

_slice_block(b, axis, selection) ==
    LET sel == selected(b, axis, selection)
    IN  IF \E i \in ToSet(sel) : i > count(AxisLabels(b, axis)) THEN Raise("IndexError")
        ELSE IF axis = "samples" THEN slice_samples(b, sel)
        ELSE slice_properties(b, sel)

check_slice_args(b, axis, selection) ==
    /\ axis \in {"samples", "properties"}
    /\ selection.kind = "labels" => CanSelect(AxisLabels(b, axis), selection.labels)

slice(t, axis, selection) ==
    IF t.blocks = <<>> THEN Raise("IndexError")
    ELSE IF ~check_slice_args(t.blocks[1], axis, selection) THEN Raise("ValueError")
    ELSE TensorMapOf(t.keys, [k \in 1..Len(t.blocks) |-> _slice_block(t.blocks[k], axis, selection)])

slice_block(b, axis, selection) ==
    IF ~check_slice_args(b, axis, selection) THEN Raise("ValueError")
    ELSE _slice_block(b, axis, selection)

-----------------------------------------------------------------------------
(* split.py: a slice for each of the selections *)

split_block_(b, axis, selections) ==
    [s \in 1..Len(selections) |-> _slice_block(b, axis, selections[s])]

check_split_args(b, axis, selections) ==
    /\ axis \in {"samples", "properties"}
    /\ \A s \in ToSet(selections) : check_slice_args(b, axis, s)

split(t, axis, selections) ==
    IF t.blocks = <<>> THEN Raise("IndexError")
    ELSE IF ~check_split_args(t.blocks[1], axis, selections) THEN Raise("ValueError")
    ELSE LET all == [k \in 1..Len(t.blocks) |-> split_block_(t.blocks[k], axis, selections)]
             parts == [s \in 1..Len(selections) |->
                          TensorMapOf(t.keys, [k \in 1..Len(t.blocks) |-> all[k][s]])]
         IN  IF \E s \in 1..Len(parts) : Failed(parts[s]) THEN SelectSeq(parts, Failed)[1]
             ELSE [parts |-> parts]

split_block(b, axis, selections) ==
    IF ~check_split_args(b, axis, selections) THEN Raise("ValueError")
    ELSE LET parts == split_block_(b, axis, selections)
         IN  IF \E s \in 1..Len(parts) : Failed(parts[s]) THEN SelectSeq(parts, Failed)[1]
             ELSE [parts |-> parts]

-----------------------------------------------------------------------------
(* Whole blocks and whole gradients *)

CopyBlock(b, copy) ==
    IF ~copy /\ AnyNested(b, DOMAIN b.gradients) THEN Raise("NotImplementedError") ELSE b

BlocksAt(t, kept, copy) ==
    TensorMapOf(At(t.keys, kept), [k \in 1..Len(kept) |-> CopyBlock(t.blocks[kept[k]], copy)])

filter_blocks(t, keys, copy) ==
    IF ~CanSelect(t.keys, keys) THEN Raise("MetatensorError")
    ELSE BlocksAt(t, SelectSeq(Positions(t.keys), LAMBDA i : i \in ToSet(select(t.keys, keys))), copy)

drop_blocks(t, keys, copy) ==
    IF ~CanSelect(t.keys, keys) THEN Raise("MetatensorError")
    ELSE BlocksAt(t, SelectSeq(Positions(t.keys), LAMBDA i : i \notin ToSet(select(t.keys, keys))), copy)

remove_gradients_block(b, parameters) ==
    LET kept == DOMAIN b.gradients \ parameters
    IN  IF AnyNested(b, kept) THEN Raise("NotImplementedError")
        ELSE [b EXCEPT !.gradients = [p \in kept |-> @[p]]]

(* Without a list, the gradients of the first block, which are those of all blocks. *)
remove_gradients(t, request) ==
    LET default == IF t.blocks = <<>> THEN {} ELSE DOMAIN t.blocks[1].gradients
        r == IF request.given THEN request.parameters ELSE default
    IN  TensorMapOf(t.keys, [k \in 1..Len(t.blocks) |-> remove_gradients_block(t.blocks[k], r)])
=============================================================================
