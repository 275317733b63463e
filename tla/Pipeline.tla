------------------------------- MODULE Pipeline -------------------------------
(***************************************************************************)
(* A program that applies one operation after the other to a tensor map,   *)
(* as the ones that use metatensor-operations do: each call gets what the  *)
(* last one that succeeded returned. A call that raises changes nothing.   *)
(***************************************************************************)
EXTENDS Slicing, Reordering, Metadata

CONSTANTS
    Tensors,        \* the tensor maps to start from
    Selections,     \* arguments of slice: [axis, selection]
    Splits,         \* arguments of split: [axis, selections]
    KeySelections,  \* arguments of filter_blocks and drop_blocks
    Gradients,      \* arguments of remove_gradients and zeros_like
    AxesToSort,     \* arguments of sort
    Dimensions,     \* arguments of the functions that change dimensions
    Queries,        \* arguments of unique_metadata
    MaxCalls        \* bound: the calls

VARIABLES
    tensor,     \* the tensor map
    last,       \* the last call, with the tensor map it got and what it returned
    calls,      \* how many calls there were
    axes        \* a list of axes that the program uses for several calls to sort

vars == <<tensor, last, calls, axes>>

Init ==
    /\ tensor \in Tensors
    /\ last = [op |-> "none", before |-> tensor, result |-> tensor]
    /\ calls = 0
    /\ axes = {"keys", "samples"}

Call(op, args, result) ==
    /\ calls < MaxCalls /\ calls' = calls + 1
    /\ last' = [op |-> op, args |-> args, before |-> tensor, result |-> result]

Return(op, args, result) ==
    /\ Call(op, args, result)
    /\ tensor' = IF Failed(result) THEN tensor ELSE result
    /\ UNCHANGED axes

(* A program can also call the functions for blocks, on each of the blocks. *)
ByBlock(F(_)) == TensorMapOf(tensor.keys, [k \in 1..Len(tensor.blocks) |-> F(tensor.blocks[k])])

Slice == \E s \in Selections :
    \/ Return("slice", s, slice(tensor, s.axis, s.selection))
    \/ Return("slice", s, ByBlock(LAMBDA b : slice_block(b, s.axis, s.selection)))

(* The program goes on with one of the parts, *)
Split ==
    \E s \in Splits : LET result == split(tensor, s.axis, s.selections) IN
        /\ Call("split", s, result)
        /\ IF Failed(result) THEN tensor' = tensor ELSE tensor' \in ToSet(result.parts)
        /\ UNCHANGED axes

(* or with one of the parts of each of the blocks. *)
SplitBlocks ==
    \E s \in Splits : \E part \in 1..Len(s.selections) :
        Return("slice", [axis |-> s.axis, selection |-> s.selections[part]],
               ByBlock(LAMBDA b : LET r == split_block(b, s.axis, s.selections)
                                  IN  IF Failed(r) THEN r ELSE r.parts[part]))

Filter == \E k \in KeySelections, copy \in BOOLEAN :
    Return("filter", [keys |-> k], filter_blocks(tensor, k, copy))
Drop == \E k \in KeySelections, copy \in BOOLEAN :
    Return("drop", [keys |-> k], drop_blocks(tensor, k, copy))
RemoveGradients == \E g \in Gradients : Return("remove_gradients", g, remove_gradients(tensor, g))

(* The numbers of empty_like and random_uniform_like are unknown. *)
Unknown == 77
Like == \E g \in Gradients :
    \/ Return("like", g @@ [fill |-> 0], zeros_like(tensor, g))
    \/ Return("like", g @@ [fill |-> 0], ByBlock(LAMBDA b : zeros_like_block(b, g)))
    \/ Return("like", g @@ [fill |-> 1], ones_like(tensor, g))
    \/ Return("like", g @@ [fill |-> 1], ByBlock(LAMBDA b : ones_like_block(b, g)))
    \/ Return("like", g @@ [fill |-> Unknown], empty_like(tensor, g, Unknown))
    \/ Return("like", g @@ [fill |-> Unknown], ByBlock(LAMBDA b : empty_like_block(b, g, Unknown)))
    \/ Return("like", g @@ [fill |-> Unknown], random_uniform_like(tensor, g, Unknown))
    \/ Return("like", g @@ [fill |-> Unknown], ByBlock(LAMBDA b : random_uniform_like_block(b, g, Unknown)))

Sort == \E a \in AxesToSort, descending \in BOOLEAN :
    Return("sort", [axes |-> a, descending |-> descending], sort(tensor, a, descending))

(* The call takes "keys" out of the list, which is the list of the program. *)
SortWithList ==
    /\ LET result == sort(tensor, axes, FALSE) IN
           /\ Call("sort", [axes |-> {"keys", "samples"}, descending |-> FALSE], result)
           /\ tensor' = IF Failed(result) THEN tensor ELSE result
    /\ axes' = axes \ {"keys"}

Insert == \E d \in Dimensions : d.op = "insert" /\
    Return("dimension", d, insert_dimension(tensor, d.axis, d.index, d.name, d.values))
Append_ == \E d \in Dimensions : d.op = "append" /\
    Return("dimension", d, append_dimension(tensor, d.axis, d.name, d.values))
Permute == \E d \in Dimensions : d.op = "permute" /\
    Return("dimension", d, permute_dimensions(tensor, d.axis, d.indexes))
Remove_ == \E d \in Dimensions : d.op = "remove" /\
    Return("dimension", d, remove_dimension(tensor, d.axis, d.name))
Rename == \E d \in Dimensions : d.op = "rename" /\
    Return("dimension", d, rename_dimension(tensor, d.axis, d.name, d.new))

Done == calls = MaxCalls /\ UNCHANGED vars

Next ==
    \/ Slice \/ Split \/ SplitBlocks \/ Filter \/ Drop \/ RemoveGradients \/ Like \/ Sort \/ SortWithList
    \/ Insert \/ Append_ \/ Permute \/ Remove_ \/ Rename \/ Done

Spec == Init /\ [][Next]_vars

-----------------------------------------------------------------------------
(* Properties *)

Returned(op) == last.op = op /\ ~Failed(last.result)
Before_ == Facts(last.before.keys, last.before.blocks)
After == Facts(last.result.keys, last.result.blocks)

(* The tensor map is one that its constructors accept, whatever was done to it. *)
TypeOK ==
    /\ calls \in 0..MaxCalls /\ axes \subseteq {"keys", "samples"}
    /\ TensorMap_allowed(tensor.keys, tensor.blocks)
    /\ \A b \in ToSet(tensor.blocks) :
          /\ TensorBlock_allowed(b)
          /\ IsInjective(b.samples.values) /\ IsInjective(b.properties.values)
          /\ \A p \in DOMAIN b.gradients : IsInjective(b.gradients[p].samples.values)

(***************************************************************************)
(* slice keeps the numbers of the entries that were asked for, values and  *)
(* gradients, with all their labels, and no other: gradients still refer   *)
(* to the sample they are the gradient of, at its new position.            *)
(***************************************************************************)
Chosen(b, axis, selection) ==
    LET l == AxisLabels(b, axis)
    IN  {l.values[i] : i \in ToSet(selected(b, axis, selection))}

About(f, l, entries) ==
    \E e \in entries : Named(l, e) \subseteq f.where

Sliced(t, axis, selection) ==
    UNION {{f \in BlockFacts(Named(t.keys, t.keys.values[k]), t.blocks[k]) :
               About(f, AxisLabels(t.blocks[k], axis), Chosen(t.blocks[k], axis, selection))}
           : k \in 1..Len(t.blocks)}

SliceKeepsMeaning ==
    Returned("slice") => After = Sliced(last.before, last.args.axis, last.args.selection)

(***************************************************************************)
(* split with selections that have each entry once: each number goes to    *)
(* exactly one of the parts.                                               *)
(***************************************************************************)
Partition(t, axis, selections) ==
    \A b \in ToSet(t.blocks) : \A e \in Entries(AxisLabels(b, axis)) :
        \E s \in 1..Len(selections) : \A r \in 1..Len(selections) :
            e \in Chosen(b, axis, selections[r]) <=> r = s

SplitLosesNothing ==
    LET parts == last.result.parts
        facts(s) == Facts(parts[s].keys, parts[s].blocks)
    IN  Returned("split") /\ Partition(last.before, last.args.axis, last.args.selections) =>
            /\ Before_ = UNION {facts(s) : s \in 1..Len(parts)}
            /\ \A r, s \in 1..Len(parts) : r # s => facts(r) \cap facts(s) = {}

(***************************************************************************)
(* filter_blocks keeps the blocks whose key agrees with one of the         *)
(* selection, drop_blocks the others, in their order.                      *)
(***************************************************************************)
BlocksAreSelected ==
    \A op \in {"filter", "drop"} : Returned(op) =>
        /\ After = {f \in Before_ : About(f, last.args.keys, Entries(last.args.keys)) <=> op = "filter"}
        /\ last.result.keys.values = SelectSeq(last.before.keys.values,
               LAMBDA e : e \in Entries(last.result.keys))

(* remove_gradients takes out all the numbers of some gradients and nothing else. *)
OnlyGradientsAreRemoved ==
    Returned("remove_gradients") =>
        After = {f \in Before_ : f.what = "values" \/
                     (last.args.given /\ f.what \notin last.args.parameters)}

(***************************************************************************)
(* zeros_like and the others give the labels of all the numbers asked for, *)
(* with other numbers: the gradients refer to the same samples.            *)
(***************************************************************************)
LikeHasTheLabels ==
    Returned("like") =>
        After = {[f EXCEPT !.value = last.args.fill] : f \in {f \in Before_ :
                    f.what = "values" \/ ~last.args.given \/ f.what \in last.args.parameters}}

(***************************************************************************)
(* Sorting moves numbers and their labels together: the entries of a       *)
(* gradient still refer to the sample they are the gradient of. And it     *)
(* sorts what was asked for (of a block with samples), gradients too.      *)
(***************************************************************************)
SortKeepsMeaning == Returned("sort") => After = Before_

InOrder(s, descending) == Sorted(IF descending THEN Reverse(s) ELSE s)
Asked(axis) == axis \in last.args.axes \/ last.args.axes = {"all"}

BlockIsSorted(b) ==
    /\ Asked("samples") =>
          /\ InOrder(b.samples.values, last.args.descending)
          /\ \A p \in DOMAIN b.gradients : InOrder(b.gradients[p].samples.values, last.args.descending)
    /\ Asked("components") => InOrder(b.components.values, last.args.descending)
    /\ Asked("properties") => InOrder(b.properties.values, last.args.descending)

SortSorts ==
    Returned("sort") => \A b \in ToSet(last.result.blocks) : is_empty(b.samples) \/ BlockIsSorted(b)

(***************************************************************************)
(* A change of the dimensions of labels is a change of what is said of     *)
(* each number, and of nothing else: which number it is said of, and the   *)
(* other dimensions, stay the same.                                        *)
(***************************************************************************)
Without(where, name) == {d \in where : d[1] # name}
AddedAt(l, values, e) == IF values.int THEN values.value ELSE values.array[position(l, e)]
Added(t, k, f, d) ==
    LET l == IF d.axis = "keys" THEN t.keys ELSE AxisLabels(t.blocks[k], d.axis)
        e == CHOOSE e \in Entries(l) : About(f, l, {e})
    IN  {<<d.name, AddedAt(l, d.values, e)>>} \cup f.where

Said(t, k, f, d) ==
    CASE d.axis = "components" \/ d.op = "permute" -> f.where
      [] d.op \in {"insert", "append"} -> Added(t, k, f, d)
      [] d.op = "remove" -> Without(f.where, d.name)
      [] d.op = "rename" -> {<<IF x[1] = d.name THEN d.new ELSE x[1], x[2]>> : x \in f.where}

SaidOf(t, d) ==
    UNION {{[f EXCEPT !.where = Said(t, k, f, d)] : f \in BlockFacts(Named(t.keys, t.keys.values[k]), t.blocks[k])}
           : k \in 1..Len(t.blocks)}

DimensionsKeepMeaning ==
    Returned("dimension") => After = SaidOf(last.before, last.args)

(***************************************************************************)
(* The result of a call compared with its argument, which differ in few    *)
(* things. equal and its variants say whether, up to the order of the keys *)
(* and to gradients of gradients, they are the same; they do not depend on *)
(* which is first, and the variants agree: for blocks, raising, allclose   *)
(* without tolerance, and metadata as equality of tensor maps of zeros.    *)
(***************************************************************************)
WithoutNested(b) == [b EXCEPT !.gradients = [p \in DOMAIN @ |-> [@[p] EXCEPT !.nested = FALSE]]]
SameMap(a, b, View(_)) ==
    /\ a.keys.names = b.keys.names /\ Entries(a.keys) = Entries(b.keys)
    /\ \A e \in Entries(a.keys) : View(block(a, e)) = View(block(b, e))
Zeroed(b) == like_block(WithoutNested(b), [given |-> FALSE], 0)

ComparisonsAgree ==
    LET a == last.before
        b == last.result
        keys == {e \in Entries(a.keys) : ToSet(a.keys.names) = ToSet(b.keys.names) /\ e \in Entries(b.keys)}
    IN  last.op \notin {"none", "split"} /\ ~Failed(b) =>
            /\ equal(a, b).bool <=> SameMap(a, b, WithoutNested)
            /\ equal(a, b) = equal(b, a) /\ allclose(a, b, 0, 0) = equal(a, b)
            /\ equal_metadata(a, b, AllMetadata).bool <=> SameMap(a, b, Zeroed)
            /\ Failed(equal_raise(a, b)) <=> ~equal(a, b).bool
            /\ Failed(allclose_raise(a, b, 5, 1)) <=> ~allclose(a, b, 5, 1).bool
            /\ Failed(equal_metadata_raise(a, b, <<"samples">>)) <=> ~equal_metadata(a, b, <<"samples">>).bool
            /\ \A e \in keys : LET x == block(a, e) y == block(b, e) IN
                  /\ equal_block(x, y).bool <=> WithoutNested(x) = WithoutNested(y)
                  /\ Failed(equal_block_raise(x, y)) <=> ~allclose_block(y, x, 0, 0).bool
                  /\ Failed(equal_metadata_block_raise(x, y, AllMetadata)) <=> ~equal_metadata_block(y, x, AllMetadata).bool
                  /\ equal_block(x, y).bool => ~Failed(allclose_block_raise(x, y, 5, 1))

(***************************************************************************)
(* unique_metadata lists the values of the dimensions of all the numbers   *)
(* of the values, or of a gradient: each once, sorted, and no other unless *)
(* a block has labels and no numbers.                                      *)
(***************************************************************************)
UniqueIsComplete ==
    \A q \in Queries :
        LET r == unique_metadata(tensor, q.axis, q.names, q.gradient)
            what == IF q.gradient = "" THEN "values" ELSE q.gradient
            facts == {f \in Facts(tensor.keys, tensor.blocks) : f.what = what}
            seen == {[k \in 1..Len(q.names) |-> (CHOOSE d \in f.where : d[1] = q.names[k])[2]] : f \in facts}
            no_numbers == \E b \in ToSet(tensor.blocks) : is_empty(b.samples) \/ is_empty(b.properties)
                             \/ (q.gradient # "" /\ is_empty(b.gradients[q.gradient].samples))
        IN  ~Failed(r) =>
                /\ Sorted(r.values) /\ seen \subseteq Entries(r)
                /\ no_numbers \/ seen = Entries(r)
                /\ \A b \in ToSet(tensor.blocks) :
                      Entries(unique_metadata_block(b, q.axis, q.names, q.gradient)) \subseteq Entries(r)

=============================================================================
