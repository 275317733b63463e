------------------------------- MODULE MoveKeys -------------------------------
(***************************************************************************)
(* TensorMap::keys_to_properties and TensorMap::keys_to_samples            *)
(* (metatensor-core/src/tensor): blocks whose keys only differ in the      *)
(* dimensions to move are merged into one block, along its properties or   *)
(* along its samples, with the gradients of the blocks.                    *)
(*                                                                         *)
(* Labels are their names and their entries; positions in sequences start  *)
(* from 1 here, except for the sample of a gradient entry, which is data   *)
(* and is 0-based as in the code. An array is a function of a sample, a    *)
(* component and a property: the components are never touched, and stand   *)
(* for all the component axes at once.                                     *)
(***************************************************************************)
EXTENDS TensorData

CONSTANTS
    Tensors,    \* the tensor maps: [keys, blocks]
    Requests,   \* the arguments of the calls: [op, keys_to_move, sort_samples]
    Zero        \* what a new array is filled with

(***************************************************************************)
(* The tensor maps and Labels that a call is given have passed the checks  *)
(* of their constructors.                                                  *)
(***************************************************************************)
ValidLabels(l) ==
    /\ l.names \in Seq(STRING) /\ IsInjective(l.names)
    /\ l.values \in Seq(Seq(Int)) /\ IsInjective(l.values)
    /\ \A e \in Entries(l) : Len(e) = size(l)

ValidBlock(b) ==
    /\ TensorBlock_allowed(b)
    /\ ValidLabels(b.samples) /\ ValidLabels(b.components) /\ ValidLabels(b.properties)
    /\ \A p \in DOMAIN b.gradients :
          ValidLabels(b.gradients[p].samples) /\ ValidLabels(b.gradients[p].components)

ASSUME TensorsAssumption ==
    \A t \in Tensors :
        /\ ValidLabels(t.keys) /\ TensorMap_allowed(t.keys, t.blocks)
        /\ \A k \in 1..Len(t.blocks) : ValidBlock(t.blocks[k])

ASSUME RequestsAssumption ==
    \A r \in Requests : ValidLabels(r.keys_to_move) /\ r.sort_samples \in BOOLEAN

-----------------------------------------------------------------------------
(* tensor/utils.rs *)

dimensions_positions(keys, dims) ==
    [k \in 1..Len(dims) |-> CHOOSE d \in 1..Len(keys.names) : keys.names[d] = dims[k]]

remaining(keys, dims) ==
    Ascending({d \in 1..Len(keys.names) : keys.names[d] \notin ToSet(dims)})

(* The keys without the dimensions; "_" when there is no dimension left. *)
new_keys(keys, dims) ==
    LET ixs == remaining(keys, dims)
    IN  IF ixs = <<>> THEN Labels(<<"_">>, << <<0>> >>)
        ELSE Labels(Pick(keys.names, ixs),
                    IndexSet([k \in 1..count(keys) |-> Pick(keys.values[k], ixs)]))

(***************************************************************************)
(* merge_samples: the samples of the blocks, with the key at their end     *)
(* when the names say so, each once; and for every block the place of its  *)
(* samples in the merged ones. Sorted samples are in the order of a        *)
(* BTreeSet, as no two of them are equal.                                  *)
(***************************************************************************)
SampleWithKey(sample, key, add_key) == IF add_key THEN sample \o key ELSE sample

merged_samples(blocks, new_sample_names) ==
    LET add_key == Len(blocks[1].block.samples.names) < Len(new_sample_names)
        all(b) == [i \in 1..count(b.block.samples) |->
                       SampleWithKey(b.block.samples.values[i], b.key, add_key)]
    IN  IndexSet(Concat([k \in 1..Len(blocks) |-> all(blocks[k])]))

merge_samples_Sorted(blocks, new_sample_names, sort) ==
    Labels(new_sample_names, BTreeSet(ToSet(merged_samples(blocks, new_sample_names))))
merge_samples(blocks, new_sample_names, sort) ==
    LET merged == merged_samples(blocks, new_sample_names)
    IN  Labels(new_sample_names, IF sort THEN BTreeSet(ToSet(merged)) ELSE merged)

samples_mapping(b, merged) ==
    LET add_key == Len(b.block.samples.names) < Len(merged.names)
    IN  [i \in 1..count(b.block.samples) |->
            position(merged, SampleWithKey(b.block.samples.values[i], b.key, add_key))]

(* A sample of a gradient, its first value translated with the mapping. *)
translate_Untouched(entry, mapping) == entry
translate(entry, mapping) == [entry EXCEPT ![1] = mapping[entry[1] + 1] - 1]

merge_gradient_samples(blocks, parameter, mappings) ==
    LET samples(k) == blocks[k].block.gradients[parameter].samples
        all(k) == {translate(e, mappings[k]) : e \in Entries(samples(k))}
    IN  Labels(samples(1).names,
               BTreeSet(UNION {all(k) : k \in 1..Len(blocks)}))

-----------------------------------------------------------------------------
VARIABLES
    call,       \* the arguments
    pc,         \* "start", "group", "values", "gradients", "done", "error", "panic"
    new_blocks, \* the blocks that are finished
    j,          \* the next block of the group to move data from
    new_block,  \* the block that is being filled
    assertion   \* have the debug_assert! of the loops held so far

vars == <<call, pc, new_blocks, j, new_block, assertion>>

NoBlock == [done |-> FALSE]

Init ==
    /\ \E tensor \in Tensors, request \in Requests :
          call = [keys |-> tensor.keys, blocks |-> tensor.blocks, op |-> request.op,
                  keys_to_move |-> request.keys_to_move, sort_samples |-> request.sort_samples]
    /\ pc = "start" /\ new_blocks = <<>> /\ j = 1 /\ new_block = NoBlock
    /\ assertion = TRUE

names_to_move == call.keys_to_move.names
splitted_keys == new_keys(call.keys, names_to_move)

(***************************************************************************)
(* The blocks to merge for the next of the new keys, with the part of the  *)
(* key that is moved, in the order of the keys (blocks_matching).          *)
(***************************************************************************)
blocks_matching(entry) ==
    Ascending({k \in 1..count(call.keys) :
                  Pick(call.keys.values[k], remaining(call.keys, names_to_move)) = entry})

group ==
    LET matching == IF count(splitted_keys) = 1 THEN [k \in 1..count(call.keys) |-> k]
                    ELSE blocks_matching(splitted_keys.values[Len(new_blocks) + 1])
    IN  [m \in 1..Len(matching) |->
            [key |-> Pick(call.keys.values[matching[m]],
                          dimensions_positions(call.keys, names_to_move)),
             block |-> call.blocks[matching[m]]]]

first_block == group[1].block
Along(op) == call.op = op

Fail(outcome) == pc' = outcome /\ UNCHANGED <<call, new_blocks, j, new_block, assertion>>

(* The checks that open keys_to_properties and keys_to_samples. *)
Refused ==
    \/ is_empty(call.keys)
    \/ Along("samples") /\ ~is_empty(call.keys_to_move)
    \/ ~(ToSet(names_to_move) \subseteq ToSet(call.keys.names))

Start ==
    /\ pc = "start"
    /\ IF Refused THEN Fail("error")
       ELSE pc' = "group" /\ UNCHANGED <<call, new_blocks, j, new_block, assertion>>

(* The checks on the blocks of a group. *)
CanNotMerge ==
    \/ \E p \in DOMAIN first_block.gradients : first_block.gradients[p].nested
    \/ \E k \in 1..Len(group) :
          \/ group[k].block.components # first_block.components
          \/ /\ Along("samples") \/ ~is_empty(call.keys_to_move)
             /\ group[k].block.properties # first_block.properties

(***************************************************************************)
(* The properties of the merged block. Along the samples they do not       *)
(* change; otherwise they are made of the moved keys, or of the keys that  *)
(* the caller gave, and of the old properties.                             *)
(***************************************************************************)
Prefixed(key, properties) == [p \in 1..count(properties) |-> key \o properties.values[p]]

all_property_values ==
    IF is_empty(call.keys_to_move)
    THEN Concat([k \in 1..Len(group) |-> Prefixed(group[k].key, group[k].block.properties)])
    ELSE Concat([m \in 1..count(call.keys_to_move) |->
             Concat([k \in 1..Len(group) |->
                 Prefixed(call.keys_to_move.values[m], group[k].block.properties)])])

new_property_values_Vec == all_property_values
new_property_values == IndexSet(all_property_values)

new_properties ==
    IF Along("samples") THEN first_block.properties
    ELSE Labels(names_to_move \o first_block.properties.names, new_property_values)

new_sample_names ==
    IF Along("samples") THEN first_block.samples.names \o names_to_move
    ELSE first_block.samples.names

(***************************************************************************)
(* Where the properties of a block go: the offset of the first of them in  *)
(* the new ones. A block without properties, or whose key is not among the *)
(* ones the caller gave, is skipped (-1).                                  *)
(***************************************************************************)
property_start(b) ==
    IF Along("samples") THEN 0
    ELSE IF is_empty(b.block.properties) THEN -1
    ELSE LET first == b.key \o b.block.properties.values[1]
         IN  IF first \in Entries(new_block.properties) THEN position(new_block.properties, first) - 1
             ELSE -1

(* The new block, with its arrays still empty. *)
StartGroup ==
    /\ pc = "group"
    /\ \/ CanNotMerge /\ Fail("error")
       \/ /\ ~CanNotMerge
          /\ ~(ValidNames(new_properties.names) /\ ValidNames(new_sample_names))
          /\ Fail("panic")
       \/ /\ ~CanNotMerge
          /\ ValidNames(new_properties.names) /\ ValidNames(new_sample_names)
          /\ LET samples == merge_samples(group, new_sample_names, call.sort_samples)
                 mappings == [k \in 1..Len(group) |-> samples_mapping(group[k], samples)]
                 merged(p) == merge_gradient_samples(group, p, mappings)
                 components(p) == first_block.gradients[p].components
             IN  new_block' =
                     [samples |-> samples, mappings |-> mappings,
                      components |-> first_block.components,
                      properties |-> new_properties,
                      values |-> Array(samples, first_block.components, new_properties, Zero),
                      gradients |-> [p \in DOMAIN first_block.gradients |->
                          [samples |-> merged(p), components |-> components(p), nested |-> FALSE,
                           values |-> Array(merged(p), components(p), new_properties, Zero)]]]
          /\ pc' = "values" /\ j' = 1
          /\ UNCHANGED <<call, new_blocks, assertion>>

(***************************************************************************)
(* move_samples_from (external, a callback of the array): the rows of      *)
(* `input` go to the rows of `output` that the mapping gives, in the       *)
(* columns that follow `start`.                                            *)
(***************************************************************************)
move_samples_from(output, input, mapping, start, n_properties) ==
    [ix \in DOMAIN output |->
        IF \E i \in 1..Len(mapping) :
               mapping[i] = ix[1] /\ ix[3] > start /\ ix[3] <= start + n_properties
        THEN LET i == CHOOSE i \in 1..Len(mapping) : mapping[i] = ix[1]
             IN  input[<<i, ix[2], ix[3] - start>>]
        ELSE output[ix]]

MoveFrom(output, input, mapping, b) ==
    IF property_start(b) = -1 THEN output
    ELSE move_samples_from(output, input, mapping, property_start(b), count(b.block.properties))

(* One iteration of the loop over the blocks, for the values, *)
MoveValues ==
    /\ pc = "values"
    /\ new_block' = [new_block EXCEPT !.values =
           MoveFrom(@, group[j].block.values, new_block.mappings[j], group[j])]
    /\ IF j = Len(group) THEN j' = 1 /\ pc' = "gradients" ELSE j' = j + 1 /\ pc' = pc
    /\ UNCHANGED <<call, new_blocks, assertion>>

(* and for the gradients, all the parameters at once. *)
gradient_mapping(p) ==
    LET samples == group[j].block.gradients[p].samples
    IN  [i \in 1..count(samples) |->
            position(new_block.gradients[p].samples,
                     translate(samples.values[i], new_block.mappings[j]))]

MoveGradients ==
    /\ pc = "gradients"
    /\ new_block' = [new_block EXCEPT !.gradients = [p \in DOMAIN new_block.gradients |->
           [new_block.gradients[p] EXCEPT !.values = MoveFrom(new_block.gradients[p].values,
               group[j].block.gradients[p].values, gradient_mapping(p), group[j])]]]
    /\ assertion' = (assertion /\ \A p \in DOMAIN new_block.gradients :
           property_start(group[j]) # -1 =>
               group[j].block.gradients[p].components = new_block.gradients[p].components)
    /\ IF j = Len(group) THEN j' = 1 /\ pc' = "finish" ELSE j' = j + 1 /\ pc' = pc
    /\ UNCHANGED <<call, new_blocks>>

(* The block is finished; after the last one the new TensorMap is made. *)
FinishGroup ==
    /\ pc = "finish"
    /\ new_blocks' = Append(new_blocks, new_block)
    /\ pc' = IF Len(new_blocks) + 1 = count(splitted_keys) THEN "done" ELSE "group"
    /\ new_block' = NoBlock
    /\ UNCHANGED <<call, j, assertion>>

Done == pc \in {"done", "error", "panic"} /\ UNCHANGED vars

Next == Start \/ StartGroup \/ MoveValues \/ MoveGradients \/ FinishGroup \/ Done

Spec == Init /\ [][Next]_vars

-----------------------------------------------------------------------------
(* Properties *)

(* The mappings made by merge_samples are rows of the merged block. *)
MappingsAreRows ==
    new_block # NoBlock =>
        \A k \in 1..Len(group) : new_block.mappings[k] \in
            [1..count(group[k].block.samples) -> 1..count(new_block.samples)]

NonZero(facts) == {f \in facts : f.value # Zero}

(* The keys that the caller did not exclude by giving others. *)
Requested ==
    {k \in 1..count(call.keys) :
        \/ is_empty(call.keys_to_move)
        \/ Pick(call.keys.values[k], dimensions_positions(call.keys, names_to_move)) \in Entries(call.keys_to_move)}

(***************************************************************************)
(* Merging blocks loses no number, adds none, and leaves each with all the *)
(* labels it had, gradients included: the rest of the arrays is zero.      *)
(***************************************************************************)
MeaningIsKept ==
    pc = "done" =>
        NonZero(Facts(splitted_keys, new_blocks)) =
            NonZero(FactsOf(call.keys, call.blocks, Requested))

(***************************************************************************)
(* The blocks are ones that TensorBlock::new, add_gradient and             *)
(* TensorMap::new accept, as the calls to expect() assume: entries unique  *)
(* although the labels were made without checking, arrays of the right     *)
(* shape, gradients that refer to existing samples, sorted. Until then     *)
(* each row of a block has its row in the merged block.                    *)
(***************************************************************************)
ResultIsValid ==
    /\ MappingsAreRows
    /\ pc = "done" =>
            /\ Len(new_blocks) = count(splitted_keys) /\ IsInjective(splitted_keys.values)
            /\ \A k \in 1..Len(new_blocks) : LET b == new_blocks[k] IN
                  /\ IsInjective(b.samples.values) /\ IsInjective(b.properties.values)
                  /\ IsArray(b, b.properties)
                  /\ \A p \in DOMAIN b.gradients : LET g == b.gradients[p] IN
                        /\ IsArray(g, b.properties)
                        /\ Sorted(g.samples.values)
                        /\ \A e \in Entries(g.samples) : e[1] \in 0..(count(b.samples) - 1)

(***************************************************************************)
(* "If `sort_samples` is true, samples are re-ordered to keep them         *)
(* lexicographically sorted. Otherwise they are kept in the order in which *)
(* they appear in the blocks": the samples of a block that were not in an  *)
(* earlier one stay in their order, after those of the earlier ones.       *)
(***************************************************************************)
New(mappings, k, i) ==
    \A m \in 1..(k - 1) : mappings[k][i] \notin ToSet(mappings[m])

SamplesAreOrdered ==
    \A n \in 1..Len(new_blocks) : LET b == new_blocks[n] IN
        IF call.sort_samples THEN Sorted(b.samples.values)
        ELSE \A k, m \in 1..Len(b.mappings) :
                \A i \in 1..Len(b.mappings[k]), l \in 1..Len(b.mappings[m]) :
                    /\ New(b.mappings, k, i) /\ New(b.mappings, m, l)
                    /\ k < m \/ (k = m /\ i < l)
                    => b.mappings[k][i] < b.mappings[m][l]
=============================================================================
