------------------------------- MODULE Blocks -------------------------------
(***************************************************************************)
(* TensorBlock (metatensor-core/src/blocks.rs) and the parts of TensorMap  *)
(* (tensor/mod.rs) that validate blocks and move their components to their *)
(* properties. Blocks are built, get gradients (which can have gradients), *)
(* go in a tensor map, and the map is then transformed, one block after    *)
(* the other, by code that calls back to arrays that may fail.             *)
(*                                                                         *)
(* An array is its origin, its shape, and its numbers in row-major order.  *)
(* Axes are counted from 0, as in the code.                                *)
(***************************************************************************)
EXTENDS LabelsData, TLC, FiniteSetsExt

CONSTANTS
    Arguments,      \* what TensorBlock::new is called with
    Parameter,      \* the gradient parameters
    Dimensions,     \* the arguments of components_to_properties
    MaxBlocks,      \* bound: calls to TensorBlock::new
    MaxMoves        \* bound: calls to components_to_properties

-----------------------------------------------------------------------------
(* Arrays (external): what the callbacks of mts_array_t do. *)

Product(shape) == FoldLeft(LAMBDA a, b : a * b, 1, shape)
Stride(shape, axis) == Product(SubSeq(shape, axis + 2, Len(shape)))
Coordinate(shape, flat, axis) == (flat \div Stride(shape, axis)) % shape[axis + 1]
Axes(shape) == 0..(Len(shape) - 1)

Exchange(axis, a, b) == IF axis = a THEN b ELSE IF axis = b THEN a ELSE axis

swap_axes(array, a, b) ==
    LET shape == [x \in 1..Len(array.shape) |-> array.shape[Exchange(x - 1, a, b) + 1]]
        old(flat) == MapThenSumSet(LAMBDA axis : Coordinate(shape, flat, axis)
                                                 * Stride(array.shape, Exchange(axis, a, b)),
                                   Axes(shape))
    IN  [array EXCEPT !.shape = shape,
                      !.data = [flat \in DOMAIN array.data |-> array.data[old(flat)]]]

reshape(array, shape) == [array EXCEPT !.shape = shape]

-----------------------------------------------------------------------------
(* TensorBlock *)

check_data_and_labels(values, samples, components, properties) ==
    /\ Len(values.shape) = Len(components) + 2
    /\ values.shape[1] = count(samples)
    /\ IsInjective([c \in 1..Len(components) |-> components[c].names])
    /\ \A c \in 1..Len(components) : values.shape[c + 1] = count(components[c])
    /\ values.shape[Len(values.shape)] = count(properties)

check_component_labels(components) ==
    \A c \in 1..Len(components) : size(components[c]) = 1 /\ ~is_empty(components[c])

NoGradients == [p \in {} |-> p]

new(a) == a @@ [gradients |-> NoGradients]

new_allowed(a) ==
    /\ check_data_and_labels(a.values, a.samples, a.components, a.properties)
    /\ check_component_labels(a.components)

sample_in_range(sample, max_sample) == sample >= 0 /\ sample < max_sample

add_gradient_allowed(b, parameter, gradient) ==
    /\ parameter \notin DOMAIN b.gradients
    /\ gradient.values.origin = b.values.origin
    /\ size(gradient.samples) > 0 /\ gradient.samples.names[1] = "sample"
    /\ \A e \in Entries(gradient.samples) : sample_in_range(e[1], count(b.samples))
    /\ check_component_labels(gradient.components)
    /\ Len(b.components) <= Len(gradient.components)
    /\ gradient.properties = b.properties
    /\ LET extra == Len(gradient.components) - Len(b.components)
       IN  \A c \in 1..Len(b.components) : gradient.components[extra + c] = b.components[c]

insert_gradient(b, parameter, gradient) ==
    [b EXCEPT !.gradients = (parameter :> gradient) @@ @]

(***************************************************************************)
(* components_to_properties, of a block without its gradients. The new     *)
(* properties are all pairs of a moved component and an old property.      *)
(***************************************************************************)
component_axis(b, dims) ==
    (CHOOSE c \in 1..Len(b.components) : b.components[c].names = dims) - 1

new_property_values_Swapped(moved, old) ==
    [k \in 1..(count(moved) * count(old)) |->
        moved.values[((k - 1) % count(moved)) + 1] \o old.values[((k - 1) \div count(moved)) + 1]]
new_property_values(moved, old) ==
    [k \in 1..(count(moved) * count(old)) |->
        moved.values[((k - 1) \div count(old)) + 1] \o old.values[((k - 1) % count(old)) + 1]]

new_properties(b, dims) ==
    LET moved == b.components[component_axis(b, dims) + 1]
    IN  Labels(moved.names \o b.properties.names, new_property_values(moved, b.properties))

(* The first half: the component is gone, the array is not yet reshaped. *)
take_component(b, dims) ==
    LET axis == component_axis(b, dims)
    IN  [b EXCEPT !.components = RemoveAt(@, axis + 1),
                  !.values = swap_axes(@, axis + 1, Len(b.values.shape) - 2)]

move_component(b, dims) ==
    LET axis == component_axis(b, dims)
        n == Len(b.values.shape)
        properties == new_properties(b, dims)
        new_shape == RemoveAt([b.values.shape EXCEPT ![n] = count(properties)], axis + 2)
    IN  [take_component(b, dims) EXCEPT !.values = reshape(@, new_shape),
                                        !.properties = properties]

(* "Repeat all the above for all gradient blocks". *)
RECURSIVE components_to_properties(_, _)
components_to_properties(b, dims) ==
    [move_component(b, dims) EXCEPT
        !.gradients = [p \in DOMAIN @ |-> components_to_properties(@[p], dims)]]

-----------------------------------------------------------------------------
(* TensorMap *)

ComponentNames(b) == [c \in 1..Len(b.components) |-> b.components[c].names]

(* GradientMap: names of samples and components, for all gradients, nested ones too. *)
RECURSIVE GradientMap(_)
GradientMap(b) ==
    [p \in DOMAIN b.gradients |->
        <<b.gradients[p].samples.names, ComponentNames(b.gradients[p]), GradientMap(b.gradients[p])>>]

Metadata(b) == <<b.samples.names, ComponentNames(b), b.properties.names, GradientMap(b)>>

TensorMap_allowed(n_keys, bs) ==
    /\ Len(bs) = n_keys
    /\ \A k \in 1..Len(bs) : bs[k].values.origin = bs[1].values.origin
    /\ \A k \in 1..Len(bs) : Metadata(bs[k]) = Metadata(bs[1])

-----------------------------------------------------------------------------
VARIABLES
    blocks,     \* the blocks that are not in a map
    tensor,     \* the blocks of the tensor map, NoTensor before it exists
    clone,      \* the copy that a call is working on, NoTensor outside calls
    dimensions, \* the argument of that call
    k,          \* the block it is at
    status,     \* how the last call ended
    created,    \* calls to TensorBlock::new so far
    moves       \* calls to components_to_properties so far

vars == <<blocks, tensor, clone, dimensions, k, status, created, moves>>

NoTensor == <<>>

Init ==
    /\ blocks = <<>> /\ tensor = NoTensor /\ clone = NoTensor
    /\ dimensions = <<>> /\ k = 0 /\ status = "ok" /\ created = 0 /\ moves = 0

InCall == clone # NoTensor

CreateBlock(a) ==
    /\ tensor = NoTensor /\ created < MaxBlocks /\ created' = created + 1
    /\ IF new_allowed(a)
       THEN blocks' = Append(blocks, new(a)) /\ status' = "ok"
       ELSE status' = "error" /\ UNCHANGED blocks
    /\ UNCHANGED <<tensor, clone, dimensions, k, moves>>

(***************************************************************************)
(* add_gradient takes the gradient, even when it is refused                *)
(* (mts_block_add_gradient moves it out of its pointer first). The block   *)
(* is one of ours, or a gradient that one of ours already has.             *)
(***************************************************************************)
Removed(s, n) == RemoveAt(s, n)

AddGradient(i, n, parameter) ==
    /\ i # n
    /\ IF add_gradient_allowed(blocks[i], parameter, blocks[n])
       THEN /\ blocks' = Removed([blocks EXCEPT ![i] = insert_gradient(@, parameter, blocks[n])], n)
            /\ status' = "ok"
       ELSE blocks' = Removed(blocks, n) /\ status' = "error"
    /\ UNCHANGED <<tensor, clone, dimensions, k, created, moves>>

AddGradientToGradient(i, n, outer, parameter) ==
    /\ i # n
    /\ outer \in DOMAIN blocks[i].gradients
    /\ LET target == blocks[i].gradients[outer]
       IN  IF add_gradient_allowed(target, parameter, blocks[n])
           THEN /\ blocks' = Removed([blocks EXCEPT ![i].gradients[outer] =
                                         insert_gradient(target, parameter, blocks[n])], n)
                /\ status' = "ok"
           ELSE blocks' = Removed(blocks, n) /\ status' = "error"
    /\ UNCHANGED <<tensor, clone, dimensions, k, created, moves>>

(* mts_tensormap takes the blocks, even when TensorMap::new refuses them. *)
CreateTensorMap(n_keys) ==
    /\ tensor = NoTensor /\ blocks # <<>>
    /\ IF TensorMap_allowed(n_keys, blocks)
       THEN tensor' = blocks /\ status' = "ok"
       ELSE status' = "error" /\ UNCHANGED tensor
    /\ blocks' = <<>>
    /\ UNCHANGED <<clone, dimensions, k, created, moves>>

(* TensorMap::components_to_properties works on a clone, which may fail. *)
StartMove(dims) ==
    /\ tensor # NoTensor /\ ~InCall /\ moves < MaxMoves
    /\ moves' = moves + 1
    /\ \/ clone' = tensor /\ dimensions' = dims /\ k' = 1 /\ status' = "running"
       \/ status' = "error" /\ UNCHANGED <<clone, dimensions, k>>
    /\ UNCHANGED <<blocks, tensor, created>>

(* What the caller is left with when the call fails: the map it had. *)
AfterFailure_InPlace(t, c) == c
AfterFailure(t, c) == t

Fails(c, outcome) ==
    /\ status' = outcome /\ tensor' = AfterFailure(tensor, c)
    /\ clone' = NoTensor /\ k' = 0 /\ dimensions' = <<>>

HasComponent(b) == \E c \in 1..Len(b.components) : b.components[c].names = dimensions
ValidProperties(b) == ValidNames(dimensions \o b.properties.names)

(* One block of the clone is transformed; its array may refuse to be reshaped. *)
MoveBlock ==
    /\ InCall /\ dimensions # <<>> /\ k <= Len(clone)
    /\ LET b == clone[k] IN
       \/ ~HasComponent(b) /\ Fails(clone, "error")
       \/ HasComponent(b) /\ ~ValidProperties(b) /\ Fails(clone, "panic")
       \/ /\ HasComponent(b) /\ ValidProperties(b)
          /\ Fails([clone EXCEPT ![k] = take_component(@, dimensions)], "error")
       \/ /\ HasComponent(b) /\ ValidProperties(b)
          /\ clone' = [clone EXCEPT ![k] = components_to_properties(@, dimensions)]
          /\ k' = k + 1
          /\ UNCHANGED <<tensor, dimensions, status>>
    /\ UNCHANGED <<blocks, created, moves>>

(* The caller goes on with the map that the call returned. *)
EndMove ==
    /\ InCall /\ (dimensions = <<>> \/ k > Len(clone))
    /\ tensor' = clone /\ clone' = NoTensor /\ k' = 0 /\ dimensions' = <<>> /\ status' = "ok"
    /\ UNCHANGED <<blocks, created, moves>>

Next ==
    \/ \E a \in Arguments : CreateBlock(a)
    \/ \E i, n \in 1..Len(blocks), p \in Parameter : AddGradient(i, n, p)
    \/ \E i, n \in 1..Len(blocks), outer, p \in Parameter : AddGradientToGradient(i, n, outer, p)
    \/ \E n \in 1..MaxBlocks : CreateTensorMap(n)
    \/ \E dims \in Dimensions : StartMove(dims)
    \/ MoveBlock
    \/ EndMove

Spec == Init /\ [][Next]_vars

-----------------------------------------------------------------------------
(* Properties *)

(* Blocks hold their arguments and gradients; only calls in progress have a clone. *)
TypeOK ==
    /\ Len(blocks) <= MaxBlocks
    /\ status \in {"ok", "error", "panic", "running"}
    /\ created \in 0..MaxBlocks /\ moves \in 0..MaxMoves
    /\ InCall <=> status = "running"
    /\ InCall => tensor # NoTensor /\ k \in 1..(Len(clone) + 1) /\ dimensions \in Dimensions

(***************************************************************************)
(* The documented invariants of a block, that every operation relies on:   *)
(* the array has the shape that the labels say, property entries that were *)
(* not checked for uniqueness are unique, gradients have the properties    *)
(* and (after their own) the components of their block, and their samples  *)
(* are samples of the block. All of them for gradients of gradients too.   *)
(***************************************************************************)
IsGradientOf(g, b) ==
    /\ g.properties = b.properties
    /\ \A e \in Entries(g.samples) : e[1] \in 0..(count(b.samples) - 1)
    /\ SubSeq(g.components, Len(g.components) - Len(b.components) + 1, Len(g.components)) = b.components

RECURSIVE IsBlock(_)
IsBlock(b) ==
    /\ b.values.shape = <<count(b.samples)>>
                        \o [c \in 1..Len(b.components) |-> count(b.components[c])]
                        \o <<count(b.properties)>>
    /\ DOMAIN b.values.data = 0..(Product(b.values.shape) - 1)
    /\ IsInjective(b.properties.values) /\ IsInjective(b.properties.names)
    /\ \A p \in DOMAIN b.gradients : IsGradientOf(b.gradients[p], b) /\ IsBlock(b.gradients[p])

BlocksAreValid ==
    /\ \A n \in 1..Len(blocks) : IsBlock(blocks[n])
    /\ tensor # NoTensor =>
          \A n \in 1..Len(tensor) : IsBlock(tensor[n]) /\ Metadata(tensor[n]) = Metadata(tensor[1])

(***************************************************************************)
(* What a block says: for each number, the path of gradients it is in and  *)
(* the values of all the named dimensions that describe it.                *)
(***************************************************************************)
AxisLabels(b) == <<b.samples>> \o b.components \o <<b.properties>>

Described(b, flat) ==
    LET entry(axis) == AxisLabels(b)[axis + 1].values[Coordinate(b.values.shape, flat, axis) + 1]
    IN  FoldLeft(LAMBDA acc, axis : acc \cup Named(AxisLabels(b)[axis + 1], entry(axis)), {},
                 [a \in 1..Len(b.values.shape) |-> a - 1])

RECURSIVE Facts(_, _)
Facts(b, path) ==
    {<<path, Described(b, flat), b.values.data[flat]>> : flat \in DOMAIN b.values.data}
    \cup UNION {Facts(b.gradients[p], Append(path, p)) : p \in DOMAIN b.gradients}

(***************************************************************************)
(* "Move the given dimensions from the component labels to the property    *)
(* labels for each block": a number of the map never changes what it is    *)
(* about, and a call that fails leaves the map as it was.                  *)
(***************************************************************************)
SameFacts(t, u) ==
    Len(t) = Len(u) /\ \A n \in 1..Len(t) : Facts(t[n], <<>>) = Facts(u[n], <<>>)

MoveKeepsMeaning ==
    tensor # NoTensor => /\ SameFacts(tensor, tensor')
                         /\ status' \in {"error", "panic"} => tensor' = tensor
=============================================================================
