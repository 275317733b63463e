---------------------------- MODULE TorchBlocks -----------------------------
(***************************************************************************)
(* TensorBlock and TensorMap of metatensor-torch (block.cpp, tensor.cpp):  *)
(* where values, labels and gradients are (their device), of which type    *)
(* the values are, and which values and gradients the operations keep.     *)
(*                                                                         *)
(* A block is a function: the array at the path <<>> has its values, the   *)
(* one at <<p>> its gradient with respect to p, the one at <<p, q>> the    *)
(* gradient of that with respect to q. The numbers of an array are a set   *)
(* of names, so that merged blocks have the names of both. An array knows  *)
(* the devices its labels are on: labels that Rust makes are on the CPU    *)
(* (module LabelsHandles says how labels find their device). Checks of the *)
(* metadata are in module Blocks and leave everything as it was when they  *)
(* fail; so do the checks here, and an operation that raises is no step.   *)
(***************************************************************************)
EXTENDS Naturals, Sequences

CONSTANTS
  Objects,         \* Python objects: blocks and tensor maps
  Numbers,         \* names for the numbers of an array
  Parameters,      \* names of gradients
  BlockDevices, CPU,
  BlockTypes, Float64,
  MaxBlocks,       \* bound: blocks of a tensor map
  LoadedDepth      \* bound: depth of gradients in a file

ASSUME TorchBlocksAssumption ==
    CPU \in BlockDevices /\ Float64 \in BlockTypes /\ "same" \notin BlockTypes

VARIABLES
  objects,     \* the objects of the user
  returned     \* the last operation: what it was given and what it returned

blockVars == <<objects, returned>>

Unused == [kind |-> "unused"]
NoOperation == [op |-> "nothing"]

Array(numbers, dtype, device, labels) ==
    [numbers |-> numbers, dtype |-> dtype, device |-> device, labels |-> labels]

parameters(b) == {p \in Parameters : <<p>> \in DOMAIN b}
Nested(b) == \E path \in DOMAIN b : Len(path) > 1

(* A block, or a view of a block inside of another object.                 *)
BlockObject(b, is_view) == [kind |-> "block", block |-> b, is_view |-> is_view]
MapObject(keys, blocks) == [kind |-> "map", keys |-> keys, blocks |-> blocks]

IsBlock(o) == objects[o].kind = "block"
IsMap(o) == objects[o].kind = "map"

BlocksInit == objects = [o \in Objects |-> Unused] /\ returned = NoOperation

(* An operation returns a new object.                                      *)
ReturnObject(op, given, result) ==
    \E o \in Objects :
        /\ objects[o] = Unused
        /\ objects' = [objects EXCEPT ![o] = result]
        /\ returned' = [op |-> op, given |-> given, result |-> result]

-----------------------------------------------------------------------------
(* TensorBlockHolder.                                                      *)

(* The constructor: values and labels must be on the same device.          *)
CanMakeBlock(array) == array.labels = {array.device}

TensorBlockHolder ==
    \E n \in Numbers, dtype \in BlockTypes, device \in BlockDevices, labels \in SUBSET BlockDevices :
        LET array == Array({n}, dtype, device, labels)
        IN CanMakeBlock(array) /\ ReturnObject("new", <<>>, BlockObject([path \in {<<>>} |-> array], FALSE))

(* add_gradient: a temporary block, made of the values and the labels of   *)
(* the gradient, is moved in the block.                                    *)
WithGradient(b, p, g) == [path \in DOMAIN b \union {<<p>>} |-> IF path = <<p>> THEN g[<<>>] ELSE b[path]]

CanAddGradient_AnyDevice(b, p, g) ==   \* mutant: no check of the device
    /\ p \notin parameters(b)
    /\ g[<<>>].dtype = b[<<>>].dtype

CanAddGradient(b, p, g) ==
    /\ p \notin parameters(b)
    /\ g[<<>>].device = b[<<>>].device
    /\ g[<<>>].dtype = b[<<>>].dtype

add_gradient ==
    \E o, g \in Objects, p \in Parameters :
        /\ IsBlock(o) /\ IsBlock(g) /\ ~ objects[o].is_view
        /\ CanAddGradient(objects[o].block, p, objects[g].block)
        /\ objects' = [objects EXCEPT ![o].block = WithGradient(@, p, objects[g].block)]
        /\ returned' = [op |-> "add_gradient", given |-> <<objects[o].block, p, objects[g].block>>,
                        result |-> objects'[o]]

(* gradient: a view, inside of the block it is a gradient of.              *)
GradientOf(b, p) ==
    LET below == {path \in DOMAIN b : path # <<>> /\ path[1] = p}
    IN [path \in {Tail(q) : q \in below} |-> b[<<p>> \o path]]

gradient ==
    \E o \in Objects : IsBlock(o) /\ \E p \in parameters(objects[o].block) :
        ReturnObject("gradient", <<objects[o].block, p>>, BlockObject(GradientOf(objects[o].block, p), TRUE))

(* to: values and labels are moved, and a new block is made of them; each  *)
(* gradient is moved too, at any depth, and added to it by add_gradient.   *)
BlockTo(b, dtype, device) ==
    [path \in {q \in DOMAIN b : Len(q) <= 1} |->
        Array(b[path].numbers, IF dtype = "same" THEN b[path].dtype ELSE dtype, device, {device})]

CanConvert(b, dtype) == dtype = "same" => \A path \in DOMAIN b : b[path].dtype = b[<<>>].dtype

to_block ==
    \E o \in Objects, dtype \in BlockTypes \union {"same"}, device \in BlockDevices :
        /\ IsBlock(o) /\ CanConvert(objects[o].block, dtype)
        /\ ReturnObject("to", <<objects[o].block>>, BlockObject(BlockTo(objects[o].block, dtype, device), FALSE))

(* copy, by the library, which copies the gradients of gradients too.      *)
copy_block ==
    \E o \in Objects : IsBlock(o) /\ ReturnObject("copy", <<objects[o].block>>, BlockObject(objects[o].block, FALSE))

(* load, load_buffer: everything is on the CPU, in 64-bit floats, with     *)
(* gradients of any depth.                                                 *)
Paths == UNION {[1..n -> Parameters] : n \in 0..LoadedDepth}
Trees == {T \in SUBSET Paths : <<>> \in T /\ \A path \in T : path # <<>> => SubSeq(path, 1, Len(path) - 1) \in T}
Files == UNION {[T -> {Array({n}, Float64, CPU, {CPU}) : n \in Numbers}] : T \in Trees}

load_block == \E b \in Files : ReturnObject("load", <<>>, BlockObject(b, FALSE))

-----------------------------------------------------------------------------
(* TensorMapHolder.                                                        *)

(* block_from_torch: new blocks that share everything with the old ones,   *)
(* which stay usable; their gradients are copied at every depth.           *)
(* The constructor: blocks and keys on one device, blocks of one type.     *)
CanMakeMap(keys, blocks) ==
    \A i \in DOMAIN blocks :
        /\ blocks[i][<<>>].device = keys /\ blocks[i][<<>>].dtype = blocks[1][<<>>].dtype
        /\ parameters(blocks[i]) = parameters(blocks[1])

TensorMapHolder ==
    \E keys \in BlockDevices, n \in 1..MaxBlocks : \E chosen \in [1..n -> {o \in Objects : IsBlock(o)}] :
        LET blocks == [i \in 1..n |-> objects[chosen[i]].block]
        IN CanMakeMap(keys, blocks) /\ ReturnObject("map", blocks, MapObject(keys, blocks))

(* to: every block by TensorBlockHolder::to, then the constructor.         *)
MapTo(blocks, dtype, device) == [i \in DOMAIN blocks |-> BlockTo(blocks[i], dtype, device)]

ReturnMapTo(op, given, blocks, dtype, device) ==
    /\ \A i \in DOMAIN blocks : CanConvert(blocks[i], dtype)
    /\ CanMakeMap(device, MapTo(blocks, dtype, device))
    /\ ReturnObject(op, given, MapObject(device, MapTo(blocks, dtype, device)))

to_map ==
    \E o \in Objects, dtype \in BlockTypes \union {"same"}, device \in BlockDevices :
        IsMap(o) /\ ReturnMapTo("to", objects[o].blocks, objects[o].blocks, dtype, device)

(* block_by_id: a view.                                                    *)
block_by_id ==
    \E o \in Objects : IsMap(o) /\ \E i \in DOMAIN objects[o].blocks :
        ReturnObject("block", <<>>, BlockObject(objects[o].blocks[i], TRUE))

copy_map == \E o \in Objects : IsMap(o) /\ ReturnObject("copy", objects[o].blocks, objects[o])

(* keys_to_properties and keys_to_samples of the library: the blocks are   *)
(* merged in new arrays, made by the array of the first block, with new    *)
(* labels. Gradients of gradients are refused.                             *)
Merged(blocks) ==
    [path \in DOMAIN blocks[1] |->
        Array(UNION {blocks[i][path].numbers : i \in DOMAIN blocks}, blocks[1][path].dtype, blocks[1][path].device,
              UNION {blocks[i][<<>>].labels : i \in DOMAIN blocks} \union {CPU})]

(* ... and the result goes to the device of the keys.                      *)
move_keys ==
    \E o \in Objects :
        /\ IsMap(o) /\ \A i \in DOMAIN objects[o].blocks : ~ Nested(objects[o].blocks[i])
        /\ ReturnMapTo("move", objects[o].blocks, <<Merged(objects[o].blocks)>>, "same", objects[o].keys)

(* components_to_properties: the library changes a copy of the blocks, at  *)
(* every depth, with new labels for the properties.                        *)
WithNewLabels(b) ==
    [path \in DOMAIN b |-> Array(b[path].numbers, b[path].dtype, b[path].device, b[path].labels \union {CPU})]

components_to_properties ==
    \E o \in Objects :
        /\ IsMap(o)
        /\ LET changed == [i \in DOMAIN objects[o].blocks |-> WithNewLabels(objects[o].blocks[i])]
           IN ReturnMapTo("components", objects[o].blocks, changed, "same", objects[o].keys)

(* The user lets go of an object.                                          *)
Forget == /\ \E o \in Objects : objects[o] # Unused /\ objects' = [objects EXCEPT ![o] = Unused]
          /\ returned' = NoOperation

BlocksNext ==
    \/ TensorBlockHolder \/ add_gradient \/ gradient \/ to_block \/ copy_block \/ load_block
    \/ TensorMapHolder \/ to_map \/ block_by_id \/ copy_map \/ move_keys \/ components_to_properties
    \/ Forget

BlocksSpec == BlocksInit /\ [][BlocksNext]_blockVars

-----------------------------------------------------------------------------
Agrees(b) ==
    \A path \in DOMAIN b : /\ b[path].device = b[<<>>].device /\ b[path].dtype = b[<<>>].dtype
                           /\ b[path].labels = {b[<<>>].device}

(* In every object, values, labels and gradients are on one device and of  *)
(* one type, at all depths, also when Rust made the labels on the CPU for  *)
(* values that are elsewhere (block.cpp:35, tensor.cpp:62).                *)
DevicesAgree ==
    \A o \in DOMAIN objects :
        /\ IsBlock(o) => Agrees(objects[o].block)
        /\ IsMap(o) => \A i \in DOMAIN objects[o].blocks :
               /\ Agrees(objects[o].blocks[i])
               /\ objects[o].blocks[i][<<>>].device = objects[o].keys
               /\ objects[o].blocks[i][<<>>].dtype = objects[o].blocks[1][<<>>].dtype

(* to, copy and components_to_properties return all the numbers they were  *)
(* given, gradients included (block.cpp:77, tensor.cpp:468); to does not   *)
(* keep gradients of gradients.                                            *)
NumbersOf(blocks) == [i \in DOMAIN blocks |-> [path \in DOMAIN blocks[i] |-> blocks[i][path].numbers]]
BlocksOf(object) == IF object.kind = "block" THEN <<object.block>> ELSE object.blocks
Flat(blocks) == \A i \in DOMAIN blocks : ~ Nested(blocks[i])

NothingIsLost ==
    \/ returned.op = "copy"
    \/ returned.op \in {"to", "components"} /\ Flat(returned.given)
    => NumbersOf(BlocksOf(returned.result)) = NumbersOf(returned.given)

(***************************************************************************)
(* Values, labels and gradients of an object are on one device and of one  *)
(* type at all depths, and to, copy and components_to_properties return    *)
(* all the numbers that they were given, of blocks whose gradients have no *)
(* gradients themselves (block.cpp, tensor.cpp).                           *)
(***************************************************************************)
TorchBlocksAreWhole == DevicesAgree /\ NothingIsLost
=============================================================================
