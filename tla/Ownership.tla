------------------------------ MODULE Ownership ------------------------------
(***************************************************************************)
(* Who owns the blocks: the Python classes TensorBlock and TensorMap       *)
(* (python/metatensor_core/metatensor/block.py and tensor.py) over the C   *)
(* API (metatensor-core/src/c_api/blocks.rs and tensor.rs).                *)
(*                                                                         *)
(* A block of the core lives in a Box of its own, in the vector of a       *)
(* tensor map, or in the hash map of gradients of another block, and is    *)
(* moved between these. A Python object holds the address of a block or a  *)
(* tensor map, and either owns it (no parent: __del__ frees it) or is a    *)
(* view that keeps its parent object alive.                                *)
(*                                                                         *)
(* The address of block b is b with the number of times b was moved:       *)
(* memory is never reused in the model, so that an old address is never    *)
(* mistaken for a new one. What following an invalid address would do is   *)
(* undefined: no action does it, and the properties say when one exists.   *)
(***************************************************************************)
EXTENDS Integers, FiniteSets

CONSTANTS
    Block,      \* blocks of the core
    Tensor,     \* tensor maps of the core
    Object,     \* Python objects
    Parameter,  \* parameters of gradients
    NULL,
    GrowsAt,    \* sizes at which an insertion in a HashMap moves its content
    Careless    \* can a call be made with a moved block, or one block twice

ASSUME ConstantsAssumption ==
    /\ IsFiniteSet(Block) /\ IsFiniteSet(Tensor) /\ IsFiniteSet(Object)
    /\ Block \cap Tensor = {}
    /\ NULL \notin Block \cup Tensor \cup Object \cup Parameter
    /\ GrowsAt \subseteq Nat \ {0}
    /\ Careless \in BOOLEAN

VARIABLES
    kind,       \* where a block is: "unused", "box", "map", "gradient", "freed"
    holder,     \* the tensor map or the block it is in, NULL in a box
    parameter,  \* for a gradient, its parameter
    moves,      \* how often it was moved
    tensor,     \* state of a tensor map: "unused", "live", "freed"
    type,       \* class of a Python object, "unused" if there is none
    ptr, at,    \* _actual_ptr or _ptr: what it points to, and the address
    parent,     \* _parent
    held,       \* objects that the user has a reference to
    invalid     \* auxiliary: something invalid was freed, or moved

core == <<kind, holder, parameter, moves, tensor>>
python == <<type, ptr, at, parent>>
vars == <<core, python, held, invalid>>

Init ==
    /\ kind = [b \in Block |-> "unused"]
    /\ holder = [b \in Block |-> NULL]
    /\ parameter = [b \in Block |-> NULL]
    /\ moves = [b \in Block |-> 0]
    /\ tensor = [t \in Tensor |-> "unused"]
    /\ type = [o \in Object |-> "unused"]
    /\ ptr = [o \in Object |-> NULL]
    /\ at = [o \in Object |-> 0]
    /\ parent = [o \in Object |-> NULL]
    /\ held = {} /\ invalid = FALSE

-----------------------------------------------------------------------------
(* Addresses *)

Live(b) == kind[b] \in {"box", "map", "gradient"}

(* The address that o has is the one of a block, or of a tensor map. *)
ValidBlock(o) == ptr[o] \in Block /\ Live(ptr[o]) /\ at[o] = moves[ptr[o]]
ValidTensor(o) == ptr[o] \in Tensor /\ tensor[ptr[o]] = "live"

(* The address of a block that Box::from_raw can be given. *)
ValidBox(o) == ValidBlock(o) /\ kind[ptr[o]] = "box"

(* What is in x, at any depth: the smallest set closed under "is held by". *)
Closed(S, x) == \A b \in Block : Live(b) /\ holder[b] \in S \cup {x} => b \in S
Content(x) == {b \in Block : \A S \in SUBSET Block : Closed(S, x) => b \in S}

gradients(b) == {g \in Block : kind[g] = "gradient" /\ holder[g] = b}

-----------------------------------------------------------------------------
(* TensorBlock *)

Unused(o) == type[o] = "unused"

(* A Python object o of class c with address p, parent q, that the user has. *)
NewObject(o, c, p, a, q) ==
    /\ Unused(o)
    /\ type' = [type EXCEPT ![o] = c]
    /\ ptr' = [ptr EXCEPT ![o] = p]
    /\ at' = [at EXCEPT ![o] = a]
    /\ parent' = [parent EXCEPT ![o] = q]
    /\ held' = held \cup {o}

(* TensorBlock(...): mts_block gives a new Box. *)
CreateBlock(o, b) ==
    /\ kind[b] = "unused"
    /\ kind' = [kind EXCEPT ![b] = "box"]
    /\ NewObject(o, "block", b, moves[b], NULL)
    /\ UNCHANGED <<holder, parameter, moves, tensor, invalid>>

(* The user has o, a TensorBlock that was not moved. *)
Usable(o) == o \in held /\ type[o] = "block" /\ ptr[o] # NULL

(* block.gradient(p): the address of a gradient, with the block as parent. *)
gradient_parent(o) == o
gradient(o, g, n) ==
    /\ Usable(o) /\ ValidBlock(o)
    /\ g \in gradients(ptr[o])
    /\ NewObject(n, "block", g, moves[g], gradient_parent(o))
    /\ UNCHANGED <<core, invalid>>

(***************************************************************************)
(* copy.deepcopy: the block c and its content are copied to the blocks     *)
(* that `to` gives, which are new.                                         *)
(***************************************************************************)
Injective(f) == \A x, y \in DOMAIN f : f[x] = f[y] => x = y

CopyContent(to, root, new_root) ==
    /\ Injective(to)
    /\ \A b \in DOMAIN to : kind[to[b]] = "unused"
    /\ LET from(c) == CHOOSE b \in DOMAIN to : to[b] = c
           Copied == {to[b] : b \in DOMAIN to}
           place(b) == IF b = root THEN NULL
                       ELSE IF holder[b] = root /\ root \notin DOMAIN to THEN new_root
                       ELSE to[holder[b]]
       IN  /\ kind' = [c \in Block |-> IF c \notin Copied THEN kind[c]
                                       ELSE IF from(c) = root THEN "box" ELSE kind[from(c)]]
           /\ holder' = [c \in Block |-> IF c \in Copied THEN place(from(c)) ELSE holder[c]]
           /\ parameter' = [c \in Block |->
                  IF c \notin Copied THEN parameter[c]
                  ELSE IF from(c) = root THEN NULL ELSE parameter[from(c)]]
           /\ UNCHANGED moves

copy_block(o, n) ==
    /\ Usable(o) /\ ValidBlock(o)
    /\ \E to \in [Content(ptr[o]) \cup {ptr[o]} -> Block] :
          /\ CopyContent(to, ptr[o], NULL)
          /\ NewObject(n, "block", to[ptr[o]], moves[to[ptr[o]]], NULL)
    /\ UNCHANGED <<tensor, invalid>>

(***************************************************************************)
(* block.add_gradient(p, g). The checks come first: the block is not a     *)
(* view, and neither is the gradient, which was not moved.                 *)
(***************************************************************************)
add_gradient_allowed_Views(o, g) ==
    o \in held /\ type[o] = "block" /\ Usable(g) /\ parent[g] = NULL
add_gradient_allowed(o, g) ==
    /\ o \in held /\ type[o] = "block" /\ parent[o] = NULL
    /\ Usable(g) /\ parent[g] = NULL

(* gradient._move_ptr() *)
MovePtr(S) ==
    /\ ptr' = [o \in Object |-> IF o \in S THEN NULL ELSE ptr[o]]
    /\ UNCHANGED <<type, at, parent, held>>

(* Blocks S are dropped, with what is in them. *)
DropBlocks_Shallow(S) ==
    /\ kind' = [b \in Block |-> IF b \in S THEN "freed" ELSE kind[b]]
    /\ UNCHANGED <<holder, parameter, moves>>
DropBlocks(S) ==
    /\ kind' = [b \in Block |->
           IF b \in S \cup UNION {Content(c) : c \in S} THEN "freed" ELSE kind[b]]
    /\ UNCHANGED <<holder, parameter, moves>>

(* The block goes in the hash map of gradients, which may have to grow. *)
InsertGradient(b, p, g) ==
    /\ kind' = [kind EXCEPT ![g] = "gradient"]
    /\ holder' = [holder EXCEPT ![g] = b]
    /\ parameter' = [parameter EXCEPT ![g] = p]
    /\ moves' = [c \in Block |->
           IF c = g \/ (c \in gradients(b) /\ Cardinality(gradients(b)) \in GrowsAt)
           THEN moves[c] + 1 ELSE moves[c]]

add_gradient(o, p, g) ==
    /\ add_gradient_allowed(o, g)
    /\ ptr[o] # NULL /\ o # g
    /\ ValidBlock(o)
    /\ MovePtr({g})
    /\ invalid' = (invalid \/ ~ValidBox(g))
    /\ \/ /\ \A c \in gradients(ptr[o]) : parameter[c] # p
          /\ InsertGradient(ptr[o], p, ptr[g])
       \/ DropBlocks({ptr[g]})
    /\ UNCHANGED tensor

(***************************************************************************)
(* The same, where the block was moved before or is its own gradient:      *)
(* reading self._ptr raises when gradient._move_ptr() is already done.     *)
(***************************************************************************)
add_gradient_raises(o, g) ==
    /\ Careless
    /\ add_gradient_allowed(o, g)
    /\ ptr[o] = NULL \/ o = g
    /\ MovePtr({g})
    /\ UNCHANGED <<core, invalid>>

-----------------------------------------------------------------------------
(* TensorMap *)

Moved(S) == {ptr[o] : o \in S}

(***************************************************************************)
(* TensorMap(keys, blocks): all the blocks must be owned; all are moved    *)
(* out of their Python objects, then out of their boxes, and only then     *)
(* does TensorMap::new check that they can be together.                    *)
(***************************************************************************)
TensorMap_allowed(S) == \A o \in S : Usable(o) /\ parent[o] = NULL

create_TensorMap(S, t, n) ==
    /\ TensorMap_allowed(S)
    /\ tensor[t] = "unused" /\ Unused(n)
    /\ kind' = [b \in Block |-> IF b \in Moved(S) THEN "map" ELSE kind[b]]
    /\ holder' = [b \in Block |-> IF b \in Moved(S) THEN t ELSE holder[b]]
    /\ moves' = [b \in Block |-> IF b \in Moved(S) THEN moves[b] + 1 ELSE moves[b]]
    /\ tensor' = [tensor EXCEPT ![t] = "live"]
    /\ type' = [type EXCEPT ![n] = "tensor"]
    /\ ptr' = [o \in Object |-> IF o = n THEN t ELSE IF o \in S THEN NULL ELSE ptr[o]]
    /\ parent' = [parent EXCEPT ![n] = NULL]
    /\ held' = held \cup {n}
    /\ invalid' = (invalid \/ \E o \in S : ~ValidBox(o))
    /\ UNCHANGED <<parameter, at>>

(* TensorMap::new fails: the blocks, already moved out, are dropped. *)
create_TensorMap_fails(S) ==
    /\ S # {} /\ TensorMap_allowed(S)
    /\ MovePtr(S)
    /\ DropBlocks(Moved(S))
    /\ invalid' = (invalid \/ \E o \in S : ~ValidBox(o))
    /\ UNCHANGED tensor

(* One block is listed twice: mts_tensormap fails before it moves any. *)
create_TensorMap_twice(S) ==
    /\ Careless
    /\ S # {} /\ TensorMap_allowed(S)
    /\ MovePtr(S)
    /\ UNCHANGED <<core, invalid>>

(* tensor.block_by_id(i), and all the functions that return blocks. *)
block_by_id(o, b, n) ==
    /\ o \in held /\ type[o] = "tensor" /\ ValidTensor(o)
    /\ kind[b] = "map" /\ holder[b] = ptr[o]
    /\ NewObject(n, "block", b, moves[b], o)
    /\ UNCHANGED <<core, invalid>>

(* copy.deepcopy *)
copy_tensor(o, t, n) ==
    /\ o \in held /\ type[o] = "tensor" /\ ValidTensor(o)
    /\ tensor[t] = "unused"
    /\ \E to \in [Content(ptr[o]) -> Block] : CopyContent(to, ptr[o], t)
    /\ tensor' = [tensor EXCEPT ![t] = "live"]
    /\ NewObject(n, "tensor", t, 0, NULL)
    /\ UNCHANGED invalid

-----------------------------------------------------------------------------
(* Garbage collection *)

(* The user lets go of an object. *)
Release(o) ==
    /\ o \in held
    /\ held' = held \ {o}
    /\ UNCHANGED <<core, python, invalid>>

(* No variable of the user, and no view, refers to o. *)
Unreachable_WeakParent(o) == ~Unused(o) /\ o \notin held
Unreachable_CachedViews(o) ==
    ~Unused(o) /\ o \notin held /\ parent[o] = NULL /\ \A v \in Object : parent[v] # o
Unreachable(o) ==
    /\ ~Unused(o) /\ o \notin held
    /\ \A v \in Object : parent[v] # o

DeleteObject(o) ==
    /\ type' = [type EXCEPT ![o] = "unused"]
    /\ ptr' = [ptr EXCEPT ![o] = NULL]
    /\ at' = [at EXCEPT ![o] = 0]
    /\ parent' = [parent EXCEPT ![o] = NULL]
    /\ UNCHANGED held

(* TensorBlock.__del__ *)
owns_Always(o) == TRUE
owns(o) == parent[o] = NULL
del_block(o) ==
    /\ type[o] = "block" /\ Unreachable(o)
    /\ IF owns(o) /\ ptr[o] # NULL
       THEN DropBlocks({ptr[o]}) /\ invalid' = (invalid \/ ~ValidBox(o))
       ELSE UNCHANGED <<kind, holder, parameter, moves, invalid>>
    /\ DeleteObject(o)
    /\ UNCHANGED tensor

(* TensorMap.__del__ *)
del_tensor(o) ==
    /\ type[o] = "tensor" /\ Unreachable(o)
    /\ tensor' = [tensor EXCEPT ![ptr[o]] = "freed"]
    /\ kind' = [b \in Block |-> IF b \in Content(ptr[o]) THEN "freed" ELSE kind[b]]
    /\ invalid' = (invalid \/ ~ValidTensor(o))
    /\ DeleteObject(o)
    /\ UNCHANGED <<holder, parameter, moves>>

-----------------------------------------------------------------------------
UserNext ==
    \/ \E o \in Object, b \in Block : CreateBlock(o, b)
    \/ \E o, n \in Object, g \in Block : gradient(o, g, n)
    \/ \E o, n \in Object : copy_block(o, n)
    \/ \E o, g \in Object, p \in Parameter : add_gradient(o, p, g)
    \/ \E o, g \in Object : add_gradient_raises(o, g)
    \/ \E S \in SUBSET Object, t \in Tensor, n \in Object : create_TensorMap(S, t, n)
    \/ \E S \in SUBSET Object : create_TensorMap_fails(S)
    \/ \E S \in SUBSET Object : create_TensorMap_twice(S)
    \/ \E o, n \in Object, b \in Block : block_by_id(o, b, n)
    \/ \E o, n \in Object, t \in Tensor : copy_tensor(o, t, n)
    \/ \E o \in Object : Release(o)

Collect == \E o \in Object : del_block(o) \/ del_tensor(o)

Next == UserNext \/ Collect

Spec == Init /\ [][Next]_vars

(* What is unreachable is deleted, sooner or later. *)
FairSpec == Spec /\ WF_vars(Collect)

-----------------------------------------------------------------------------
(* Properties *)

(* Addresses and parents are what Python objects can hold: a parent is an object, never a pointer. *)
TypeOK ==
    /\ kind \in [Block -> {"unused", "box", "map", "gradient", "freed"}]
    /\ holder \in [Block -> Block \cup Tensor \cup {NULL}]
    /\ parameter \in [Block -> Parameter \cup {NULL}]
    /\ moves \in [Block -> Nat]
    /\ tensor \in [Tensor -> {"unused", "live", "freed"}]
    /\ type \in [Object -> {"unused", "block", "tensor"}]
    /\ ptr \in [Object -> Block \cup Tensor \cup {NULL}]
    /\ at \in [Object -> Nat]
    /\ parent \in [Object -> Object \cup {NULL}]
    /\ held \in SUBSET Object /\ invalid \in BOOLEAN

(***************************************************************************)
(* Nothing is freed twice, freed while it is inside of something else, or  *)
(* moved after it was freed, in any order of moves, copies, views, errors  *)
(* and garbage collections.                                                *)
(***************************************************************************)
NoInvalidFree == ~invalid

(* The objects of R, and the views made from them, at any depth. *)
From(R) ==
    {o \in Object : \A S \in SUBSET Object :
        R \subseteq S /\ (\A v \in Object : parent[v] \in S => v \in S) => o \in S}

(***************************************************************************)
(* A block taken from a TensorMap, and the gradients taken from it, can be *)
(* used as long as Python has them, even when the user only keeps the      *)
(* innermost one.                                                          *)
(***************************************************************************)
MapViewsAreValid ==
    \A o \in From({r \in Object : type[r] = "tensor"}) :
        type[o] = "block" => ValidBlock(o)

(***************************************************************************)
(* There are two ways in which a Python object can come to hold an address *)
(* that is no longer valid, and no other one: it is a view made from a     *)
(* block that was moved elsewhere later, or it is a gradient and another   *)
(* one was added next to it that made the hash map grow.                   *)
(***************************************************************************)
NeverGrew(b) == \A n \in GrowsAt : Cardinality(gradients(b)) <= n

InvalidViewsAreExplained ==
    \A o \in Object : type[o] = "block" /\ ptr[o] # NULL =>
        \/ ValidBlock(o)
        \/ o \in From({r \in Object : type[r] = "block" /\ ptr[r] = NULL})
        \/ ~NeverGrew(holder[ptr[o]])

(***************************************************************************)
(* Whatever is allocated has an owner: a box and a tensor map have the     *)
(* Python object that will free them, everything else is inside of them.   *)
(***************************************************************************)
NoLeak ==
    /\ \A b \in Block :
          /\ kind[b] = "box" => \E o \in Object : type[o] = "block" /\ parent[o] = NULL /\ ptr[o] = b
          /\ kind[b] = "map" => tensor[holder[b]] = "live"
          /\ kind[b] = "gradient" => Live(holder[b])
    /\ \A t \in Tensor :
          tensor[t] = "live" => \E o \in Object : type[o] = "tensor" /\ ptr[o] = t

(* When the user lets go of everything for good, everything gets freed. *)
EverythingIsFreed ==
    <>[](held = {}) =>
        <>[]((\A b \in Block : ~Live(b)) /\ (\A t \in Tensor : tensor[t] # "live"))
=============================================================================
