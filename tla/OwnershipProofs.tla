--------------------------- MODULE OwnershipProofs ---------------------------
(***************************************************************************)
(* Proofs that nothing is freed or moved that should not be, that nothing  *)
(* is lost, and when views are valid, for any number of blocks, tensor     *)
(* maps and Python objects, and any order of calls.                        *)
(***************************************************************************)
EXTENDS Ownership, FiniteSetTheorems, TLAPS

(* A Python object that will free its block. *)
Owner(o) == type[o] = "block" /\ parent[o] = NULL /\ ptr[o] # NULL

(* It has the address of a block in a box, and nobody else owns that block. *)
OwnersInv ==
    /\ \A o \in Object : Owner(o) => ValidBox(o)
    /\ \A o, n \in Object : Owner(o) /\ Owner(n) /\ ptr[o] = ptr[n] => o = n

(* The same of tensor maps. *)
TensorsInv ==
    /\ \A o \in Object : type[o] = "tensor" => ValidTensor(o)
    /\ \A o, n \in Object : type[o] = "tensor" /\ type[n] = "tensor" /\ ptr[o] = ptr[n] => o = n

(* What is in a box is in nothing else. *)
BoxInv == \A b \in Block : kind[b] \in {"unused", "box"} => holder[b] = NULL

OInv == TypeOK /\ NoInvalidFree /\ OwnersInv /\ TensorsInv /\ BoxInv

-----------------------------------------------------------------------------
(* Lemmas about the content of a block or a tensor map *)

(* The content is a closed set. *)
LEMMA ContentClosed ==
    ASSUME NEW x
    PROVE  Closed(Content(x), x)
<1> SUFFICES ASSUME NEW b \in Block, Live(b), holder[b] \in Content(x) \cup {x},
                    NEW S \in SUBSET Block, Closed(S, x)
             PROVE  b \in S
    BY Zenon DEF Closed, Content
<1>1. holder[b] \in S \cup {x}
    BY Zenon DEF Content
<1> QED
    BY <1>1 DEF Closed

(* A closed set contains the content. *)
LEMMA ContentSmallest ==
    ASSUME NEW x, NEW S \in SUBSET Block, Closed(S, x)
    PROVE  Content(x) \subseteq S
BY DEF Content

(* What is inside of something is alive, and not in a box of its own. *)
LEMMA ContentIsNotBoxed ==
    ASSUME BoxInv, NEW x, x # NULL, NULL \notin Block, NEW b \in Content(x)
    PROVE  b \in Block /\ kind[b] \in {"map", "gradient"}
<1> DEFINE S == {c \in Block : kind[c] \in {"map", "gradient"}}
<1>1. Closed(S, x)
    BY DEF Closed, Live, BoxInv
<1>2. Content(x) \subseteq S
    BY <1>1, ContentSmallest
<1> QED
    BY <1>2

(* What holds something of the content is in the content, or is x. *)
LEMMA ContentHolder ==
    ASSUME NEW x, NEW b \in Content(x)
    PROVE  holder[b] \in Content(x) \cup {x}
<1> DEFINE S == {c \in Content(x) : holder[c] \in Content(x) \cup {x}}
<1>1. S \subseteq Block
    BY DEF Content
<1>2. Closed(S, x)
    BY ContentClosed DEF Closed
<1> HIDE DEF S
<1>3. Content(x) \subseteq S
    BY <1>1, <1>2, ContentSmallest
<1> QED
    BY <1>3 DEF S

-----------------------------------------------------------------------------
(* The initial state *)

(* At the start there is nothing. *)
LEMMA InitOInv == Init => OInv
<1> SUFFICES ASSUME Init PROVE OInv
    OBVIOUS
<1>1. TypeOK
    BY DEF Init, TypeOK
<1> QED
    BY <1>1 DEF Init, OInv, NoInvalidFree, OwnersInv, Owner, TensorsInv, BoxInv

-----------------------------------------------------------------------------
(* Creation, and views *)

(* TensorBlock(...) makes one more owner, of a new block. *)
LEMMA CreateBlockStep ==
    ASSUME OInv, NEW o \in Object, NEW b \in Block, CreateBlock(o, b)
    PROVE  OInv'
<1> USE ConstantsAssumption DEF OInv
<1>1. TypeOK'
    BY DEF TypeOK, CreateBlock, NewObject
<1>2. OwnersInv'
    BY DEF TypeOK, CreateBlock, NewObject, Unused, OwnersInv, Owner, ValidBox, ValidBlock, Live
<1>3. TensorsInv'
    BY DEF TypeOK, CreateBlock, NewObject, Unused, TensorsInv, ValidTensor
<1>4. BoxInv'
    BY DEF TypeOK, CreateBlock, BoxInv
<1> QED
    BY <1>1, <1>2, <1>3, <1>4 DEF NoInvalidFree, CreateBlock

(* A view is a new object that has a parent, whatever it points to. *)
LEMMA ViewStep ==
    ASSUME OInv, NEW n \in Object, NEW b \in Block, NEW o \in Object,
           NewObject(n, "block", b, moves[b], o), UNCHANGED <<core, invalid>>
    PROVE  OInv'
<1> USE ConstantsAssumption DEF OInv, core
<1>1. TypeOK'
    BY DEF TypeOK, NewObject
<1>2. OwnersInv'
    BY DEF TypeOK, NewObject, Unused, OwnersInv, Owner, ValidBox, ValidBlock, Live
<1>3. TensorsInv'
    BY DEF TypeOK, NewObject, Unused, TensorsInv, ValidTensor
<1> QED
    BY <1>1, <1>2, <1>3 DEF NoInvalidFree, BoxInv

-----------------------------------------------------------------------------
(* Moving and dropping blocks *)

(***************************************************************************)
(* S: owners that give up their blocks, which are then moved elsewhere or  *)
(* dropped with their content. Everybody else keeps what they have.        *)
(***************************************************************************)
GivenUp(S) == \A o \in S : o \in Object /\ Owner(o)

(* The box of another owner is not among them, and is in nothing. *)
LEMMA OthersKeepBoxes ==
    ASSUME OInv, NEW S, GivenUp(S), NEW o \in Object, Owner(o), o \notin S
    PROVE  /\ ptr[o] \notin Moved(S)
           /\ \A x : x # NULL => ptr[o] \notin Content(x)
<1>1. ptr[o] \notin Moved(S)
    BY DEF OInv, OwnersInv, Moved, GivenUp
<1>2. ptr[o] \in Block /\ kind[ptr[o]] = "box"
    BY DEF OInv, OwnersInv, ValidBox, ValidBlock
<1>3. ASSUME NEW x, x # NULL PROVE ptr[o] \notin Content(x)
    BY <1>2, <1>3, ContentIsNotBoxed, ConstantsAssumption DEF OInv
<1> QED
    BY <1>1, <1>3

(* The blocks that are given up are in boxes. *)
LEMMA MovedAreBoxes ==
    ASSUME OInv, NEW S, GivenUp(S)
    PROVE  /\ Moved(S) \subseteq Block
           /\ \A b \in Moved(S) : kind[b] = "box"
           /\ \A o \in S : ValidBox(o)
BY DEF OInv, OwnersInv, ValidBox, ValidBlock, Moved, GivenUp

(***************************************************************************)
(* A step after which the owners of S are no longer owners, that leaves    *)
(* all other boxes alone and makes no new owner, keeps OwnersInv.          *)
(***************************************************************************)
LEMMA OwnersKept ==
    ASSUME OInv, NEW S, GivenUp(S),
           \A o \in Object : Owner(o)' => Owner(o) /\ o \notin S,
           \A o \in Object : Owner(o)' => ptr'[o] = ptr[o] /\ at'[o] = at[o],
           \A b \in Block : kind[b] = "box" /\ b \notin Moved(S) =>
                              kind'[b] = "box" /\ moves'[b] = moves[b]
    PROVE  OwnersInv'
<1>1. ASSUME NEW o \in Object, Owner(o)' PROVE ValidBox(o)'
    <2>1. ValidBox(o) /\ ptr[o] \notin Moved(S)
        BY <1>1, OthersKeepBoxes DEF OInv, OwnersInv
    <2> QED
        BY <1>1, <2>1 DEF ValidBox, ValidBlock, Live
<1>2. ASSUME NEW o \in Object, NEW n \in Object, Owner(o)', Owner(n)', ptr'[o] = ptr'[n]
      PROVE  o = n
    BY <1>2 DEF OInv, OwnersInv
<1> QED
    BY <1>1, <1>2 DEF OwnersInv

(* The effect of dropping the blocks that S gives up. *)
LEMMA DropStep ==
    ASSUME OInv, NEW S, GivenUp(S), DropBlocks(Moved(S))
    PROVE  /\ kind' \in [Block -> {"unused", "box", "map", "gradient", "freed"}]
           /\ \A b \in Block : kind[b] = "box" /\ b \notin Moved(S) => kind'[b] = "box"
           /\ BoxInv'
<1>1. \A c \in Moved(S) : \A b \in Content(c) : kind[b] # "box"
    BY MovedAreBoxes, ContentIsNotBoxed, ConstantsAssumption DEF OInv
<1>2. kind' \in [Block -> {"unused", "box", "map", "gradient", "freed"}]
    BY DEF DropBlocks, OInv, TypeOK
<1>3. \A b \in Block : kind[b] = "box" /\ b \notin Moved(S) => kind'[b] = "box"
    BY <1>1 DEF DropBlocks
<1>4. BoxInv'
    BY DEF DropBlocks, BoxInv, OInv
<1> QED
    BY <1>2, <1>3, <1>4

(* After MovePtr(S) there are no more objects of any kind than before. *)
LEMMA MovePtrStep ==
    ASSUME OInv, NEW S, GivenUp(S), MovePtr(S)
    PROVE  /\ \A o \in Object : Owner(o)' => Owner(o) /\ o \notin S
           /\ \A o \in Object : Owner(o)' => ptr'[o] = ptr[o] /\ at'[o] = at[o]
           /\ \A o \in Object : type[o] = "tensor" => ptr'[o] = ptr[o]
           /\ type' = type /\ held' = held
           /\ ptr' \in [Object -> Block \cup Tensor \cup {NULL}]
           /\ UNCHANGED <<at, parent>>
BY DEF MovePtr, GivenUp, Owner, OInv, TypeOK

(* Tensor maps are not concerned when blocks are moved or dropped. *)
LEMMA TensorsKept ==
    ASSUME OInv, tensor' = tensor, type' = type,
           \A o \in Object : type[o] = "tensor" => ptr'[o] = ptr[o]
    PROVE  TensorsInv'
BY DEF OInv, TensorsInv, ValidTensor

(* A call that drops the blocks it was given. *)
LEMMA DropCallStep ==
    ASSUME OInv, NEW S, GivenUp(S), MovePtr(S), DropBlocks(Moved(S)), UNCHANGED tensor,
           invalid' = (invalid \/ \E o \in S : ~ValidBox(o))
    PROVE  OInv'
<1>1. TypeOK'
    BY DropStep, MovePtrStep, MovedAreBoxes DEF OInv, TypeOK, DropBlocks, NoInvalidFree
<1>2. OwnersInv'
    BY DropStep, MovePtrStep, OwnersKept DEF DropBlocks
<1>3. TensorsInv'
    BY MovePtrStep, TensorsKept
<1>4. NoInvalidFree'
    BY MovedAreBoxes DEF OInv, NoInvalidFree
<1> QED
    BY <1>1, <1>2, <1>3, <1>4, DropStep DEF OInv

(* A call that loses the blocks it was given. *)
LEMMA LoseStep ==
    ASSUME OInv, NEW S, GivenUp(S), MovePtr(S), UNCHANGED <<core, invalid>>
    PROVE  OInv'
<1> USE DEF core
<1>1. TypeOK'
    BY MovePtrStep DEF OInv, TypeOK
<1>2. OwnersInv'
    BY MovePtrStep, OwnersKept
<1>3. TensorsInv'
    BY MovePtrStep, TensorsKept
<1> QED
    BY <1>1, <1>2, <1>3 DEF OInv, NoInvalidFree, BoxInv

-----------------------------------------------------------------------------
(* The calls that take blocks *)

(* add_gradient: the gradient is inserted in the block, or dropped. *)
LEMMA AddGradientStep ==
    ASSUME OInv, NEW o \in Object, NEW p \in Parameter, NEW g \in Object, add_gradient(o, p, g)
    PROVE  OInv'
<1> DEFINE S == {g}
<1>1. GivenUp(S) /\ MovePtr(S) /\ Moved(S) = {ptr[g]} /\ UNCHANGED tensor
    BY DEF add_gradient, add_gradient_allowed, Usable, GivenUp, Owner, Moved
<1>2. invalid' = (invalid \/ \E x \in S : ~ValidBox(x))
    BY Zenon DEF add_gradient
<1>3. CASE DropBlocks({ptr[g]})
    BY <1>1, <1>2, <1>3, DropCallStep
<1>4. CASE InsertGradient(ptr[o], p, ptr[g])
    <2>1. ptr[g] \in Block /\ kind[ptr[g]] = "box" /\ ValidBox(g)
        BY <1>1, MovedAreBoxes
    <2>2. ptr[o] \in Block
        BY DEF add_gradient, ValidBlock
    <2>3. TypeOK'
        <3>1. moves' \in [Block -> Nat]
            BY <1>4 DEF InsertGradient, OInv, TypeOK
        <3> QED
            BY <1>1, <1>2, <1>4, <2>1, <2>2, <3>1, MovePtrStep
            DEF InsertGradient, OInv, TypeOK, NoInvalidFree
    <2>4. \A b \in Block : kind[b] = "box" /\ b \notin Moved(S) =>
                             kind'[b] = "box" /\ moves'[b] = moves[b]
        BY <1>1, <1>4 DEF InsertGradient, gradients, OInv, TypeOK
    <2>5. OwnersInv'
        BY <1>1, <2>4, MovePtrStep, OwnersKept
    <2>6. TensorsInv'
        BY <1>1, MovePtrStep, TensorsKept
    <2>7. BoxInv'
        BY <1>4, <2>1 DEF InsertGradient, OInv, TypeOK, BoxInv
    <2>8. NoInvalidFree'
        BY <1>2, <2>1 DEF OInv, NoInvalidFree
    <2> QED
        BY <2>3, <2>5, <2>6, <2>7, <2>8 DEF OInv
<1> QED
    BY <1>3, <1>4 DEF add_gradient

(* add_gradient that raises: the gradient has no owner any more. *)
LEMMA AddGradientRaisesStep ==
    ASSUME OInv, NEW o \in Object, NEW g \in Object, add_gradient_raises(o, g)
    PROVE  OInv'
<1>1. GivenUp({g})
    BY DEF add_gradient_raises, add_gradient_allowed, Usable, GivenUp, Owner
<1> QED
    BY <1>1, LoseStep DEF add_gradient_raises

(* All the blocks of a TensorMap are given up by owners. *)
LEMMA TensorMapGivesUp ==
    ASSUME NEW S \in SUBSET Object, TensorMap_allowed(S)
    PROVE  GivenUp(S)
BY DEF TensorMap_allowed, Usable, GivenUp, Owner

(* TensorMap::new refuses the blocks: they are dropped. *)
LEMMA CreateTensorMapFailsStep ==
    ASSUME OInv, NEW S \in SUBSET Object, create_TensorMap_fails(S)
    PROVE  OInv'
BY TensorMapGivesUp, DropCallStep DEF create_TensorMap_fails

(* A block listed twice: the blocks have no owner any more. *)
LEMMA CreateTensorMapTwiceStep ==
    ASSUME OInv, NEW S \in SUBSET Object, create_TensorMap_twice(S)
    PROVE  OInv'
BY TensorMapGivesUp, LoseStep DEF create_TensorMap_twice

(* TensorMap(keys, blocks): the blocks leave their boxes for the map. *)
LEMMA CreateTensorMapStep ==
    ASSUME OInv, NEW S \in SUBSET Object, NEW t \in Tensor, NEW n \in Object,
           create_TensorMap(S, t, n)
    PROVE  OInv'
<1>1. GivenUp(S)
    BY TensorMapGivesUp DEF create_TensorMap
<1>2. Moved(S) \subseteq Block /\ (\A o \in S : ValidBox(o))
    BY <1>1, MovedAreBoxes
<1>3. NoInvalidFree'
    BY <1>2 DEF create_TensorMap, OInv, NoInvalidFree
<1>4. TypeOK'
    <2>1. /\ kind' \in [Block -> {"unused", "box", "map", "gradient", "freed"}]
          /\ holder' \in [Block -> Block \cup Tensor \cup {NULL}]
          /\ moves' \in [Block -> Nat]
        BY DEF create_TensorMap, OInv, TypeOK
    <2> QED
        BY <1>3, <2>1 DEF create_TensorMap, OInv, TypeOK, NoInvalidFree
<1>5. OwnersInv'
    <2>1. \A o \in Object : Owner(o)' => Owner(o) /\ o \notin S
        BY <1>1 DEF create_TensorMap, Unused, GivenUp, Owner, OInv, TypeOK
    <2>2. \A o \in Object : Owner(o)' => ptr'[o] = ptr[o] /\ at'[o] = at[o]
        BY DEF create_TensorMap, Unused, Owner, OInv, TypeOK
    <2>3. \A b \in Block : kind[b] = "box" /\ b \notin Moved(S) =>
                             kind'[b] = "box" /\ moves'[b] = moves[b]
        BY DEF create_TensorMap
    <2> QED
        BY <1>1, <2>1, <2>2, <2>3, OwnersKept
<1>6. TensorsInv'
    <2>1. \A o \in S : type[o] = "block"
        BY <1>1 DEF GivenUp, Owner
    <2>2. \A o \in Object : type'[o] = "tensor" =>
              IF o = n THEN ptr'[o] = t ELSE type[o] = "tensor" /\ ptr'[o] = ptr[o]
        BY <2>1 DEF create_TensorMap, OInv, TypeOK
    <2> QED
        BY <2>2 DEF create_TensorMap, OInv, TypeOK, TensorsInv, ValidTensor
<1>7. BoxInv'
    BY DEF create_TensorMap, OInv, TypeOK, BoxInv
<1> QED
    BY <1>3, <1>4, <1>5, <1>6, <1>7 DEF OInv

-----------------------------------------------------------------------------
(* Garbage collection *)

(* Deleting an object does nothing to the other ones. *)
LEMMA DeleteObjectStep ==
    ASSUME OInv, NEW o \in Object, DeleteObject(o)
    PROVE  /\ type' \in [Object -> {"unused", "block", "tensor"}]
           /\ ptr' \in [Object -> Block \cup Tensor \cup {NULL}]
           /\ at' \in [Object -> Nat]
           /\ parent' \in [Object -> Object \cup {NULL}]
           /\ held' = held
           /\ type'[o] = "unused"
           /\ \A n \in Object : n # o => /\ type'[n] = type[n] /\ ptr'[n] = ptr[n]
                                         /\ at'[n] = at[n] /\ parent'[n] = parent[n]
BY DEF DeleteObject, OInv, TypeOK

(* TensorBlock.__del__, of an owner or of a view. *)
LEMMA DelBlockStep ==
    ASSUME OInv, NEW o \in Object, del_block(o)
    PROVE  OInv'
<1>1. type[o] = "block" /\ DeleteObject(o) /\ tensor' = tensor
    BY DEF del_block
<1>2. TensorsInv'
    BY <1>1, DeleteObjectStep DEF OInv, TensorsInv, ValidTensor
<1>3. CASE owns(o) /\ ptr[o] # NULL
    <2> DEFINE S == {o}
    <2>1. GivenUp(S) /\ Moved(S) = {ptr[o]}
        BY <1>1, <1>3 DEF owns, GivenUp, Owner, Moved
    <2>2. DropBlocks(Moved(S)) /\ invalid' = (invalid \/ ~ValidBox(o))
        BY <1>3, <2>1 DEF del_block
    <2>3. NoInvalidFree'
        BY <2>1, <2>2, MovedAreBoxes DEF OInv, NoInvalidFree
    <2>4. TypeOK'
        BY <1>1, <2>1, <2>2, <2>3, DropStep, DeleteObjectStep
        DEF OInv, TypeOK, DropBlocks, NoInvalidFree
    <2>5. \A n \in Object : Owner(n)' => Owner(n) /\ n \notin S
        BY <1>1, DeleteObjectStep DEF Owner
    <2>6. \A n \in Object : Owner(n)' => ptr'[n] = ptr[n] /\ at'[n] = at[n]
        BY <1>1, DeleteObjectStep DEF Owner
    <2>7. OwnersInv'
        BY <2>1, <2>2, <2>5, <2>6, DropStep, OwnersKept DEF DropBlocks
    <2> QED
        BY <1>2, <2>1, <2>2, <2>3, <2>4, <2>7, DropStep DEF OInv
<1>4. CASE ~(owns(o) /\ ptr[o] # NULL)
    <2>1. UNCHANGED <<kind, holder, parameter, moves, invalid>>
        BY <1>4 DEF del_block
    <2>2. TypeOK'
        BY <1>1, <2>1, DeleteObjectStep DEF OInv, TypeOK
    <2>3. OwnersInv'
        BY <1>1, <2>1, DeleteObjectStep DEF OInv, OwnersInv, Owner, ValidBox, ValidBlock, Live
    <2> QED
        BY <1>2, <2>1, <2>2, <2>3 DEF OInv, NoInvalidFree, BoxInv
<1> QED
    BY <1>3, <1>4

(* TensorMap.__del__: no box is inside of the map. *)
LEMMA DelTensorStep ==
    ASSUME OInv, NEW o \in Object, del_tensor(o)
    PROVE  OInv'
<1>1. type[o] = "tensor" /\ DeleteObject(o) /\ UNCHANGED <<holder, parameter, moves>>
    BY DEF del_tensor
<1>2. ValidTensor(o) /\ ptr[o] \in Tensor
    BY <1>1 DEF OInv, TensorsInv, ValidTensor
<1>3. NoInvalidFree'
    BY <1>2 DEF del_tensor, OInv, NoInvalidFree
<1>4. TypeOK'
    BY <1>1, <1>2, <1>3, DeleteObjectStep DEF del_tensor, OInv, TypeOK, NoInvalidFree
<1>5. \A b \in Content(ptr[o]) : kind[b] # "box"
    BY <1>2, ContentIsNotBoxed, ConstantsAssumption DEF OInv
<1>6. \A b \in Block : kind[b] = "box" => kind'[b] = "box"
    BY <1>5 DEF del_tensor
<1>7. OwnersInv'
    BY <1>1, <1>6, DeleteObjectStep DEF OInv, OwnersInv, Owner, ValidBox, ValidBlock, Live
<1>8. TensorsInv'
    BY <1>1, <1>2, DeleteObjectStep DEF del_tensor, OInv, TypeOK, TensorsInv, ValidTensor
<1>9. BoxInv'
    BY <1>1 DEF del_tensor, OInv, BoxInv
<1> QED
    BY <1>3, <1>4, <1>7, <1>8, <1>9 DEF OInv

-----------------------------------------------------------------------------
(* Copies *)

(***************************************************************************)
(* A copy puts new blocks where there were none: its root in a box, all    *)
(* the others inside of new_root or of each other.                         *)
(***************************************************************************)
LEMMA CopyStep ==
    ASSUME OInv, NEW root \in Block \cup Tensor, NEW new_root \in Tensor \cup {NULL},
           NEW D, D = Content(root) \/ (root \in Block /\ D = Content(root) \cup {root}),
           root \in Block => root \in D,
           NEW to \in [D -> Block], CopyContent(to, root, new_root)
    PROVE  /\ kind' \in [Block -> {"unused", "box", "map", "gradient", "freed"}]
           /\ holder' \in [Block -> Block \cup Tensor \cup {NULL}]
           /\ parameter' \in [Block -> Parameter \cup {NULL}]
           /\ moves' = moves
           /\ BoxInv'
           /\ \A b \in Block : kind[b] # "unused" => kind'[b] = kind[b]
           /\ root \in D => kind'[to[root]] = "box" /\ kind[to[root]] = "unused"
<1> DEFINE from(c) == CHOOSE b \in DOMAIN to : to[b] = c
           Copied == {to[b] : b \in DOMAIN to}
           place(b) == IF b = root THEN NULL
                       ELSE IF holder[b] = root /\ root \notin DOMAIN to THEN new_root
                       ELSE to[holder[b]]
<1>1. DOMAIN to = D /\ Content(root) \subseteq Block /\ D \subseteq Block
    BY DEF Content
<1>2. ASSUME NEW c \in Copied PROVE from(c) \in D /\ to[from(c)] = c
    BY <1>1, <1>2
<1>3. \A x, y \in D : to[x] = to[y] => x = y
    BY <1>1 DEF CopyContent, Injective
<1>4. \A b \in D : kind[to[b]] = "unused"
    BY <1>1 DEF CopyContent
<1>5. /\ kind' = [c \in Block |-> IF c \notin Copied THEN kind[c]
                                   ELSE IF from(c) = root THEN "box" ELSE kind[from(c)]]
      /\ holder' = [c \in Block |-> IF c \in Copied THEN place(from(c)) ELSE holder[c]]
      /\ parameter' = [c \in Block |->
             IF c \notin Copied THEN parameter[c]
             ELSE IF from(c) = root THEN NULL ELSE parameter[from(c)]]
      /\ moves' = moves
    BY Zenon DEF CopyContent
<1>6. ASSUME NEW b \in D, b # root
      PROVE  /\ kind[b] \in {"map", "gradient"}
             /\ holder[b] \in Content(root) \cup {root}
    <2>1. b \in Content(root)
        BY <1>6
    <2>2. root # NULL /\ NULL \notin Block
        BY ConstantsAssumption
    <2>3. kind[b] \in {"map", "gradient"}
        BY <2>1, <2>2, ContentIsNotBoxed DEF OInv
    <2>4. holder[b] \in Content(root) \cup {root}
        BY <2>1, ContentHolder
    <2> QED
        BY <2>3, <2>4
<1>7. ASSUME NEW b \in D PROVE place(b) \in Block \cup Tensor \cup {NULL}
    <2>1. CASE b = root
        BY <2>1
    <2>2. CASE b # root /\ holder[b] = root /\ root \notin D
        BY <1>1, <2>2
    <2>3. CASE b # root /\ ~(holder[b] = root /\ root \notin D)
        <3>1. holder[b] \in D
            BY <2>3, <1>6
        <3>2. to[holder[b]] \in Block
            BY <3>1
        <3> QED
            BY <1>1, <2>3, <3>2
    <2> QED
        BY <2>1, <2>2, <2>3
<1>8. \A c \in Copied : from(c) \in Block
    BY <1>1, <1>2
<1> HIDE DEF from, place
<1>9. holder' \in [Block -> Block \cup Tensor \cup {NULL}]
    BY <1>2, <1>5, <1>7 DEF OInv, TypeOK
<1>10. parameter' \in [Block -> Parameter \cup {NULL}]
    BY <1>5, <1>8 DEF OInv, TypeOK
<1>11. kind' \in [Block -> {"unused", "box", "map", "gradient", "freed"}]
    BY <1>5, <1>8 DEF OInv, TypeOK
<1>12. BoxInv'
    <2> SUFFICES ASSUME NEW c \in Block, kind'[c] \in {"unused", "box"}
                 PROVE  holder'[c] = NULL
        BY DEF BoxInv
    <2>1. CASE c \notin Copied
        BY <2>1, <1>5 DEF OInv, BoxInv
    <2>2. CASE c \in Copied
        <3>1. from(c) = root
            BY <2>2, <1>2, <1>5, <1>6
        <3> QED
            BY <2>2, <3>1, <1>5 DEF place
    <2> QED
        BY <2>1, <2>2
<1>13. \A b \in Block : kind[b] # "unused" => kind'[b] = kind[b]
    BY <1>1, <1>4, <1>5
<1>14. root \in D => kind'[to[root]] = "box" /\ kind[to[root]] = "unused"
    <2> SUFFICES ASSUME root \in D PROVE kind'[to[root]] = "box" /\ kind[to[root]] = "unused"
        OBVIOUS
    <2>1. to[root] \in Copied /\ to[root] \in Block
        BY <1>1
    <2>2. from(to[root]) = root
        BY <2>1, <1>2, <1>3
    <2> QED
        BY <2>1, <2>2, <1>4, <1>5
<1> QED
    BY <1>5, <1>9, <1>10, <1>11, <1>12, <1>13, <1>14

(* copy.deepcopy of a block: its copy is a new box with a new owner. *)
LEMMA CopyBlockStep ==
    ASSUME OInv, NEW o \in Object, NEW n \in Object, copy_block(o, n)
    PROVE  OInv'
<1> DEFINE root == ptr[o]
           D == Content(root) \cup {root}
<1>1. root \in Block
    BY DEF copy_block, ValidBlock
<1>2. PICK to \in [D -> Block] :
          CopyContent(to, root, NULL) /\ NewObject(n, "block", to[root], moves[to[root]], NULL)
    BY DEF copy_block
<1>3. UNCHANGED <<tensor, invalid>>
    BY DEF copy_block
<1> DEFINE b == to[root]
<1>4. b \in Block
    OBVIOUS
<1> HIDE DEF root, D
<1>5. root \in D /\ D = Content(root) \cup {root}
    BY DEF D
<1>6. /\ kind' \in [Block -> {"unused", "box", "map", "gradient", "freed"}]
      /\ holder' \in [Block -> Block \cup Tensor \cup {NULL}]
      /\ parameter' \in [Block -> Parameter \cup {NULL}]
      /\ moves' = moves
      /\ BoxInv'
      /\ \A c \in Block : kind[c] # "unused" => kind'[c] = kind[c]
      /\ kind'[b] = "box" /\ kind[b] = "unused"
    BY <1>1, <1>2, <1>5, CopyStep
<1>7. NewObject(n, "block", b, moves[b], NULL)
    BY <1>2
<1> HIDE DEF b
<1>8. TypeOK'
    BY <1>3, <1>4, <1>6, <1>7 DEF OInv, TypeOK, NewObject
<1>9. OwnersInv'
    BY <1>4, <1>6, <1>7, ConstantsAssumption
    DEF OInv, TypeOK, NewObject, Unused, OwnersInv, Owner, ValidBox, ValidBlock, Live
<1>10. TensorsInv'
    BY <1>3, <1>7 DEF OInv, TypeOK, NewObject, Unused, TensorsInv, ValidTensor
<1> QED
    BY <1>3, <1>6, <1>8, <1>9, <1>10 DEF OInv, NoInvalidFree

(* copy.deepcopy of a tensor map: no new box. *)
LEMMA CopyTensorStep ==
    ASSUME OInv, NEW o \in Object, NEW t \in Tensor, NEW n \in Object, copy_tensor(o, t, n)
    PROVE  OInv'
<1>1. ptr[o] \in Tensor /\ ptr[o] \notin Block
    BY ConstantsAssumption DEF copy_tensor, ValidTensor
<1>2. PICK to \in [Content(ptr[o]) -> Block] : CopyContent(to, ptr[o], t)
    BY DEF copy_tensor
<1>3. /\ kind' \in [Block -> {"unused", "box", "map", "gradient", "freed"}]
      /\ holder' \in [Block -> Block \cup Tensor \cup {NULL}]
      /\ parameter' \in [Block -> Parameter \cup {NULL}]
      /\ moves' = moves
      /\ BoxInv'
      /\ \A c \in Block : kind[c] # "unused" => kind'[c] = kind[c]
    BY <1>1, <1>2, CopyStep
<1>4. /\ NewObject(n, "tensor", t, 0, NULL) /\ tensor[t] = "unused"
      /\ tensor' = [tensor EXCEPT ![t] = "live"] /\ invalid' = invalid
    BY DEF copy_tensor
<1>5. TypeOK'
    BY <1>3, <1>4 DEF OInv, TypeOK, NewObject
<1>6. OwnersInv'
    BY <1>3, <1>4 DEF OInv, TypeOK, NewObject, OwnersInv, Owner, ValidBox, ValidBlock, Live
<1>7. TensorsInv'
    BY <1>4 DEF OInv, TypeOK, NewObject, Unused, TensorsInv, ValidTensor
<1> QED
    BY <1>3, <1>4, <1>5, <1>6, <1>7 DEF OInv, NoInvalidFree

-----------------------------------------------------------------------------
(* The invariant is inductive. *)
LEMMA NextOInv == OInv /\ [Next]_vars => OInv'
<1> SUFFICES ASSUME OInv, [Next]_vars PROVE OInv'
    OBVIOUS
<1>1. ASSUME NEW o \in Object, NEW b \in Block, CreateBlock(o, b) PROVE OInv'
    BY <1>1, CreateBlockStep
<1>2. ASSUME NEW o \in Object, NEW n \in Object, NEW g \in Block, gradient(o, g, n) PROVE OInv'
    BY <1>2, ViewStep DEF gradient, gradient_parent
<1>3. ASSUME NEW o \in Object, NEW n \in Object, copy_block(o, n) PROVE OInv'
    BY <1>3, CopyBlockStep
<1>4. ASSUME NEW o \in Object, NEW g \in Object, NEW p \in Parameter, add_gradient(o, p, g)
      PROVE  OInv'
    BY <1>4, AddGradientStep
<1>5. ASSUME NEW o \in Object, NEW g \in Object, add_gradient_raises(o, g) PROVE OInv'
    BY <1>5, AddGradientRaisesStep
<1>6. ASSUME NEW S \in SUBSET Object, NEW t \in Tensor, NEW n \in Object,
             create_TensorMap(S, t, n)
      PROVE  OInv'
    BY <1>6, CreateTensorMapStep
<1>7. ASSUME NEW S \in SUBSET Object, create_TensorMap_fails(S) PROVE OInv'
    BY <1>7, CreateTensorMapFailsStep
<1>8. ASSUME NEW S \in SUBSET Object, create_TensorMap_twice(S) PROVE OInv'
    BY <1>8, CreateTensorMapTwiceStep
<1>9. ASSUME NEW o \in Object, NEW n \in Object, NEW b \in Block, block_by_id(o, b, n)
      PROVE  OInv'
    BY <1>9, ViewStep DEF block_by_id
<1>10. ASSUME NEW o \in Object, NEW n \in Object, NEW t \in Tensor, copy_tensor(o, t, n)
       PROVE  OInv'
    BY <1>10, CopyTensorStep
<1>11. ASSUME NEW o \in Object, Release(o) PROVE OInv'
    BY <1>11 DEF Release, core, python, OInv, TypeOK, NoInvalidFree, OwnersInv, Owner,
                 ValidBox, ValidBlock, Live, TensorsInv, ValidTensor, BoxInv
<1>12. ASSUME NEW o \in Object, del_block(o) PROVE OInv'
    BY <1>12, DelBlockStep
<1>13. ASSUME NEW o \in Object, del_tensor(o) PROVE OInv'
    BY <1>13, DelTensorStep
<1>14. CASE UNCHANGED vars
    BY <1>14 DEF vars, core, python, OInv, TypeOK, NoInvalidFree, OwnersInv, Owner,
                 ValidBox, ValidBlock, Live, TensorsInv, ValidTensor, BoxInv
<1> QED
    BY <1>1, <1>2, <1>3, <1>4, <1>5, <1>6, <1>7, <1>8, <1>9, <1>10, <1>11, <1>12, <1>13, <1>14,
       Zenon DEF Next, UserNext, Collect

(* OInv holds in all the states: the calls above never break it. *)
THEOREM OInvHolds == Spec => []OInv
BY InitOInv, NextOInv, PTL DEF Spec

(* Python objects and the core hold what they can hold, in all the states. *)
THEOREM TypeCorrect == Spec => []TypeOK
<1>1. OInv => TypeOK
    BY DEF OInv
<1> QED
    BY <1>1, OInvHolds, PTL

(***************************************************************************)
(* TensorBlock.__del__, TensorMap.__del__, add_gradient and TensorMap give *)
(* to the core only blocks and maps that are theirs: none is freed twice,  *)
(* or moved after it was freed or moved, however many there are.           *)
(***************************************************************************)
THEOREM NothingIsFreedTwice == Spec => []NoInvalidFree
<1>1. OInv => NoInvalidFree
    BY DEF OInv
<1> QED
    BY <1>1, OInvHolds, PTL

-----------------------------------------------------------------------------
(* Nothing is lost: Careless is FALSE from here on. *)

(* A block of a map is held by a tensor map, a gradient by a block. *)
PlaceInv ==
    \A b \in Block : /\ kind[b] = "map" => holder[b] \in Tensor
                     /\ kind[b] = "gradient" => holder[b] \in Block

LInv == OInv /\ PlaceInv /\ NoLeak

(* The three parts of NoLeak. *)
BoxesOwned == \A b \in Block : kind[b] = "box" => \E o \in Object : Owner(o) /\ ptr[o] = b
HoldersLive ==
    \A b \in Block : /\ kind[b] = "map" => tensor[holder[b]] = "live"
                     /\ kind[b] = "gradient" => Live(holder[b])
TensorsOwned ==
    \A t \in Tensor : tensor[t] = "live" => \E o \in Object : type[o] = "tensor" /\ ptr[o] = t

(* NoLeak is the conjunction of its parts, *)
LEMMA NoLeakParts ==
    ASSUME NULL \notin Block
    PROVE  NoLeak <=> BoxesOwned /\ HoldersLive /\ TensorsOwned
BY DEF NoLeak, BoxesOwned, HoldersLive, TensorsOwned, Owner

(* also in the next state. *)
LEMMA NoLeakPartsPrime ==
    ASSUME NULL \notin Block
    PROVE  NoLeak' <=> BoxesOwned' /\ HoldersLive' /\ TensorsOwned'
BY DEF NoLeak, BoxesOwned, HoldersLive, TensorsOwned, Owner

(* At the start there is nothing to lose. *)
LEMMA InitLInv == Init => LInv
<1> SUFFICES ASSUME Init PROVE LInv
    OBVIOUS
<1> QED
    BY InitOInv DEF Init, LInv, PlaceInv, NoLeak

(* Owners stay when an object is made that was not there. *)
LEMMA NewObjectKeepsOwners ==
    ASSUME OInv, NEW n \in Object, NEW c, NEW p, NEW a, NEW q, NewObject(n, c, p, a, q)
    PROVE  /\ \A o \in Object : type[o] # "unused" => /\ o # n /\ type'[o] = type[o]
                                                     /\ ptr'[o] = ptr[o] /\ parent'[o] = parent[o]
           /\ type'[n] = c /\ ptr'[n] = p /\ parent'[n] = q
BY DEF OInv, TypeOK, NewObject, Unused

(* The new block has an owner. *)
LEMMA CreateBlockLeak ==
    ASSUME LInv, NEW o \in Object, NEW b \in Block, CreateBlock(o, b)
    PROVE  PlaceInv' /\ NoLeak'
<1> USE ConstantsAssumption
<1>1. NewObject(o, "block", b, moves[b], NULL) /\ UNCHANGED <<holder, tensor>>
      /\ kind[b] = "unused" /\ kind' = [kind EXCEPT ![b] = "box"] /\ OInv
    BY DEF CreateBlock, LInv
<1>2. BoxesOwned'
    <2> SUFFICES ASSUME NEW c \in Block, kind'[c] = "box"
                 PROVE  \E x \in Object : Owner(x)' /\ ptr'[x] = c
        BY DEF BoxesOwned
    <2>1. CASE c = b
        BY <1>1, <2>1, NewObjectKeepsOwners DEF Owner
    <2>2. CASE c # b
        <3>1. PICK x \in Object : Owner(x) /\ ptr[x] = c
            BY <1>1, <2>2, NoLeakParts DEF LInv, OInv, TypeOK, BoxesOwned
        <3> QED
            BY <1>1, <3>1, NewObjectKeepsOwners DEF Owner
    <2> QED
        BY <2>1, <2>2
<1>3. HoldersLive' /\ PlaceInv'
    BY <1>1, NoLeakParts DEF LInv, OInv, TypeOK, HoldersLive, PlaceInv, Live
<1>4. TensorsOwned'
    BY <1>1, NewObjectKeepsOwners, NoLeakParts DEF LInv, TensorsOwned
<1> QED
    BY <1>2, <1>3, <1>4, NoLeakPartsPrime

(* A view changes nothing in the core. *)
LEMMA ViewLeak ==
    ASSUME LInv, NEW n \in Object, NEW b \in Block, NEW o \in Object,
           NewObject(n, "block", b, moves[b], o), UNCHANGED <<core, invalid>>
    PROVE  PlaceInv' /\ NoLeak'
<1> USE ConstantsAssumption DEF core
<1>1. BoxesOwned'
    BY NewObjectKeepsOwners, NoLeakParts DEF LInv, BoxesOwned, Owner
<1>2. HoldersLive' /\ PlaceInv'
    BY NoLeakParts DEF LInv, HoldersLive, PlaceInv, Live
<1>3. TensorsOwned'
    BY NewObjectKeepsOwners, NoLeakParts DEF LInv, TensorsOwned
<1> QED
    BY <1>1, <1>2, <1>3, NoLeakPartsPrime

(***************************************************************************)
(* When the owners of S give up their blocks, every other box still has    *)
(* its owner.                                                              *)
(***************************************************************************)
LEMMA OthersOwned ==
    ASSUME LInv, NEW S, GivenUp(S),
           \A o \in Object : Owner(o) /\ o \notin S => Owner(o)' /\ ptr'[o] = ptr[o],
           \A b \in Block : kind'[b] = "box" => kind[b] = "box" /\ b \notin Moved(S)
    PROVE  BoxesOwned'
<1> SUFFICES ASSUME NEW b \in Block, kind'[b] = "box"
             PROVE  \E x \in Object : Owner(x)' /\ ptr'[x] = b
    BY DEF BoxesOwned
<1>1. PICK x \in Object : Owner(x) /\ ptr[x] = b
    BY NoLeakParts, ConstantsAssumption DEF LInv, BoxesOwned
<1>2. x \notin S
    BY <1>1 DEF Moved
<1> QED
    BY <1>1, <1>2

(* Dropping blocks with their content leaves nothing in what is freed. *)
LEMMA DropHolders ==
    ASSUME LInv, NEW S, S \subseteq Block, DropBlocks(S), tensor' = tensor
    PROVE  HoldersLive' /\ PlaceInv'
<1> DEFINE Freed == S \cup UNION {Content(c) : c \in S}
<1>1. kind' = [b \in Block |-> IF b \in Freed THEN "freed" ELSE kind[b]] /\ holder' = holder
    BY DEF DropBlocks
<1>2. ASSUME NEW b \in Block, Live(b), holder[b] \in Freed PROVE b \in Freed
    <2>1. PICK c \in S : holder[b] \in Content(c) \cup {c}
        BY <1>2
    <2>2. b \in Content(c)
        BY <1>2, <2>1, ContentClosed DEF Closed
    <2> QED
        BY <2>2
<1> HIDE DEF Freed
<1>3. PlaceInv'
    BY <1>1 DEF LInv, PlaceInv
<1>4. HoldersLive'
    <2> SUFFICES ASSUME NEW b \in Block
                 PROVE  /\ kind'[b] = "map" => tensor'[holder'[b]] = "live"
                        /\ kind'[b] = "gradient" => kind'[holder'[b]] \in {"box", "map", "gradient"}
        BY <1>1 DEF HoldersLive, Live
    <2>1. HoldersLive /\ PlaceInv
        BY NoLeakParts, ConstantsAssumption DEF LInv
    <2>2. kind'[b] = "map" => tensor'[holder'[b]] = "live"
        BY <1>1, <2>1 DEF HoldersLive
    <2>3. ASSUME kind'[b] = "gradient" PROVE kind'[holder'[b]] \in {"box", "map", "gradient"}
        <3>1. b \notin Freed /\ kind[b] = "gradient" /\ holder[b] \in Block /\ Live(holder[b])
            BY <1>1, <2>1, <2>3 DEF HoldersLive, PlaceInv
        <3>2. holder[b] \notin Freed
            BY <1>2, <3>1 DEF Live
        <3> QED
            BY <1>1, <3>1, <3>2 DEF Live
    <2> QED
        BY <2>2, <2>3
<1> QED
    BY <1>3, <1>4

(* Owners outside of S, and all tensor maps, keep what they have. *)
LEMMA MovePtrOwners ==
    ASSUME LInv, NEW S, GivenUp(S), MovePtr(S), tensor' = tensor
    PROVE  /\ \A o \in Object : Owner(o) /\ o \notin S => Owner(o)' /\ ptr'[o] = ptr[o]
           /\ TensorsOwned'
<1>1. \A o \in Object : Owner(o) /\ o \notin S => Owner(o)' /\ ptr'[o] = ptr[o]
    BY DEF MovePtr, Owner
<1>2. \A o \in Object : type[o] = "tensor" => type'[o] = "tensor" /\ ptr'[o] = ptr[o]
    BY DEF MovePtr, GivenUp, Owner
<1>3. TensorsOwned'
    BY <1>2, NoLeakParts, ConstantsAssumption DEF LInv, TensorsOwned
<1> QED
    BY <1>1, <1>3

(* A call that drops what it was given leaves nothing behind. *)
LEMMA DropCallLeak ==
    ASSUME LInv, NEW S, GivenUp(S), MovePtr(S), DropBlocks(Moved(S)), tensor' = tensor
    PROVE  PlaceInv' /\ NoLeak'
<1>1. Moved(S) \subseteq Block
    BY MovedAreBoxes DEF LInv
<1>2. \A b \in Block : kind'[b] = "box" => kind[b] = "box" /\ b \notin Moved(S)
    BY DEF DropBlocks
<1>3. BoxesOwned'
    BY <1>2, MovePtrOwners, OthersOwned
<1> QED
    BY <1>1, <1>3, MovePtrOwners, DropHolders, NoLeakPartsPrime, ConstantsAssumption

(* The gradient is in a block that is alive, or dropped. *)
LEMMA AddGradientLeak ==
    ASSUME LInv, NEW o \in Object, NEW p \in Parameter, NEW g \in Object, add_gradient(o, p, g)
    PROVE  PlaceInv' /\ NoLeak'
<1> DEFINE S == {g}
<1>1. GivenUp(S) /\ MovePtr(S) /\ Moved(S) = {ptr[g]} /\ tensor' = tensor
    BY DEF add_gradient, add_gradient_allowed, Usable, GivenUp, Owner, Moved
<1>2. CASE DropBlocks({ptr[g]})
    BY <1>1, <1>2, DropCallLeak
<1>3. CASE InsertGradient(ptr[o], p, ptr[g])
    <2>1. ptr[g] \in Block /\ kind[ptr[g]] = "box"
        BY <1>1, MovedAreBoxes DEF LInv
    <2>2. ptr[o] \in Block /\ Live(ptr[o])
        BY DEF add_gradient, ValidBlock
    <2>3. \A b \in Block : kind'[b] = "box" => kind[b] = "box" /\ b \notin Moved(S)
        BY <1>1, <1>3, <2>1 DEF InsertGradient, LInv, OInv, TypeOK
    <2>4. BoxesOwned' /\ TensorsOwned'
        BY <1>1, <2>3, MovePtrOwners, OthersOwned
    <2>5. HoldersLive' /\ PlaceInv'
        <3>1. HoldersLive /\ PlaceInv
            BY NoLeakParts, ConstantsAssumption DEF LInv
        <3> QED
            BY <1>1, <1>3, <2>1, <2>2, <3>1
            DEF InsertGradient, LInv, OInv, TypeOK, HoldersLive, PlaceInv, Live
    <2> QED
        BY <2>4, <2>5, NoLeakPartsPrime, ConstantsAssumption
<1> QED
    BY <1>2, <1>3 DEF add_gradient

(* The blocks are in a map that has an owner. *)
LEMMA CreateTensorMapLeak ==
    ASSUME LInv, NEW S \in SUBSET Object, NEW t \in Tensor, NEW n \in Object,
           create_TensorMap(S, t, n)
    PROVE  PlaceInv' /\ NoLeak'
<1>1. GivenUp(S)
    BY TensorMapGivesUp DEF create_TensorMap
<1>2. Moved(S) \subseteq Block /\ \A b \in Moved(S) : kind[b] = "box"
    BY <1>1, MovedAreBoxes DEF LInv
<1>3. BoxesOwned'
    <2>1. \A o \in Object : Owner(o) /\ o \notin S => Owner(o)' /\ ptr'[o] = ptr[o]
        BY DEF create_TensorMap, Unused, Owner, LInv, OInv, TypeOK
    <2>2. \A b \in Block : kind'[b] = "box" => kind[b] = "box" /\ b \notin Moved(S)
        BY DEF create_TensorMap
    <2> QED
        BY <1>1, <2>1, <2>2, OthersOwned
<1>4. HoldersLive' /\ PlaceInv'
    <2>1. HoldersLive /\ PlaceInv
        BY NoLeakParts, ConstantsAssumption DEF LInv
    <2> QED
        BY <1>2, <2>1 DEF create_TensorMap, LInv, OInv, TypeOK, HoldersLive, PlaceInv, Live
<1>5. TensorsOwned'
    <2>1. \A o \in Object : type[o] = "tensor" => type'[o] = "tensor" /\ ptr'[o] = ptr[o]
        BY <1>1 DEF create_TensorMap, Unused, GivenUp, Owner, LInv, OInv, TypeOK
    <2>2. type'[n] = "tensor" /\ ptr'[n] = t
        BY DEF create_TensorMap, LInv, OInv, TypeOK
    <2>3. \A u \in Tensor : tensor'[u] = "live" => u = t \/ tensor[u] = "live"
        BY DEF create_TensorMap, LInv, OInv, TypeOK
    <2> QED
        BY <2>1, <2>2, <2>3, NoLeakParts, ConstantsAssumption DEF LInv, TensorsOwned
<1> QED
    BY <1>3, <1>4, <1>5, NoLeakPartsPrime, ConstantsAssumption

(* An owner takes its block with it, a view takes nothing. *)
LEMMA DelBlockLeak ==
    ASSUME LInv, NEW o \in Object, del_block(o)
    PROVE  PlaceInv' /\ NoLeak'
<1>1. OInv /\ type[o] = "block" /\ DeleteObject(o) /\ tensor' = tensor
    BY DEF del_block, LInv
<1>2. TensorsOwned'
    BY <1>1, DeleteObjectStep, NoLeakParts, ConstantsAssumption DEF LInv, TensorsOwned
<1>3. CASE owns(o) /\ ptr[o] # NULL
    <2> DEFINE S == {o}
    <2>1. GivenUp(S) /\ Moved(S) = {ptr[o]}
        BY <1>1, <1>3 DEF owns, GivenUp, Owner, Moved
    <2>2. DropBlocks(Moved(S)) /\ Moved(S) \subseteq Block
        BY <1>1, <1>3, <2>1, MovedAreBoxes DEF del_block
    <2>3. \A n \in Object : Owner(n) /\ n \notin S => Owner(n)' /\ ptr'[n] = ptr[n]
        BY <1>1, DeleteObjectStep DEF Owner
    <2>4. \A b \in Block : kind'[b] = "box" => kind[b] = "box" /\ b \notin Moved(S)
        BY <2>2 DEF DropBlocks
    <2>5. BoxesOwned'
        BY <2>1, <2>3, <2>4, OthersOwned
    <2> QED
        BY <1>1, <1>2, <2>2, <2>5, DropHolders, NoLeakPartsPrime, ConstantsAssumption
<1>4. CASE ~(owns(o) /\ ptr[o] # NULL)
    <2>1. UNCHANGED <<kind, holder>>
        BY <1>4 DEF del_block
    <2>2. ~Owner(o)
        BY <1>4 DEF owns, Owner
    <2>3. \A n \in Object : Owner(n) => Owner(n)' /\ ptr'[n] = ptr[n]
        BY <1>1, <2>2, DeleteObjectStep DEF Owner
    <2>4. BoxesOwned'
        BY <2>1, <2>3, NoLeakParts, ConstantsAssumption DEF LInv, BoxesOwned
    <2>5. HoldersLive' /\ PlaceInv'
        BY <1>1, <2>1, NoLeakParts, ConstantsAssumption DEF LInv, HoldersLive, PlaceInv, Live
    <2> QED
        BY <1>2, <2>4, <2>5, NoLeakPartsPrime, ConstantsAssumption
<1> QED
    BY <1>3, <1>4

(* A tensor map takes all its content with it. *)
LEMMA DelTensorLeak ==
    ASSUME LInv, NEW o \in Object, del_tensor(o)
    PROVE  PlaceInv' /\ NoLeak'
<1> DEFINE t == ptr[o]
           Freed == Content(t)
<1>1. OInv /\ type[o] = "tensor" /\ DeleteObject(o) /\ holder' = holder
    BY DEF del_tensor, LInv
<1>2. t \in Tensor /\ t \notin Block /\ Freed \subseteq Block
    BY <1>1, ConstantsAssumption DEF OInv, TensorsInv, ValidTensor, Content
<1>3. /\ kind' = [b \in Block |-> IF b \in Freed THEN "freed" ELSE kind[b]]
      /\ tensor' = [tensor EXCEPT ![t] = "freed"]
    BY DEF del_tensor
<1>4. \A b \in Block : Live(b) /\ holder[b] \in Freed \cup {t} => b \in Freed
    BY ContentClosed DEF Closed
<1>5. BoxesOwned /\ HoldersLive /\ TensorsOwned /\ PlaceInv
    BY NoLeakParts, ConstantsAssumption DEF LInv
<1>6. BoxesOwned'
    <2>1. \A n \in Object : Owner(n) => Owner(n)' /\ ptr'[n] = ptr[n]
        BY <1>1, DeleteObjectStep DEF Owner
    <2> QED
        BY <1>3, <1>5, <2>1 DEF BoxesOwned
<1>7. TensorsOwned'
    <2>1. \A u \in Tensor : tensor'[u] = "live" => u # t /\ tensor[u] = "live"
        BY <1>2, <1>3 DEF LInv, OInv, TypeOK
    <2> QED
        BY <1>1, <1>5, <2>1, DeleteObjectStep DEF TensorsOwned
<1> HIDE DEF t, Freed
<1>8. HoldersLive' /\ PlaceInv'
    BY <1>1, <1>2, <1>3, <1>4, <1>5 DEF OInv, TypeOK, HoldersLive, PlaceInv, Live
<1> QED
    BY <1>6, <1>7, <1>8, NoLeakPartsPrime, ConstantsAssumption

(***************************************************************************)
(* What a copy does to one block: nothing, or the block becomes the copy   *)
(* of a block of D, held by the copy of what holds that one.               *)
(***************************************************************************)
LEMMA CopyEffect ==
    ASSUME NEW root, NEW new_root, NEW D, NEW to \in [D -> Block],
           CopyContent(to, root, new_root), NEW c \in Block
    PROVE  \/ kind'[c] = kind[c] /\ holder'[c] = holder[c]
           \/ \E b \in D :
                 /\ c = to[b]
                 /\ b = root => kind'[c] = "box"
                 /\ b # root =>
                       /\ kind'[c] = kind[b]
                       /\ holder'[c] = IF holder[b] = root /\ root \notin D THEN new_root
                                       ELSE to[holder[b]]
<1> DEFINE from(x) == CHOOSE b \in DOMAIN to : to[b] = x
           Copied == {to[b] : b \in DOMAIN to}
           place(b) == IF b = root THEN NULL
                       ELSE IF holder[b] = root /\ root \notin DOMAIN to THEN new_root
                       ELSE to[holder[b]]
<1>1. /\ kind' = [x \in Block |-> IF x \notin Copied THEN kind[x]
                                   ELSE IF from(x) = root THEN "box" ELSE kind[from(x)]]
      /\ holder' = [x \in Block |-> IF x \in Copied THEN place(from(x)) ELSE holder[x]]
    BY Zenon DEF CopyContent
<1>2. c \in Copied => from(c) \in D /\ to[from(c)] = c
    OBVIOUS
<1>3. \A b \in D : place(b) = IF b = root THEN NULL
                              ELSE IF holder[b] = root /\ root \notin D THEN new_root
                              ELSE to[holder[b]]
    OBVIOUS
<1> HIDE DEF from, place, Copied
<1>4. CASE c \notin Copied
    BY <1>1, <1>4
<1>5. CASE c \in Copied
    BY <1>1, <1>2, <1>3, <1>5
<1> QED
    BY <1>4, <1>5

(* The copies of what is not the root are of the same kind. *)
LEMMA CopyKind ==
    ASSUME NEW root, NEW new_root, NEW D, NEW to \in [D -> Block],
           CopyContent(to, root, new_root), NEW b \in D, b # root
    PROVE  kind'[to[b]] = kind[b]
<1> DEFINE from(x) == CHOOSE y \in DOMAIN to : to[y] = x
           Copied == {to[y] : y \in DOMAIN to}
<1>1. kind' = [x \in Block |-> IF x \notin Copied THEN kind[x]
                               ELSE IF from(x) = root THEN "box" ELSE kind[from(x)]]
    BY Zenon DEF CopyContent
<1>2. to[b] \in Copied /\ to[b] \in Block
    OBVIOUS
<1>3. from(to[b]) \in D /\ to[from(to[b])] = to[b]
    OBVIOUS
<1>4. \A x, y \in D : to[x] = to[y] => x = y
    BY DEF CopyContent, Injective
<1> HIDE DEF from, Copied
<1>5. from(to[b]) = b
    BY <1>3, <1>4
<1> QED
    BY <1>1, <1>2, <1>5

(* The copies are held by live copies, or by the new tensor map. *)
LEMMA CopyHolders ==
    ASSUME LInv, NEW root \in Block \cup Tensor, NEW new_root \in Tensor \cup {NULL},
           NEW D, D = Content(root) \/ (root \in Block /\ D = Content(root) \cup {root}),
           root \in Block => root \in D,
           root \in Tensor => new_root \in Tensor /\ tensor'[new_root] = "live",
           \A t \in Tensor : tensor[t] = "live" => tensor'[t] = "live",
           NEW to \in [D -> Block], CopyContent(to, root, new_root)
    PROVE  HoldersLive' /\ PlaceInv'
<1>1. HoldersLive /\ PlaceInv /\ OInv /\ BoxInv
    BY NoLeakParts, ConstantsAssumption DEF LInv, OInv
<1>2. \A b \in Block : kind[b] # "unused" => kind'[b] = kind[b]
    BY <1>1, CopyStep
<1>3. Content(root) \subseteq Block /\ root # NULL /\ NULL \notin Block /\ Block \cap Tensor = {}
    BY ConstantsAssumption DEF Content
<1>4. ASSUME NEW b \in D, b # root
      PROVE  /\ kind[b] \in {"map", "gradient"} /\ b \in Block
             /\ holder[b] \in Content(root) \cup {root}
    <2>1. b \in Content(root)
        BY <1>4
    <2>2. b \in Block /\ kind[b] \in {"map", "gradient"}
        BY <1>1, <1>3, <2>1, ContentIsNotBoxed
    <2> QED
        BY <2>1, <2>2, ContentHolder
<1>5. ASSUME NEW b \in D PROVE to[b] \in Block /\ kind'[to[b]] \in {"box", "map", "gradient"}
    <2>1. to[b] \in Block /\ kind[to[b]] = "unused" /\ \A x \in D : to[x] = to[b] => x = b
        BY <1>5 DEF CopyContent, Injective
    <2>2. CASE b = root
        BY <1>1, <1>5, <2>1, <2>2, CopyStep
    <2>3. CASE b # root
        BY <1>4, <1>5, <2>1, <2>3, CopyKind
    <2> QED
        BY <2>1, <2>2, <2>3
<1>6. ASSUME NEW c \in Block
      PROVE  /\ kind'[c] = "map" => holder'[c] \in Tensor /\ tensor'[holder'[c]] = "live"
             /\ kind'[c] = "gradient" =>
                   holder'[c] \in Block /\ kind'[holder'[c]] \in {"box", "map", "gradient"}
    <2>1. CASE kind'[c] = kind[c] /\ holder'[c] = holder[c]
        BY <1>1, <1>2, <2>1 DEF HoldersLive, PlaceInv, Live
    <2>2. ASSUME NEW b \in D, c = to[b], b = root, kind'[c] = "box"
          PROVE  kind'[c] \notin {"map", "gradient"}
        BY <2>2
    <2>3. ASSUME NEW b \in D, c = to[b], b # root, kind'[c] = kind[b],
                 holder'[c] = IF holder[b] = root /\ root \notin D THEN new_root
                              ELSE to[holder[b]]
          PROVE  /\ kind'[c] = "map" => holder'[c] \in Tensor /\ tensor'[holder'[c]] = "live"
                 /\ kind'[c] = "gradient" =>
                       holder'[c] \in Block /\ kind'[holder'[c]] \in {"box", "map", "gradient"}
        <3>1. b \in Block /\ holder[b] \in Content(root) \cup {root}
            BY <1>4, <2>3
        <3>2. CASE kind'[c] = "map"
            <4>1. holder[b] \in Tensor
                BY <1>1, <2>3, <3>1, <3>2 DEF PlaceInv
            <4>2. holder[b] = root /\ root \notin D /\ root \in Tensor
                BY <1>3, <3>1, <4>1
            <4> QED
                BY <2>3, <3>2, <4>2
        <3>3. CASE kind'[c] = "gradient"
            <4>1. holder[b] \in Block
                BY <1>1, <2>3, <3>1, <3>3 DEF PlaceInv
            <4>2. holder[b] \in D
                BY <3>1, <4>1
            <4>3. holder'[c] = to[holder[b]]
                BY <2>3, <4>2
            <4> QED
                BY <1>5, <3>3, <4>2, <4>3
        <3> QED
            BY <3>2, <3>3
    <2>4. \/ kind'[c] = kind[c] /\ holder'[c] = holder[c]
          \/ \E b \in D :
                 /\ c = to[b]
                 /\ b = root => kind'[c] = "box"
                 /\ b # root =>
                       /\ kind'[c] = kind[b]
                       /\ holder'[c] = IF holder[b] = root /\ root \notin D THEN new_root
                                       ELSE to[holder[b]]
        BY CopyEffect
    <2> QED
        BY <2>1, <2>2, <2>3, <2>4
<1> QED
    BY <1>6 DEF HoldersLive, PlaceInv, Live

(* All the copies are in the new box. *)
LEMMA CopyBlockLeak ==
    ASSUME LInv, NEW o \in Object, NEW n \in Object, copy_block(o, n)
    PROVE  PlaceInv' /\ NoLeak'
<1> DEFINE root == ptr[o]
           D == Content(root) \cup {root}
<1>1. root \in Block /\ tensor' = tensor /\ OInv
    BY DEF copy_block, ValidBlock, LInv
<1>2. PICK to \in [D -> Block] :
          CopyContent(to, root, NULL) /\ NewObject(n, "block", to[root], moves[to[root]], NULL)
    BY DEF copy_block
<1> HIDE DEF root, D
<1>3. root \in D /\ D = Content(root) \cup {root} /\ root \notin Tensor
    BY <1>1, ConstantsAssumption DEF D
<1>4. HoldersLive' /\ PlaceInv'
    BY <1>1, <1>2, <1>3, CopyHolders
<1>5. TensorsOwned'
    BY <1>1, <1>2, NewObjectKeepsOwners, NoLeakParts, ConstantsAssumption DEF LInv, TensorsOwned
<1>6. BoxesOwned'
    <2> SUFFICES ASSUME NEW c \in Block, kind'[c] = "box"
                 PROVE  \E x \in Object : Owner(x)' /\ ptr'[x] = c
        BY DEF BoxesOwned
    <2>1. CASE c = to[root]
        <3>1. type'[n] = "block" /\ ptr'[n] = c /\ parent'[n] = NULL
            BY <1>1, <1>2, <2>1, NewObjectKeepsOwners
        <3> QED
            BY <3>1, ConstantsAssumption DEF Owner
    <2>2. CASE c # to[root]
        <3>1. kind[c] = "box"
            <4>1. ASSUME NEW b \in D, b # root PROVE kind[b] # "box"
                BY <1>1, <1>3, <4>1, ContentIsNotBoxed, ConstantsAssumption DEF OInv
            <4> QED
                BY <1>2, <2>2, <4>1, CopyEffect
        <3>2. PICK x \in Object : Owner(x) /\ ptr[x] = c
            BY <3>1, NoLeakParts, ConstantsAssumption DEF LInv, BoxesOwned
        <3> QED
            BY <1>1, <1>2, <3>2, NewObjectKeepsOwners DEF Owner
    <2> QED
        BY <2>1, <2>2
<1> QED
    BY <1>4, <1>5, <1>6, NoLeakPartsPrime, ConstantsAssumption

(* All the copies are in the new map. *)
LEMMA CopyTensorLeak ==
    ASSUME LInv, NEW o \in Object, NEW t \in Tensor, NEW n \in Object, copy_tensor(o, t, n)
    PROVE  PlaceInv' /\ NoLeak'
<1> DEFINE root == ptr[o]
           D == Content(root)
<1>1. root \in Tensor /\ root \notin Block /\ OInv
    BY ConstantsAssumption DEF copy_tensor, ValidTensor, LInv
<1>2. PICK to \in [D -> Block] : CopyContent(to, root, t)
    BY DEF copy_tensor
<1>3. NewObject(n, "tensor", t, 0, NULL) /\ tensor' = [tensor EXCEPT ![t] = "live"]
    BY DEF copy_tensor
<1>4. D \subseteq Block
    BY DEF Content
<1> HIDE DEF root
<1>5. tensor'[t] = "live" /\ \A u \in Tensor : tensor[u] = "live" => tensor'[u] = "live"
    BY <1>1, <1>3 DEF OInv, TypeOK
<1>6. HoldersLive' /\ PlaceInv'
    BY <1>1, <1>2, <1>5, CopyHolders
<1>7. TensorsOwned'
    <2>1. \A u \in Tensor : tensor'[u] = "live" => u = t \/ tensor[u] = "live"
        BY <1>1, <1>3 DEF OInv, TypeOK
    <2> QED
        BY <1>1, <1>3, <2>1, NewObjectKeepsOwners, NoLeakParts, ConstantsAssumption
        DEF LInv, TensorsOwned
<1>8. BoxesOwned'
    <2>1. \A b \in D : kind[b] # "box" /\ b # root
        BY <1>1, <1>4, ContentIsNotBoxed, ConstantsAssumption DEF OInv
    <2>2. \A c \in Block : kind'[c] = "box" => kind[c] = "box"
        BY <1>2, <2>1, CopyEffect
    <2> QED
        BY <1>1, <1>3, <2>2, NewObjectKeepsOwners, NoLeakParts, ConstantsAssumption
        DEF LInv, BoxesOwned, Owner
<1> QED
    BY <1>6, <1>7, <1>8, NoLeakPartsPrime, ConstantsAssumption

(* No step loses anything, if no call is careless. *)
LEMMA NextLInv == Careless = FALSE /\ LInv /\ [Next]_vars => LInv'
<1> SUFFICES ASSUME Careless = FALSE, LInv, [Next]_vars PROVE PlaceInv' /\ NoLeak'
    BY NextOInv DEF LInv
<1>1. ASSUME NEW o \in Object, NEW b \in Block, CreateBlock(o, b) PROVE PlaceInv' /\ NoLeak'
    BY <1>1, CreateBlockLeak
<1>2. ASSUME NEW o \in Object, NEW n \in Object, NEW g \in Block, gradient(o, g, n)
      PROVE  PlaceInv' /\ NoLeak'
    BY <1>2, ViewLeak DEF gradient, gradient_parent
<1>3. ASSUME NEW o \in Object, NEW n \in Object, copy_block(o, n) PROVE PlaceInv' /\ NoLeak'
    BY <1>3, CopyBlockLeak
<1>4. ASSUME NEW o \in Object, NEW g \in Object, NEW p \in Parameter, add_gradient(o, p, g)
      PROVE  PlaceInv' /\ NoLeak'
    BY <1>4, AddGradientLeak
<1>5. ASSUME NEW o \in Object, NEW g \in Object, add_gradient_raises(o, g) PROVE FALSE
    BY <1>5 DEF add_gradient_raises
<1>6. ASSUME NEW S \in SUBSET Object, NEW t \in Tensor, NEW n \in Object,
             create_TensorMap(S, t, n)
      PROVE  PlaceInv' /\ NoLeak'
    BY <1>6, CreateTensorMapLeak
<1>7. ASSUME NEW S \in SUBSET Object, create_TensorMap_fails(S) PROVE PlaceInv' /\ NoLeak'
    BY <1>7, TensorMapGivesUp, DropCallLeak DEF create_TensorMap_fails
<1>8. ASSUME NEW S \in SUBSET Object, create_TensorMap_twice(S) PROVE FALSE
    BY <1>8 DEF create_TensorMap_twice
<1>9. ASSUME NEW o \in Object, NEW n \in Object, NEW b \in Block, block_by_id(o, b, n)
      PROVE  PlaceInv' /\ NoLeak'
    BY <1>9, ViewLeak DEF block_by_id
<1>10. ASSUME NEW o \in Object, NEW n \in Object, NEW t \in Tensor, copy_tensor(o, t, n)
       PROVE  PlaceInv' /\ NoLeak'
    BY <1>10, CopyTensorLeak
<1>11. ASSUME NEW o \in Object, Release(o) PROVE PlaceInv' /\ NoLeak'
    BY <1>11 DEF Release, core, python, LInv, PlaceInv, NoLeak, Live
<1>12. ASSUME NEW o \in Object, del_block(o) PROVE PlaceInv' /\ NoLeak'
    BY <1>12, DelBlockLeak
<1>13. ASSUME NEW o \in Object, del_tensor(o) PROVE PlaceInv' /\ NoLeak'
    BY <1>13, DelTensorLeak
<1>14. CASE UNCHANGED vars
    BY <1>14 DEF vars, core, python, LInv, PlaceInv, NoLeak, Live
<1> QED
    BY <1>1, <1>2, <1>3, <1>4, <1>5, <1>6, <1>7, <1>8, <1>9, <1>10, <1>11, <1>12, <1>13, <1>14,
       Zenon DEF Next, UserNext, Collect

(***************************************************************************)
(* As long as no call is made with a block that was moved, or twice with   *)
(* the same block, whatever the core has allocated has an owner in Python, *)
(* also after failed calls and after copies.                               *)
(***************************************************************************)
THEOREM NothingIsLost == Careless = FALSE => (Spec => []NoLeak)
<1> SUFFICES ASSUME Careless = FALSE PROVE Spec => []NoLeak
    OBVIOUS
<1>1. LInv /\ [Next]_vars => LInv'
    BY NextLInv
<1>2. LInv => NoLeak
    BY DEF LInv
<1> QED
    BY <1>1, <1>2, InitLInv, PTL DEF Spec

-----------------------------------------------------------------------------
(* Views *)

(* A parent is in use as long as it has views. *)
ParentsInv ==
    \A v \in Object : /\ type[v] = "unused" => parent[v] = NULL
                      /\ parent[v] # NULL => type[parent[v]] # "unused"

(* The blocks of the objects of A are alive, and a view is of a block that *)
(* is held by the one of its parent, which is in A.                        *)
Anchored(A) ==
    \A o \in A : type[o] = "block" =>
        /\ ptr[o] \in Block /\ Live(ptr[o])
        /\ parent[o] # NULL => /\ parent[o] \in A /\ kind[ptr[o]] \in {"map", "gradient"}
                               /\ holder[ptr[o]] = ptr[parent[o]]

(* T has the tensor maps and all the views made from them, whose addresses *)
(* are right.                                                              *)
MapViews(T) ==
    /\ Anchored(T)
    /\ \A o \in Object : type[o] = "tensor" => o \in T
    /\ \A v \in Object : parent[v] \in T => v \in T
    /\ \A o \in T : /\ type[o] \in {"block", "tensor"}
                    /\ type[o] = "block" => parent[o] # NULL /\ at[o] = moves[ptr[o]]
MapViewsInv == \E T \in SUBSET Object : MapViews(T)

(* The objects that were moved elsewhere, and all the views made from them. *)
Nulled == {r \in Object : type[r] = "block" /\ ptr[r] = NULL}
Lost == From(Nulled)

(* K and H being the kinds and the holders of blocks, some insertion moved *)
(* the gradients of b.                                                     *)
Gradients(K, H, b) == {g \in Block : K[g] = "gradient" /\ H[g] = b}
Grew(K, H, b) == \E n \in GrowsAt : ~ (Cardinality(Gradients(K, H, b)) <= n)

ExplainedInv ==
    /\ Anchored(Object \ Lost)
    /\ \A o \in Object \ Lost : type[o] = "block" =>
          at[o] = moves[ptr[o]] \/ Grew(kind, holder, holder[ptr[o]])

VInv == OInv /\ ParentsInv /\ MapViewsInv /\ ExplainedInv

(* From(R) is closed, and the smallest such set. *)
LEMMA FromClosed ==
    ASSUME NEW R \in SUBSET Object
    PROVE  /\ From(R) \subseteq Object /\ R \subseteq From(R)
           /\ \A v \in Object : parent[v] \in From(R) => v \in From(R)
<1>1. From(R) \subseteq Object /\ R \subseteq From(R)
    BY DEF From
<1>2. ASSUME NEW v \in Object, parent[v] \in From(R) PROVE v \in From(R)
    <2> SUFFICES ASSUME NEW S \in SUBSET Object, R \subseteq S, \A w \in Object : parent[w] \in S => w \in S
                 PROVE  v \in S
        BY Zenon DEF From
    <2>1. parent[v] \in S
        BY <1>2 DEF From
    <2> QED
        BY <2>1
<1> QED
    BY <1>1, <1>2

LEMMA FromSmallest ==
    ASSUME NEW R \in SUBSET Object, NEW S \in SUBSET Object, R \subseteq S,
           \A v \in Object : parent[v] \in S => v \in S
    PROVE  From(R) \subseteq S
BY DEF From

(* What was lost is closed, in this state and in the next one. *)
LostIsClosed ==
    /\ Lost \subseteq Object /\ Nulled \subseteq Lost
    /\ \A v \in Object : parent[v] \in Lost => v \in Lost

LEMMA LostClosed == LostIsClosed
<1>1. Nulled \in SUBSET Object
    BY DEF Nulled
<1> QED
    BY <1>1, FromClosed DEF Lost, LostIsClosed

LEMMA LostClosedPrime ==
    /\ Lost' \subseteq Object /\ Nulled' \subseteq Lost'
    /\ \A v \in Object : parent'[v] \in Lost' => v \in Lost'
<1>1. LostIsClosed'
    BY LostClosed, PTL
<1> QED
    BY <1>1 DEF LostIsClosed

(* What VInv says of the two properties. *)
LEMMA VInvImplies == VInv => MapViewsAreValid /\ InvalidViewsAreExplained
<1> SUFFICES ASSUME VInv PROVE MapViewsAreValid /\ InvalidViewsAreExplained
    OBVIOUS
<1>1. MapViewsAreValid
    <2>1. PICK T \in SUBSET Object : MapViews(T)
        BY DEF VInv, MapViewsInv
    <2>2. From({r \in Object : type[r] = "tensor"}) \subseteq T
        BY <2>1, FromSmallest DEF MapViews
    <2>3. \A o \in T : type[o] = "block" => ValidBlock(o)
        BY <2>1 DEF MapViews, Anchored, ValidBlock
    <2> QED
        BY <2>2, <2>3 DEF MapViewsAreValid
<1>2. \A b : ~NeverGrew(b) <=> Grew(kind, holder, b)
    BY DEF NeverGrew, Grew, gradients, Gradients
<1>3. InvalidViewsAreExplained
    <2> SUFFICES ASSUME NEW o \in Object, type[o] = "block", o \notin Lost
                 PROVE  ValidBlock(o) \/ ~NeverGrew(holder[ptr[o]])
        BY DEF InvalidViewsAreExplained, Lost, Nulled
    <2>1. ptr[o] \in Block /\ Live(ptr[o])
        BY DEF VInv, ExplainedInv, Anchored
    <2>2. at[o] = moves[ptr[o]] \/ Grew(kind, holder, holder[ptr[o]])
        BY DEF VInv, ExplainedInv
    <2> QED
        BY <1>2, <2>1, <2>2 DEF ValidBlock
<1> QED
    BY <1>1, <1>3

LEMMA InitVInv == Init => VInv
<1> SUFFICES ASSUME Init PROVE VInv
    OBVIOUS
<1>1. OInv /\ ParentsInv
    BY InitOInv DEF Init, ParentsInv
<1>2. \A o \in Object : type[o] = "unused"
    BY DEF Init
<1>3. MapViews({})
    BY <1>2 DEF MapViews, Anchored
<1>4. ExplainedInv
    BY <1>2 DEF ExplainedInv, Anchored
<1> QED
    BY <1>1, <1>3, <1>4 DEF VInv, MapViewsInv

-----------------------------------------------------------------------------
(***************************************************************************)
(* What a step does to Python objects: those of Gone are deleted, those of *)
(* New are made, and owners may give up their blocks.                      *)
(***************************************************************************)
ObjectStep(Gone, New) ==
    /\ \A o \in Object \ (Gone \cup New) :
          /\ type'[o] = type[o] /\ at'[o] = at[o] /\ parent'[o] = parent[o]
          /\ ptr'[o] = ptr[o] \/ (type[o] = "block" /\ parent[o] = NULL /\ ptr'[o] = NULL)
    /\ \A o \in Gone : /\ o \in Object /\ type'[o] = "unused" /\ parent'[o] = NULL
                       /\ \A v \in Object : parent[v] # o
    /\ \A n \in New :
          /\ n \in Object /\ type[n] = "unused" /\ type'[n] \in {"block", "tensor"}
          /\ type'[n] = "tensor" => parent'[n] = NULL
          /\ type'[n] = "block" => /\ ptr'[n] \in Block /\ at'[n] = moves'[ptr'[n]]
                                   /\ kind'[ptr'[n]] \in {"box", "map", "gradient"}
          /\ parent'[n] # NULL =>
                /\ parent'[n] \in Object \ (Gone \cup New) /\ type[parent'[n]] # "unused"
                /\ ptr'[parent'[n]] = ptr[parent'[n]]
                /\ kind'[ptr'[n]] \in {"map", "gradient"} /\ holder'[ptr'[n]] = ptr[parent'[n]]

LEMMA ParentsStep ==
    ASSUME OInv, ParentsInv, NEW Gone, NEW New, ObjectStep(Gone, New)
    PROVE  ParentsInv'
<1>1. ASSUME NEW v \in Object
      PROVE  /\ type'[v] = "unused" => parent'[v] = NULL
             /\ parent'[v] # NULL => type'[parent'[v]] # "unused"
    <2>0. \A o \in Object : parent[o] \in Object \cup {NULL}
        BY DEF OInv, TypeOK
    <2>1. CASE v \in Gone
        BY <2>1 DEF ObjectStep
    <2>2. CASE v \in New
        BY <2>2 DEF ObjectStep
    <2>3. CASE v \notin Gone \cup New
        <3>1. type'[v] = type[v] /\ parent'[v] = parent[v]
            BY <2>3 DEF ObjectStep
        <3>2. ASSUME parent[v] # NULL PROVE type'[parent[v]] # "unused"
            <4>1. parent[v] \in Object /\ type[parent[v]] # "unused" /\ parent[v] \notin Gone
                BY <2>0, <3>2 DEF ParentsInv, ObjectStep
            <4> QED
                BY <4>1 DEF ObjectStep
        <3> QED
            BY <3>1, <3>2 DEF ParentsInv
    <2> QED
        BY <2>1, <2>2, <2>3
<1> QED
    BY <1>1 DEF ParentsInv

(* What was lost stays so, or is deleted. *)
LEMMA LostStep ==
    ASSUME OInv, ParentsInv, NEW Gone, NEW New, ObjectStep(Gone, New)
    PROVE  Lost \subseteq Lost' \cup Gone
<1> DEFINE S == Lost' \cup Gone
<1>1. S \in SUBSET Object
    BY LostClosedPrime DEF ObjectStep
<1>2. Nulled \subseteq S
    <2> SUFFICES ASSUME NEW r \in Nulled, r \notin Gone PROVE r \in Lost'
        OBVIOUS
    <2>1. r \in Object /\ type[r] = "block" /\ ptr[r] = NULL /\ r \notin New
        BY DEF Nulled, ObjectStep
    <2>2. type'[r] = "block" /\ ptr'[r] = NULL
        BY <2>1 DEF ObjectStep
    <2> QED
        BY <2>1, <2>2, LostClosedPrime DEF Nulled
<1>3. ASSUME NEW v \in Object, parent[v] \in S PROVE v \in S
    <2>1. parent[v] \notin Gone
        BY DEF ObjectStep
    <2>2. parent[v] \in Lost' /\ parent[v] \in Object /\ parent[v] # NULL
        BY <1>1, <1>3, <2>1, ConstantsAssumption
    <2>3. CASE v \in Gone
        BY <2>3
    <2>4. CASE v \notin Gone
        <3>1. v \notin New
            BY <2>2 DEF ObjectStep, ParentsInv
        <3>2. parent'[v] = parent[v]
            BY <2>4, <3>1 DEF ObjectStep
        <3> QED
            BY <2>2, <3>2, LostClosedPrime
    <2> QED
        BY <2>3, <2>4
<1> HIDE DEF S
<1>4. Nulled \in SUBSET Object
    BY DEF Nulled
<1>5. Lost \subseteq S
    BY <1>1, <1>2, <1>3, <1>4, FromSmallest DEF Lost
<1> QED
    BY <1>5 DEF S

-----------------------------------------------------------------------------
(***************************************************************************)
(* What a step does to blocks. Stays(A): the objects of A keep what they   *)
(* point to. Kept(A): the blocks of A stay where they are with all that is *)
(* next to them, at the same address unless they are gradients of a block  *)
(* in a box, whose hash map of gradients grew.                             *)
(***************************************************************************)
Stays(A) == \A o \in A : type'[o] = type[o] /\ ptr'[o] = ptr[o]
Kept(A) ==
    \A o \in A : type[o] = "block" =>
        /\ kind'[ptr[o]] = kind[ptr[o]] /\ holder'[ptr[o]] = holder[ptr[o]]
        /\ Gradients(kind, holder, holder[ptr[o]]) \subseteq
             Gradients(kind', holder', holder[ptr[o]])
        /\ parent[o] # NULL =>
              \/ moves'[ptr[o]] = moves[ptr[o]]
              \/ /\ type[parent[o]] = "block" /\ parent[parent[o]] = NULL
                 /\ Grew(kind', holder', holder[ptr[o]])
BlockStep(Gone, New) ==
    \A A \in SUBSET (Object \ (Gone \cup New)) : Anchored(A) /\ Stays(A) => Kept(A)

(* The views of tensor maps are the old ones, and those made from them. *)
LEMMA MapViewsStep ==
    ASSUME OInv, ParentsInv, MapViewsInv, NEW Gone, NEW New,
           ObjectStep(Gone, New), BlockStep(Gone, New)
    PROVE  MapViewsInv'
<1>1. PICK T \in SUBSET Object : MapViews(T)
    BY DEF MapViewsInv
<1> DEFINE A == T \ Gone
           N == {n \in New : type'[n] = "tensor" \/ parent'[n] \in T}
<1>0. PICK U : U = A \cup N
    OBVIOUS
<1>2. U \in SUBSET Object
    BY <1>0 DEF ObjectStep
<1>3. \A o \in T : o \notin New /\ type[o] \in {"block", "tensor"}
    BY <1>1 DEF MapViews, ObjectStep
<1>4. \A o \in T : type[o] = "block" =>
        /\ ptr[o] \in Block /\ Live(ptr[o]) /\ parent[o] \in T /\ parent[o] # NULL
        /\ kind[ptr[o]] \in {"map", "gradient"} /\ holder[ptr[o]] = ptr[parent[o]]
        /\ at[o] = moves[ptr[o]]
    BY <1>1 DEF MapViews, Anchored
<1>5. \A o \in T : parent[o] \notin Gone
    BY <1>1 DEF ObjectStep
<1>6. A \in SUBSET (Object \ (Gone \cup New))
    BY <1>3
<1>7. Anchored(A)
    BY <1>4, <1>5 DEF Anchored
<1>8. \A o \in A : /\ type'[o] = type[o] /\ at'[o] = at[o] /\ parent'[o] = parent[o]
                   /\ ptr'[o] = ptr[o]
    BY <1>4, <1>6 DEF ObjectStep
<1>9. Kept(A)
    BY <1>6, <1>7, <1>8 DEF BlockStep, Stays
<1>10. ASSUME NEW o \in A, type[o] = "block"
       PROVE  /\ kind'[ptr[o]] = kind[ptr[o]] /\ holder'[ptr[o]] = holder[ptr[o]]
              /\ moves'[ptr[o]] = moves[ptr[o]]
    <2>1. parent[o] \in T /\ (type[parent[o]] = "block" => parent[parent[o]] # NULL)
        BY <1>4, <1>10
    <2> QED
        BY <1>4, <1>9, <1>10, <2>1 DEF Kept
<1> HIDE DEF A
<1>11. \A o \in T : o \in A \/ o \in Gone
    BY DEF A
<1>12. \A o \in A : o \in T /\ o \notin Gone
    BY DEF A
<1>13. \A n \in N : /\ n \in New /\ n \in Object /\ type'[n] \in {"block", "tensor"}
                    /\ type'[n] = "block" =>
                          /\ parent'[n] \in A /\ parent'[n] # NULL
                          /\ ptr'[n] \in Block /\ at'[n] = moves'[ptr'[n]]
                          /\ kind'[ptr'[n]] \in {"map", "gradient"}
                          /\ holder'[ptr'[n]] = ptr'[parent'[n]]
    <2> SUFFICES ASSUME NEW n \in N
                 PROVE  /\ n \in New /\ n \in Object /\ type'[n] \in {"block", "tensor"}
                        /\ type'[n] = "block" =>
                             /\ parent'[n] \in A /\ parent'[n] # NULL
                             /\ ptr'[n] \in Block /\ at'[n] = moves'[ptr'[n]]
                             /\ kind'[ptr'[n]] \in {"map", "gradient"}
                             /\ holder'[ptr'[n]] = ptr'[parent'[n]]
        OBVIOUS
    <2>1. n \in New /\ n \in Object /\ type'[n] \in {"block", "tensor"}
        BY DEF ObjectStep
    <2>2. ASSUME type'[n] = "block"
          PROVE  parent'[n] \in T /\ parent'[n] # NULL /\ parent'[n] \notin Gone
        BY <1>1, <2>1, <2>2, ConstantsAssumption DEF ObjectStep
    <2> QED
        BY <1>11, <2>1, <2>2 DEF ObjectStep
<1>14. \A v \in Object : parent'[v] \in U => v \in U
    <2> SUFFICES ASSUME NEW v \in Object, parent'[v] \in U PROVE v \in U
        OBVIOUS
    <2>1. parent'[v] # NULL /\ parent'[v] \in Object
        BY <1>2, ConstantsAssumption
    <2>2. v \notin Gone
        BY <2>1 DEF ObjectStep
    <2>3. CASE v \in New
        <3>1. parent'[v] \notin New
            BY <2>1, <2>3 DEF ObjectStep
        <3> QED
            BY <1>0, <1>12, <2>3, <3>1
    <2>4. CASE v \notin New
        <3>1. parent[v] = parent'[v]
            BY <2>2, <2>4 DEF ObjectStep
        <3>2. parent[v] \notin New
            BY <2>1, <3>1 DEF ParentsInv, ObjectStep
        <3>3. parent[v] \in T
            BY <1>0, <1>12, <3>1, <3>2
        <3> QED
            BY <1>0, <1>1, <1>11, <2>2, <3>3 DEF MapViews
    <2> QED
        BY <2>3, <2>4
<1>15. \A o \in Object : type'[o] = "tensor" => o \in U
    <2> SUFFICES ASSUME NEW o \in Object, type'[o] = "tensor" PROVE o \in U
        OBVIOUS
    <2>1. o \notin Gone
        BY DEF ObjectStep
    <2>2. o \in New \/ type[o] = "tensor"
        BY <2>1 DEF ObjectStep
    <2> QED
        BY <1>0, <1>1, <1>11, <2>1, <2>2 DEF MapViews
<1>16. \A o \in A : type'[o] = "block" =>
        /\ ptr'[o] \in Block /\ kind'[ptr'[o]] \in {"map", "gradient"}
        /\ parent'[o] \in A /\ parent'[o] # NULL
        /\ holder'[ptr'[o]] = ptr'[parent'[o]] /\ at'[o] = moves'[ptr'[o]]
    <2> SUFFICES ASSUME NEW o \in A, type'[o] = "block"
                 PROVE  /\ ptr'[o] \in Block /\ kind'[ptr'[o]] \in {"map", "gradient"}
                        /\ parent'[o] \in A /\ parent'[o] # NULL
                        /\ holder'[ptr'[o]] = ptr'[parent'[o]] /\ at'[o] = moves'[ptr'[o]]
        OBVIOUS
    <2>1. o \in T /\ type[o] = "block" /\ ptr'[o] = ptr[o] /\ parent'[o] = parent[o] /\ at'[o] = at[o]
        BY <1>8, <1>12
    <2>2. parent[o] \in A
        BY <1>4, <1>5, <1>11, <2>1
    <2>3. ptr'[parent[o]] = ptr[parent[o]]
        BY <1>8, <2>2
    <2> QED
        BY <1>4, <1>10, <2>1, <2>2, <2>3
<1>17. \A o \in A : type'[o] \in {"block", "tensor"}
    BY <1>3, <1>8, <1>12
<1>18. Anchored(U)'
    <2>1. ASSUME NEW o \in U, type'[o] = "block"
          PROVE  /\ ptr'[o] \in Block /\ kind'[ptr'[o]] \in {"map", "gradient"}
                 /\ parent'[o] \in U
                 /\ holder'[ptr'[o]] = ptr'[parent'[o]]
        BY <1>0, <1>13, <1>16, <2>1
    <2> QED
        BY <2>1 DEF Anchored, Live
<1>19. \A o \in U : /\ type'[o] \in {"block", "tensor"}
                    /\ type'[o] = "block" => parent'[o] # NULL /\ at'[o] = moves'[ptr'[o]]
    BY <1>0, <1>13, <1>16, <1>17
<1>20. MapViews(U)'
    BY <1>14, <1>15, <1>18, <1>19 DEF MapViews
<1> QED
    BY <1>2, <1>20 DEF MapViewsInv

(* More gradients next to it: what grew still has. *)
LEMMA GrewStays ==
    ASSUME NEW b, Gradients(kind, holder, b) \subseteq Gradients(kind', holder', b),
           Grew(kind, holder, b)
    PROVE  Grew(kind', holder', b)
<1>1. IsFiniteSet(Gradients(kind', holder', b))
    BY FS_Subset, ConstantsAssumption DEF Gradients
<1>2. IsFiniteSet(Gradients(kind, holder, b)) /\
      Cardinality(Gradients(kind, holder, b)) <= Cardinality(Gradients(kind', holder', b))
    BY <1>1, FS_Subset
<1>3. Cardinality(Gradients(kind, holder, b)) \in Nat /\ Cardinality(Gradients(kind', holder', b)) \in Nat
    BY <1>1, <1>2, FS_CardinalityType
<1>4. PICK n \in GrowsAt : ~ (Cardinality(Gradients(kind, holder, b)) <= n)
    BY DEF Grew
<1>5. n \in Nat
    BY ConstantsAssumption
<1>6. ~ (Cardinality(Gradients(kind', holder', b)) <= n)
    BY <1>2, <1>3, <1>4, <1>5
<1> QED
    BY <1>6 DEF Grew

LEMMA ExplainedStep ==
    ASSUME OInv, OInv', ParentsInv, ExplainedInv, NEW Gone, NEW New,
           ObjectStep(Gone, New), BlockStep(Gone, New)
    PROVE  ExplainedInv'
<1> DEFINE A == Object \ (Lost' \cup Gone \cup New)
<1>1. A \subseteq Object \ Lost /\ A \in SUBSET (Object \ (Gone \cup New))
    BY LostStep
<1>2. \A o \in A : type[o] = "block" =>
        /\ ptr[o] \in Block /\ Live(ptr[o])
        /\ parent[o] # NULL => /\ kind[ptr[o]] \in {"map", "gradient"}
                               /\ holder[ptr[o]] = ptr[parent[o]]
        /\ at[o] = moves[ptr[o]] \/ Grew(kind, holder, holder[ptr[o]])
    BY <1>1 DEF ExplainedInv, Anchored
<1>3. \A o \in A : type'[o] = type[o] /\ at'[o] = at[o] /\ parent'[o] = parent[o]
    BY DEF ObjectStep
<1>4. ASSUME NEW o \in A PROVE ptr'[o] = ptr[o]
    <2>1. ptr'[o] = ptr[o] \/ (type'[o] = "block" /\ ptr'[o] = NULL)
        BY <1>3 DEF ObjectStep
    <2>2. o \notin Nulled'
        BY LostClosedPrime
    <2> QED
        BY <2>1, <2>2 DEF Nulled
<1>5. ASSUME NEW o \in A, parent[o] # NULL PROVE parent[o] \in A
    <2>1. parent[o] \in Object /\ parent[o] \notin Gone
        BY <1>5 DEF OInv, TypeOK, ObjectStep
    <2>2. parent[o] \notin New
        BY <1>5 DEF ParentsInv, ObjectStep
    <2>3. parent[o] \notin Lost'
        BY <1>3, LostClosedPrime
    <2> QED
        BY <2>1, <2>2, <2>3
<1> HIDE DEF A
<1>6. Anchored(A)
    BY <1>2, <1>5 DEF Anchored
<1>7. Kept(A)
    BY <1>1, <1>3, <1>4, <1>6 DEF BlockStep, Stays
<1>8. ASSUME NEW o \in A, type'[o] = "block"
      PROVE  /\ ptr'[o] \in Block /\ Live(ptr[o])'
             /\ parent'[o] # NULL => /\ parent'[o] \in A /\ kind'[ptr'[o]] \in {"map", "gradient"}
                                     /\ holder'[ptr'[o]] = ptr'[parent'[o]]
             /\ at'[o] = moves'[ptr'[o]] \/ Grew(kind', holder', holder'[ptr'[o]])
    <2>1. type[o] = "block" /\ ptr'[o] = ptr[o] /\ parent'[o] = parent[o] /\ at'[o] = at[o] /\ o \in Object
        BY <1>1, <1>3, <1>4, <1>8
    <2>2. kind'[ptr[o]] = kind[ptr[o]] /\ holder'[ptr[o]] = holder[ptr[o]]
        BY <1>7, <2>1 DEF Kept
    <2>3. ptr'[o] \in Block /\ Live(ptr[o])'
        BY <1>2, <2>1, <2>2 DEF Live
    <2>4. ASSUME parent'[o] # NULL
          PROVE  /\ parent'[o] \in A /\ kind'[ptr'[o]] \in {"map", "gradient"}
                 /\ holder'[ptr'[o]] = ptr'[parent'[o]]
        BY <1>2, <1>4, <1>5, <2>1, <2>2, <2>4
    <2>5. CASE parent[o] = NULL
        <3>1. ptr[o] # NULL
            BY <1>2, <2>1, ConstantsAssumption
        <3>2. Owner(o)'
            BY <1>8, <2>1, <2>5, <3>1 DEF Owner
        <3> QED
            BY <2>1, <2>3, <2>4, <3>2 DEF OInv, OwnersInv, ValidBox, ValidBlock
    <2>6. CASE parent[o] # NULL
        <3>1. moves'[ptr[o]] = moves[ptr[o]] \/ Grew(kind', holder', holder[ptr[o]])
            BY <1>7, <2>1, <2>6 DEF Kept
        <3>2. Grew(kind, holder, holder[ptr[o]]) => Grew(kind', holder', holder[ptr[o]])
            BY <1>7, <2>1, GrewStays DEF Kept
        <3>3. at[o] = moves[ptr[o]] \/ Grew(kind, holder, holder[ptr[o]])
            BY <1>2, <2>1
        <3> QED
            BY <2>1, <2>2, <2>3, <2>4, <3>1, <3>2, <3>3
    <2> QED
        BY <2>5, <2>6
<1>9. ASSUME NEW o \in New, type'[o] = "block", o \notin Lost'
      PROVE  /\ ptr'[o] \in Block /\ Live(ptr[o])'
             /\ parent'[o] # NULL =>
                   /\ parent'[o] \in Object \ Lost' /\ kind'[ptr'[o]] \in {"map", "gradient"}
                   /\ holder'[ptr'[o]] = ptr'[parent'[o]]
             /\ at'[o] = moves'[ptr'[o]]
    <2>1. o \in Object /\ ptr'[o] \in Block /\ Live(ptr[o])' /\ at'[o] = moves'[ptr'[o]]
        BY <1>9 DEF ObjectStep, Live
    <2>2. parent'[o] \notin Lost'
        BY <1>9, <2>1, LostClosedPrime
    <2> QED
        BY <1>9, <2>1, <2>2 DEF ObjectStep
<1>10. ASSUME NEW o \in Object \ Lost', type'[o] = "block" PROVE o \in A \/ o \in New
    BY <1>10 DEF A, ObjectStep
<1>11. \A o \in A : o \in Object \ Lost'
    BY DEF A
<1>12. Anchored(Object \ Lost)'
    BY <1>8, <1>9, <1>10, <1>11 DEF Anchored
<1>13. \A o \in Object \ Lost' : type'[o] = "block" =>
          at'[o] = moves'[ptr'[o]] \/ Grew(kind', holder', holder'[ptr'[o]])
    BY <1>8, <1>9, <1>10
<1> QED
    BY <1>12, <1>13 DEF ExplainedInv

(* A step that does this to objects and blocks keeps the invariant. *)
LEMMA ViewsStep ==
    ASSUME VInv, OInv', NEW Gone, NEW New, ObjectStep(Gone, New), BlockStep(Gone, New)
    PROVE  VInv'
BY ParentsStep, MapViewsStep, ExplainedStep DEF VInv

-----------------------------------------------------------------------------
(* What keeps a block where it is *)

(* Only the blocks of X change, and A has nothing to do with them. *)
LEMMA KeptOutside ==
    ASSUME NEW A \in SUBSET Object, Anchored(A), NEW X,
           \A b \in Block \ X : kind'[b] = kind[b] /\ holder'[b] = holder[b] /\ moves'[b] = moves[b],
           \A o \in A : type[o] = "block" =>
               ptr[o] \notin X /\ X \cap Gradients(kind, holder, holder[ptr[o]]) = {}
    PROVE  Kept(A)
<1> SUFFICES ASSUME NEW o \in A, type[o] = "block"
             PROVE  /\ kind'[ptr[o]] = kind[ptr[o]] /\ holder'[ptr[o]] = holder[ptr[o]]
                    /\ Gradients(kind, holder, holder[ptr[o]]) \subseteq
                         Gradients(kind', holder', holder[ptr[o]])
                    /\ moves'[ptr[o]] = moves[ptr[o]]
    BY DEF Kept
<1>1. ptr[o] \in Block \ X
    BY DEF Anchored
<1>2. Gradients(kind, holder, holder[ptr[o]]) \subseteq Block \ X
    BY DEF Gradients
<1>3. Gradients(kind, holder, holder[ptr[o]]) \subseteq Gradients(kind', holder', holder[ptr[o]])
    BY <1>2 DEF Gradients
<1> QED
    BY <1>1, <1>3

(* Only blocks change that were not in use. *)
LEMMA UnusedBlocks ==
    ASSUME NEW Gone, NEW New,
           \A b \in Block : kind[b] # "unused" =>
               kind'[b] = kind[b] /\ holder'[b] = holder[b] /\ moves'[b] = moves[b]
    PROVE  BlockStep(Gone, New)
<1> SUFFICES ASSUME NEW A \in SUBSET (Object \ (Gone \cup New)), Anchored(A) PROVE Kept(A)
    BY DEF BlockStep
<1> DEFINE X == {b \in Block : kind[b] = "unused"}
<1>1. \A o \in A : type[o] = "block" =>
          ptr[o] \notin X /\ X \cap Gradients(kind, holder, holder[ptr[o]]) = {}
    BY DEF Anchored, Live, Gradients
<1>2. A \in SUBSET Object
    OBVIOUS
<1>3. \A b \in Block \ X : kind'[b] = kind[b] /\ holder'[b] = holder[b] /\ moves'[b] = moves[b]
    OBVIOUS
<1> HIDE DEF X
<1> QED
    BY <1>1, <1>2, <1>3, KeptOutside

(* The blocks that owners give up are of nobody else. *)
LEMMA NotGivenUp ==
    ASSUME OInv, NEW S, GivenUp(S), NEW A \in SUBSET Object, Anchored(A), \A o \in A : o \notin S
    PROVE  \A o \in A : type[o] = "block" => ptr[o] \notin Moved(S)
<1> SUFFICES ASSUME NEW o \in A, type[o] = "block" PROVE ptr[o] \notin Moved(S)
    OBVIOUS
<1>1. ptr[o] \in Block /\ ptr[o] # NULL
    BY ConstantsAssumption DEF Anchored
<1>2. CASE parent[o] = NULL
    BY <1>1, <1>2, OthersKeepBoxes DEF Owner
<1>3. CASE parent[o] # NULL
    BY <1>3, MovedAreBoxes DEF Anchored
<1> QED
    BY <1>2, <1>3

(* Neither are their views. *)
LEMMA ParentsNotGivenUp ==
    ASSUME OInv, ParentsInv, NEW S, GivenUp(S), NEW A \in SUBSET Object, Anchored(A),
           \A o \in A : o \notin S
    PROVE  \A o \in A : type[o] = "block" /\ parent[o] # NULL => ptr[parent[o]] \notin Moved(S)
<1> SUFFICES ASSUME NEW o \in A, type[o] = "block", parent[o] # NULL
             PROVE  ptr[parent[o]] \notin Moved(S)
    OBVIOUS
<1>1. parent[o] \in A /\ parent[o] \in Object /\ type[parent[o]] \in {"block", "tensor"}
    BY DEF Anchored, ParentsInv, OInv, TypeOK
<1>2. CASE type[parent[o]] = "block"
    BY <1>1, <1>2, NotGivenUp
<1>3. CASE type[parent[o]] = "tensor"
    BY <1>1, <1>3, MovedAreBoxes, ConstantsAssumption DEF OInv, TensorsInv, ValidTensor
<1> QED
    BY <1>1, <1>2, <1>3

(* What is in x is of nobody who holds nothing that is in x. *)
LEMMA NotInContent ==
    ASSUME OInv, ParentsInv, NEW A \in SUBSET Object, Anchored(A), NEW x, x # NULL,
           \A o \in A : type[o] = "block" /\ parent[o] # NULL => ptr[parent[o]] # x
    PROVE  \A o \in A : type[o] = "block" => ptr[o] \notin Content(x)
<1> DEFINE P == {ptr[o] : o \in {a \in A : type[a] = "block"}}
           S == Content(x) \ P
<1>1. S \subseteq Block
    BY DEF Content
<1>2. ASSUME NEW b \in Block, Live(b), holder[b] \in S \cup {x} PROVE b \in S
    <2>1. b \in Content(x)
        BY <1>2, ContentClosed DEF Closed
    <2>2. ASSUME NEW o \in A, type[o] = "block", ptr[o] = b PROVE FALSE
        <3>1. CASE parent[o] = NULL
            <4>1. Owner(o)
                BY <2>2, <3>1, ConstantsAssumption DEF Owner
            <4>2. holder[b] = NULL
                BY <2>2, <4>1 DEF OInv, OwnersInv, ValidBox, BoxInv
            <4> QED
                BY <1>1, <1>2, <4>2, ConstantsAssumption
        <3>2. CASE parent[o] # NULL
            <4>1. parent[o] \in A /\ holder[b] = ptr[parent[o]]
                BY <2>2, <3>2 DEF Anchored
            <4>2. holder[b] \in S
                BY <1>2, <2>2, <3>2, <4>1
            <4>3. holder[b] \in Block
                BY <1>1, <4>2
            <4>4. type[parent[o]] # "tensor" /\ type[parent[o]] \in {"block", "tensor"}
                BY <3>2, <4>1, <4>3, ConstantsAssumption
                DEF OInv, TensorsInv, ValidTensor, ParentsInv, TypeOK
            <4>5. holder[b] \in P
                BY <4>1, <4>4
            <4> QED
                BY <4>2, <4>5
        <3> QED
            BY <3>1, <3>2
    <2> QED
        BY <2>1, <2>2
<1> HIDE DEF S
<1>3. Closed(S, x)
    BY <1>2 DEF Closed
<1>4. Content(x) \subseteq S
    BY <1>1, <1>3, ContentSmallest
<1> QED
    BY <1>4 DEF S

(***************************************************************************)
(* All that is in R is freed: it is not next to what A points to.          *)
(***************************************************************************)
LEMMA KeptByDrop ==
    ASSUME OInv, ParentsInv, NEW A \in SUBSET Object, Anchored(A), NEW R, NULL \notin R,
           NEW F, F = {b \in Block : b \in R \/ \E x \in R : b \in Content(x)},
           \A b \in Block \ F : kind'[b] = kind[b], UNCHANGED <<holder, moves>>,
           \A r \in R : r \in Block => kind[r] = "box",
           \A o \in A : type[o] = "block" => ptr[o] \notin R,
           \A o \in A : type[o] = "block" /\ parent[o] # NULL => ptr[parent[o]] \notin R
    PROVE  Kept(A)
<1>1. ASSUME NEW o \in A, type[o] = "block", NEW x \in R PROVE ptr[o] \notin Content(x)
    BY <1>1, NotInContent
<1>2. ASSUME NEW o \in A, type[o] = "block" PROVE ptr[o] \notin F
    BY <1>1, <1>2
<1>3. ASSUME NEW o \in A, type[o] = "block", NEW g \in F,
             g \in Gradients(kind, holder, holder[ptr[o]])
      PROVE  FALSE
    <2>1. g \notin R /\ holder[g] = holder[ptr[o]]
        BY <1>3 DEF Gradients
    <2>2. PICK x \in R : g \in Content(x)
        BY <2>1
    <2>3. holder[ptr[o]] \in Content(x) \cup {x}
        BY <2>1, <2>2, ContentHolder
    <2>4. ptr[o] \in Content(x)
        BY <1>3, <2>3, ContentClosed DEF Closed, Anchored
    <2> QED
        BY <1>1, <1>3, <2>4
<1>4. \A b \in Block \ F : kind'[b] = kind[b] /\ holder'[b] = holder[b] /\ moves'[b] = moves[b]
    OBVIOUS
<1>5. \A o \in A : type[o] = "block" =>
          ptr[o] \notin F /\ F \cap Gradients(kind, holder, holder[ptr[o]]) = {}
    BY <1>2, <1>3
<1> QED
    BY <1>4, <1>5, KeptOutside

-----------------------------------------------------------------------------
(* The operations *)

(* An object is made: it owns a block or a tensor map, or is a view. *)
LEMMA NewObjectStep ==
    ASSUME OInv, NEW n \in Object, NEW c \in {"block", "tensor"}, NEW p, NEW a, NEW q,
           NewObject(n, c, p, a, q),
           c = "tensor" => q = NULL,
           c = "block" => p \in Block /\ a = moves'[p] /\ kind'[p] \in {"box", "map", "gradient"},
           q # NULL => /\ q \in Object /\ type[q] # "unused"
                       /\ kind'[p] \in {"map", "gradient"} /\ holder'[p] = ptr[q]
    PROVE  ObjectStep({}, {n})
<1>1. /\ type[n] = "unused" /\ type'[n] = c /\ ptr'[n] = p /\ at'[n] = a /\ parent'[n] = q
      /\ \A o \in Object \ {n} : /\ type'[o] = type[o] /\ at'[o] = at[o] /\ parent'[o] = parent[o]
                                /\ ptr'[o] = ptr[o]
    BY DEF NewObject, Unused, OInv, TypeOK
<1>2. q # NULL => q \in Object \ {n} /\ ptr'[q] = ptr[q]
    BY <1>1
<1> QED
    BY <1>1, <1>2 DEF ObjectStep

(* TensorBlock(...) *)
LEMMA CreateBlockViews ==
    ASSUME VInv, NEW o \in Object, NEW b \in Block, CreateBlock(o, b)
    PROVE  VInv'
<1>1. OInv /\ OInv'
    BY CreateBlockStep DEF VInv
<1>2. BlockStep({}, {o})
    BY UnusedBlocks DEF CreateBlock
<1>3. kind'[b] = "box" /\ moves' = moves
    BY <1>1 DEF CreateBlock, OInv, TypeOK
<1>4. ObjectStep({}, {o})
    BY <1>1, <1>3, NewObjectStep DEF CreateBlock
<1> QED
    BY <1>1, <1>2, <1>4, ViewsStep

(* block.gradient(p) and tensor.block_by_id(i) *)
LEMMA ViewViews ==
    ASSUME VInv, NEW n \in Object, NEW b \in Block, NEW o \in Object,
           NewObject(n, "block", b, moves[b], o), UNCHANGED <<core, invalid>>,
           type[o] # "unused", kind[b] \in {"map", "gradient"}, holder[b] = ptr[o]
    PROVE  VInv'
<1>1. OInv /\ OInv'
    BY ViewStep DEF VInv
<1>2. UNCHANGED <<kind, holder, moves>>
    BY DEF core
<1>3. BlockStep({}, {n})
    BY <1>2, UnusedBlocks
<1>4. ObjectStep({}, {n})
    BY <1>1, <1>2, NewObjectStep
<1> QED
    BY <1>1, <1>3, <1>4, ViewsStep

(* A copy only uses blocks that were not in use. *)
LEMMA CopyBlocks ==
    ASSUME NEW root, NEW new_root, NEW D, NEW to \in [D -> Block], CopyContent(to, root, new_root)
    PROVE  \A b \in Block : kind[b] # "unused" =>
               kind'[b] = kind[b] /\ holder'[b] = holder[b] /\ moves'[b] = moves[b]
<1>1. \A b \in D : kind[to[b]] = "unused"
    BY DEF CopyContent
<1>2. moves' = moves
    BY Zenon DEF CopyContent
<1>3. ASSUME NEW b \in Block, kind[b] # "unused" PROVE kind'[b] = kind[b] /\ holder'[b] = holder[b]
    BY <1>1, <1>3, CopyEffect
<1> QED
    BY <1>2, <1>3

(* copy.deepcopy of a block *)
LEMMA CopyBlockViews ==
    ASSUME VInv, NEW o \in Object, NEW n \in Object, copy_block(o, n)
    PROVE  VInv'
<1>1. OInv /\ OInv'
    BY CopyBlockStep DEF VInv
<1> DEFINE root == ptr[o]
           D == Content(root) \cup {root}
<1>2. PICK to \in [D -> Block] :
          CopyContent(to, root, NULL) /\ NewObject(n, "block", to[root], moves[to[root]], NULL)
    BY DEF copy_block
<1>3. root \in Block /\ root \in D /\ (D = Content(root) \/ (root \in Block /\ D = Content(root) \cup {root}))
    BY DEF copy_block, ValidBlock
<1> HIDE DEF D, root
<1>4. BlockStep({}, {n})
    BY <1>2, CopyBlocks, UnusedBlocks
<1>5. kind'[to[root]] = "box" /\ moves' = moves
    BY <1>1, <1>2, <1>3, CopyStep
<1>6. to[root] \in Block
    BY <1>2, <1>3
<1>7. ObjectStep({}, {n})
    BY <1>1, <1>2, <1>5, <1>6, NewObjectStep
<1> QED
    BY <1>1, <1>4, <1>7, ViewsStep

(* copy.deepcopy of a tensor map *)
LEMMA CopyTensorViews ==
    ASSUME VInv, NEW o \in Object, NEW t \in Tensor, NEW n \in Object, copy_tensor(o, t, n)
    PROVE  VInv'
<1>1. OInv /\ OInv'
    BY CopyTensorStep DEF VInv
<1>2. PICK to \in [Content(ptr[o]) -> Block] : CopyContent(to, ptr[o], t)
    BY DEF copy_tensor
<1>3. BlockStep({}, {n})
    BY <1>2, CopyBlocks, UnusedBlocks
<1>4. ObjectStep({}, {n})
    BY <1>1, NewObjectStep DEF copy_tensor
<1> QED
    BY <1>1, <1>3, <1>4, ViewsStep

(* Owners give up their blocks. *)
LEMMA MovePtrObjects ==
    ASSUME OInv, NEW S, GivenUp(S), MovePtr(S)
    PROVE  /\ ObjectStep({}, {})
           /\ \A A \in SUBSET Object : Stays(A) => \A o \in A : o \notin S
<1>1. ObjectStep({}, {})
    BY DEF ObjectStep, MovePtr, GivenUp, Owner
<1>2. ASSUME NEW A \in SUBSET Object, Stays(A), NEW o \in A, o \in S PROVE FALSE
    BY <1>2 DEF Stays, MovePtr, GivenUp, Owner
<1> QED
    BY <1>1, <1>2

(* The blocks are dropped, or lost. *)
LEMMA DropCallViews ==
    ASSUME VInv, OInv', NEW S, GivenUp(S), MovePtr(S), DropBlocks(Moved(S))
    PROVE  VInv'
<1>1. OInv /\ ParentsInv
    BY DEF VInv
<1>2. ASSUME NEW A \in SUBSET (Object \ ({} \cup {})), Anchored(A), Stays(A) PROVE Kept(A)
    <2>1. A \in SUBSET Object /\ \A o \in A : o \notin S
        BY <1>1, <1>2, MovePtrObjects
    <2> DEFINE R == Moved(S)
               F == {b \in Block : b \in R \/ \E x \in R : b \in Content(x)}
    <2>2. \A b \in Block \ F : kind'[b] = kind[b]
        BY DEF DropBlocks
    <2>3. UNCHANGED <<holder, moves>>
        BY DEF DropBlocks
    <2>4. NULL \notin R /\ \A r \in R : r \in Block => kind[r] = "box"
        BY <1>1, MovedAreBoxes, ConstantsAssumption
    <2>5. \A o \in A : type[o] = "block" => ptr[o] \notin R
        BY <1>1, <1>2, <2>1, NotGivenUp
    <2>6. \A o \in A : type[o] = "block" /\ parent[o] # NULL => ptr[parent[o]] \notin R
        BY <1>1, <1>2, <2>1, ParentsNotGivenUp
    <2> HIDE DEF R
    <2> QED
        BY <1>1, <1>2, <2>1, <2>2, <2>3, <2>4, <2>5, <2>6, KeptByDrop
<1>3. BlockStep({}, {})
    BY <1>2 DEF BlockStep
<1> QED
    BY <1>1, <1>3, MovePtrObjects, ViewsStep

LEMMA LoseViews ==
    ASSUME VInv, OInv', NEW S, GivenUp(S), MovePtr(S), UNCHANGED core
    PROVE  VInv'
<1>1. BlockStep({}, {})
    BY UnusedBlocks DEF core
<1> QED
    BY <1>1, MovePtrObjects, ViewsStep DEF VInv

(* TensorMap(keys, blocks): only boxes move. *)
LEMMA CreateTensorMapViews ==
    ASSUME VInv, NEW S \in SUBSET Object, NEW t \in Tensor, NEW n \in Object,
           create_TensorMap(S, t, n)
    PROVE  VInv'
<1>1. OInv /\ OInv'
    BY CreateTensorMapStep DEF VInv
<1>2. GivenUp(S)
    BY TensorMapGivesUp DEF create_TensorMap
<1>3. ObjectStep({}, {n})
    <2>1. \A o \in S : o \in Object /\ type[o] = "block" /\ parent[o] = NULL
        BY <1>2 DEF GivenUp, Owner
    <2>2. /\ type[n] = "unused" /\ type'[n] = "tensor" /\ parent'[n] = NULL
          /\ \A o \in Object \ {n} :
                /\ type'[o] = type[o] /\ at'[o] = at[o] /\ parent'[o] = parent[o]
                /\ ptr'[o] = IF o \in S THEN NULL ELSE ptr[o]
        BY <1>1 DEF create_TensorMap, Unused, OInv, TypeOK
    <2> QED
        BY <2>1, <2>2 DEF ObjectStep
<1>4. ASSUME NEW A \in SUBSET (Object \ ({} \cup {n})), Anchored(A), Stays(A) PROVE Kept(A)
    <2>1. A \in SUBSET Object
        OBVIOUS
    <2>2. \A o \in A : o \notin S
        BY <1>2, <1>4 DEF Stays, create_TensorMap, GivenUp, Owner
    <2>3. \A o \in A : type[o] = "block" => ptr[o] \notin Moved(S)
        BY <1>1, <1>2, <1>4, <2>1, <2>2, NotGivenUp
    <2>4. \A b \in Block \ Moved(S) :
              kind'[b] = kind[b] /\ holder'[b] = holder[b] /\ moves'[b] = moves[b]
        BY DEF create_TensorMap
    <2>5. \A x : Moved(S) \cap Gradients(kind, holder, x) = {}
        BY <1>1, <1>2, MovedAreBoxes DEF Gradients
    <2> QED
        BY <1>4, <2>1, <2>3, <2>4, <2>5, KeptOutside
<1>5. BlockStep({}, {n})
    BY <1>4 DEF BlockStep
<1> QED
    BY <1>1, <1>3, <1>5, ViewsStep

(***************************************************************************)
(* A gradient is inserted in a block that is in a box: the other gradients *)
(* of this block move only when its hash map grows.                        *)
(***************************************************************************)
LEMMA InsertedGrew ==
    ASSUME NEW b, NEW g \in Block, kind[g] # "gradient", NEW p, InsertGradient(b, p, g),
           kind \in [Block -> {"unused", "box", "map", "gradient", "freed"}],
           holder \in [Block -> Block \cup Tensor \cup {NULL}],
           Cardinality(gradients(b)) \in GrowsAt
    PROVE  Grew(kind', holder', b)
<1> DEFINE G == gradients(b)
<1>1. Gradients(kind', holder', b) = G \cup {g}
    BY DEF InsertGradient, Gradients, gradients
<1>2. IsFiniteSet(G) /\ g \notin G
    BY FS_Subset, ConstantsAssumption DEF gradients
<1> HIDE DEF G
<1>3. Cardinality(G \cup {g}) = Cardinality(G) + 1 /\ Cardinality(G) \in Nat
    BY <1>2, FS_AddElement, FS_CardinalityType
<1>4. ~ (Cardinality(G \cup {g}) <= Cardinality(G))
    BY <1>3
<1>5. Cardinality(G) \in GrowsAt
    BY DEF G
<1> QED
    BY <1>1, <1>4, <1>5 DEF Grew

LEMMA AddGradientViews ==
    ASSUME VInv, NEW o \in Object, NEW p \in Parameter, NEW g \in Object, add_gradient(o, p, g)
    PROVE  VInv'
<1> DEFINE S == {g}
<1>1. OInv /\ OInv' /\ ParentsInv
    BY AddGradientStep DEF VInv
<1>2. GivenUp(S) /\ MovePtr(S) /\ Moved(S) = {ptr[g]}
    BY DEF add_gradient, add_gradient_allowed, Usable, GivenUp, Owner, Moved
<1>3. CASE DropBlocks({ptr[g]})
    BY <1>1, <1>2, <1>3, DropCallViews
<1>4. CASE InsertGradient(ptr[o], p, ptr[g])
    <2>1. ptr[g] \in Block /\ kind[ptr[g]] = "box"
        BY <1>1, <1>2, MovedAreBoxes
    <2>2. ptr[o] \in Block /\ kind[ptr[o]] = "box"
        <3>1. Owner(o)
            BY DEF add_gradient, add_gradient_allowed, Owner
        <3> QED
            BY <1>1, <3>1 DEF OInv, OwnersInv, ValidBox, ValidBlock
    <2>3. ASSUME NEW A \in SUBSET (Object \ ({} \cup {})), Anchored(A), Stays(A) PROVE Kept(A)
        <3>1. A \in SUBSET Object /\ \A a \in A : a \notin S
            BY <1>1, <1>2, <2>3, MovePtrObjects
        <3> SUFFICES ASSUME NEW a \in A, type[a] = "block"
                     PROVE  /\ kind'[ptr[a]] = kind[ptr[a]] /\ holder'[ptr[a]] = holder[ptr[a]]
                            /\ Gradients(kind, holder, holder[ptr[a]]) \subseteq
                                 Gradients(kind', holder', holder[ptr[a]])
                            /\ parent[a] # NULL =>
                                  \/ moves'[ptr[a]] = moves[ptr[a]]
                                  \/ /\ type[parent[a]] = "block" /\ parent[parent[a]] = NULL
                                     /\ Grew(kind', holder', holder[ptr[a]])
            BY DEF Kept
        <3>2. ptr[a] \in Block /\ ptr[a] # ptr[g]
            BY <1>1, <1>2, <2>3, <3>1, NotGivenUp DEF Anchored
        <3>3. kind'[ptr[a]] = kind[ptr[a]] /\ holder'[ptr[a]] = holder[ptr[a]]
            BY <1>1, <1>4, <3>2 DEF InsertGradient, OInv, TypeOK
        <3>4. Gradients(kind, holder, holder[ptr[a]]) \subseteq Gradients(kind', holder', holder[ptr[a]])
            BY <1>1, <1>4, <2>1 DEF InsertGradient, Gradients, OInv, TypeOK
        <3>5. ASSUME parent[a] # NULL, moves'[ptr[a]] # moves[ptr[a]]
              PROVE  /\ type[parent[a]] = "block" /\ parent[parent[a]] = NULL
                     /\ Grew(kind', holder', holder[ptr[a]])
            <4>1. ptr[a] \in gradients(ptr[o]) /\ Cardinality(gradients(ptr[o])) \in GrowsAt
                BY <1>1, <1>4, <3>2, <3>5 DEF InsertGradient, OInv, TypeOK
            <4>2. holder[ptr[a]] = ptr[o]
                BY <4>1 DEF gradients
            <4>3. Grew(kind', holder', ptr[o])
                BY <1>1, <1>4, <2>1, <4>1, InsertedGrew DEF OInv, TypeOK
            <4>4. parent[a] \in A /\ parent[a] \in Object /\ ptr[parent[a]] = ptr[o]
                BY <2>3, <3>5, <4>2 DEF Anchored
            <4>5. type[parent[a]] \in {"block", "tensor"}
                BY <1>1, <3>1, <3>5, <4>4 DEF ParentsInv, OInv, TypeOK
            <4>6. type[parent[a]] = "block"
                BY <1>1, <2>2, <4>4, <4>5, ConstantsAssumption DEF OInv, TensorsInv, ValidTensor
            <4>7. parent[parent[a]] = NULL
                BY <2>2, <2>3, <4>4, <4>6 DEF Anchored
            <4> QED
                BY <4>2, <4>3, <4>6, <4>7
        <3> QED
            BY <3>3, <3>4, <3>5
    <2>4. BlockStep({}, {})
        BY <2>3 DEF BlockStep
    <2> QED
        BY <1>1, <1>2, <2>4, MovePtrObjects, ViewsStep
<1> QED
    BY <1>3, <1>4 DEF add_gradient

(* An object is deleted: no view refers to it. *)
LEMMA DeletedObject ==
    ASSUME OInv, NEW o \in Object, DeleteObject(o), Unreachable(o)
    PROVE  ObjectStep({o}, {})
<1>1. type'[o] = "unused" /\ parent'[o] = NULL /\ \A v \in Object : parent[v] # o
    BY DEF DeleteObject, Unreachable, OInv, TypeOK
<1> QED
    BY <1>1, DeleteObjectStep DEF ObjectStep

(* TensorBlock.__del__ *)
LEMMA DelBlockViews ==
    ASSUME VInv, NEW o \in Object, del_block(o)
    PROVE  VInv'
<1>1. OInv /\ OInv' /\ ParentsInv
    BY DelBlockStep DEF VInv
<1>2. ObjectStep({o}, {})
    BY <1>1, DeletedObject DEF del_block
<1>3. CASE owns(o) /\ ptr[o] # NULL
    <2>1. GivenUp({o}) /\ Moved({o}) = {ptr[o]} /\ DropBlocks({ptr[o]})
        BY <1>3 DEF del_block, owns, GivenUp, Owner, Moved
    <2>2. ASSUME NEW A \in SUBSET (Object \ ({o} \cup {})), Anchored(A) PROVE Kept(A)
        <3>1. A \in SUBSET Object /\ \A a \in A : a \notin {o}
            OBVIOUS
        <3> DEFINE R == {ptr[o]}
                   F == {b \in Block : b \in R \/ \E x \in R : b \in Content(x)}
        <3>2. (\A b \in Block \ F : kind'[b] = kind[b]) /\ UNCHANGED <<holder, moves>>
            BY <2>1 DEF DropBlocks
        <3>3. NULL \notin R /\ \A r \in R : r \in Block => kind[r] = "box"
            BY <1>1, <2>1, MovedAreBoxes, ConstantsAssumption
        <3>4. \A a \in A : type[a] = "block" => ptr[a] \notin R
            BY <1>1, <2>1, <2>2, <3>1, NotGivenUp
        <3>5. \A a \in A : type[a] = "block" /\ parent[a] # NULL => ptr[parent[a]] \notin R
            BY <1>1, <2>1, <2>2, <3>1, ParentsNotGivenUp
        <3> HIDE DEF R
        <3> QED
            BY <1>1, <2>2, <3>1, <3>2, <3>3, <3>4, <3>5, KeptByDrop
    <2>3. BlockStep({o}, {})
        BY <2>2 DEF BlockStep
    <2> QED
        BY <1>1, <1>2, <2>3, ViewsStep
<1>4. CASE ~(owns(o) /\ ptr[o] # NULL)
    <2>1. BlockStep({o}, {})
        BY <1>4, UnusedBlocks DEF del_block
    <2> QED
        BY <1>1, <1>2, <2>1, ViewsStep
<1> QED
    BY <1>3, <1>4

(* TensorMap.__del__: what is in the map is of nobody who is left. *)
LEMMA DelTensorViews ==
    ASSUME VInv, NEW o \in Object, del_tensor(o)
    PROVE  VInv'
<1>1. OInv /\ OInv' /\ ParentsInv
    BY DelTensorStep DEF VInv
<1>2. ObjectStep({o}, {})
    BY <1>1, DeletedObject DEF del_tensor
<1>3. type[o] = "tensor" /\ ptr[o] \in Tensor
    BY <1>1 DEF del_tensor, OInv, TensorsInv, ValidTensor
<1>4. ASSUME NEW A \in SUBSET (Object \ ({o} \cup {})), Anchored(A) PROVE Kept(A)
    <2>1. A \in SUBSET Object /\ \A a \in A : a # o
        OBVIOUS
    <2> DEFINE R == {ptr[o]}
               F == {b \in Block : b \in R \/ \E x \in R : b \in Content(x)}
    <2>2. (\A b \in Block \ F : kind'[b] = kind[b]) /\ UNCHANGED <<holder, moves>>
        BY DEF del_tensor
    <2>3. NULL \notin R /\ \A r \in R : r \notin Block
        BY <1>3, ConstantsAssumption
    <2>4. \A a \in A : type[a] = "block" => ptr[a] \notin R
        BY <1>4, <2>3 DEF Anchored
    <2>5. ASSUME NEW a \in A, type[a] = "block", parent[a] # NULL PROVE ptr[parent[a]] # ptr[o]
        <3>1. parent[a] \in A /\ parent[a] \in Object /\ parent[a] # o
            BY <1>4, <2>1, <2>5 DEF Anchored
        <3>2. type[parent[a]] \in {"block", "tensor"}
            BY <1>1, <2>5, <3>1 DEF ParentsInv, OInv, TypeOK
        <3>3. CASE type[parent[a]] = "block"
            BY <2>4, <3>1, <3>3
        <3>4. CASE type[parent[a]] = "tensor"
            BY <1>1, <1>3, <3>1, <3>4 DEF OInv, TensorsInv
        <3> QED
            BY <3>2, <3>3, <3>4
    <2>6. \A a \in A : type[a] = "block" /\ parent[a] # NULL => ptr[parent[a]] \notin R
        BY <2>5
    <2> HIDE DEF R
    <2> QED
        BY <1>1, <1>4, <2>1, <2>2, <2>3, <2>4, <2>6, KeptByDrop
<1>5. BlockStep({o}, {})
    BY <1>4 DEF BlockStep
<1> QED
    BY <1>1, <1>2, <1>5, ViewsStep

(* What changes no object and no block. *)
LEMMA StutterViews ==
    ASSUME VInv, OInv', UNCHANGED <<core, python>>
    PROVE  VInv'
<1>1. BlockStep({}, {})
    BY UnusedBlocks DEF core
<1>2. ObjectStep({}, {})
    BY DEF ObjectStep, python
<1> QED
    BY <1>1, <1>2, ViewsStep

(* The invariant is inductive. *)
LEMMA NextVInv == VInv /\ [Next]_vars => VInv'
<1> SUFFICES ASSUME VInv, [Next]_vars PROVE VInv'
    OBVIOUS
<1>0. OInv'
    BY NextOInv DEF VInv
<1>1. ASSUME NEW o \in Object, NEW b \in Block, CreateBlock(o, b) PROVE VInv'
    BY <1>1, CreateBlockViews
<1>2. ASSUME NEW o \in Object, NEW n \in Object, NEW g \in Block, gradient(o, g, n) PROVE VInv'
    BY <1>2, ViewViews DEF gradient, gradient_parent, Usable, gradients
<1>3. ASSUME NEW o \in Object, NEW n \in Object, copy_block(o, n) PROVE VInv'
    BY <1>3, CopyBlockViews
<1>4. ASSUME NEW o \in Object, NEW g \in Object, NEW p \in Parameter, add_gradient(o, p, g)
      PROVE  VInv'
    BY <1>4, AddGradientViews
<1>5. ASSUME NEW o \in Object, NEW g \in Object, add_gradient_raises(o, g) PROVE VInv'
    <2>1. GivenUp({g}) /\ MovePtr({g}) /\ UNCHANGED core
        BY <1>5 DEF add_gradient_raises, add_gradient_allowed, Usable, GivenUp, Owner
    <2> QED
        BY <1>0, <2>1, LoseViews
<1>6. ASSUME NEW S \in SUBSET Object, NEW t \in Tensor, NEW n \in Object,
             create_TensorMap(S, t, n)
      PROVE  VInv'
    BY <1>6, CreateTensorMapViews
<1>7. ASSUME NEW S \in SUBSET Object, create_TensorMap_fails(S) PROVE VInv'
    BY <1>0, <1>7, TensorMapGivesUp, DropCallViews DEF create_TensorMap_fails
<1>8. ASSUME NEW S \in SUBSET Object, create_TensorMap_twice(S) PROVE VInv'
    BY <1>0, <1>8, TensorMapGivesUp, LoseViews DEF create_TensorMap_twice
<1>9. ASSUME NEW o \in Object, NEW n \in Object, NEW b \in Block, block_by_id(o, b, n)
      PROVE  VInv'
    BY <1>9, ViewViews DEF block_by_id
<1>10. ASSUME NEW o \in Object, NEW n \in Object, NEW t \in Tensor, copy_tensor(o, t, n)
       PROVE  VInv'
    BY <1>10, CopyTensorViews
<1>11. ASSUME NEW o \in Object, Release(o) PROVE VInv'
    BY <1>0, <1>11, StutterViews DEF Release
<1>12. ASSUME NEW o \in Object, del_block(o) PROVE VInv'
    BY <1>12, DelBlockViews
<1>13. ASSUME NEW o \in Object, del_tensor(o) PROVE VInv'
    BY <1>13, DelTensorViews
<1>14. CASE UNCHANGED vars
    BY <1>0, <1>14, StutterViews DEF vars
<1> QED
    BY <1>1, <1>2, <1>3, <1>4, <1>5, <1>6, <1>7, <1>8, <1>9, <1>10, <1>11, <1>12, <1>13, <1>14,
       Zenon DEF Next, UserNext, Collect

(* Where the objects and their views point to, in all the states. *)
THEOREM VInvHolds == Spec => []VInv
BY InitVInv, NextVInv, PTL DEF Spec

(***************************************************************************)
(* The blocks that TensorMap.block_by_id gives, and the gradients taken    *)
(* from them, stay valid for as long as Python has them: no call of        *)
(* another object moves or frees them, and the parents they keep alive     *)
(* keep the map alive.                                                     *)
(***************************************************************************)
THEOREM MapViewsAreAlwaysValid == Spec => []MapViewsAreValid
<1>1. VInv => MapViewsAreValid
    BY VInvImplies
<1> QED
    BY <1>1, VInvHolds, PTL

(***************************************************************************)
(* A TensorBlock has an address that is not valid only if it is a view of  *)
(* a block moved by TensorMap(...) or add_gradient, or a gradient whose    *)
(* HashMap grew after the view was made: there is no third way.            *)
(***************************************************************************)
THEOREM InvalidViewsAreAlwaysExplained == Spec => []InvalidViewsAreExplained
<1>1. VInv => InvalidViewsAreExplained
    BY VInvImplies
<1> QED
    BY <1>1, VInvHolds, PTL
=============================================================================
