--------------------------- MODULE ArrayWrappers ----------------------------
(***************************************************************************)
(* The table of the Python arrays that the library refers to (data/array.py: *)
(* _KNOWN_ARRAY_WRAPPERS). The library knows an array by the id of its     *)
(* wrapper, which is the address of a Python object and is given to        *)
(* another one once the first is gone; every callback finds the wrapper    *)
(* under this id. Wrappers are made by create_mts_array, for a new block   *)
(* and in the callbacks create and copy, and forgotten by the callback     *)
(* destroy when the library drops its array.                               *)
(*                                                                         *)
(* Threads interleave between callbacks. A block is the sequence of its    *)
(* arrays (values and gradients), each as the library sees it: an id, with *)
(* the Python array it should stand for.                                   *)
(***************************************************************************)
EXTENDS Naturals, Sequences, SequencesExt, FiniteSets

CONSTANTS
  Callers,
  Addresses,   \* addresses of wrappers
  Arrays,      \* arrays of the user; arrays made by callbacks are "new"
  Blocks,
  MaxArrays    \* bound on the arrays of a block

ASSUME KeepersAssumption == Blocks \cap Callers = {}

VARIABLES
  table,     \* _KNOWN_ARRAY_WRAPPERS: from ids to arrays
  blocks,    \* the arrays of every block, empty if there is no such block
  call,      \* what each thread is doing
  orphans    \* wrappers that were made for a block that was never made

wrappersVars == <<table, blocks, call, orphans>>

NewArray == "new"
NoCall == [op |-> "idle", source |-> <<>>, temp |-> <<>>]
Live == {b \in Blocks : blocks[b] # <<>>}

WrappersInit == /\ table = [a \in {} |-> NewArray]
        /\ blocks = [b \in Blocks |-> <<>>]
        /\ call = [t \in Callers |-> NoCall]
        /\ orphans = {}

(* create_mts_array: the wrapper is a new object, at an address that no    *)
(* wrapper has, and is stored under its id.                                *)
create_mts_array(array, id) ==
    /\ id \in Addresses \ DOMAIN table
    /\ table' = [a \in DOMAIN table \union {id} |-> IF a = id THEN array ELSE table[a]]

(* _mts_array_destroy, for every array that is dropped.                    *)
_mts_array_destroy(arrays) ==
    table' = [a \in DOMAIN table \ {m.id : m \in ToSet(arrays)} |-> table[a]]

(* TensorBlock.__init__, up to the wrapper of the values.                  *)
StartBlock(t) ==
    /\ call[t] = NoCall
    /\ \E array \in Arrays, id \in Addresses :
         /\ create_mts_array(array, id)
         /\ call' = [call EXCEPT ![t] = [op |-> "block", source |-> <<>>, temp |-> <<[id |-> id, array |-> array]>>]]
    /\ UNCHANGED <<blocks, orphans>>

(* The labels are converted after the wrapper was made, and a view of      *)
(* labels can not be: the library is not called.                           *)
LabelsAreAView(t) ==
    /\ call[t].op = "block"
    /\ orphans' = orphans \union {call[t].temp[1].id}
    /\ call' = [call EXCEPT ![t] = NoCall]
    /\ UNCHANGED <<table, blocks>>

(* copy, keys_to_properties, keys_to_samples, components_to_properties and *)
(* load, which make arrays in callbacks. A source is kept alive by the     *)
(* Python object that the call was made on.                                *)
StartCall(t) ==
    /\ call[t] = NoCall
    /\ \/ \E b \in Live : call' = [call EXCEPT ![t] = [NoCall EXCEPT !.op = "make", !.source = <<b>>]]
       \/ call' = [call EXCEPT ![t] = [NoCall EXCEPT !.op = "make"]]
    /\ UNCHANGED <<table, blocks, orphans>>

(* The callbacks create and copy of an array, and create_numpy_array.      *)
_mts_array_create(t) ==
    /\ call[t].op = "make"
    /\ Len(call[t].temp) < MaxArrays
    /\ \E id \in Addresses :
         /\ create_mts_array(NewArray, id)
         /\ call' = [call EXCEPT ![t].temp = Append(@, [id |-> id, array |-> NewArray])]
    /\ UNCHANGED <<blocks, orphans>>

(* The call fails: labels that do not match, a callback that raises. What  *)
(* the library holds for this call is dropped.                             *)
CallFails_Forgets(t) ==
    /\ call[t].op \in {"block", "make"}
    /\ call' = [call EXCEPT ![t] = NoCall]
    /\ UNCHANGED <<table, blocks, orphans>>

CallFails(t) ==
    /\ call[t].op \in {"block", "make"}
    /\ _mts_array_destroy(call[t].temp)
    /\ call' = [call EXCEPT ![t] = NoCall]
    /\ UNCHANGED <<blocks, orphans>>

(* The call succeeds: its arrays are those of a new block.                 *)
CallSucceeds(t) ==
    /\ call[t].op \in {"block", "make"}
    /\ call[t].temp # <<>>
    /\ Blocks # Live
    /\ blocks' = [blocks EXCEPT ![CHOOSE b \in Blocks : b \notin Live] = call[t].temp]
    /\ call' = [call EXCEPT ![t] = NoCall]
    /\ UNCHANGED <<table, orphans>>

(* A gradient is moved into another block: its arrays go with it.          *)
AddGradient ==
    \E b, g \in Live :
        /\ b # g
        /\ \A t \in Callers : ToSet(call[t].source) \cap {b, g} = {}
        /\ Len(blocks[b]) + Len(blocks[g]) <= MaxArrays
        /\ blocks' = [blocks EXCEPT ![b] = @ \o blocks[g], ![g] = <<>>]
        /\ UNCHANGED <<table, call, orphans>>

(* The last reference to a block goes.                                     *)
FreeBlock ==
    \E b \in Live :
        /\ \A t \in Callers : b \notin ToSet(call[t].source)
        /\ _mts_array_destroy(blocks[b])
        /\ blocks' = [blocks EXCEPT ![b] = <<>>]
        /\ UNCHANGED <<call, orphans>>

WrappersNext == \/ \E t \in Callers : \/ StartBlock(t) \/ LabelsAreAView(t) \/ StartCall(t)
                              \/ _mts_array_create(t) \/ CallFails(t) \/ CallSucceeds(t)
        \/ AddGradient \/ FreeBlock

WrappersSpec == WrappersInit /\ [][WrappersNext]_wrappersVars

(* The arrays that the library holds: in blocks, and during a call.        *)
Held(x) == IF x \in Blocks THEN blocks[x] ELSE call[x].temp
Keepers == Blocks \union Callers
Owned == UNION {ToSet(Held(x)) : x \in Keepers}

WrappersTypeOK ==
    /\ DOMAIN table \subseteq Addresses
    /\ \A a \in DOMAIN table : table[a] \in Arrays \union {NewArray}
    /\ \A x \in Keepers : Held(x) \in Seq([id : Addresses, array : Arrays \union {NewArray}])
    /\ orphans \subseteq Addresses

(* Every array the library holds is found under its id, and is the array   *)
(* it was made for, also after the addresses of destroyed wrappers were    *)
(* given to others: no callback can meet a KeyError or a foreign array.    *)
ArraysAreKnown == \A m \in Owned : m.id \in DOMAIN table /\ table[m.id] = m.array

(* No two arrays of the library share a wrapper, so that none is destroyed *)
(* twice.                                                                  *)
WrappersAreNotShared ==
    \A x, y \in Keepers : \A i \in DOMAIN Held(x), j \in DOMAIN Held(y) :
        Held(x)[i].id = Held(y)[j].id => x = y /\ i = j

(* A wrapper that stays in the table belongs to an array that the library  *)
(* still holds, however its calls ended; the only others are those of      *)
(* blocks whose labels were views.                                         *)
NothingElseIsKept == DOMAIN table = {m.id : m \in Owned} \union orphans

(* Every array the library holds has its own wrapper, the one it was made  *)
(* for, also when addresses are used again, and the table keeps no wrapper *)
(* that nobody needs but those of blocks whose labels were views           *)
(* (array.py, block.py).                                                   *)
WrappersAreKnown == ArraysAreKnown /\ WrappersAreNotShared /\ NothingElseIsKept
=============================================================================
