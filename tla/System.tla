------------------------------- MODULE System -------------------------------
(***************************************************************************)
(* The System of metatensor-torch (atomistic/system.cpp): the atoms that   *)
(* an engine gives to a model, with their cell, the neighbors lists the    *)
(* model asked for and custom data.                                        *)
(*                                                                         *)
(* A tensor is its type, its device and, for lengths, the power of a       *)
(* factor it was multiplied by (its scale); a cell is the set of axes      *)
(* whose vector is not zero, pbc the set of axes that are periodic. All    *)
(* checks of shapes and names of one argument are one flag, wellformed.    *)
(***************************************************************************)
EXTENDS Integers, FiniteSets

CONSTANTS
  Handles,         \* the variables of the engine that hold a System
  Axes,            \* cell vectors
  DTypes, DefaultDType,
  Devices,         \* the meta device has no numbers to look at
  Options,         \* NeighborListOptions: cutoff, full_list and strict
  DataNames, InvalidNames,
  WithEmptyData,   \* custom data may be a TensorMap without blocks
  WithSetCell      \* the cell may be set

VARIABLES
  systems,     \* the System of every handle
  unchecked,   \* handles whose cell changed since it was compared with pbc
  last         \* the last conversion, if it was the last operation

systemVars == <<systems, unchecked, last>>

NoSystem == [exists |-> FALSE]
NoLists == [o \in {} |-> NoSystem]
Tensors == [dtype : DTypes, device : Devices, wellformed : BOOLEAN]
On(tensor, system) == tensor.device = system.device /\ tensor.dtype = system.dtype

Exists(h) == systems[h] # NoSystem

(* What an operation does with its result: nothing if it raised. checked   *)
(* says whether the result was checked when the operation returned.        *)
Assign(h, result, checked) ==
    /\ systems' = IF result = NoSystem THEN systems ELSE [systems EXCEPT ![h] = result]
    /\ unchecked' = IF result = NoSystem THEN unchecked
                    ELSE CASE checked = "same" -> unchecked
                           [] checked = "yes" -> unchecked \ {h}
                           [] checked = "no" -> unchecked \union {h}

Nothing == [op |-> "not a conversion", raised |-> FALSE]

-----------------------------------------------------------------------------
(* The cell is zero along the axes that are not periodic: not checked on   *)
(* the meta device.                                                        *)
Agree(device, cell, pbc) == device = "meta" \/ cell \subseteq pbc

(* The constructor. types and pbc are on the device of the positions.      *)
SystemHolder(positions, cell, axes, pbc) ==
    IF /\ positions.wellformed /\ cell.wellformed
       /\ cell.device = positions.device /\ cell.dtype = positions.dtype
       /\ Agree(positions.device, axes, pbc)
    THEN [dtype |-> positions.dtype, device |-> positions.device, scale |-> 0,
          cell |-> axes, pbc |-> pbc, neighbors |-> NoLists, data |-> NoLists]
    ELSE NoSystem

New ==
    \E h \in Handles, positions, cell \in Tensors, axes, pbc \in SUBSET Axes :
        /\ Assign(h, SystemHolder(positions, cell, axes, pbc), "yes")
        /\ last' = Nothing

(* set_types: converted to integers of 32 bits, so that any type will do.  *)
set_types(system, types) == IF types.device = system.device /\ types.wellformed THEN system ELSE NoSystem

set_positions(system, positions) == IF On(positions, system) /\ positions.wellformed THEN system ELSE NoSystem

set_cell(system, cell, axes) ==
    IF On(cell, system) /\ cell.wellformed THEN [system EXCEPT !.cell = axes] ELSE NoSystem

set_pbc(system, tensor, pbc) ==
    IF tensor.device = system.device /\ tensor.wellformed /\ Agree(system.device, system.cell, pbc)
    THEN [system EXCEPT !.pbc = pbc] ELSE NoSystem

Set ==
    \E h \in Handles, t \in Tensors :
        /\ Exists(h)
        /\ \/ Assign(h, set_types(systems[h], t), "same")
           \/ Assign(h, set_positions(systems[h], t), "same")
           \/ WithSetCell /\ \E axes \in SUBSET Axes : Assign(h, set_cell(systems[h], t, axes), "no")
           \/ \E pbc \in SUBSET Axes : Assign(h, set_pbc(systems[h], t, pbc), "yes")
        /\ last' = Nothing

-----------------------------------------------------------------------------

NeighborList(tensor, scale) ==
    [dtype |-> tensor.dtype, device |-> tensor.device, wellformed |-> tensor.wellformed, scale |-> scale]

(* A neighbors list, with the block's type and device; a list is never     *)
(* replaced. Options are equal if cutoff, full_list and strict are.        *)
add_neighbor_list(system, options, list) ==
    IF list.wellformed /\ On(list, system) /\ options \notin DOMAIN system.neighbors
    THEN [system EXCEPT !.neighbors = [o \in DOMAIN @ \union {options} |-> IF o = options THEN list ELSE @[o]]]
    ELSE NoSystem

(* TensorMap: its type is the one of the first block. Without blocks it is *)
(* the default type, whatever the map was made for or converted to.        *)
DataMap(dtype, device, filled) == [dtype |-> dtype, device |-> device, filled |-> filled]
scalar_type(tensor) == IF tensor.filled THEN tensor.dtype ELSE DefaultDType

add_data(system, name, tensor, override) ==
    IF /\ name \notin InvalidNames
       /\ override \/ name \notin DOMAIN system.data
       /\ tensor.device = system.device /\ scalar_type(tensor) = system.dtype
    THEN [system EXCEPT !.data = [n \in DOMAIN @ \union {name} |-> IF n = name THEN tensor ELSE @[n]]]
    ELSE NoSystem

Add ==
    /\ \E h \in Handles :
        /\ Exists(h)
        /\ \/ \E o \in Options, list \in Tensors :
                Assign(h, add_neighbor_list(systems[h], o, NeighborList(list, systems[h].scale)), "same")
           \/ \E n \in DataNames, dtype \in DTypes, device \in Devices, override \in BOOLEAN,
                 filled \in IF WithEmptyData THEN BOOLEAN ELSE {TRUE} :
                Assign(h, add_data(systems[h], n, DataMap(dtype, device, filled), override), "same")
    /\ last' = Nothing

-----------------------------------------------------------------------------
(* to: a new System from converted tensors, to which converted lists and   *)
(* data are added again; any of the checks on the way may raise. A copy    *)
(* from the meta device is an error of torch.                              *)
CanCopy(from, to) == from # "meta" \/ to = "meta"

AddAll(system, neighbors, data) ==
    IF /\ system # NoSystem
       /\ \A o \in DOMAIN neighbors : add_neighbor_list(system, o, neighbors[o]) # NoSystem
       /\ \A n \in DOMAIN data : add_data(system, n, data[n], FALSE) # NoSystem
    THEN [system EXCEPT !.neighbors = neighbors, !.data = data]
    ELSE NoSystem

SystemTo_ForgetsData(system, dtype, device) ==   \* mutant: custom data is not converted
    IF ~ CanCopy(system.device, device) THEN NoSystem
    ELSE LET tensor == [dtype |-> dtype, device |-> device, wellformed |-> TRUE]
         IN AddAll(SystemHolder(tensor, tensor, system.cell, system.pbc),
                   [o \in DOMAIN system.neighbors |-> [system.neighbors[o] EXCEPT !.dtype = dtype, !.device = device]], NoLists)

SystemTo(system, dtype, device) ==
    IF ~ CanCopy(system.device, device) THEN NoSystem
    ELSE LET tensor == [dtype |-> dtype, device |-> device, wellformed |-> TRUE]
         IN AddAll(SystemHolder(tensor, tensor, system.cell, system.pbc),
                   [o \in DOMAIN system.neighbors |-> [system.neighbors[o] EXCEPT !.dtype = dtype, !.device = device]],
                   [n \in DOMAIN system.data |-> [system.data[n] EXCEPT !.dtype = dtype, !.device = device]])

to ==
    \E h, new \in Handles, dtype \in DTypes, device \in Devices :
        /\ Exists(h) /\ new # h
        /\ Assign(new, SystemTo(systems[h], dtype, device), "yes")
        /\ last' = [op |-> "to", from |-> h, new |-> new, raised |-> SystemTo(systems[h], dtype, device) = NoSystem]

SystemInit ==
    /\ systems = [h \in Handles |-> NoSystem]
    /\ unchecked = {}
    /\ last = Nothing

SystemNext == New \/ Set \/ Add \/ to
SystemSpec == SystemInit /\ [][SystemNext]_systemVars

-----------------------------------------------------------------------------
(* Everything in a System has its type and its device, through every       *)
(* setter and conversion.                                                  *)
EverythingAgrees ==
    \A h \in Handles : Exists(h) =>
        /\ \A o \in DOMAIN systems[h].neighbors : On(systems[h].neighbors[o], systems[h])
        /\ \A n \in DOMAIN systems[h].data :
            systems[h].data[n].device = systems[h].device /\ scalar_type(systems[h].data[n]) = systems[h].dtype

(* Vectors along axes that are not periodic are zero, as long as set_cell  *)
(* did not replace the cell and the numbers could be looked at.            *)
CheckedCellsAgree ==
    \A h \in Handles \ unchecked : Exists(h) => Agree(systems[h].device, systems[h].cell, systems[h].pbc)

(* A converted System has the lists, the data, the cell and the            *)
(* periodicity of the System it was made from.                             *)
ConversionsKeepEverything ==
    last.op = "to" /\ ~ last.raised =>
        LET old == systems[last.from]
            new == systems[last.new]
        IN /\ new.cell = old.cell /\ new.pbc = old.pbc
           /\ DOMAIN new.neighbors = DOMAIN old.neighbors /\ DOMAIN new.data = DOMAIN old.data

(* A conversion that can be done is done: to only raises for the meta      *)
(* device, or because of a cell that was set without being checked, or of  *)
(* data without blocks.                                                    *)
ConversionsSucceed ==
    last.op = "to" /\ last.raised =>
        LET old == systems[last.from]
        IN \/ old.device = "meta"
           \/ last.from \in unchecked
           \/ \E n \in DOMAIN old.data : ~ old.data[n].filled

(* All the data of a System are of its type and on its device, its cell    *)
(* fits its periodic boundary conditions unless it was changed since, and  *)
(* a conversion loses nothing (system.cpp).                                *)
SystemsAgree ==
    /\ EverythingAgrees /\ CheckedCellsAgree
    /\ ConversionsKeepEverything /\ ConversionsSucceed
=============================================================================
