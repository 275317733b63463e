--------------------------- MODULE AtomisticModel ---------------------------
(***************************************************************************)
(* MetatensorAtomisticModel (atomistic/model.py, atomistic/outputs.py): an *)
(* engine wraps a module, which tells the neighbors lists it needs, and    *)
(* calls the model on one System (module System) whose data is in the units *)
(* of the engine. The model checks the inputs, converts the System to its  *)
(* own units, runs the module, checks the outputs and converts these in    *)
(* place to the units of the engine, one after the other.                  *)
(*                                                                         *)
(* A number is the power of the conversion factor it was multiplied by,    *)
(* relative to Angstrom and eV: the data of the engine is in Angstrom, and *)
(* has scale 0. The gradient of an energy with respect to positions is a   *)
(* pair of scales, of the energy and of the lengths.                       *)
(***************************************************************************)
EXTENDS Integers, FiniteSets, Sequences, SequencesExt

CONSTANTS
  Inputs,           \* the variables of the engine that hold a System
  InputAxes, InputTypes, InputDevices, InputData, \* and what can be in one
  Modules,          \* the module and its children: a sequence of their options
  PresetUnits,      \* units that the options of children may already have
  ModelUnits,       \* length units that a model may declare
  EngineUnits,      \* names the engine gives to its length unit
  LengthScale,      \* scale of a length unit
  EnergyScale,      \* scale of an energy unit
  Declared,         \* capabilities.outputs: quantity, unit, per_atom and explicit_gradients of an output
  Requests,         \* the outputs an engine may ask for together
  ModelDType,
  Atoms,            \* atoms of the system
  Maps,             \* the TensorMaps there can be
  Gradients,        \* outputs may have gradients with respect to positions
  Shares            \* the module may return a TensorMap twice, or again

(* The engine's unit of length is the one that scales are relative to.     *)
ASSUME UnitsAssumption ==
    /\ \A u \in ModelUnits \ {""} : LengthScale[u] \in Int
    /\ \A u \in EngineUnits \ {""} : LengthScale[u] = 0
    /\ \A n \in DOMAIN Declared : Declared[n].unit # "" => EnergyScale[Declared[n].unit] \in Int
    /\ \A o \in Requests : \A n \in DOMAIN o : o[n].unit # "" => EnergyScale[o[n].unit] \in Int
ASSUME ModulesAssumption == Modules \in Seq(ToSet(Modules))
ASSUME AtomsAssumption == IsFiniteSet(Atoms)

VARIABLES
  units,       \* length_unit of the options of every module
  model,       \* the wrapped model: its length unit and requested lists
  call,        \* the call of forward that is running
  maps,        \* the TensorMaps of outputs
  inputs, inputs_unchecked, inputs_last \* the Systems of the engine

modelVars == <<units, model, call, maps>>
inputVars == <<inputs, inputs_unchecked, inputs_last>>
atomisticVars == <<modelVars, inputVars>>

Sys == INSTANCE System WITH
    Handles <- Inputs, Axes <- InputAxes, DTypes <- InputTypes, DefaultDType <- ModelDType,
    Devices <- InputDevices, Options <- ToSet(Modules), DataNames <- InputData, InvalidNames <- {},
    WithEmptyData <- FALSE, WithSetCell <- TRUE,
    systems <- inputs, unchecked <- inputs_unchecked, last <- inputs_last

NoModel == [wrapped |-> FALSE]
NoCall == [pc |-> "idle"]
NoMap == [made |-> FALSE]

(* unit_conversion_factor: nothing is converted from or to an unknown unit. *)
unit_conversion_factor(scale, from_unit, to_unit) ==
    IF "" \in {from_unit, to_unit} THEN 0 ELSE scale[to_unit] - scale[from_unit]

-----------------------------------------------------------------------------
(* The constructor.                                                        *)

(* A model, whose other capabilities may turn out to be invalid: first its *)
(* module and the children of this are asked for their options,            *)
Wrap ==
    \E length_unit \in ModelUnits, valid \in BOOLEAN :
        /\ call.pc = "idle"
        /\ call' = [pc |-> "requests", length_unit |-> length_unit, valid |-> valid, module |-> 1, requested |-> <<>>]
        /\ model' = NoModel
        /\ UNCHANGED <<units, maps, inputVars>>

(* one after the other: a request that equals an earlier one only adds its *)
(* requestor, a new one must not have another unit and gets the one of the *)
(* model. The options are objects of the modules, which keep the unit even *)
(* if the constructor raises later.                                        *)
already_requested == \E k \in ToSet(call.requested) : Modules[k] = Modules[call.module]

_get_requested_neighbor_lists ==
    /\ call.pc = "requests" /\ call.module <= Len(Modules)
    /\ \/ /\ already_requested
          /\ call' = [call EXCEPT !.module = @ + 1]
          /\ UNCHANGED units
       \/ /\ ~already_requested /\ units[call.module] \in {"", call.length_unit}
          /\ call' = [call EXCEPT !.module = @ + 1, !.requested = Append(@, call.module)]
          /\ units' = [units EXCEPT ![call.module] = call.length_unit]
       \/ /\ ~already_requested /\ units[call.module] \notin {"", call.length_unit}
          /\ call' = NoCall
          /\ UNCHANGED units
    /\ UNCHANGED <<model, maps, inputVars>>

(* Then the capabilities are checked.                                      *)
Wrapped ==
    /\ call.pc = "requests" /\ call.module > Len(Modules)
    /\ model' = IF call.valid THEN [wrapped |-> TRUE, length_unit |-> call.length_unit, requested |-> call.requested]
                ELSE NoModel
    /\ call' = NoCall
    /\ UNCHANGED <<units, maps, inputVars>>

-----------------------------------------------------------------------------
(* forward.                                                                *)

(* The atoms of selected_atoms, which may be None.                         *)
Selected(selected) == IF selected.given THEN Atoms \intersect selected.atoms ELSE Atoms

(* _check_inputs. A call has one System: what is compared between Systems, *)
(* their types and devices, is the same. The atom "other" stands for all   *)
(* selected_atoms that are refused: atoms that are not there, other names, *)
(* another device.                                                         *)
_check_inputs(system, outputs, selected) ==
    /\ system.dtype = ModelDType
    /\ \A name \in DOMAIN outputs :
        /\ name \in DOMAIN Declared
        /\ outputs[name].explicit_gradients \subseteq Declared[name].explicit_gradients
        /\ outputs[name].per_atom => Declared[name].per_atom
    /\ selected.given => selected.atoms \subseteq Atoms
    /\ \A i \in ToSet(model.requested) : Modules[i] \in DOMAIN system.neighbors

(* _convert_systems_units: a new System, with all checks of its            *)
(* constructor; custom data is not converted, with a warning.              *)
_convert_system_units_Positions(system, conversion) ==   \* mutant: lists are not converted
    IF conversion = 0 THEN system
    ELSE LET tensor == [dtype |-> system.dtype, device |-> system.device, wellformed |-> TRUE]
             made == Sys!SystemHolder(tensor, tensor, system.cell, system.pbc)
         IN IF made = Sys!NoSystem THEN Sys!NoSystem
            ELSE Sys!AddAll([made EXCEPT !.scale = system.scale + conversion], system.neighbors, system.data)

_convert_system_units(system, conversion) ==
    IF conversion = 0 THEN system
    ELSE LET tensor == [dtype |-> system.dtype, device |-> system.device, wellformed |-> TRUE]
             made == Sys!SystemHolder(tensor, tensor, system.cell, system.pbc)
         IN IF made = Sys!NoSystem THEN Sys!NoSystem
            ELSE Sys!AddAll([made EXCEPT !.scale = system.scale + conversion],
                        [o \in DOMAIN system.neighbors |-> [system.neighbors[o] EXCEPT !.scale = @ + conversion]],
                        system.data)

(* Maps of an earlier call are gone, unless the module keeps them.         *)
Dropped(k) == IF Shares THEN k ELSE [i \in Maps |-> NoMap]

EndCall(k) == call' = NoCall /\ maps' = Dropped(k)

(* forward, until the module is called. The types of the atoms, which the  *)
(* model may not support, are always checked.                              *)
forward ==
    \E h \in Inputs, outputs \in Requests, unit \in EngineUnits, check, supported \in BOOLEAN,
       selected \in [given : {FALSE}, atoms : {{}}] \union [given : {TRUE}, atoms : SUBSET (Atoms \union {"other"})] :
        LET seen == _convert_system_units(inputs[h], unit_conversion_factor(LengthScale, unit, model.length_unit))
        IN /\ call.pc = "idle" /\ model.wrapped /\ Sys!Exists(h)
           /\ IF (check => _check_inputs(inputs[h], outputs, selected)) /\ supported /\ seen # Sys!NoSystem
              THEN /\ call' = [pc |-> "module", check |-> check, unit |-> unit, outputs |-> outputs, selected |-> selected, seen |-> seen]
                   /\ maps' = Dropped(maps)
              ELSE EndCall(maps)
           /\ UNCHANGED <<units, model, inputVars>>

-----------------------------------------------------------------------------
(* The samples a check expects: the selected atoms, or the system.         *)
Expected(request, selected) ==
    IF request.per_atom THEN Selected(selected)
    ELSE IF selected.given /\ selected.atoms = {} THEN {} ELSE {"system"}

(* What a module makes, in the units it declared: an output of these       *)
(* samples, with a gradient or not.                                        *)
Made(name, samples, gradient) ==
    LET energy == IF name \in DOMAIN Declared /\ Declared[name].unit # "" THEN EnergyScale[Declared[name].unit] ELSE 0
    IN [made |-> TRUE, samples |-> samples, values |-> energy,
        positions |-> IF gradient THEN <<energy, - call.seen.scale>> ELSE <<>>]

(* _check_outputs. Samples are compared by the size of a union.            *)
_validate_atomic_samples(samples, expected) == Cardinality(expected \union samples) = Cardinality(expected)

_check_outputs(outputs, made) ==
    /\ DOMAIN outputs = DOMAIN call.outputs
    /\ "energy" \in DOMAIN outputs =>
        _validate_atomic_samples(made[outputs["energy"]].samples, Expected(call.outputs["energy"], call.selected))

(* The module returns TensorMaps, whose types and other metadata is as it  *)
(* should be (wellformed) or not: new maps or, if it keeps or shares them, *)
(* one that was returned before, or for another name.                      *)
Module ==
    /\ call.pc = "module"
    /\ \E names \in SUBSET (DOMAIN Declared \union DOMAIN call.outputs), wellformed \in BOOLEAN :
       \E outputs \in [names -> Maps], samples \in SUBSET (Atoms \union {"system"}), gradient \in IF Gradients THEN BOOLEAN ELSE {FALSE} :
        LET kept == {k \in Maps : Shares /\ maps[k] # NoMap}
            made == [k \in Maps |-> IF k \in kept THEN maps[k]
                                    ELSE IF k \in Range(outputs)
                                         THEN Made(CHOOSE n \in names : outputs[n] = k, samples, gradient)
                                         ELSE NoMap]
        IN /\ Shares \/ IsInjective(outputs)
           /\ IF call.check /\ ~ (wellformed /\ _check_outputs(outputs, made))
              THEN EndCall(made)
              ELSE /\ call' = [pc |-> "convert", check |-> call.check, unit |-> call.unit, outputs |-> call.outputs,
                               selected |-> call.selected, made |-> outputs, todo |-> names]
                   /\ maps' = made
           /\ UNCHANGED <<units, model, inputVars>>

(* One output is converted, in place. An output that was not declared, not *)
(* asked for, or of another quantity, raises an error.                     *)
convert_output(map, conversion) ==
    [map EXCEPT !.values = @ + conversion, !.positions = IF @ = <<>> THEN @ ELSE <<@[1] + conversion, @[2]>>]

Convert ==
    /\ call.pc = "convert"
    /\ \E name \in call.todo :
        LET declared == Declared[name]
            requested == call.outputs[name]
            known == "" \notin {declared.quantity, requested.quantity}
            conversion == unit_conversion_factor(EnergyScale, declared.unit, requested.unit)
        IN IF name \notin (DOMAIN Declared \intersect DOMAIN call.outputs) \/ (known /\ declared.quantity # requested.quantity)
           THEN EndCall(maps)
           ELSE /\ maps' = IF known THEN [maps EXCEPT ![call.made[name]] = convert_output(@, conversion)] ELSE maps
                /\ call' = [call EXCEPT !.todo = @ \ {name}]
    /\ UNCHANGED <<units, model, inputVars>>

Return ==
    /\ call.pc = "convert" /\ call.todo = {}
    /\ call' = [call EXCEPT !.pc = "returned"]
    /\ UNCHANGED <<units, model, maps, inputVars>>

(* The engine is done with the outputs.                                    *)
Done ==
    /\ call.pc = "returned"
    /\ EndCall(maps)
    /\ UNCHANGED <<units, model, inputVars>>

-----------------------------------------------------------------------------
ModelInit ==
    /\ Sys!SystemInit
    /\ units \in [1..Len(Modules) -> PresetUnits]
    /\ model = NoModel /\ call = NoCall
    /\ maps = [k \in Maps |-> NoMap]

(* The engine prepares its System between calls.                           *)
Engine == call.pc = "idle" /\ (Sys!New \/ Sys!Set \/ Sys!Add) /\ UNCHANGED modelVars

ModelNext == Engine \/ Wrap \/ _get_requested_neighbor_lists \/ Wrapped \/ forward \/ Module \/ Convert \/ Return \/ Done

ModelSpec == ModelInit /\ [][ModelNext]_atomisticVars

-----------------------------------------------------------------------------
Known(unit) == unit # ""

(* The module sees positions, cell and all lists in the units of the model *)
(* whenever both units are known.                                          *)
ModuleSeesModelUnits ==
    call.pc = "module" /\ Known(call.unit) /\ Known(model.length_unit) =>
        /\ call.seen.scale = LengthScale[model.length_unit]
        /\ \A o \in DOMAIN call.seen.neighbors : call.seen.neighbors[o].scale = call.seen.scale

(* If inputs are checked, the module finds all lists that it, or a child,  *)
(* asked for, also in a System that was converted.                         *)
ListsAreFound ==
    call.pc = "module" /\ call.check => \A i \in DOMAIN Modules : Modules[i] \in DOMAIN call.seen.neighbors

(* Outputs that are returned are in the units the engine asked for.        *)
OutputsAreInEngineUnits ==
    call.pc = "returned" =>
        \A name \in DOMAIN call.made :
            LET asked == call.outputs[name]
            IN /\ "" \notin {Declared[name].quantity, asked.quantity}
               /\ Known(Declared[name].unit) /\ Known(asked.unit)
               => maps[call.made[name]].values = EnergyScale[asked.unit]

(* If outputs are checked, an energy that is returned is only for atoms    *)
(* that were selected.                                                     *)
OnlySelectedAtoms ==
    call.pc = "returned" /\ call.check /\ "energy" \in DOMAIN call.made =>
        maps[call.made["energy"]].samples \subseteq
            (IF call.outputs["energy"].per_atom THEN Selected(call.selected) ELSE {"system"})

(* Every request is listed once, with the unit of the model.               *)
RequestsAreListedOnce ==
    model.wrapped =>
        /\ \A i \in DOMAIN Modules : Cardinality({k \in DOMAIN model.requested : Modules[model.requested[k]] = Modules[i]}) = 1
        /\ \A k \in DOMAIN model.requested : units[model.requested[k]] = model.length_unit

(***************************************************************************)
(* The module sees everything in the units of the model, finds the lists   *)
(* that it and its children asked for, listed once, and the engine gets    *)
(* its own units, for the atoms it selected (model.py). A module that      *)
(* returns a TensorMap twice or keeps it has it converted twice.           *)
(***************************************************************************)
UnitsAreRight ==
    /\ ModuleSeesModelUnits /\ ListsAreFound /\ OnlySelectedAtoms /\ RequestsAreListedOnce
    /\ ~Shares => OutputsAreInEngineUnits
=============================================================================
