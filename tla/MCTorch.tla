------------------------------- MODULE MCTorch -------------------------------
(***************************************************************************)
(* metatensor-torch. A behaviour is one of one part, and the variables of  *)
(* the other parts are off, those of Systems and of neighbors lists at     *)
(* their first values. The System that the model gets is another one:      *)
(*                                                                         *)
(* "blocks": three objects, blocks and tensor maps with gradients of       *)
(* gradients, on two devices and of two types; "numbers": two objects that *)
(* differ in their numbers, loaded with gradients.                         *)
(* "systems": two Systems that share what is put in them, on two devices   *)
(* and of two types.                                                       *)
(* "model": a model with a child that asks for the same list, called with  *)
(* one System of two atoms; units that differ by a factor or are unknown.  *)
(* "neighbors": two atoms, at most two pairs and their mirror images, with *)
(* shifts of up to one cell.                                               *)
(***************************************************************************)
EXTENDS NeighborLists, System, AtomisticModel, TorchBlocks, TLC

CONSTANTS
    Parts,      \* the parts to start from
    x1, x2

VARIABLES
    part

MCShifts == [1..3 -> {-1, 0, 1}]
MCCellVectors == {<<5, 0, 2>>}

Output(quantity, unit, per_atom) ==
    [quantity |-> quantity, unit |-> unit, per_atom |-> per_atom, explicit_gradients |-> {}]
Requesting(output, asked) == [output EXCEPT !.explicit_gradients = asked]
MCDeclared == "energy" :> Requesting(Output("energy", "meV", TRUE), {"positions"}) @@ "ns::energy" :> Output("energy", "meV", FALSE)
MCRequests == {"energy" :> Requesting(Output("energy", "eV", TRUE), {"positions"}),
               "energy" :> Requesting(Output("energy", "eV", TRUE), {"positions", "strain"}),
               "energy" :> Output("", "eV", FALSE) @@ "ns::other" :> Output("", "", FALSE),
               "energy" :> Output("energy", "meV", FALSE) @@ "ns::energy" :> Output("length", "", FALSE),
               "energy" :> Output("energy", "eV", TRUE) @@ "ns::energy" :> Output("energy", "eV", FALSE)}

N == INSTANCE TorchBlocks WITH
    Objects <- 1..2, Numbers <- {x1, x2}, BlockTypes <- {"f64"}, LoadedDepth <- 1

MCModules == <<"3.5 full", "3.5 full">>
MCLengthScale == "A" :> 0 @@ "nm" :> 1
MCEnergyScale == "eV" :> 0 @@ "meV" :> 1

ModelOff == units = [i \in 1..Len(Modules) |-> ""]
NeighborsOff ==
    /\ positions = [a \in Atom |-> 0] /\ cell = <<5, 0, 2>>
    /\ nl = {} /\ block = NoBlock /\ full_list = FALSE /\ gradients = NoGradients

TorchInit ==
    /\ part \in Parts
    /\ SystemInit /\ ModelInit
    /\ \/ part = "blocks" /\ BlocksInit /\ ModelOff /\ NeighborsOff
       \/ part = "numbers" /\ N!BlocksInit /\ ModelOff /\ NeighborsOff
       \/ part = "systems" /\ BlocksInit /\ ModelOff /\ NeighborsOff
       \/ part = "model" /\ BlocksInit /\ NeighborsOff
       \/ part = "neighbors" /\ Init /\ BlocksInit /\ ModelOff

TorchNext ==
    /\ UNCHANGED part
    /\ \/ part = "blocks" /\ BlocksNext /\ UNCHANGED <<systemVars, atomisticVars, vars>>
       \/ part = "numbers" /\ N!BlocksNext /\ UNCHANGED <<systemVars, atomisticVars, vars>>
       \/ part = "systems" /\ SystemNext /\ UNCHANGED <<blockVars, atomisticVars, vars>>
       \/ part = "model" /\ ModelNext /\ UNCHANGED <<blockVars, systemVars, vars>>
       \/ part = "neighbors" /\ Next /\ UNCHANGED <<blockVars, systemVars, atomisticVars>>

TorchSpec == TorchInit /\ [][TorchNext]_<<part, blockVars, systemVars, atomisticVars, vars>>

Symmetry == Permutations({x1, x2})
=============================================================================
