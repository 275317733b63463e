-------------------------------- MODULE Checks --------------------------------
(***************************************************************************)
(* The switch of the checks of the operations (metatensor_operations:      *)
(* _checks.py): one global variable, set when an object unsafe_enable_     *)
(* checks or unsafe_disable_checks is made, and put back when a `with`     *)
(* statement that uses the object ends. Threads share the variable.      *)
(***************************************************************************)
EXTENDS Integers, Sequences, SequencesExt

CONSTANTS
    Users,
    MaxNested    \* bound: nested with statements in a thread

VARIABLES
    _CHECKS_ENABLED,    \* the global variable
    contexts,           \* for each thread, the objects of the with statements it is in
    permanent,          \* the state that was set last outside all with statements
    raised,             \* the state in which an operation refused its arguments
    overlapped          \* auxiliary: with statements of two threads were under way together

checksVars == <<_CHECKS_ENABLED, contexts, permanent, raised, overlapped>>

(* METATENSOR_UNSAFE_DISABLE_CHECKS is set or not. *)
ChecksInit ==
    /\ _CHECKS_ENABLED \in BOOLEAN
    /\ permanent = _CHECKS_ENABLED
    /\ contexts = [t \in Users |-> <<>>] /\ raised = TRUE /\ overlapped = FALSE

(* unsafe_enable_checks() or unsafe_disable_checks(), without a with statement. *)
SetChecks(state) ==
    /\ \A t \in Users : contexts[t] = <<>>
    /\ _CHECKS_ENABLED' = state /\ permanent' = state
    /\ UNCHANGED <<contexts, raised, overlapped>>

(* with unsafe_...(): __init__ keeps the old state; it and __enter__ set the new one. *)
Enter(t, state) ==
    /\ Len(contexts[t]) < MaxNested
    /\ contexts' = [contexts EXCEPT ![t] =
           Append(@, [state |-> state, original_check_state |-> _CHECKS_ENABLED])]
    /\ _CHECKS_ENABLED' = state
    /\ overlapped' = (overlapped \/ \E u \in Users \ {t} : contexts[u] # <<>>)
    /\ UNCHANGED <<permanent, raised>>

(* __exit__, also after an exception *)
Exit_Permanent(t) ==
    /\ contexts[t] # <<>>
    /\ _CHECKS_ENABLED' = permanent
    /\ contexts' = [contexts EXCEPT ![t] = Front(@)]
    /\ UNCHANGED <<permanent, raised, overlapped>>
Exit(t) ==
    /\ contexts[t] # <<>>
    /\ _CHECKS_ENABLED' = Last(contexts[t]).original_check_state
    /\ contexts' = [contexts EXCEPT ![t] = Front(@)]
    /\ UNCHANGED <<permanent, raised, overlapped>>

(* An operation on tensor maps that differ: _check_same_keys_raise raises, whatever the variable says. *)
Refuse(t) ==
    /\ raised' = _CHECKS_ENABLED
    /\ UNCHANGED <<_CHECKS_ENABLED, contexts, permanent, overlapped>>

ChecksNext ==
    \/ \E state \in BOOLEAN : SetChecks(state)
    \/ \E t \in Users, state \in BOOLEAN : Enter(t, state)
    \/ \E t \in Users : Exit(t) \/ Refuse(t)

ChecksSpec == ChecksInit /\ [][ChecksNext]_checksVars

-----------------------------------------------------------------------------
(* Properties *)

(* After all with statements the state is the one before them. *)
Restored == (\A t \in Users : contexts[t] = <<>>) => _CHECKS_ENABLED = permanent

(* In a with statement, also after one inside it has ended, the state is the one it asks for. *)
InnermostDecides ==
    \A t \in Users : contexts[t] # <<>> => _CHECKS_ENABLED = Last(contexts[t]).state

(***************************************************************************)
(* "use a compound statement to disable checks only temporarily": however  *)
(* with statements are nested, the innermost decides, and after all of     *)
(* them the checks are as before (_checks.py). The variable is shared, so  *)
(* that this is only said while the with statements of different threads   *)
(* follow one another.                                                     *)
(***************************************************************************)
ChecksAreRestored == ~overlapped => Restored /\ InnermostDecides

=============================================================================
