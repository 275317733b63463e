------------------------------ MODULE MCThreads -------------------------------
(***************************************************************************)
(* What threads share: the counts and user data of Labels, the last error, *)
(* the table of array wrappers and the switch of the checks. These do not  *)
(* use each other: a behaviour is one of one part, and the other parts     *)
(* stay as they are at the start.                                          *)
(*                                                                         *)
(* "handles": two threads, three places for labels and three for tensors,  *)
(* two holders, a block, and a device next to the CPU. "errors": two       *)
(* threads with nested calls, which also write to buffers that must grow.  *)
(* "wrappers": two threads, four addresses, so that they are soon used     *)
(* again, and blocks with up to two arrays. "checks": two threads with     *)
(* nested with statements.                                                 *)
(***************************************************************************)
EXTENDS LabelsHandles, Errors, ArrayWrappers, Checks, TLC

CONSTANTS t1, t2, h1, h2, v1, v2

VARIABLE part

vars == <<part, handlesVars, errorsVars, wrappersVars, checksVars>>

ThreadsInit ==
    /\ HandlesInit /\ ErrorsInit /\ WrappersInit /\ ChecksInit
    /\ \/ part \in {"handles", "errors", "wrappers"} /\ _CHECKS_ENABLED
       \/ part = "checks"

ThreadsNext ==
    /\ UNCHANGED part
    /\ \/ part = "handles" /\ HandlesNext /\ UNCHANGED <<errorsVars, wrappersVars, checksVars>>
       \/ part = "errors" /\ ErrorsNext /\ UNCHANGED <<handlesVars, wrappersVars, checksVars>>
       \/ part = "wrappers" /\ WrappersNext /\ UNCHANGED <<handlesVars, errorsVars, checksVars>>
       \/ part = "checks" /\ ChecksNext /\ UNCHANGED <<handlesVars, errorsVars, wrappersVars>>

ThreadsSpec == ThreadsInit /\ [][ThreadsNext]_vars

Symmetry == Permutations({t1, t2}) \union Permutations({h1, h2}) \union Permutations({v1, v2})
=============================================================================
