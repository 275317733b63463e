------------------------------- MODULE Errors -------------------------------
(***************************************************************************)
(* How an error travels between the library and Python: the message of the *)
(* last error of every thread (c_api/status.rs), the exception a Python    *)
(* callback raised, saved until the C function that ran the callback is    *)
(* back (status.py, utils.py catch_exceptions, io/_utils.py realloc), and  *)
(* the checks ctypes makes on what a C function returned (_check_status is *)
(* the restype of every function returning a status, _check_pointer is     *)
(* called on every pointer).                                               *)
(*                                                                         *)
(* A thread is a stack of calls: a callback is Python code that may call   *)
(* the library in turn, as the origin callback of every array does. Calls  *)
(* are numbered; the number of a call also stands for the error message it *)
(* makes and for the exception raised in its callback.                     *)
(***************************************************************************)
EXTENDS Naturals, Sequences

CONSTANTS
  Threads,
  MaxCalls,   \* bound on the calls of one behaviour
  MaxDepth    \* bound on the calls of a thread that are under way

ASSUME MaxCallsAssumption == MaxCalls \in Nat

None == 0

VARIABLES
  calls,             \* the number of calls made so far
  stack,             \* stack[t]: the calls under way on thread t
  LAST_ERROR_MESSAGE,\* thread local, in the library
  LAST_EXCEPTION,    \* a global variable of Python
  error,             \* the last MetatensorError that was raised
  disturbed          \* auxiliary: calls of two threads overlapped, or a realloc failed

errorsVars == <<calls, stack, LAST_ERROR_MESSAGE, LAST_EXCEPTION, error, disturbed>>

Idle(t) == stack[t] = <<>>
Top(t) == stack[t][Len(stack[t])]
Under(t) == SubSeq(stack[t], 1, Len(stack[t]) - 1)
SetTop(t, frame) == stack' = [stack EXCEPT ![t] = Append(Under(t), frame)]
At(t, state) == ~Idle(t) /\ Top(t).state = state

(* What a status says: 0, the library's own errors (positive), or the      *)
(* negative value of a callback, passed on by Error::External.             *)
Statuses == {"success", "library", "external"}

Frames == [call : 1..MaxCalls, returns : {"status", "pointer"},
           state : {"library", "callback", "returned"}, status : Statuses,
           raised : 0..MaxCalls]

ErrorsInit ==
  /\ calls = 0
  /\ stack = [t \in Threads |-> <<>>]
  /\ LAST_ERROR_MESSAGE = [t \in Threads |-> None]
  /\ LAST_EXCEPTION = None
  /\ error = [call |-> None, message |-> None, cause |-> None, raised |-> None]
  /\ disturbed = FALSE

(* Python, or Python code running in a callback, calls a C function.       *)
Call(t, returns) ==
  /\ calls < MaxCalls
  /\ Len(stack[t]) < MaxDepth
  /\ Idle(t) \/ At(t, "callback")
  /\ calls' = calls + 1
  /\ stack' = [stack EXCEPT ![t] =
       Append(@, [call |-> calls + 1, returns |-> returns, state |-> "library",
                  status |-> "success", raised |-> None])]
  /\ disturbed' = (disturbed \/ \E u \in Threads \ {t} : ~Idle(u))
  /\ UNCHANGED <<LAST_ERROR_MESSAGE, LAST_EXCEPTION, error>>

(* The library runs a callback: one of the functions of mts_array_t.       *)
Callback(t) ==
  /\ At(t, "library")
  /\ Top(t).status = "success"
  /\ SetTop(t, [Top(t) EXCEPT !.state = "callback"])
  /\ UNCHANGED <<calls, LAST_ERROR_MESSAGE, LAST_EXCEPTION, error, disturbed>>

CallbackReturns(t) ==
  /\ At(t, "callback")
  /\ SetTop(t, [Top(t) EXCEPT !.state = "library"])
  /\ UNCHANGED <<calls, LAST_ERROR_MESSAGE, LAST_EXCEPTION, error, disturbed>>

_save_exception(e) == LAST_EXCEPTION' = e

(* catch_exceptions: the callback raised; the exception is saved and -1    *)
(* returned, which the library turns into Error::External.                 *)
catch_exceptions(t) ==
  /\ At(t, "callback")
  /\ _save_exception(Top(t).call)
  /\ SetTop(t, [Top(t) EXCEPT !.state = "library", !.status = "external", !.raised = Top(t).call])
  /\ UNCHANGED <<calls, LAST_ERROR_MESSAGE, error, disturbed>>

(* realloc of a save_buffer function, which all return a status: it saves  *)
(* the exception and returns NULL, and the library makes an error of its   *)
(* own of that.                                                            *)
realloc_fails(t) ==
  /\ At(t, "callback")
  /\ Top(t).returns = "status"
  /\ _save_exception(Top(t).call)
  /\ SetTop(t, [Top(t) EXCEPT !.state = "library", !.status = "library", !.raised = Top(t).call])
  /\ disturbed' = TRUE
  /\ UNCHANGED <<calls, LAST_ERROR_MESSAGE, error>>

(* The function succeeds.                                                  *)
Succeed(t) ==
  /\ At(t, "library")
  /\ Top(t).status = "success"
  /\ SetTop(t, [Top(t) EXCEPT !.state = "returned"])
  /\ UNCHANGED <<calls, LAST_ERROR_MESSAGE, LAST_EXCEPTION, error, disturbed>>

SetMessage_Global(t, message) == LAST_ERROR_MESSAGE' = [u \in Threads |-> message]

SetMessage(t, message) == LAST_ERROR_MESSAGE' = [LAST_ERROR_MESSAGE EXCEPT ![t] = message]

(* The function fails, with the status of its callback or with an error of *)
(* its own; catch_unwind and From<Error> write the message.                *)
Fail(t) ==
  /\ At(t, "library")
  /\ SetTop(t, [Top(t) EXCEPT !.state = "returned",
                              !.status = IF @ = "success" THEN "library" ELSE @])
  /\ SetMessage(t, Top(t).call)
  /\ UNCHANGED <<calls, LAST_EXCEPTION, error, disturbed>>

(* MetatensorError(last_error()) from cause, in the code that made the     *)
(* call: its callback, when the call was made in one.                      *)
Raise(t, cause) ==
  /\ error' = [call |-> Top(t).call, message |-> LAST_ERROR_MESSAGE[t],
               cause |-> cause, raised |-> Top(t).raised]
  /\ stack' = [stack EXCEPT ![t] = Under(t)]

Returned(t, returns) == At(t, "returned") /\ Top(t).returns = returns

check_success(t) ==
  /\ At(t, "returned")
  /\ Top(t).status = "success"
  /\ stack' = [stack EXCEPT ![t] = Under(t)]
  /\ UNCHANGED <<calls, LAST_ERROR_MESSAGE, LAST_EXCEPTION, error, disturbed>>

_check_status(t) ==
  /\ Returned(t, "status")
  /\ \/ /\ Top(t).status = "library"
        /\ Raise(t, None)
        /\ UNCHANGED LAST_EXCEPTION
     \/ /\ Top(t).status = "external"
        /\ Raise(t, LAST_EXCEPTION)
        /\ LAST_EXCEPTION' = None
  /\ UNCHANGED <<calls, LAST_ERROR_MESSAGE, disturbed>>

_check_pointer(t) ==
  /\ Returned(t, "pointer")
  /\ Top(t).status # "success"
  /\ Raise(t, LAST_EXCEPTION)
  /\ LAST_EXCEPTION' = None
  /\ UNCHANGED <<calls, LAST_ERROR_MESSAGE, disturbed>>

Done == /\ calls = MaxCalls
        /\ \A t \in Threads : Idle(t)
        /\ UNCHANGED errorsVars

ErrorsNext ==
  \/ Done
  \/ \E t \in Threads :
       \/ \E returns \in {"status", "pointer"} : Call(t, returns)
       \/ Callback(t) \/ CallbackReturns(t) \/ catch_exceptions(t) \/ realloc_fails(t)
       \/ Succeed(t) \/ Fail(t)
       \/ check_success(t) \/ _check_status(t) \/ _check_pointer(t)

ErrorsSpec == ErrorsInit /\ [][ErrorsNext]_errorsVars

(* The types; a call with another one above it is running a callback.      *)
ErrorsTypeOK ==
  /\ calls \in 0..MaxCalls
  /\ stack \in [Threads -> Seq(Frames)]
  /\ \A t \in Threads : \A i \in 1..Len(stack[t]) - 1 : stack[t][i].state = "callback"
  /\ LAST_ERROR_MESSAGE \in [Threads -> 0..MaxCalls]
  /\ LAST_EXCEPTION \in 0..MaxCalls
  /\ error \in [call : 0..MaxCalls, message : 0..MaxCalls, cause : 0..MaxCalls, raised : 0..MaxCalls]
  /\ disturbed \in BOOLEAN

(* The message of a MetatensorError is the one the failing call made,      *)
(* whatever calls were made in its callbacks and by the other threads      *)
(* before the message was read.                                            *)
MessageIsOwn == error.message = error.call

(* The cause of a MetatensorError is the exception raised by a callback of *)
(* the failing call, if one was: never that of an earlier call or of a     *)
(* call nested in it, and it is never lost. LAST_EXCEPTION is one variable *)
(* for all threads, so that this is not said of calls of two threads that  *)
(* overlap; nor of what follows a failed realloc, which leaves its         *)
(* exception behind.                                                       *)
CauseIsOwn == ~disturbed => error.cause = error.raised

(* A MetatensorError has the message and the cause of the call that failed, *)
(* whatever was called between the error and the moment they are read       *)
(* (status.rs, status.py, _c_lib.py).                                       *)
ErrorsAreOwn == MessageIsOwn /\ CauseIsOwn
=============================================================================
