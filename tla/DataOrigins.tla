---------------------------- MODULE DataOrigins -----------------------------
(***************************************************************************)
(* The registry of data origins (data.rs): a list of names behind a mutex, *)
(* the position of a name being its number; and the Python side of it      *)
(* (data/array.py, data/extract.py): the numbers of numpy and torch are    *)
(* looked up once and kept in global variables, other libraries register a *)
(* class for the arrays of their origin, and an array that comes out of    *)
(* the library is turned into a Python one by looking at its number.       *)
(*                                                                         *)
(* Threads interleave between any two steps: the interpreter lock is given *)
(* up during every call of the library.                                    *)
(***************************************************************************)
EXTENDS Naturals, Sequences

CONSTANTS
  Threads,
  Others,     \* names of origins of other libraries
  Classes,    \* wrapper classes of Python
  Length,     \* Length[n]: the characters of name n
  MaxOps,     \* bound on the operations of one behaviour
  Initial     \* first size of the buffer for a name, 1024 in the code

Numpy == "numpy"
Torch == "torch"
Unregistered == "unregistered origin"
Names == Others \union {Numpy, Torch}
Nobody == "nobody"
None == 0         \* the number of "unregistered origin", and of an empty cache

(* No library gives its origin the name of arrays without one, and the     *)
(* buffer for a name is not empty.                                         *)
ASSUME NamesAssumption == Unregistered \notin Others
ASSUME ThreadsAssumption == Nobody \notin Threads
ASSUME InitialAssumption == Initial \in Nat \ {0}

VARIABLES
  registered_origins,   \* REGISTERED_DATA_ORIGIN
  mutex,                \* the thread that holds its lock
  STORAGE_ORIGIN,       \* _NUMPY_STORAGE_ORIGIN and _TORCH_STORAGE_ORIGIN
  ADDITIONAL_ORIGINS,   \* _ADDITIONAL_ORIGINS: the class of a number
  task,                 \* what each thread is doing
  given,                \* given[n]: the numbers that name n was given so far
  wrapped,              \* the classes registered so far, each with its name
  outcome,              \* the last array that was converted, and to what
  ops

vars == <<registered_origins, mutex, STORAGE_ORIGIN, ADDITIONAL_ORIGINS, task, given,
          wrapped, outcome, ops>>

Idle == [op |-> "idle", name |-> "", klass |-> "", todo |-> <<>>, at |-> "next",
         origin |-> None, bufflen |-> Initial]

Init ==
  /\ registered_origins = <<Unregistered>>
  /\ mutex = Nobody
  /\ STORAGE_ORIGIN = [n \in {Numpy, Torch} |-> None]
  /\ ADDITIONAL_ORIGINS = [i \in {} |-> ""]
  /\ task = [t \in Threads |-> Idle]
  /\ given = [n \in Names |-> {}]
  /\ wrapped = {}
  /\ outcome = [name |-> Numpy, result |-> "python"]
  /\ ops = 0

Start(t, op, name, klass, todo) ==
  /\ ops < MaxOps
  /\ task[t] = Idle
  /\ ops' = ops + 1
  /\ task' = [task EXCEPT ![t] = [Idle EXCEPT !.op = op, !.name = name, !.klass = klass, !.todo = todo]]
  /\ UNCHANGED <<registered_origins, mutex, STORAGE_ORIGIN, ADDITIONAL_ORIGINS, given, wrapped, outcome>>

(* A library registers the origin of its arrays.                           *)
Register(t) == \E n \in Others : Start(t, "register", n, "", <<n>>)

register_external_data_wrapper(t) ==
  \E n \in Others, klass \in Classes : Start(t, "wrap", n, klass, <<n>>)

(* An array of origin n is turned into a Python array. The callback of its *)
(* own origin looks up that of a Python array; then _is_python_origin      *)
(* looks up both origins of Python, whichever the array has.               *)
mts_array_to_python_array(t) ==
  \/ \E n \in {Numpy, Torch} : Start(t, "convert", n, "", <<n, Numpy, Torch>>)
  \/ \E n \in {m \in Others : given[m] # {}} : Start(t, "convert", n, "", <<Numpy, Torch>>)

At(t, at) == task[t] # Idle /\ task[t].at = at
Go(t, at) == task' = [task EXCEPT ![t].at = at]

(* _origin_numpy and _origin_pytorch when the number is known.             *)
Cached(t) ==
  /\ At(t, "next")
  /\ task[t].op = "convert"
  /\ task[t].todo # <<>>
  /\ STORAGE_ORIGIN[Head(task[t].todo)] # None
  /\ task' = [task EXCEPT ![t].todo = Tail(@)]
  /\ UNCHANGED <<registered_origins, mutex, STORAGE_ORIGIN, ADDITIONAL_ORIGINS, given, wrapped, outcome, ops>>

(* _register_origin: mts_register_data_origin is called.                   *)
_register_origin(t) ==
  /\ At(t, "next")
  /\ task[t].todo # <<>>
  /\ task[t].op = "convert" => STORAGE_ORIGIN[Head(task[t].todo)] = None
  /\ Go(t, "lock")
  /\ UNCHANGED <<registered_origins, mutex, STORAGE_ORIGIN, ADDITIONAL_ORIGINS, given, wrapped, outcome, ops>>

Lock_Unguarded(t) ==
  /\ At(t, "lock")
  /\ mutex' = t
  /\ Go(t, "search")
  /\ UNCHANGED <<registered_origins, STORAGE_ORIGIN, ADDITIONAL_ORIGINS, given, wrapped, outcome, ops>>

Lock(t) ==
  /\ At(t, "lock")
  /\ mutex = Nobody
  /\ mutex' = t
  /\ Go(t, "search")
  /\ UNCHANGED <<registered_origins, STORAGE_ORIGIN, ADDITIONAL_ORIGINS, given, wrapped, outcome, ops>>

Numbers == 0..Len(registered_origins) - 1
NameOf(i) == registered_origins[i + 1]
Wanted(t) == Head(task[t].todo)

(* register_data_origin, the loop: the number of an equal name.            *)
Found(t) ==
  /\ At(t, "search")
  /\ \E i \in Numbers :
       /\ NameOf(i) = Wanted(t)
       /\ \A j \in Numbers : NameOf(j) = Wanted(t) => i <= j
       /\ task' = [task EXCEPT ![t].at = "store", ![t].origin = i]
  /\ mutex' = Nobody
  /\ UNCHANGED <<registered_origins, STORAGE_ORIGIN, ADDITIONAL_ORIGINS, given, wrapped, outcome, ops>>

NotFound(t) ==
  /\ At(t, "search")
  /\ \A i \in Numbers : NameOf(i) # Wanted(t)
  /\ Go(t, "push")
  /\ UNCHANGED <<registered_origins, mutex, STORAGE_ORIGIN, ADDITIONAL_ORIGINS, given, wrapped, outcome, ops>>

Push(t) ==
  /\ At(t, "push")
  /\ registered_origins' = Append(registered_origins, Wanted(t))
  /\ task' = [task EXCEPT ![t].at = "store", ![t].origin = Len(registered_origins)]
  /\ mutex' = Nobody
  /\ UNCHANGED <<STORAGE_ORIGIN, ADDITIONAL_ORIGINS, given, wrapped, outcome, ops>>

(* The number is back in Python, which keeps it under the name, or keeps   *)
(* the class under it.                                                     *)
Store(t) ==
  /\ At(t, "store")
  /\ given' = [given EXCEPT ![Wanted(t)] = @ \union {task[t].origin}]
  /\ IF task[t].op = "convert"
     THEN STORAGE_ORIGIN' = [STORAGE_ORIGIN EXCEPT ![Wanted(t)] = task[t].origin]
     ELSE UNCHANGED STORAGE_ORIGIN
  /\ IF task[t].op = "wrap"
     THEN /\ ADDITIONAL_ORIGINS' =
               [i \in DOMAIN ADDITIONAL_ORIGINS \union {task[t].origin} |->
                  IF i = task[t].origin THEN task[t].klass ELSE ADDITIONAL_ORIGINS[i]]
          /\ wrapped' = wrapped \union {<<task[t].name, task[t].klass>>}
     ELSE UNCHANGED <<ADDITIONAL_ORIGINS, wrapped>>
  /\ task' = [task EXCEPT ![t].todo = Tail(@), ![t].at = "next"]
  /\ UNCHANGED <<registered_origins, mutex, outcome, ops>>

Finish(t) ==
  /\ At(t, "next")
  /\ task[t].op # "convert"
  /\ task[t].todo = <<>>
  /\ task' = [task EXCEPT ![t] = Idle]
  /\ UNCHANGED <<registered_origins, mutex, STORAGE_ORIGIN, ADDITIONAL_ORIGINS, given, wrapped, outcome, ops>>

(* data_origin: the number in the array, any that its library was given.   *)
data_origin(t) == given[task[t].name]

_is_python_origin(i) == i \in {STORAGE_ORIGIN[Numpy], STORAGE_ORIGIN[Torch]}

(* The end of mts_array_to_python_array: the Python array itself, or the   *)
(* class of its origin, or an error with the name of the origin.           *)
Convert(t) ==
  /\ At(t, "next")
  /\ task[t].op = "convert"
  /\ task[t].todo = <<>>
  /\ \E i \in data_origin(t) :
       IF _is_python_origin(i) \/ i \in DOMAIN ADDITIONAL_ORIGINS
       THEN /\ outcome' = [name |-> task[t].name,
                           result |-> IF _is_python_origin(i) THEN "python" ELSE ADDITIONAL_ORIGINS[i]]
            /\ task' = [task EXCEPT ![t] = Idle]
       ELSE /\ task' = [task EXCEPT ![t].at = "name", ![t].origin = i]
            /\ UNCHANGED outcome
  /\ UNCHANGED <<registered_origins, mutex, STORAGE_ORIGIN, ADDITIONAL_ORIGINS, given, wrapped, ops>>

get_data_origin(i) == IF i \in Numbers THEN NameOf(i) ELSE NameOf(0)

(* copy_str_to_c: the name and the NUL after it must fit.                  *)
copy_str_to_c_fits(name, bufflen) == Length[name] <= bufflen - 1

NextLength_Same(bufflen) == bufflen

NextLength(bufflen) == bufflen * 2

(* data_origin_name: a call of _call_with_growing_buffer, one try a step.  *)
data_origin_name(t) ==
  /\ At(t, "name")
  /\ mutex = Nobody
  /\ LET name == get_data_origin(task[t].origin)
     IN  IF copy_str_to_c_fits(name, task[t].bufflen)
         THEN /\ outcome' = [name |-> task[t].name, result |-> name]
              /\ task' = [task EXCEPT ![t] = Idle]
         ELSE /\ task' = [task EXCEPT ![t].bufflen = NextLength(@)]
              /\ UNCHANGED outcome
  /\ UNCHANGED <<registered_origins, mutex, STORAGE_ORIGIN, ADDITIONAL_ORIGINS, given, wrapped, ops>>

Step(t) == \/ Cached(t) \/ _register_origin(t) \/ Lock(t) \/ Found(t) \/ NotFound(t) \/ Push(t)
           \/ Store(t) \/ Finish(t) \/ Convert(t) \/ data_origin_name(t)

Done == /\ ops = MaxOps
        /\ \A t \in Threads : task[t] = Idle
        /\ UNCHANGED vars

Next == \/ Done
        \/ \E t \in Threads : \/ Register(t) \/ register_external_data_wrapper(t)
                              \/ mts_array_to_python_array(t) \/ Step(t)

(* A thread that is running goes on; nothing makes one start an operation. *)
Fairness == \A t \in Threads : WF_vars(Step(t))

Spec == Init /\ [][Next]_vars /\ Fairness

(* The types; a number that Python keeps is that of a name.                *)
TypeOK ==
  /\ \A i \in Numbers : NameOf(i) \in Names \union {Unregistered}
  /\ \A n \in {Numpy, Torch} : STORAGE_ORIGIN[n] \in Numbers
  /\ DOMAIN ADDITIONAL_ORIGINS \subseteq Numbers
  /\ mutex \in Threads \union {Nobody}

(* "Calling this function multiple times with the same name will give the  *)
(* same mts_data_origin_t", in whichever threads; different names have     *)
(* different numbers, none of them that of the unregistered origin, and    *)
(* the name of a number can be read back for ever.                         *)
NumbersAreNames ==
  \A n \in Names : \A i \in given[n] : i # None /\ given[n] = {i} /\ get_data_origin(i) = n

(* An array becomes a Python array when it comes from numpy or torch, also *)
(* when other threads are filling the global variables, and otherwise one  *)
(* of a class that was registered for the name of its origin, or an error  *)
(* that gives this name.                                                   *)
ConversionIsRight ==
  IF outcome.name \in {Numpy, Torch}
  THEN outcome.result = "python"
  ELSE outcome.result = outcome.name \/ <<outcome.name, outcome.result>> \in wrapped

(* A name has one number for all threads, and an array becomes the array   *)
(* of the class that is registered for its origin (data.rs, array.py,      *)
(* extract.py).                                                            *)
OriginsAgree == TypeOK /\ NumbersAreNames /\ ConversionIsRight

(* Every operation comes to its end: the lock is always given back and the *)
(* buffer for a name ends up large enough.                                 *)
OperationsEnd == \A t \in Threads : task[t] # Idle ~> task[t] = Idle
=============================================================================
