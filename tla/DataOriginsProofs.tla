------------------------- MODULE DataOriginsProofs --------------------------
(***************************************************************************)
(* OriginsAgree holds for any number of threads, names and classes. The    *)
(* registry only grows, and no name is in it twice because the lock is     *)
(* held from the search to the push; so that "i is the number of n" is     *)
(* never undone, and everything that keeps a number keeps the right one.   *)
(***************************************************************************)
EXTENDS DataOrigins, SequenceTheorems, TLAPS

PythonNames == {Numpy, Torch}

Tasks == [op : {"idle", "register", "wrap", "convert"}, name : Names \union {""}, klass : Classes \union {""},
          todo : Seq(Names), at : {"next", "lock", "search", "push", "store", "name"},
          origin : Nat, bufflen : Nat]

(* In the registry R, i is the number of n.                                *)
Number(R, n, i) == i \in 1..Len(R) - 1 /\ R[i + 1] = n

IsRegistry(R) ==
    /\ R \in Seq(Names \union {Unregistered})
    /\ Len(R) >= 1 /\ R[1] = Unregistered
    /\ \A i, j \in 1..Len(R) : R[i] = R[j] => i = j

(* What a thread knows at each place, with the numbers S that are cached.  *)
TaskOK(c, R, S) ==
    /\ c.at \in {"lock", "search", "push", "store"} => c.todo # <<>>
    /\ c.at = "push" => \A i \in 1..Len(R) : R[i] # Head(c.todo)
    /\ c.at = "store" => Number(R, Head(c.todo), c.origin)
    /\ c.at = "name" => Number(R, c.name, c.origin) /\ c.name \notin PythonNames
    /\ c.op = "convert" =>
          /\ c.name \in Names /\ \A k \in 1..Len(c.todo) : c.todo[k] \in PythonNames
          /\ \A n \in PythonNames : S[n] # None \/ \E k \in 1..Len(c.todo) : c.todo[k] = n
    /\ c.op = "wrap" => c.name \in Others /\ \A k \in 1..Len(c.todo) : c.todo[k] = c.name

RegistryInv == IsRegistry(registered_origins)
TasksInv == \A t \in Threads : TaskOK(task[t], registered_origins, STORAGE_ORIGIN)
MutexInv ==
    /\ mutex \in Threads \union {Nobody}
    /\ \A t \in Threads : task[t].at \in {"search", "push"} => mutex = t
StorageInv ==
    /\ STORAGE_ORIGIN \in [PythonNames -> Nat]
    /\ \A n \in PythonNames : STORAGE_ORIGIN[n] # None => Number(registered_origins, n, STORAGE_ORIGIN[n])
GivenInv ==
    /\ given \in [Names -> SUBSET Nat]
    /\ \A n \in Names : \A i \in given[n] : Number(registered_origins, n, i)
WrappedInv ==
    \A i \in DOMAIN ADDITIONAL_ORIGINS :
       \E n \in Others : Number(registered_origins, n, i) /\ <<n, ADDITIONAL_ORIGINS[i]>> \in wrapped

(* The inductive invariant.                                                *)
OriginsInv ==
    /\ RegistryInv /\ task \in [Threads -> Tasks] /\ TasksInv /\ MutexInv
    /\ StorageInv /\ GivenInv /\ WrappedInv /\ ConversionIsRight

-----------------------------------------------------------------------------
(* A name has one number.                                                  *)
LEMMA OneNumber ==
  ASSUME NEW R, IsRegistry(R), NEW n, NEW i, NEW j, Number(R, n, i), Number(R, n, j)
  PROVE  i = j
<1>1. Len(R) \in Nat
  BY LenProperties DEF IsRegistry
<1>2. i + 1 \in 1..Len(R) /\ j + 1 \in 1..Len(R) /\ R[i + 1] = R[j + 1]
  BY <1>1 DEF Number
<1>3. i + 1 = j + 1
  BY <1>2 DEF IsRegistry
<1> QED
  BY <1>1, <1>3 DEF Number

(* A name that is not in the registry is pushed: it gets the next number,  *)
(* and all the others keep theirs.                                         *)
LEMMA PushKeepsRegistry ==
  ASSUME NEW R, IsRegistry(R), NEW n \in Names, \A i \in 1..Len(R) : R[i] # n
  PROVE  /\ IsRegistry(Append(R, n))
         /\ Number(Append(R, n), n, Len(R))
         /\ \A m, i : Number(R, m, i) => Number(Append(R, n), m, i)
<1> DEFINE S == Append(R, n)
<1>1. R \in Seq(Names \union {Unregistered}) /\ Len(R) \in Nat /\ Len(R) >= 1
  BY LenProperties DEF IsRegistry
<1>2. /\ S \in Seq(Names \union {Unregistered}) /\ Len(S) = Len(R) + 1 /\ S[Len(R) + 1] = n
      /\ \A i \in 1..Len(R) : S[i] = R[i]
  BY <1>1, AppendProperties
<1> HIDE DEF S
<1>3. S[1] = Unregistered
  BY <1>1, <1>2 DEF IsRegistry
<1>4. ASSUME NEW i \in 1..Len(S), NEW j \in 1..Len(S), S[i] = S[j] PROVE i = j
  <2>1. CASE i \in 1..Len(R) /\ j \in 1..Len(R)
    BY <1>2, <1>4, <2>1 DEF IsRegistry
  <2>2. CASE i \in 1..Len(R) /\ j \notin 1..Len(R)
    <3>1. j = Len(R) + 1
      BY <1>1, <1>2, <2>2
    <3> QED
      BY <1>2, <1>4, <2>2, <3>1
  <2>3. CASE i \notin 1..Len(R) /\ j \in 1..Len(R)
    <3>1. i = Len(R) + 1
      BY <1>1, <1>2, <2>3
    <3> QED
      BY <1>2, <1>4, <2>3, <3>1
  <2>4. CASE i \notin 1..Len(R) /\ j \notin 1..Len(R)
    BY <1>1, <1>2, <2>4
  <2> QED
    BY <2>1, <2>2, <2>3, <2>4
<1>5. IsRegistry(S)
  BY <1>1, <1>2, <1>3, <1>4 DEF IsRegistry
<1>6. Number(S, n, Len(R))
  BY <1>1, <1>2 DEF Number
<1>7. ASSUME NEW m, NEW i, Number(R, m, i) PROVE Number(S, m, i)
  <2>1. i + 1 \in 1..Len(R) /\ R[i + 1] = m /\ i \in 1..Len(R)
    BY <1>1, <1>7 DEF Number
  <2> QED
    BY <1>1, <1>2, <2>1 DEF Number
<1> QED
  BY <1>5, <1>6, <1>7 DEF S

(* What is left of todo after its first name was dealt with.               *)
LEMMA TailOfTodo ==
  ASSUME NEW todo \in Seq(Names), todo # <<>>
  PROVE  /\ Head(todo) \in Names /\ Head(todo) = todo[1] /\ 1 \in 1..Len(todo) /\ Tail(todo) \in Seq(Names)
         /\ \A k \in 1..Len(Tail(todo)) : k + 1 \in 1..Len(todo) /\ Tail(todo)[k] = todo[k + 1]
         /\ \A k \in 1..Len(todo) : k = 1 \/ (k - 1 \in 1..Len(Tail(todo)) /\ Tail(todo)[k - 1] = todo[k])
<1>1. Len(todo) \in Nat /\ Len(todo) # 0
  BY EmptySeq, LenProperties
<1>2. /\ Head(todo) \in Names /\ Tail(todo) \in Seq(Names) /\ Len(Tail(todo)) = Len(todo) - 1
      /\ \A i \in 1..Len(Tail(todo)) : Tail(todo)[i] = todo[i + 1]
  BY HeadTailProperties
<1>3. Head(todo) = todo[1]
  OBVIOUS
<1>4. \A k \in 1..Len(Tail(todo)) : k + 1 \in 1..Len(todo)
  BY <1>1, <1>2
<1>5. ASSUME NEW k \in 1..Len(todo), k # 1
      PROVE  k - 1 \in 1..Len(Tail(todo)) /\ Tail(todo)[k - 1] = todo[k]
  <2>1. k - 1 \in 1..Len(Tail(todo)) /\ (k - 1) + 1 = k
    BY <1>1, <1>2, <1>5
  <2> QED
    BY <1>2, <2>1
<1> QED
  BY <1>1, <1>2, <1>3, <1>4, <1>5

LEMMA IdleIsTyped ==
  /\ Idle \in Tasks /\ Idle.op = "idle" /\ Idle.name = "" /\ Idle.klass = "" /\ Idle.todo = <<>>
  /\ Idle.at = "next" /\ Idle.origin = 0 /\ Idle.bufflen = Initial
  BY InitialAssumption, EmptySeq DEF Idle, Tasks, None

LEMMA IdleIsOK == ASSUME NEW R, NEW S PROVE TaskOK(Idle, R, S)
  BY IdleIsTyped DEF TaskOK

(* A thread goes on with c. The registry is the same, or this thread holds *)
(* the lock; a number that is cached stays so.                             *)
LEMMA TaskGoesOn ==
  ASSUME OriginsInv, NEW t \in Threads, NEW c \in Tasks, task' = [task EXCEPT ![t] = c],
         TaskOK(c, registered_origins', STORAGE_ORIGIN'),
         \/ registered_origins' = registered_origins
         \/ /\ mutex = t
            /\ \A n, i : Number(registered_origins, n, i) => Number(registered_origins', n, i),
         \A n \in PythonNames : STORAGE_ORIGIN[n] # None => STORAGE_ORIGIN'[n] # None
  PROVE  /\ task' \in [Threads -> Tasks] /\ task'[t] = c /\ \A u \in Threads \ {t} : task'[u] = task[u]
         /\ TasksInv'
<1>1. task' \in [Threads -> Tasks] /\ task'[t] = c /\ \A u \in Threads \ {t} : task'[u] = task[u]
  BY DEF OriginsInv
<1>2. ASSUME NEW u \in Threads \ {t} PROVE TaskOK(task[u], registered_origins', STORAGE_ORIGIN')
  <2>1. TaskOK(task[u], registered_origins, STORAGE_ORIGIN)
    BY DEF OriginsInv, TasksInv
  <2>2. CASE registered_origins' = registered_origins
    BY <2>1, <2>2 DEF TaskOK
  <2>3. CASE /\ mutex = t
             /\ \A n, i : Number(registered_origins, n, i) => Number(registered_origins', n, i)
    <3>1. task[u].at # "push"
      BY <2>3 DEF OriginsInv, MutexInv
    <3> QED
      BY <2>1, <2>3, <3>1 DEF TaskOK
  <2> QED
    BY <2>2, <2>3
<1>3. TasksInv'
  BY <1>1, <1>2 DEF TasksInv, TaskOK, Number
<1> QED
  BY <1>1, <1>3

(* An action that changes only the task of a thread, and neither takes nor *)
(* needs the lock.                                                         *)
LEMMA OnlyTheTask ==
  ASSUME OriginsInv, NEW t \in Threads, NEW c \in Tasks, task' = [task EXCEPT ![t] = c],
         TaskOK(c, registered_origins, STORAGE_ORIGIN),
         c.at \in {"search", "push"} => mutex = t,
         UNCHANGED <<registered_origins, mutex, STORAGE_ORIGIN, ADDITIONAL_ORIGINS, given, wrapped>>,
         ConversionIsRight'
  PROVE  OriginsInv'
<1>1. /\ task' \in [Threads -> Tasks] /\ task'[t] = c /\ \A u \in Threads \ {t} : task'[u] = task[u]
      /\ TasksInv'
  BY TaskGoesOn
<1>2. MutexInv'
  BY <1>1 DEF OriginsInv, MutexInv
<1>3. RegistryInv' /\ StorageInv' /\ GivenInv' /\ WrappedInv'
  BY DEF OriginsInv, RegistryInv, StorageInv, GivenInv, WrappedInv, IsRegistry, Number
<1> QED
  BY <1>1, <1>2, <1>3 DEF OriginsInv

LEMMA OutcomeStays ==
  ASSUME OriginsInv, UNCHANGED <<outcome, wrapped>>
  PROVE  ConversionIsRight'
  BY DEF OriginsInv, ConversionIsRight

LEMMA OriginsInitInv == Init => OriginsInv
<1> SUFFICES ASSUME Init PROVE OriginsInv
  OBVIOUS
<1>1. RegistryInv
  BY DEF Init, RegistryInv, IsRegistry
<1>2. task \in [Threads -> Tasks] /\ TasksInv
  BY IdleIsTyped, IdleIsOK DEF Init, TasksInv
<1>3. MutexInv
  BY IdleIsTyped DEF Init, MutexInv
<1>4. StorageInv /\ GivenInv /\ WrappedInv
  BY DEF Init, StorageInv, GivenInv, WrappedInv, PythonNames, None
<1>5. ConversionIsRight
  BY DEF Init, ConversionIsRight
<1> QED
  BY <1>1, <1>2, <1>3, <1>4, <1>5 DEF OriginsInv

(* An operation starts.                                                    *)
LEMMA StartKeepsInv ==
  ASSUME OriginsInv, NEW t \in Threads, NEW op \in {"register", "wrap", "convert"}, NEW name \in Names,
         NEW klass \in Classes \union {""}, NEW todo \in Seq(Names), Start(t, op, name, klass, todo),
         op = "wrap" => name \in Others /\ \A k \in 1..Len(todo) : todo[k] = name,
         op = "convert" =>
            /\ \A k \in 1..Len(todo) : todo[k] \in PythonNames
            /\ \A n \in PythonNames : \E k \in 1..Len(todo) : todo[k] = n
  PROVE  OriginsInv'
<1> DEFINE c == [Idle EXCEPT !.op = op, !.name = name, !.klass = klass, !.todo = todo]
<1>1. c \in Tasks /\ c.op = op /\ c.name = name /\ c.klass = klass /\ c.todo = todo /\ c.at = "next"
  BY IdleIsTyped DEF Tasks
<1>2. /\ task' = [task EXCEPT ![t] = c]
      /\ UNCHANGED <<registered_origins, mutex, STORAGE_ORIGIN, ADDITIONAL_ORIGINS, given, wrapped, outcome>>
  BY DEF Start
<1> HIDE DEF c
<1>3. TaskOK(c, registered_origins, STORAGE_ORIGIN)
  BY <1>1 DEF TaskOK
<1>4. ConversionIsRight'
  BY <1>2, OutcomeStays
<1> QED
  BY <1>1, <1>2, <1>3, <1>4, OnlyTheTask

LEMMA StartsKeepInv ==
  ASSUME OriginsInv, NEW t \in Threads,
         Register(t) \/ register_external_data_wrapper(t) \/ mts_array_to_python_array(t)
  PROVE  OriginsInv'
<1>1. CASE Register(t)
  <2>1. PICK n \in Others : Start(t, "register", n, "", <<n>>)
    BY <1>1 DEF Register
  <2>2. n \in Names /\ <<n>> \in Seq(Names)
    BY DEF Names
  <2> QED
    BY <2>1, <2>2, StartKeepsInv
<1>2. CASE register_external_data_wrapper(t)
  <2>1. PICK n \in Others, klass \in Classes : Start(t, "wrap", n, klass, <<n>>)
    BY <1>2 DEF register_external_data_wrapper
  <2>2. n \in Names /\ <<n>> \in Seq(Names) /\ \A k \in 1..Len(<<n>>) : <<n>>[k] = n
    BY DEF Names
  <2> QED
    BY <2>1, <2>2, StartKeepsInv
<1>3. ASSUME NEW n \in PythonNames, Start(t, "convert", n, "", <<n, Numpy, Torch>>) PROVE OriginsInv'
  <2> DEFINE todo == <<n, Numpy, Torch>>
  <2>1. n \in Names /\ todo \in Seq(Names)
    BY DEF Names, PythonNames
  <2>2. \A k \in 1..Len(todo) : todo[k] \in PythonNames
    BY DEF PythonNames
  <2>3. 2 \in 1..Len(todo) /\ 3 \in 1..Len(todo) /\ todo[2] = Numpy /\ todo[3] = Torch
    OBVIOUS
  <2> HIDE DEF todo
  <2>4. \A m \in PythonNames : \E k \in 1..Len(todo) : todo[k] = m
    BY <2>3 DEF PythonNames
  <2> QED
    BY <1>3, <2>1, <2>2, <2>4, StartKeepsInv DEF todo
<1>4. ASSUME NEW n \in Others, Start(t, "convert", n, "", <<Numpy, Torch>>) PROVE OriginsInv'
  <2> DEFINE todo == <<Numpy, Torch>>
  <2>1. n \in Names /\ todo \in Seq(Names)
    BY DEF Names
  <2>2. \A k \in 1..Len(todo) : todo[k] \in PythonNames
    BY DEF PythonNames
  <2>3. 1 \in 1..Len(todo) /\ 2 \in 1..Len(todo) /\ todo[1] = Numpy /\ todo[2] = Torch
    OBVIOUS
  <2> HIDE DEF todo
  <2>4. \A m \in PythonNames : \E k \in 1..Len(todo) : todo[k] = m
    BY <2>3 DEF PythonNames
  <2> QED
    BY <1>4, <2>1, <2>2, <2>4, StartKeepsInv DEF todo
<1> QED
  BY <1>1, <1>2, <1>3, <1>4 DEF mts_array_to_python_array, PythonNames

(* What the invariant says of one thread.                                  *)
LEMMA InvOfTask ==
  ASSUME OriginsInv, NEW t \in Threads
  PROVE  /\ task[t] \in Tasks /\ task[t].todo \in Seq(Names) /\ task[t].origin \in Nat /\ task[t].bufflen \in Nat
         /\ TaskOK(task[t], registered_origins, STORAGE_ORIGIN)
  BY DEF OriginsInv, TasksInv, Tasks

LEMMA CachedKeepsInv == ASSUME OriginsInv, NEW t \in Threads, Cached(t) PROVE OriginsInv'
<1> DEFINE c == [task[t] EXCEPT !.todo = Tail(task[t].todo)]
           todo == task[t].todo
<1>0. task[t] \in Tasks /\ todo \in Seq(Names) /\ TaskOK(task[t], registered_origins, STORAGE_ORIGIN)
  BY InvOfTask
<1>1. todo # <<>> /\ task[t].op = "convert" /\ task[t].at = "next" /\ STORAGE_ORIGIN[Head(todo)] # None
  BY DEF Cached, At
<1>2. /\ Head(todo) \in Names /\ Head(todo) = todo[1] /\ 1 \in 1..Len(todo) /\ Tail(todo) \in Seq(Names)
      /\ \A k \in 1..Len(Tail(todo)) : k + 1 \in 1..Len(todo) /\ Tail(todo)[k] = todo[k + 1]
      /\ \A k \in 1..Len(todo) : k = 1 \/ (k - 1 \in 1..Len(Tail(todo)) /\ Tail(todo)[k - 1] = todo[k])
  BY <1>0, <1>1, TailOfTodo
<1>3. c \in Tasks /\ c.todo = Tail(todo) /\ c.at = "next" /\ c.op = "convert" /\ c.name = task[t].name
  BY <1>0, <1>1, <1>2 DEF Tasks
<1>4. task' = [task EXCEPT ![t] = c] /\ UNCHANGED <<registered_origins, mutex, STORAGE_ORIGIN, ADDITIONAL_ORIGINS, given, wrapped, outcome>>
  BY DEF Cached
<1>5. /\ task[t].name \in Names /\ \A k \in 1..Len(todo) : todo[k] \in PythonNames
      /\ \A n \in PythonNames : STORAGE_ORIGIN[n] # None \/ \E k \in 1..Len(todo) : todo[k] = n
  BY <1>0, <1>1 DEF TaskOK
<1> HIDE DEF c, todo
<1>6. ASSUME NEW n \in PythonNames, STORAGE_ORIGIN[n] = None
      PROVE  \E k \in 1..Len(Tail(todo)) : Tail(todo)[k] = n
  <2>1. PICK k \in 1..Len(todo) : todo[k] = n
    BY <1>5, <1>6
  <2>2. k # 1
    BY <1>1, <1>2, <1>6, <2>1
  <2> QED
    BY <1>2, <2>1, <2>2
<1>7. TaskOK(c, registered_origins, STORAGE_ORIGIN)
  BY <1>2, <1>3, <1>5, <1>6 DEF TaskOK
<1>8. ConversionIsRight'
  BY <1>4, OutcomeStays
<1> QED
  BY <1>3, <1>4, <1>7, <1>8, OnlyTheTask

(* Steps that only go to another place.                                    *)
LEMMA GoKeepsInv ==
  ASSUME OriginsInv, NEW t \in Threads, _register_origin(t) \/ NotFound(t)
  PROVE  OriginsInv'
<1>0. task[t] \in Tasks /\ TaskOK(task[t], registered_origins, STORAGE_ORIGIN)
  BY InvOfTask
<1>u. UNCHANGED <<registered_origins, mutex, STORAGE_ORIGIN, ADDITIONAL_ORIGINS, given, wrapped, outcome>>
  BY DEF _register_origin, NotFound
<1>r. ConversionIsRight'
  BY <1>u, OutcomeStays
<1>1. CASE _register_origin(t)
  <2> DEFINE c == [task[t] EXCEPT !.at = "lock"]
  <2>1. task' = [task EXCEPT ![t] = c] /\ task[t].todo # <<>>
    BY <1>1 DEF _register_origin, Go
  <2>2. c \in Tasks /\ c.at = "lock" /\ c.todo = task[t].todo /\ c.op = task[t].op /\ c.name = task[t].name
    BY <1>0 DEF Tasks
  <2> HIDE DEF c
  <2>3. TaskOK(c, registered_origins, STORAGE_ORIGIN)
    BY <1>0, <2>1, <2>2 DEF TaskOK
  <2> QED
    BY <1>u, <1>r, <2>1, <2>2, <2>3, OnlyTheTask
<1>2. CASE NotFound(t)
  <2> DEFINE c == [task[t] EXCEPT !.at = "push"]
  <2>1. task' = [task EXCEPT ![t] = c] /\ task[t].at = "search" /\ \A i \in Numbers : NameOf(i) # Wanted(t)
    BY <1>2 DEF NotFound, Go, At
  <2>2. c \in Tasks /\ c.at = "push" /\ c.todo = task[t].todo /\ c.op = task[t].op /\ c.name = task[t].name
    BY <1>0 DEF Tasks
  <2> HIDE DEF c
  <2>3. \A i \in 1..Len(registered_origins) : registered_origins[i] # Head(c.todo)
    <3>1. Len(registered_origins) \in Nat
      BY LenProperties DEF OriginsInv, RegistryInv, IsRegistry
    <3>2. ASSUME NEW i \in 1..Len(registered_origins) PROVE registered_origins[i] # Head(c.todo)
      <4>1. i - 1 \in Numbers /\ (i - 1) + 1 = i
        BY <3>1 DEF Numbers
      <4> QED
        BY <2>1, <2>2, <4>1 DEF NameOf, Wanted
    <3> QED
      BY <3>2
  <2>4. TaskOK(c, registered_origins, STORAGE_ORIGIN)
    BY <1>0, <2>1, <2>2, <2>3 DEF TaskOK
  <2>5. mutex = t
    BY <2>1 DEF OriginsInv, MutexInv
  <2> QED
    BY <1>u, <1>r, <2>1, <2>2, <2>4, <2>5, OnlyTheTask
<1> QED
  BY <1>1, <1>2

LEMMA LockKeepsInv == ASSUME OriginsInv, NEW t \in Threads, Lock(t) PROVE OriginsInv'
<1> DEFINE c == [task[t] EXCEPT !.at = "search"]
<1>0. task[t] \in Tasks /\ TaskOK(task[t], registered_origins, STORAGE_ORIGIN)
  BY InvOfTask
<1>1. /\ task' = [task EXCEPT ![t] = c] /\ task[t].at = "lock" /\ mutex = Nobody /\ mutex' = t
      /\ UNCHANGED <<registered_origins, STORAGE_ORIGIN, ADDITIONAL_ORIGINS, given, wrapped, outcome>>
  BY DEF Lock, Go, At
<1>2. c \in Tasks /\ c.at = "search" /\ c.todo = task[t].todo /\ c.op = task[t].op /\ c.name = task[t].name
  BY <1>0 DEF Tasks
<1> HIDE DEF c
<1>3. TaskOK(c, registered_origins', STORAGE_ORIGIN')
  BY <1>0, <1>1, <1>2 DEF TaskOK
<1>4. /\ task' \in [Threads -> Tasks] /\ task'[t] = c /\ \A u \in Threads \ {t} : task'[u] = task[u]
      /\ TasksInv'
  BY <1>1, <1>2, <1>3, TaskGoesOn
<1>5. MutexInv'
  BY <1>1, <1>4, ThreadsAssumption DEF OriginsInv, MutexInv
<1>6. RegistryInv' /\ StorageInv' /\ GivenInv' /\ WrappedInv'
  BY <1>1 DEF OriginsInv, RegistryInv, StorageInv, GivenInv, WrappedInv, IsRegistry, Number
<1>7. ConversionIsRight'
  BY <1>1, OutcomeStays
<1> QED
  BY <1>4, <1>5, <1>6, <1>7 DEF OriginsInv

(* Found gives the lock back, with the number of a name.                   *)
LEMMA FoundKeepsInv == ASSUME OriginsInv, NEW t \in Threads, Found(t) PROVE OriginsInv'
<1>0. task[t] \in Tasks /\ task[t].todo \in Seq(Names) /\ TaskOK(task[t], registered_origins, STORAGE_ORIGIN)
  BY InvOfTask
<1>1. PICK i \in Numbers : NameOf(i) = Wanted(t) /\ task' = [task EXCEPT ![t].at = "store", ![t].origin = i]
  BY DEF Found
<1> DEFINE c == [task[t] EXCEPT !.at = "store", !.origin = i]
<1>2. /\ task[t].at = "search" /\ mutex = t /\ mutex' = Nobody
      /\ UNCHANGED <<registered_origins, STORAGE_ORIGIN, ADDITIONAL_ORIGINS, given, wrapped, outcome>>
  BY DEF Found, At, OriginsInv, MutexInv
<1>3. task[t].todo # <<>>
  BY <1>0, <1>2 DEF TaskOK
<1>4. Len(registered_origins) \in Nat /\ registered_origins[1] = Unregistered
  BY LenProperties DEF OriginsInv, RegistryInv, IsRegistry
<1>5. Head(task[t].todo) \in Names
  BY <1>0, <1>3, TailOfTodo
<1>6. Unregistered \notin Names
  BY NamesAssumption DEF Names, Unregistered, Numpy, Torch
<1>7. i \in Nat /\ i # 0 /\ Number(registered_origins, Head(task[t].todo), i)
  BY <1>1, <1>4, <1>5, <1>6 DEF Numbers, NameOf, Wanted, Number
<1>8. c \in Tasks /\ c.at = "store" /\ c.origin = i /\ c.todo = task[t].todo /\ c.op = task[t].op /\ c.name = task[t].name
  BY <1>0, <1>7 DEF Tasks
<1>9. task' = [task EXCEPT ![t] = c]
  BY <1>1 DEF OriginsInv
<1> HIDE DEF c
<1>10. TaskOK(c, registered_origins', STORAGE_ORIGIN')
  BY <1>0, <1>2, <1>3, <1>7, <1>8 DEF TaskOK
<1>11. /\ task' \in [Threads -> Tasks] /\ task'[t] = c /\ \A u \in Threads \ {t} : task'[u] = task[u]
       /\ TasksInv'
  BY <1>2, <1>8, <1>9, <1>10, TaskGoesOn
<1>12. MutexInv'
  BY <1>2, <1>8, <1>11 DEF OriginsInv, MutexInv
<1>13. RegistryInv' /\ StorageInv' /\ GivenInv' /\ WrappedInv'
  BY <1>2 DEF OriginsInv, RegistryInv, StorageInv, GivenInv, WrappedInv, IsRegistry, Number
<1>14. ConversionIsRight'
  BY <1>2, OutcomeStays
<1> QED
  BY <1>11, <1>12, <1>13, <1>14 DEF OriginsInv

(* Push gives the lock back, with the number of a name that is new.        *)
LEMMA PushKeepsInv == ASSUME OriginsInv, NEW t \in Threads, Push(t) PROVE OriginsInv'
<1> DEFINE R == registered_origins
           n == Head(task[t].todo)
           c == [task[t] EXCEPT !.at = "store", !.origin = Len(R)]
<1>0. task[t] \in Tasks /\ task[t].todo \in Seq(Names) /\ TaskOK(task[t], R, STORAGE_ORIGIN)
  BY InvOfTask
<1>1. /\ R' = Append(R, n) /\ task' = [task EXCEPT ![t].at = "store", ![t].origin = Len(R)]
      /\ task[t].at = "push" /\ mutex = t /\ mutex' = Nobody
      /\ UNCHANGED <<STORAGE_ORIGIN, ADDITIONAL_ORIGINS, given, wrapped, outcome>>
  BY DEF Push, At, Wanted, OriginsInv, MutexInv
<1>2. IsRegistry(R) /\ Len(R) \in Nat
  BY LenProperties DEF OriginsInv, RegistryInv, IsRegistry
<1>3. task[t].todo # <<>> /\ \A i \in 1..Len(R) : R[i] # n
  BY <1>0, <1>1 DEF TaskOK
<1>4. n \in Names
  BY <1>0, <1>3, TailOfTodo
<1>5. c \in Tasks /\ c.at = "store" /\ c.origin = Len(R) /\ c.todo = task[t].todo /\ c.op = task[t].op /\ c.name = task[t].name
  BY <1>0, <1>2 DEF Tasks
<1>6. task' = [task EXCEPT ![t] = c]
  BY <1>1 DEF OriginsInv
<1> HIDE DEF n, c
<1>7. IsRegistry(R') /\ Number(R', n, Len(R)) /\ \A m, i : Number(R, m, i) => Number(R', m, i)
  BY <1>1, <1>2, <1>3, <1>4, PushKeepsRegistry
<1>8. TaskOK(c, R', STORAGE_ORIGIN')
  BY <1>0, <1>1, <1>3, <1>5, <1>7 DEF TaskOK, n
<1>9. /\ task' \in [Threads -> Tasks] /\ task'[t] = c /\ \A u \in Threads \ {t} : task'[u] = task[u]
      /\ TasksInv'
  BY <1>1, <1>5, <1>6, <1>7, <1>8, TaskGoesOn
<1>10. MutexInv'
  BY <1>1, <1>5, <1>9 DEF OriginsInv, MutexInv
<1>11. RegistryInv'
  BY <1>7 DEF RegistryInv, IsRegistry
<1>12. StorageInv' /\ GivenInv'
  <2>1. \A m \in PythonNames : STORAGE_ORIGIN[m] # None => Number(R', m, STORAGE_ORIGIN[m])
    BY <1>7 DEF OriginsInv, StorageInv
  <2>2. \A m \in Names : \A i \in given[m] : Number(R', m, i)
    BY <1>7 DEF OriginsInv, GivenInv
  <2> QED
    BY <1>1, <2>1, <2>2 DEF OriginsInv, StorageInv, GivenInv, Number
<1>13. WrappedInv'
  <2>1. \A i \in DOMAIN ADDITIONAL_ORIGINS : \E m \in Others : Number(R', m, i) /\ <<m, ADDITIONAL_ORIGINS[i]>> \in wrapped
    BY <1>7 DEF OriginsInv, WrappedInv
  <2> QED
    BY <1>1, <2>1 DEF WrappedInv, Number
<1>14. ConversionIsRight'
  BY <1>1, OutcomeStays
<1> QED
  BY <1>9, <1>10, <1>11, <1>12, <1>13, <1>14 DEF OriginsInv

(* Store keeps a number under its name, or a class under a number.         *)
LEMMA StoreKeepsInv == ASSUME OriginsInv, NEW t \in Threads, Store(t) PROVE OriginsInv'
<1> DEFINE todo == task[t].todo
           n == Head(todo)
           o == task[t].origin
           c == [task[t] EXCEPT !.todo = Tail(todo), !.at = "next"]
<1>0. /\ task[t] \in Tasks /\ todo \in Seq(Names) /\ o \in Nat
      /\ TaskOK(task[t], registered_origins, STORAGE_ORIGIN)
  BY InvOfTask
<1>1. /\ task[t].at = "store" /\ given' = [given EXCEPT ![n] = @ \union {o}]
      /\ UNCHANGED <<registered_origins, mutex, outcome>>
      /\ task' = [task EXCEPT ![t].todo = Tail(@), ![t].at = "next"]
  BY DEF Store, At, Wanted
<1>2. todo # <<>> /\ Number(registered_origins, n, o)
  BY <1>0, <1>1 DEF TaskOK
<1>3. /\ n \in Names /\ n = todo[1] /\ 1 \in 1..Len(todo) /\ Tail(todo) \in Seq(Names)
      /\ \A k \in 1..Len(Tail(todo)) : k + 1 \in 1..Len(todo) /\ Tail(todo)[k] = todo[k + 1]
      /\ \A k \in 1..Len(todo) : k = 1 \/ (k - 1 \in 1..Len(Tail(todo)) /\ Tail(todo)[k - 1] = todo[k])
  BY <1>0, <1>2, TailOfTodo
<1>4. /\ c \in Tasks /\ c.todo = Tail(todo) /\ c.at = "next" /\ c.op = task[t].op /\ c.name = task[t].name
  BY <1>0, <1>3 DEF Tasks
<1>5. task' = [task EXCEPT ![t] = c]
  BY <1>1 DEF OriginsInv
<1>6. o # 0
  <2>1. Len(registered_origins) \in Nat
    BY LenProperties DEF OriginsInv, RegistryInv, IsRegistry
  <2> QED
    BY <1>2, <2>1 DEF Number
(* What is cached.                                                         *)
<1>7. task[t].op = "convert" => n \in PythonNames /\ STORAGE_ORIGIN' = [STORAGE_ORIGIN EXCEPT ![n] = o]
  BY <1>0, <1>3 DEF TaskOK, Store, Wanted
<1>8. task[t].op # "convert" => STORAGE_ORIGIN' = STORAGE_ORIGIN
  BY DEF Store
<1>9. STORAGE_ORIGIN \in [PythonNames -> Nat]
  BY DEF OriginsInv, StorageInv
<1> HIDE DEF c, n, o, todo
<1>10. /\ STORAGE_ORIGIN' \in [PythonNames -> Nat]
       /\ \A m \in PythonNames : STORAGE_ORIGIN'[m] = STORAGE_ORIGIN[m] \/ (m = n /\ STORAGE_ORIGIN'[m] = o)
       /\ task[t].op = "convert" => STORAGE_ORIGIN'[n] = o
  BY <1>0, <1>7, <1>8, <1>9
<1>11. \A m \in PythonNames : STORAGE_ORIGIN[m] # None => STORAGE_ORIGIN'[m] # None
  BY <1>6, <1>10 DEF None
<1>12. StorageInv'
  <2>1. \A m \in PythonNames : STORAGE_ORIGIN'[m] # None => Number(registered_origins, m, STORAGE_ORIGIN'[m])
    BY <1>2, <1>10 DEF OriginsInv, StorageInv
  <2> QED
    BY <1>1, <1>10, <2>1 DEF StorageInv, Number
(* What was given.                                                         *)
<1>13. GivenInv'
  <2>1. given \in [Names -> SUBSET Nat] /\ \A m \in Names : \A i \in given[m] : Number(registered_origins, m, i)
    BY DEF OriginsInv, GivenInv
  <2>2. /\ given' \in [Names -> SUBSET Nat]
        /\ \A m \in Names : \A i \in given'[m] : i \in given[m] \/ (m = n /\ i = o)
    BY <1>0, <1>1, <1>3, <2>1
  <2>3. \A m \in Names : \A i \in given'[m] : Number(registered_origins, m, i)
    BY <1>2, <2>1, <2>2
  <2> QED
    BY <1>1, <2>2, <2>3 DEF GivenInv, Number
(* The classes.                                                            *)
<1>14. WrappedInv' /\ wrapped \subseteq wrapped'
  <2>0. \A i \in DOMAIN ADDITIONAL_ORIGINS :
          \E m \in Others : Number(registered_origins, m, i) /\ <<m, ADDITIONAL_ORIGINS[i]>> \in wrapped
    BY DEF OriginsInv, WrappedInv
  <2>1. CASE task[t].op # "wrap"
    <3>1. UNCHANGED <<ADDITIONAL_ORIGINS, wrapped>>
      BY <2>1 DEF Store
    <3> QED
      BY <1>1, <2>0, <3>1 DEF WrappedInv, Number
  <2>2. CASE task[t].op = "wrap"
    <3>1. task[t].name = n /\ n \in Others
      BY <1>0, <1>3, <2>2 DEF TaskOK, todo
    <3>2. /\ ADDITIONAL_ORIGINS' = [i \in DOMAIN ADDITIONAL_ORIGINS \union {o} |->
                                      IF i = o THEN task[t].klass ELSE ADDITIONAL_ORIGINS[i]]
          /\ wrapped' = wrapped \union {<<n, task[t].klass>>}
      BY <2>2, <3>1 DEF Store, o
    <3>3. ASSUME NEW i \in DOMAIN ADDITIONAL_ORIGINS'
          PROVE  \E m \in Others : Number(registered_origins, m, i) /\ <<m, ADDITIONAL_ORIGINS'[i]>> \in wrapped'
      <4>1. CASE i = o
        BY <1>2, <3>1, <3>2, <4>1
      <4>2. CASE i # o
        BY <2>0, <3>2, <4>2
      <4> QED
        BY <4>1, <4>2
    <3> QED
      BY <1>1, <3>2, <3>3 DEF WrappedInv, Number
  <2> QED
    BY <2>1, <2>2
(* The thread goes on.                                                     *)
<1>15. TaskOK(c, registered_origins', STORAGE_ORIGIN')
  <2>1. ASSUME c.op = "convert"
        PROVE  /\ c.name \in Names /\ \A k \in 1..Len(c.todo) : c.todo[k] \in PythonNames
               /\ \A m \in PythonNames : STORAGE_ORIGIN'[m] # None \/ \E k \in 1..Len(c.todo) : c.todo[k] = m
    <3>1. /\ task[t].name \in Names /\ \A k \in 1..Len(todo) : todo[k] \in PythonNames
          /\ \A m \in PythonNames : STORAGE_ORIGIN[m] # None \/ \E k \in 1..Len(todo) : todo[k] = m
      BY <1>0, <1>4, <2>1 DEF TaskOK, todo
    <3>2. ASSUME NEW m \in PythonNames, STORAGE_ORIGIN'[m] = None
          PROVE  \E k \in 1..Len(Tail(todo)) : Tail(todo)[k] = m
      <4>1. PICK k \in 1..Len(todo) : todo[k] = m
        BY <1>11, <3>1, <3>2
      <4>2. k # 1
        BY <1>3, <1>4, <1>6, <1>10, <2>1, <3>2, <4>1 DEF None
      <4> QED
        BY <1>3, <4>1, <4>2
    <3> QED
      BY <1>3, <1>4, <3>1, <3>2
  <2>2. c.op = "wrap" => c.name \in Others /\ \A k \in 1..Len(c.todo) : c.todo[k] = c.name
    <3>1. task[t].op = "wrap" => task[t].name \in Others /\ \A k \in 1..Len(todo) : todo[k] = task[t].name
      BY <1>0 DEF TaskOK, todo
    <3> QED
      BY <1>3, <1>4, <3>1
  <2> QED
    BY <1>4, <2>1, <2>2 DEF TaskOK
<1>16. /\ task' \in [Threads -> Tasks] /\ task'[t] = c /\ \A u \in Threads \ {t} : task'[u] = task[u]
       /\ TasksInv'
  BY <1>1, <1>4, <1>5, <1>11, <1>15, TaskGoesOn
<1>17. MutexInv'
  BY <1>1, <1>4, <1>16 DEF OriginsInv, MutexInv
<1>18. RegistryInv'
  BY <1>1 DEF OriginsInv, RegistryInv, IsRegistry
<1>19. ConversionIsRight'
  BY <1>1, <1>14 DEF OriginsInv, ConversionIsRight
<1> QED
  BY <1>12, <1>13, <1>14, <1>16, <1>17, <1>18, <1>19 DEF OriginsInv

LEMMA EndOfTask ==
  ASSUME OriginsInv, NEW t \in Threads, task' = [task EXCEPT ![t] = Idle],
         UNCHANGED <<registered_origins, mutex, STORAGE_ORIGIN, ADDITIONAL_ORIGINS, given, wrapped>>,
         ConversionIsRight'
  PROVE  OriginsInv'
<1>1. Idle \in Tasks /\ Idle.at = "next" /\ TaskOK(Idle, registered_origins, STORAGE_ORIGIN)
  BY IdleIsTyped, IdleIsOK
<1> QED
  BY <1>1, OnlyTheTask

LEMMA FinishKeepsInv == ASSUME OriginsInv, NEW t \in Threads, Finish(t) PROVE OriginsInv'
<1>1. /\ task' = [task EXCEPT ![t] = Idle]
      /\ UNCHANGED <<registered_origins, mutex, STORAGE_ORIGIN, ADDITIONAL_ORIGINS, given, wrapped, outcome>>
  BY DEF Finish
<1>2. ConversionIsRight'
  BY <1>1, OutcomeStays
<1> QED
  BY <1>1, <1>2, EndOfTask

(* The numbers of Python are cached when an array is converted: one of its *)
(* arrays has such a number, and no other array does.                      *)
LEMMA PythonIsRecognised ==
  ASSUME OriginsInv, NEW t \in Threads, task[t].op = "convert", task[t].todo = <<>>, NEW i \in given[task[t].name]
  PROVE  /\ Number(registered_origins, task[t].name, i) /\ task[t].name \in Names /\ i \in Nat
         /\ _is_python_origin(i) <=> task[t].name \in PythonNames
<1> DEFINE n == task[t].name
<1>1. n \in Names /\ \A m \in PythonNames : STORAGE_ORIGIN[m] # None
  BY InvOfTask, EmptySeq DEF TaskOK
<1>2. Number(registered_origins, n, i) /\ i \in Nat
  BY <1>1 DEF OriginsInv, GivenInv
<1>3. \A m \in PythonNames : Number(registered_origins, m, STORAGE_ORIGIN[m])
  BY <1>1 DEF OriginsInv, StorageInv
<1>4. IsRegistry(registered_origins)
  BY DEF OriginsInv, RegistryInv
<1>5. ASSUME NEW m \in PythonNames, i = STORAGE_ORIGIN[m] PROVE n = m
  BY <1>2, <1>3, <1>5 DEF Number
<1>6. n \in PythonNames => i = STORAGE_ORIGIN[n]
  BY <1>2, <1>3, <1>4, OneNumber
<1>7. _is_python_origin(i) <=> \E m \in PythonNames : i = STORAGE_ORIGIN[m]
  BY DEF _is_python_origin, PythonNames
<1> QED
  BY <1>1, <1>2, <1>5, <1>6, <1>7

LEMMA ConvertKeepsInv == ASSUME OriginsInv, NEW t \in Threads, Convert(t) PROVE OriginsInv'
<1> DEFINE n == task[t].name
<1>0. task[t] \in Tasks /\ TaskOK(task[t], registered_origins, STORAGE_ORIGIN)
  BY InvOfTask
<1>1. /\ task[t].op = "convert" /\ task[t].todo = <<>>
      /\ UNCHANGED <<registered_origins, mutex, STORAGE_ORIGIN, ADDITIONAL_ORIGINS, given, wrapped, ops>>
  BY DEF Convert
<1>2. PICK i \in given[n] :
       IF _is_python_origin(i) \/ i \in DOMAIN ADDITIONAL_ORIGINS
       THEN /\ outcome' = [name |-> n, result |-> IF _is_python_origin(i) THEN "python" ELSE ADDITIONAL_ORIGINS[i]]
            /\ task' = [task EXCEPT ![t] = Idle]
       ELSE /\ task' = [task EXCEPT ![t].at = "name", ![t].origin = i]
            /\ UNCHANGED outcome
  BY DEF Convert, data_origin
<1>3. /\ Number(registered_origins, n, i) /\ n \in Names /\ i \in Nat
      /\ _is_python_origin(i) <=> n \in PythonNames
  BY <1>1, PythonIsRecognised
<1>4. CASE _is_python_origin(i)
  <2>1. outcome'.name = n /\ outcome'.result = "python" /\ n \in PythonNames /\ task' = [task EXCEPT ![t] = Idle]
    BY <1>2, <1>3, <1>4
  <2>2. ConversionIsRight'
    BY <2>1 DEF ConversionIsRight, PythonNames
  <2> QED
    BY <1>1, <2>1, <2>2, EndOfTask
<1>5. CASE ~ _is_python_origin(i) /\ i \in DOMAIN ADDITIONAL_ORIGINS
  <2>1. /\ outcome'.name = n /\ outcome'.result = ADDITIONAL_ORIGINS[i] /\ n \notin PythonNames
        /\ task' = [task EXCEPT ![t] = Idle]
    BY <1>2, <1>3, <1>5
  <2>2. PICK m \in Others : Number(registered_origins, m, i) /\ <<m, ADDITIONAL_ORIGINS[i]>> \in wrapped
    BY <1>5 DEF OriginsInv, WrappedInv
  <2>3. m = n
    BY <1>3, <2>2 DEF Number
  <2>4. ConversionIsRight'
    BY <1>1, <2>1, <2>2, <2>3 DEF ConversionIsRight, PythonNames
  <2> QED
    BY <1>1, <2>1, <2>4, EndOfTask
<1>6. CASE ~ _is_python_origin(i) /\ i \notin DOMAIN ADDITIONAL_ORIGINS
  <2> DEFINE c == [task[t] EXCEPT !.at = "name", !.origin = i]
  <2>1. task' = [task EXCEPT ![t].at = "name", ![t].origin = i] /\ outcome' = outcome /\ n \notin PythonNames
    BY <1>2, <1>3, <1>6
  <2>2. task' = [task EXCEPT ![t] = c]
    BY <2>1 DEF OriginsInv
  <2>3. /\ c \in Tasks /\ c.at = "name" /\ c.origin = i /\ c.name = n
        /\ c.todo = task[t].todo /\ c.op = task[t].op
    BY <1>0, <1>3 DEF Tasks
  <2> HIDE DEF c
  <2>4. TaskOK(c, registered_origins, STORAGE_ORIGIN)
    BY <1>0, <1>3, <2>1, <2>3 DEF TaskOK
  <2>5. ConversionIsRight'
    BY <1>1, <2>1, OutcomeStays
  <2> QED
    BY <1>1, <2>2, <2>3, <2>4, <2>5, OnlyTheTask
<1> QED
  BY <1>4, <1>5, <1>6

LEMMA NameKeepsInv == ASSUME OriginsInv, NEW t \in Threads, data_origin_name(t) PROVE OriginsInv'
<1> DEFINE name == get_data_origin(task[t].origin)
<1>0. task[t] \in Tasks /\ task[t].bufflen \in Nat /\ TaskOK(task[t], registered_origins, STORAGE_ORIGIN)
  BY InvOfTask
<1>1. /\ task[t].at = "name"
      /\ UNCHANGED <<registered_origins, mutex, STORAGE_ORIGIN, ADDITIONAL_ORIGINS, given, wrapped, ops>>
  BY DEF data_origin_name, At
<1>2. \/ outcome' = [name |-> task[t].name, result |-> name] /\ task' = [task EXCEPT ![t] = Idle]
      \/ task' = [task EXCEPT ![t].bufflen = NextLength(@)] /\ UNCHANGED outcome
  BY DEF data_origin_name
<1>3. Number(registered_origins, task[t].name, task[t].origin) /\ task[t].name \notin PythonNames
  BY <1>0, <1>1 DEF TaskOK
<1>4. name = task[t].name
  <2>1. Len(registered_origins) \in Nat
    BY LenProperties DEF OriginsInv, RegistryInv, IsRegistry
  <2> QED
    BY <1>3, <2>1 DEF Number, get_data_origin, Numbers, NameOf
<1>5. CASE outcome' = [name |-> task[t].name, result |-> name] /\ task' = [task EXCEPT ![t] = Idle]
  <2>1. ConversionIsRight'
    BY <1>3, <1>4, <1>5 DEF ConversionIsRight, PythonNames
  <2> QED
    BY <1>1, <1>5, <2>1, EndOfTask
<1>6. CASE task' = [task EXCEPT ![t].bufflen = NextLength(@)] /\ UNCHANGED outcome
  <2> DEFINE c == [task[t] EXCEPT !.bufflen = NextLength(task[t].bufflen)]
  <2>1. task' = [task EXCEPT ![t] = c]
    BY <1>6 DEF OriginsInv
  <2>2. NextLength(task[t].bufflen) \in Nat
    BY <1>0 DEF NextLength
  <2>3. /\ c \in Tasks /\ c.at = "name" /\ c.origin = task[t].origin /\ c.name = task[t].name
        /\ c.todo = task[t].todo /\ c.op = task[t].op
    BY <1>0, <1>1, <2>2 DEF Tasks
  <2> HIDE DEF c
  <2>4. TaskOK(c, registered_origins, STORAGE_ORIGIN)
    BY <1>0, <1>1, <2>3 DEF TaskOK
  <2>5. ConversionIsRight'
    BY <1>1, <1>6, OutcomeStays
  <2> QED
    BY <1>1, <2>1, <2>3, <2>4, <2>5, OnlyTheTask
<1> QED
  BY <1>2, <1>5, <1>6

LEMMA OriginsNextInv == OriginsInv /\ [Next]_vars => OriginsInv'
<1> SUFFICES ASSUME OriginsInv, [Next]_vars PROVE OriginsInv'
  OBVIOUS
<1>1. ASSUME NEW t \in Threads, Step(t) PROVE OriginsInv'
  BY <1>1, CachedKeepsInv, GoKeepsInv, LockKeepsInv, FoundKeepsInv, PushKeepsInv, StoreKeepsInv, FinishKeepsInv,
     ConvertKeepsInv, NameKeepsInv DEF Step
<1>2. CASE UNCHANGED vars
  BY <1>2 DEF vars, OriginsInv, RegistryInv, TasksInv, MutexInv, StorageInv, GivenInv, WrappedInv, ConversionIsRight,
              IsRegistry, TaskOK, Number
<1>3. CASE Done
  BY <1>2, <1>3 DEF Done
<1> QED
  BY <1>1, <1>2, <1>3, StartsKeepInv DEF Next

(* The invariant says what OriginsAgree does.                              *)
LEMMA InvImpliesOrigins == OriginsInv => OriginsAgree
<1> SUFFICES ASSUME OriginsInv PROVE OriginsAgree
  OBVIOUS
<1>0. IsRegistry(registered_origins) /\ Len(registered_origins) \in Nat /\ Len(registered_origins) >= 1
  BY LenProperties DEF OriginsInv, RegistryInv, IsRegistry
<1>1. ASSUME NEW n, NEW i, Number(registered_origins, n, i) PROVE i \in Numbers /\ i # None /\ get_data_origin(i) = n
  BY <1>0, <1>1 DEF Number, Numbers, None, get_data_origin, NameOf
<1>2. \A i \in Numbers : NameOf(i) \in Names \union {Unregistered}
  <2>1. \A i \in 1..Len(registered_origins) : registered_origins[i] \in Names \union {Unregistered}
    BY <1>0, ElementOfSeq DEF IsRegistry
  <2> QED
    BY <1>0, <2>1 DEF Numbers, NameOf
<1>3. \A n \in {Numpy, Torch} : STORAGE_ORIGIN[n] \in Numbers
  <2>1. None \in Numbers
    BY <1>0 DEF None, Numbers
  <2> QED
    BY <1>1, <2>1 DEF OriginsInv, StorageInv, PythonNames
<1>4. DOMAIN ADDITIONAL_ORIGINS \subseteq Numbers
  BY <1>1 DEF OriginsInv, WrappedInv
<1>5. TypeOK
  BY <1>2, <1>3, <1>4 DEF TypeOK, OriginsInv, MutexInv
<1>6. ASSUME NEW n \in Names, NEW i \in given[n] PROVE i # None /\ given[n] = {i} /\ get_data_origin(i) = n
  <2>1. \A j \in given[n] : Number(registered_origins, n, j)
    BY DEF OriginsInv, GivenInv
  <2>2. \A j \in given[n] : j = i
    BY <1>0, <2>1, OneNumber
  <2> QED
    BY <1>1, <2>1, <2>2
<1>7. NumbersAreNames
  BY <1>6 DEF NumbersAreNames
<1> QED
  BY <1>5, <1>7 DEF OriginsAgree, OriginsInv

(* In every behaviour of any number of threads, register_data_origin gives *)
(* a name one number, never that of the unregistered origin, whose name    *)
(* can be read back; and mts_array_to_python_array returns the Python      *)
(* array, an array of a class that was registered for this origin, or an   *)
(* error with the name of the origin (data.rs, extract.py).                *)
THEOREM OriginsAlwaysAgree == Spec => []OriginsAgree
<1>1. Init => OriginsInv
  BY OriginsInitInv
<1>2. OriginsInv /\ [Next]_vars => OriginsInv'
  BY OriginsNextInv
<1>3. OriginsInv => OriginsAgree
  BY InvImpliesOrigins
<1>4. Spec => Init /\ [][Next]_vars
  BY PTL DEF Spec
<1> QED
  BY <1>1, <1>2, <1>3, <1>4, PTL
=============================================================================
