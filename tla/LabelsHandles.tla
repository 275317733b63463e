--------------------------- MODULE LabelsHandles ----------------------------
(***************************************************************************)
(* Who keeps the memory of Labels alive, between the Rust library (an Arc, *)
(* with user data behind a lock, labels.rs and c_api/labels.rs) and        *)
(* metatensor-torch (labels.cpp), whose LabelsHolder has a torch tensor    *)
(* with the same values, on any device. The tensor is the user data of the *)
(* Arc, so that labels taken from a block find it again; labels that Rust  *)
(* made have no user data, and their tensor shares the memory of the Arc   *)
(* and keeps a reference to it.                                            *)
(*                                                                         *)
(* Arcs and tensors are freed by their counts. Threads interleave at every *)
(* access to an Arc: the pointer to user data is used after its lock was   *)
(* released.                                                               *)
(***************************************************************************)
EXTENDS Naturals, Sequences, FiniteSets, FiniteSetsExt

CONSTANTS
  Workers,
  Arcs, Tensors,     \* numbers of the places where they can be in memory
  Holders,           \* LabelsHolder objects
  Slots,             \* labels inside of a block or tensor map
  Values,            \* the entries of labels
  Devices,
  CPU,
  NULL

ASSUME HandlesAssumption ==
    /\ IsFiniteSet(Workers) /\ IsFiniteSet(Arcs) /\ IsFiniteSet(Tensors)
    /\ IsFiniteSet(Holders) /\ IsFiniteSet(Slots)
    /\ NULL \notin Arcs \cup Tensors \cup Holders \cup Slots \cup Devices
    /\ NULL \notin [arc : Arcs \cup {NULL}, tensor : Tensors]
    /\ CPU \in Devices

VARIABLES
  arcs,      \* Arc<Labels>: count, user data, entries
  tensors,   \* torch::Tensor: count, device, entries, the Labels its deleter keeps
  holders,   \* LabelsHolder: its Labels (NULL for a view) and its tensor
  slots,     \* the Arc in each slot
  job,       \* the holder each thread is making
  work       \* what each thread still has to release, last first

handlesVars == <<arcs, tensors, holders, slots, job, work>>

FreeArc == [strong |-> 0, data |-> NULL, values |-> NULL]
FreeTensor == [uses |-> 0, device |-> NULL, values |-> NULL, blob |-> NULL]
NoJob == [pc |-> "idle", arc |-> NULL, ptr |-> NULL, tensor |-> NULL, device |-> NULL, dest |-> NULL]

UnusedHolders == {h \in Holders : holders[h] = NULL} \ {job[t].dest : t \in Workers}
UsedHolders == {h \in Holders : holders[h] # NULL}
OwnedHolders == {h \in UsedHolders : holders[h].arc # NULL}
UnusedArcs == {a \in Arcs : arcs[a] = FreeArc}
UnusedTensors == {x \in Tensors : tensors[x] = FreeTensor}

HandlesInit == /\ arcs = [a \in Arcs |-> FreeArc]
        /\ tensors = [x \in Tensors |-> FreeTensor]
        /\ holders = [h \in Holders |-> NULL]
        /\ slots = [s \in Slots |-> NULL]
        /\ job = [t \in Workers |-> NoJob]
        /\ work = [t \in Workers |-> <<>>]

(* Arc::clone, in mts_labels_clone and mts_labels_to_rust: one more        *)
(* reference to the same labels.                                           *)
Cloned(a) == [arcs EXCEPT ![a].strong = @ + 1]

(* One more reference to the same torch tensor.                            *)
Shared(x) == [tensors EXCEPT ![x].uses = @ + 1]

(* A new tensor, in the first free place.                                  *)
NewTensor(x, device, values, blob) ==
    /\ UnusedTensors # {}
    /\ x = Min(UnusedTensors)
    /\ tensors' = [tensors EXCEPT ![x] = [uses |-> 1, device |-> device, values |-> values, blob |-> blob]]

(* Labels::new behind an Arc, without user data.                           *)
NewArc(a, values) ==
    /\ UnusedArcs # {}
    /\ a = Min(UnusedArcs)
    /\ arcs' = [arcs EXCEPT ![a] = [strong |-> 1, data |-> NULL, values |-> values]]

(* A thread that is not doing anything starts a call.                      *)
CanStart(t) == job[t] = NoJob /\ work[t] = <<>>
Start(t, dest, pc, arc, tensor, device) ==
    job' = [job EXCEPT ![t] = [pc |-> pc, arc |-> arc, ptr |-> NULL, tensor |-> tensor,
                               device |-> device, dest |-> dest]]

-----------------------------------------------------------------------------
(* The functions of LabelsHolder.                                          *)

(* LabelsHolder(names, values), from a tensor of the user; also append,    *)
(* insert, permute and remove, which make the tensor themselves.           *)
NewLabels(t) ==
    /\ CanStart(t)
    /\ \E h \in UnusedHolders, device \in Devices, v \in Values, x \in UnusedTensors :
         /\ NewTensor(x, device, v, NULL)
         /\ Start(t, h, "create", NULL, x, NULL)
    /\ UNCHANGED <<arcs, holders, slots, work>>

(* rename, and to_owned of a view: new labels with the same tensor.        *)
rename(t) ==
    /\ CanStart(t)
    /\ \E h \in UnusedHolders, from \in UsedHolders :
         /\ tensors' = Shared(holders[from].tensor)
         /\ Start(t, h, "create", holders[from].arc, holders[from].tensor, NULL)
    /\ UNCHANGED <<arcs, holders, slots, work>>

(* view: a copy of some columns, which has no Labels.                      *)
view(t) ==
    /\ CanStart(t)
    /\ \E h \in UnusedHolders, from \in UsedHolders, x \in UnusedTensors :
         LET source == tensors[holders[from].tensor]
         IN /\ NewTensor(x, source.device, source.values, NULL)
            /\ holders' = [holders EXCEPT ![h] = [arc |-> NULL, tensor |-> x]]
    /\ UNCHANGED <<arcs, slots, job, work>>

(* to, when the labels are already on the device, and to_owned of labels   *)
(* that are not a view: a copy of the holder.                              *)
to_same(t) ==
    /\ CanStart(t)
    /\ \E h \in UnusedHolders, from \in UsedHolders :
         /\ holders' = [holders EXCEPT ![h] = holders[from]]
         /\ tensors' = Shared(holders[from].tensor)
         /\ arcs' = IF holders[from].arc = NULL THEN arcs ELSE Cloned(holders[from].arc)
    /\ UNCHANGED <<slots, job, work>>

(* to, for another device: a new tensor, for new labels. A view raises.    *)
to_other(t) ==
    /\ CanStart(t)
    /\ \E h \in UnusedHolders, from \in OwnedHolders, device \in Devices, x \in UnusedTensors :
         LET source == tensors[holders[from].tensor]
         IN /\ device # source.device
            /\ NewTensor(x, device, source.values, NULL)
            /\ Start(t, h, "create", holders[from].arc, x, NULL)
    /\ UNCHANGED <<arcs, holders, slots, work>>

(* TensorBlockHolder::labels and TensorMapHolder::keys: a clone of the     *)
(* labels, given to LabelsHolder(Labels).                                  *)
labels(t) ==
    /\ CanStart(t)
    /\ \E h \in UnusedHolders, s \in Slots :
         /\ slots[s] # NULL
         /\ arcs' = Cloned(slots[s])
         /\ Start(t, h, "ask", slots[s], NULL, NULL)
    /\ UNCHANGED <<tensors, holders, slots, work>>

(* set_union and set_intersection, of labels on the same device: Rust      *)
(* makes the result, which then goes to this device.                       *)
set_union(t) ==
    /\ CanStart(t)
    /\ \E h \in UnusedHolders, one, other \in OwnedHolders, a \in UnusedArcs, v \in Values :
         LET device == tensors[holders[one].tensor].device
         IN /\ device = tensors[holders[other].tensor].device
            /\ NewArc(a, v)
            /\ Start(t, h, "ask", a, NULL, device)
    /\ UNCHANGED <<tensors, holders, slots, work>>

-----------------------------------------------------------------------------
(* The constructors.                                                       *)

(* mts_labels_create, on values copied from the tensor. The handle that    *)
(* `to` gives had its internal_ptr_ reset.                                 *)
create(t) ==
    /\ job[t].pc = "create" /\ work[t] = <<>>
    /\ \E a \in UnusedArcs :
         /\ NewArc(a, tensors[job[t].tensor].values)
         /\ job' = [job EXCEPT ![t].pc = "set", ![t].arc = a]
    /\ UNCHANGED <<tensors, holders, slots, work>>

(* It fails when two entries are equal: the tensor is let go.              *)
create_fails(t) ==
    /\ job[t].pc = "create" /\ job[t].arc = NULL /\ work[t] = <<>>
    /\ job' = [job EXCEPT ![t] = NoJob]
    /\ work' = [work EXCEPT ![t] = <<[what |-> "tensor", id |-> job[t].tensor]>>]
    /\ UNCHANGED <<arcs, tensors, holders, slots>>

(* The user data of labels, to be dropped.                                 *)
Boxed(a) == IF arcs[a].data = NULL THEN <<>> ELSE <<[what |-> "tensor", id |-> arcs[a].data]>>

set_user_data_Borrowed(t) ==   \* mutant: the address of the tensor of the holder is stored
    /\ job[t].pc = "set" /\ work[t] = <<>>
    /\ arcs' = [arcs EXCEPT ![job[t].arc].data = job[t].tensor]
    /\ work' = [work EXCEPT ![t] = Boxed(job[t].arc)]
    /\ job' = [job EXCEPT ![t].pc = "done"]
    /\ UNCHANGED <<tensors, holders, slots>>

(* set_user_data: a copy of the tensor is boxed and stored, under the      *)
(* write lock, and the old data is dropped.                                *)
set_user_data(t) ==
    /\ job[t].pc = "set" /\ work[t] = <<>>
    /\ arcs' = [arcs EXCEPT ![job[t].arc].data = job[t].tensor]
    /\ tensors' = Shared(job[t].tensor)
    /\ work' = [work EXCEPT ![t] = Boxed(job[t].arc)]
    /\ job' = [job EXCEPT ![t].pc = "done"]
    /\ UNCHANGED <<holders, slots>>

(* LabelsHolder(Labels): the pointer to user data is read under the read   *)
(* lock, ...                                                               *)
user_data(t) ==
    /\ job[t].pc = "ask" /\ work[t] = <<>>
    /\ job' = [job EXCEPT ![t].pc = "copy", ![t].ptr = arcs[job[t].arc].data]
    /\ UNCHANGED <<arcs, tensors, holders, slots, work>>

(* ... and the tensor it points to is copied, ...                          *)
copy_data(t) ==
    /\ job[t].pc = "copy" /\ job[t].ptr # NULL /\ work[t] = <<>>
    /\ tensors' = Shared(job[t].ptr)
    /\ job' = [job EXCEPT ![t].pc = "done", ![t].tensor = job[t].ptr, ![t].ptr = NULL]
    /\ UNCHANGED <<arcs, holders, slots, work>>

(* ... or if it is NULL a new tensor shares the memory of the labels.      *)
from_blob(t) ==
    /\ job[t].pc = "copy" /\ job[t].ptr = NULL /\ work[t] = <<>>
    /\ \E x \in UnusedTensors :
         /\ NewTensor(x, CPU, arcs[job[t].arc].values, job[t].arc)
         /\ job' = [job EXCEPT ![t].pc = "done", ![t].tensor = x]
    /\ arcs' = Cloned(job[t].arc)
    /\ UNCHANGED <<holders, slots, work>>

(* The holder is ready, and moved to where the caller can use it.          *)
return(t) ==
    /\ job[t].pc = "done" /\ work[t] = <<>>
    /\ job[t].device \in {NULL, tensors[job[t].tensor].device}
    /\ holders' = [holders EXCEPT ![job[t].dest] = [arc |-> job[t].arc, tensor |-> job[t].tensor]]
    /\ job' = [job EXCEPT ![t] = NoJob]
    /\ UNCHANGED <<arcs, tensors, slots, work>>

(* The holder of a union is only used to make one on the device of the     *)
(* operands, and then destroyed.                                           *)
return_to(t) ==
    /\ job[t].pc = "done" /\ work[t] = <<>>
    /\ job[t].device \notin {NULL, tensors[job[t].tensor].device}
    /\ \E x \in UnusedTensors :
         /\ NewTensor(x, job[t].device, tensors[job[t].tensor].values, NULL)
         /\ Start(t, job[t].dest, "create", job[t].arc, x, NULL)
    /\ work' = [work EXCEPT ![t] = <<[what |-> "arc", id |-> job[t].arc], [what |-> "tensor", id |-> job[t].tensor]>>]
    /\ UNCHANGED <<arcs, holders, slots>>

-----------------------------------------------------------------------------
(* Blocks and tensor maps of Rust.                                         *)

(* mts_block and mts_tensormap: the labels of a holder, if it is not a     *)
(* view, are cloned in the new object.                                     *)
Store(t) ==
    /\ CanStart(t)
    /\ \E s \in Slots, h \in OwnedHolders :
         /\ slots[s] = NULL
         /\ slots' = [slots EXCEPT ![s] = holders[h].arc]
         /\ arcs' = Cloned(holders[h].arc)
    /\ UNCHANGED <<tensors, holders, job, work>>

(* load, keys_to_samples and keys_to_properties: labels made by Rust.      *)
Core(t) ==
    /\ CanStart(t)
    /\ \E s \in Slots, a \in UnusedArcs, v \in Values :
         /\ slots[s] = NULL
         /\ NewArc(a, v)
         /\ slots' = [slots EXCEPT ![s] = a]
    /\ UNCHANGED <<tensors, holders, job, work>>

(* A block is freed.                                                       *)
DropSlot(t) ==
    /\ CanStart(t)
    /\ \E s \in Slots :
         /\ slots[s] # NULL
         /\ slots' = [slots EXCEPT ![s] = NULL]
         /\ work' = [work EXCEPT ![t] = <<[what |-> "arc", id |-> slots[s]]>>]
    /\ UNCHANGED <<arcs, tensors, holders, job>>

(* A LabelsHolder is destroyed: labels_ before values_.                    *)
DropHolder(t) ==
    /\ CanStart(t)
    /\ \E h \in UsedHolders :
         /\ holders' = [holders EXCEPT ![h] = NULL]
         /\ work' = [work EXCEPT ![t] =
                (IF holders[h].arc = NULL THEN <<>> ELSE <<[what |-> "arc", id |-> holders[h].arc]>>)
                \o <<[what |-> "tensor", id |-> holders[h].tensor]>>]
    /\ UNCHANGED <<arcs, tensors, slots, job>>

(* mts_labels_free: the last reference drops the Labels, and UserData with *)
(* them, which deletes the boxed tensor.                                   *)
mts_labels_free(t) ==
    /\ work[t] # <<>> /\ Head(work[t]).what = "arc"
    /\ LET a == Head(work[t]).id
           last == arcs[a].strong = 1
       IN /\ arcs' = IF last THEN [arcs EXCEPT ![a] = FreeArc] ELSE [arcs EXCEPT ![a].strong = @ - 1]
          /\ work' = [work EXCEPT ![t] = (IF last THEN Boxed(a) ELSE <<>>) \o Tail(@)]
    /\ UNCHANGED <<tensors, holders, slots, job>>

(* The last use of a tensor runs its deleter, which for from_blob lets go  *)
(* of a clone of the labels.                                               *)
free_tensor(t) ==
    /\ work[t] # <<>> /\ Head(work[t]).what = "tensor"
    /\ LET x == Head(work[t]).id
           last == tensors[x].uses = 1
           kept == tensors[x].blob
       IN /\ tensors' = IF last THEN [tensors EXCEPT ![x] = FreeTensor] ELSE [tensors EXCEPT ![x].uses = @ - 1]
          /\ work' = [work EXCEPT ![t] =
                 (IF last /\ kept # NULL THEN <<[what |-> "arc", id |-> kept]>> ELSE <<>>) \o Tail(@)]
    /\ UNCHANGED <<arcs, holders, slots, job>>

CallHolder(t) == \/ NewLabels(t) \/ rename(t) \/ view(t) \/ to_same(t) \/ to_other(t) \/ labels(t) \/ set_union(t)
Construct(t) == \/ create(t) \/ create_fails(t) \/ set_user_data(t)
                \/ user_data(t) \/ copy_data(t) \/ from_blob(t) \/ return(t) \/ return_to(t)
LetGo(t) == mts_labels_free(t) \/ free_tensor(t)

HandlesNext == \E t \in Workers : \/ CallHolder(t) \/ Construct(t) \/ LetGo(t)
                           \/ Store(t) \/ Core(t) \/ DropSlot(t) \/ DropHolder(t)

HandlesSpec == HandlesInit /\ [][HandlesNext]_handlesVars

-----------------------------------------------------------------------------
(* The places that refer to something that was freed: holders, blocks, the *)
(* user data of live labels, tensors in the memory of labels, and the      *)
(* pointer that a thread got from user_data and has not used yet.          *)
Dangling ==
    \/ \E h \in UsedHolders : \/ tensors[holders[h].tensor] = FreeTensor
                              \/ holders[h].arc # NULL /\ arcs[holders[h].arc] = FreeArc
    \/ \E s \in Slots : slots[s] # NULL /\ arcs[slots[s]] = FreeArc
    \/ \E a \in Arcs : arcs[a].data # NULL /\ tensors[arcs[a].data] = FreeTensor
    \/ \E x \in Tensors : tensors[x].blob # NULL /\ arcs[tensors[x].blob] = FreeArc
    \/ \E t \in Workers : job[t].ptr # NULL /\ (tensors[job[t].ptr] = FreeTensor \/ arcs[job[t].arc].data # job[t].ptr)

(* Nothing that was freed is used: whatever other threads make, drop or    *)
(* replace, the pointer that user_data returned after it released its lock *)
(* is still the boxed tensor of these labels when it is copied.            *)
NothingDangles == ~ Dangling

(* Labels have the same entries and the same device wherever they come     *)
(* from: all holders of the same Arc agree with its user data, or are on   *)
(* the CPU if it has none.                                                 *)
DeviceOf(a) == IF arcs[a].data = NULL THEN CPU ELSE tensors[arcs[a].data].device

HoldersAgree ==
    \A h \in OwnedHolders :
        LET x == tensors[holders[h].tensor]
            a == holders[h].arc
        IN x.values = arcs[a].values /\ x.device = DeviceOf(a)

(* Once the caller has let go of everything, nothing stays in memory: user *)
(* data never keeps alive the labels it belongs to.                        *)
NothingIsLeaked ==
    (/\ UsedHolders = {} /\ \A s \in Slots : slots[s] = NULL
     /\ \A t \in Workers : CanStart(t))
    => UnusedArcs = Arcs /\ UnusedTensors = Tensors

(* Nobody holds labels or tensors that were freed, holders of the same     *)
(* labels have the same entries on their device, and nothing is kept that  *)
(* nobody holds (labels.rs, labels.cpp).                                   *)
HandlesAreSafe == NothingDangles /\ HoldersAgree /\ NothingIsLeaked
=============================================================================
