------------------------------- MODULE Datasets -------------------------------
(***************************************************************************)
(* Datasets and batches of metatensor-learn (learn/data): a dataset is     *)
(* made of lists of the user and of functions that load a field, is read   *)
(* by index or by sample ID, and is cut in batches by a DataLoader in any  *)
(* order. The fields of one sample must stay together all the way.         *)
(*                                                                         *)
(* An item of a field says of which samples it is (of), its type, its form *)
(* (the keys of a TensorMap, the shape of a tensor), the samples it is     *)
(* labelled with, and whether join gave it a dimension "tensor".           *)
(***************************************************************************)
EXTENDS Integers, SequencesExt

CONSTANTS
    Lists,          \* the lists of the user, before anything is done: a function from names
    Arguments,      \* of the constructors: [class, from_dict, size, sample_id, data]
    Loaders,        \* of DataLoader: [batch_size, collate, all_fields, fields_to_join, different_keys, remove_tensor_name]
    Load(_, _),     \* what the function given for a field returns
    Careless        \* the user may change the lists that a dataset was made from

VARIABLES
    lists,      \* the lists of the user, which datasets share
    dataset,    \* the dataset, or what its constructor raised
    pc,         \* "new", "idle", or in an "epoch"
    loader,     \* of the current epoch, with the order of the samples
    todo,       \* indices of the samples that are not loaded yet
    batch,      \* the samples of the current batch
    batches,    \* the batches that the user got in this epoch
    asked,      \* the last call: by "index", by "sample_id", in an "epoch", or "none"
    returned    \* what it returned or raised

vars == <<lists, dataset, pc, loader, todo, batch, batches, asked, returned>>

Raise(e) == [error |-> e]
Failed(r) == "error" \in DOMAIN r
NoLoader == [order |-> <<>>]

Init ==
    /\ lists = Lists
    /\ dataset = Raise("not created") /\ pc = "new"
    /\ loader = NoLoader /\ todo = <<>> /\ batch = <<>> /\ batches = <<>>
    /\ asked = [by |-> "none"] /\ returned = <<>>

-----------------------------------------------------------------------------
(* Constructors. A field is a "list" of the user, a "callable", or something else. *)

(* isinstance(x, type(y)): in Python a bool is an int. *)
isinstance(x, y) == x.type = y.type \/ (x.type = "bool" /\ y.type = "int")

FieldTypeError(f) ==
    \/ f.kind \notin {"list", "callable"}
    \/ /\ f.kind = "list" /\ f.name # "sample_id"
       /\ \E y \in ToSet(lists[f.list]) : ~isinstance(lists[f.list][1], y)

field_sizes(data) ==
    LET listed == SelectSeq(data, LAMBDA f : f.kind = "list")
    IN  [k \in 1..Len(listed) |-> Len(lists[listed[k].list])]

(* _BaseDataset.__init__; size is the empty set for None. *)
BaseDataset(data, size) ==
    LET sizes == field_sizes(data)
        expected == IF size = {} THEN sizes[1] ELSE CHOOSE n \in size : TRUE
    IN  IF \E k \in 1..Len(data) : FieldTypeError(data[k]) THEN Raise("TypeError")
        ELSE IF size = {} /\ sizes = <<>> THEN Raise("ValueError")
        ELSE IF \E k \in 1..Len(sizes) : sizes[k] # expected THEN Raise("ValueError")
        ELSE [fields |-> data, size |-> expected]

Names(data) == {data[k].name : k \in 1..Len(data)}

(* Dataset, and its from_dict. *)
NewDataset(a) ==
    IF "sample_id" \in Names(a.data) THEN Raise("ValueError") ELSE BaseDataset(a.data, a.size)

(* {"sample_id": sample_id}, updated with the other fields: only from_dict can have "sample_id" among them. *)
WithSampleId(a) ==
    LET own == SelectSeq(a.data, LAMBDA f : f.name = "sample_id")
        ids == [name |-> "sample_id", kind |-> "list", list |-> a.sample_id]
    IN  <<IF own = <<>> THEN ids ELSE own[1]>> \o SelectSeq(a.data, LAMBDA f : f.name # "sample_id")

(* The place of a sample ID, when the dataset is made. *)
enumerated(ids, x) == (CHOOSE k \in 1..Len(ids) : ids[k] = x) - 1

(* IndexedDataset, and its from_dict. *)
NewIndexedDataset(a) ==
    LET ids == lists[a.sample_id]
        base == BaseDataset(WithSampleId(a), {Len(ids)})
    IN  IF "sample_id" \in Names(a.data) /\ ~a.from_dict THEN Raise("TypeError")
        ELSE IF "size" \in Names(a.data) \/ ~IsInjective(ids) THEN Raise("ValueError")
        ELSE IF Failed(base) THEN base
        ELSE base @@ [sample_id |-> a.sample_id, sample_id_to_idx |-> [x \in ToSet(ids) |-> enumerated(ids, x)]]

Indexed == "sample_id" \in DOMAIN dataset

Create ==
    /\ pc = "new"
    /\ \E a \in Arguments :
          dataset' = IF a.class = "Dataset" THEN NewDataset(a) ELSE NewIndexedDataset(a)
    /\ pc' = IF Failed(dataset') THEN "new" ELSE "idle"
    /\ UNCHANGED <<lists, loader, todo, batch, batches, asked, returned>>

-----------------------------------------------------------------------------
(* Samples. Lists are read when a sample is; the function of a field gets the sample ID if there is one. *)

At(l, idx) == IF idx < Len(lists[l]) THEN lists[l][idx + 1] ELSE Raise("IndexError")

FieldValue_Index(f, idx, fails) ==
    IF Indexed /\ f.name = "sample_id" THEN At(dataset.sample_id, idx)
    ELSE IF f.kind = "list" THEN At(f.list, idx)
    ELSE IF f.name \in fails THEN Raise("ValueError")
    ELSE Load(f, idx)
FieldValue(f, idx, fails) ==
    IF Indexed /\ f.name = "sample_id" THEN At(dataset.sample_id, idx)
    ELSE IF f.kind = "list" THEN At(f.list, idx)
    ELSE IF f.name \in fails THEN Raise("ValueError")
    ELSE Load(f, IF Indexed THEN At(dataset.sample_id, idx).of[1] ELSE idx)

getitem(idx, fails) ==
    IF idx >= dataset.size \/ idx < 0 THEN Raise("ValueError")
    ELSE IF Indexed /\ Failed(At(dataset.sample_id, idx)) THEN Raise("IndexError")
    ELSE LET data == [k \in 1..Len(dataset.fields) |-> FieldValue(dataset.fields[k], idx, fails)]
         IN  IF \E k \in 1..Len(data) : Failed(data[k]) THEN SelectSeq(data, Failed)[1]
             ELSE [sample |-> data]

get_sample(id, fails) ==
    IF id \notin DOMAIN dataset.sample_id_to_idx THEN Raise("ValueError")
    ELSE getitem(dataset.sample_id_to_idx[id], fails)

(* Which of the functions of the user raise an exception this time. *)
Failures == SUBSET {f.name : f \in {x \in ToSet(dataset.fields) : x.kind = "callable"}}

GetItem ==
    /\ pc = "idle"
    /\ \E idx \in -1..dataset.size, fails \in Failures :
          asked' = [by |-> "index", idx |-> idx] /\ returned' = getitem(idx, fails)
    /\ loader' = NoLoader
    /\ UNCHANGED <<lists, dataset, pc, todo, batch, batches>>

GetSample ==
    /\ pc = "idle" /\ Indexed
    /\ \E id \in UNION {ToSet(Lists[l]) : l \in DOMAIN Lists}, fails \in Failures :
          /\ id.type = "id"
          /\ asked' = [by |-> "sample_id", id |-> id] /\ returned' = get_sample(id, fails)
    /\ loader' = NoLoader
    /\ UNCHANGED <<lists, dataset, pc, todo, batch, batches>>

-----------------------------------------------------------------------------
(* Batches. The order is the one of the sampler of torch; without a loader, __iter__ counts up. *)

Orders(n) == {s \in [1..n -> 0..(n - 1)] : IsInjective(s)}

StartEpoch ==
    /\ pc = "idle"
    /\ \E l \in Loaders, order \in Orders(dataset.size) :
          /\ l.collate = "iter" => \A k \in DOMAIN order : order[k] = k - 1
          /\ loader' = l @@ [order |-> order] /\ todo' = order
    /\ pc' = "epoch" /\ batch' = <<>> /\ batches' = <<>>
    /\ asked' = [by |-> "epoch"] /\ returned' = <<>>
    /\ UNCHANGED <<lists, dataset>>

LeaveEpoch == pc' = "idle" /\ todo' = <<>> /\ batch' = <<>> /\ batches' = <<>>

Fetch ==
    /\ pc = "epoch" /\ todo # <<>> /\ Len(batch) < loader.batch_size
    /\ \E fails \in Failures :
          LET sample == getitem(Head(todo), fails)
          IN  IF Failed(sample) THEN LeaveEpoch /\ returned' = sample
              ELSE /\ todo' = Tail(todo) /\ batch' = Append(batch, sample.sample)
                   /\ UNCHANGED <<pc, batches, returned>>
    /\ UNCHANGED <<lists, dataset, loader, asked>>

(* metatensor.join along the samples (see Join): one TensorMap alone is returned as it is. *)
Disjoint(items) ==
    \A i, k \in 1..Len(items) : i # k => items[i].labels \cap items[k].labels = {}

join(items) ==
    LET forms == {x.form : x \in ToSet(items)}
        form == IF loader.different_keys = "union" THEN UNION forms ELSE {k \in UNION forms : \A x \in forms : k \in x}
    IN  IF Len(items) = 1 THEN items[1]
        ELSE IF loader.different_keys = "error" /\ Cardinality(forms) > 1 THEN Raise("NotEqualError")
        ELSE [items[1] EXCEPT !.of = FlattenSeq([k \in 1..Len(items) |-> items[k].of]), !.form = form,
                              !.labels = UNION {x.labels : x \in ToSet(items)},
                              !.tensor = ~(loader.remove_tensor_name /\ Disjoint(items))]

vstack(items) ==
    IF \E x \in ToSet(items) : x.form # items[1].form THEN Raise("RuntimeError")
    ELSE [items[1] EXCEPT !.of = FlattenSeq([k \in 1..Len(items) |-> items[k].of])]

(* A field of a batch: what is not joined is kept as the items themselves. *)
Kept(items) == [items |-> items]

group_field(name, items) ==
    IF name = "sample_id" \/ ~(loader.all_fields \/ name \in loader.fields_to_join) THEN Kept(items)
    ELSE CASE items[1].type = "TensorMap" -> join(items)
           [] items[1].type = "Tensor" -> vstack(items)
           [] OTHER -> Kept(items)

(* group, group_and_join, and samples one by one without a loader. *)
collated ==
    LET column(k) == [n \in 1..Len(batch) |-> batch[n][k]]
        data == [k \in 1..Len(dataset.fields) |->
                    IF loader.collate = "group_and_join" THEN group_field(dataset.fields[k].name, column(k))
                    ELSE Kept(column(k))]
    IN  IF \E k \in 1..Len(data) : Failed(data[k]) THEN SelectSeq(data, Failed)[1]
        ELSE [batch |-> data]

Collate ==
    /\ pc = "epoch" /\ batch # <<>> /\ (todo = <<>> \/ Len(batch) = loader.batch_size)
    /\ IF Failed(collated) THEN LeaveEpoch /\ returned' = collated
       ELSE /\ batches' = Append(batches, collated.batch) /\ batch' = <<>>
            /\ UNCHANGED <<pc, todo, returned>>
    /\ UNCHANGED <<lists, dataset, loader, asked>>

EndEpoch ==
    /\ pc = "epoch" /\ todo = <<>> /\ batch = <<>>
    /\ LeaveEpoch
    /\ UNCHANGED <<lists, dataset, loader, asked, returned>>

-----------------------------------------------------------------------------
(* The user turns around a list that was given to a dataset, or takes its last element. *)
GivenLists ==
    {f.list : f \in {x \in ToSet(dataset.fields) : x.kind = "list"}} \cup (IF Indexed THEN {dataset.sample_id} ELSE {})

ChangeList ==
    /\ Careless /\ pc = "idle"
    /\ \E l \in GivenLists :
          \E new \in {Reverse(lists[l]), IF lists[l] = <<>> THEN <<>> ELSE Front(lists[l])} :
              lists' = [lists EXCEPT ![l] = new]
    /\ loader' = NoLoader /\ asked' = [by |-> "none"] /\ returned' = <<>>
    /\ UNCHANGED <<dataset, pc, todo, batch, batches>>

Next == Create \/ GetItem \/ GetSample \/ StartEpoch \/ Fetch \/ Collate \/ EndEpoch \/ ChangeList

Spec == Init /\ [][Next]_vars

-----------------------------------------------------------------------------
(* Properties *)

TypeOK ==
    /\ pc \in {"new", "idle", "epoch"} /\ asked.by \in {"none", "index", "sample_id", "epoch"}
    /\ (pc = "new") = Failed(dataset)
    /\ pc = "epoch" => Len(batch) <= loader.batch_size
    /\ Indexed => \A id \in DOMAIN dataset.sample_id_to_idx : dataset.sample_id_to_idx[id] \in 0..(dataset.size - 1)

(* The sample at an index: its number, or the sample ID that was first at that place. *)
Identity(idx) == IF Indexed THEN Lists[dataset.sample_id][idx + 1].of[1] ELSE idx

(***************************************************************************)
(* A sample has all of its fields from one structure, which is the one     *)
(* that was asked for, whether fields are lists or loaded and whether it   *)
(* was asked by index or by sample ID.                                     *)
(***************************************************************************)
IsSampleOf(sample, x) == \A k \in 1..Len(sample) : sample[k].of = <<x>>

FieldsAreOfOneSample ==
    (asked.by \in {"index", "sample_id"} /\ ~Failed(returned)) =>
        IsSampleOf(returned.sample, IF asked.by = "index" THEN Identity(asked.idx) ELSE asked.id.of[1])

(***************************************************************************)
(* A constructor accepts no dataset with a sample that can not be read: if *)
(* no function of the user fails, then all indices below the size and all  *)
(* sample IDs give a sample, and other indices do not.                     *)
(***************************************************************************)
AllSamplesCanBeRead ==
    pc # "new" =>
        /\ \A idx \in -1..(dataset.size + 1) : Failed(getitem(idx, {})) <=> idx \notin 0..(dataset.size - 1)
        /\ Indexed => \A id \in ToSet(Lists[dataset.sample_id]) : ~Failed(get_sample(id, {}))

(***************************************************************************)
(* The batches of an epoch have, in every field, the samples in the order  *)
(* of the sampler, once each: joined fields, stacked fields, sample IDs    *)
(* and other fields describe the same samples at the same place.           *)
(***************************************************************************)
SamplesOf(field) ==
    IF "items" \in DOMAIN field THEN FlattenSeq([n \in 1..Len(field.items) |-> field.items[n].of]) ELSE field.of

BatchesAreAligned ==
    LET given == Len(loader.order) - Len(todo) - Len(batch)
    IN  pc = "epoch" =>
            \A k \in 1..Len(dataset.fields) :
                FlattenSeq([n \in 1..Len(batches) |-> SamplesOf(batches[n][k])])
                    = [n \in 1..given |-> Identity(loader.order[n])]

(***************************************************************************)
(* Whatever was done to the lists since, a sample that is read has the     *)
(* sample ID that its loaded fields were loaded for, and never more        *)
(* samples than the dataset was made with.                                 *)
(***************************************************************************)
LoadedFieldsMatchTheId ==
    (asked.by \in {"index", "sample_id"} /\ ~Failed(returned)) =>
        /\ Indexed => \A k \in 1..Len(dataset.fields) :
              dataset.fields[k].kind = "callable" => returned.sample[k].of = returned.sample[1].of
        /\ asked.by = "index" => asked.idx < dataset.size

=============================================================================
