------------------------------ MODULE SaveLoad ------------------------------
(***************************************************************************)
(* Saving and loading Labels, TensorBlock and TensorMap, to files, file    *)
(* objects, buffers and pickles, by the native code (core: io/block.rs,    *)
(* io/tensor.rs, c_api/io) or by numpy (metatensor/io).                    *)
(*                                                                         *)
(* An archive is a function of paths, each the sequence of its segments:   *)
(* "blocks/0/samples.npy" is <<"blocks", "0", "samples">>. Labels are a    *)
(* name and their count; an array is an identity with what decides whether *)
(* it can be written: its type, layout, device and whether torch tracks    *)
(* its gradients. The name of a gradient is a sequence as well, since it   *)
(* may hold a "/"; no segment of it is "gradients". The bytes of the zip   *)
(* and npy formats are left out.                                           *)
(***************************************************************************)
EXTENDS Naturals, Sequences, SequencesExt, FiniteSets, TLC

CONSTANTS
  Data,       \* what can be saved
  Places,     \* the files: records of name, ext (whether it ends in .mts) and form
  MaxOps

VARIABLES
  files,      \* the content of the files and of the file objects
  buffer,     \* the last buffer that was made
  saved,      \* what the last save to each place was of, and whether it was complete
  last,       \* the last call
  ops

vars == <<files, buffer, saved, last, ops>>

Raise(kind) == [error |-> kind]
Failed(r) == "error" \in DOMAIN r

Digit == <<"0", "1", "2", "3">>
Nothing == [type |-> "nothing"]
Archive(entries) == [kind |-> "archive", entries |-> entries]
NoFile == [kind |-> "none"]

-----------------------------------------------------------------------------
(* Writing *)

Npy(labels) == [what |-> "labels", labels |-> labels]

(* A file for an array; a native one is in C order, numpy keeps an array   *)
(* that is in Fortran order. The native code writes the header, and then   *)
(* asks for the data.                                                      *)
NpyArray(array, numpy, complete) ==
    [what |-> "array", id |-> array.id, ndim |-> array.ndim, dtype |-> array.dtype,
     fortran |-> numpy /\ array.layout = "fortran", complete |-> complete]

(* _mts_array_data: a pointer can be had of the data.                      *)
_mts_array_data(array) ==
    array.device = "cpu" /\ array.layout = "c" /\ array.dtype = "f8" /\ ~array.requires_grad

(* _array_to_numpy raises for a tensor that tracks its gradients.          *)
_array_to_numpy(array) == ~array.requires_grad

(* The files of a block in the order in which they are written: values,    *)
(* samples, components, properties unless it is a gradient, gradients in   *)
(* the order of a hash map.                                                *)
RECURSIVE BlockFiles(_, _, _, _)
BlockFiles(block, prefix, is_gradient, order) ==
    LET parameters == SelectSeq(order, LAMBDA p : p \in DOMAIN block.gradients)
    IN  << <<prefix \o <<"values">>, block.values>>, <<prefix \o <<"samples">>, block.samples>> >>
        \o [i \in 1..Len(block.components) |-> <<prefix \o <<"components", Digit[i]>>, block.components[i]>>]
        \o (IF is_gradient THEN <<>> ELSE << <<prefix \o <<"properties">>, block.properties>> >>)
        \o FlattenSeq([k \in 1..Len(parameters) |->
               BlockFiles(block.gradients[parameters[k]], prefix \o <<"gradients">> \o parameters[k], TRUE, order)])

RECURSIVE ParametersIn(_)
ParametersIn(block) ==
    DOMAIN block.gradients \union UNION {ParametersIn(block.gradients[p]) : p \in DOMAIN block.gradients}
Parameters(data) ==
    IF data.type = "block" THEN ParametersIn(data.block)
    ELSE UNION {ParametersIn(data.blocks[b]) : b \in 1..Len(data.blocks)}

(* The orders of the gradients. One is taken for all blocks of an archive: *)
(* it only shows in the block where a save fails.                          *)
Orders(data) == SetToSeqs(Parameters(data))

Files(data, order) ==
    IF data.type = "block" THEN BlockFiles(data.block, <<>>, FALSE, order)
    ELSE << <<<<"keys">>, data.keys>> >>
         \o FlattenSeq([b \in 1..Len(data.blocks) |-> BlockFiles(data.blocks[b], <<"blocks", Digit[b]>>, FALSE, order)])
AnyFiles(data) == Files(data, SetToSeq(Parameters(data)))

IsArray(x) == "layout" \in DOMAIN x
Content(x, numpy, complete) == IF IsArray(x) THEN NpyArray(x, numpy, complete) ELSE Npy(x)

AsEntries(fs, numpy, complete) ==
    [p \in {fs[i][1] : i \in 1..Len(fs)} |->
        LET i == CHOOSE i \in 1..Len(fs) : fs[i][1] = p
        IN  Content(fs[i][2], numpy, complete \/ i < Len(fs))]

Dict(fs) == [content |-> Archive(AsEntries(fs, TRUE, TRUE)), ok |-> \A i \in 1..Len(fs) : IsArray(fs[i][2]) => _array_to_numpy(fs[i][2])]

(* _tensor_to_dict and _block_to_dict, which convert all arrays before a   *)
(* file is opened, and np.savez.                                           *)
ToDict(data) == Dict(AnyFiles(data))

(* The native save: up to the first array that gives no data. The archive  *)
(* is closed when its writer is dropped, also after an error.              *)
FirstBad(fs) ==
    LET bad == {i \in 1..Len(fs) : IsArray(fs[i][2]) /\ ~_mts_array_data(fs[i][2])}
    IN  IF bad = {} THEN 0 ELSE CHOOSE i \in bad : \A j \in bad : i <= j

NativeWrite_GoesOn(fs) ==
    LET bad == FirstBad(fs)
        written == IF bad = 0 THEN fs ELSE SelectSeq(fs, LAMBDA f : ~IsPrefix(Front(fs[bad][1]), f[1]))
    IN  [content |-> Archive(AsEntries(written, FALSE, TRUE)), ok |-> bad = 0]

NativeWrite(fs) ==
    LET bad == FirstBad(fs)
    IN  IF bad = 0 THEN [content |-> Archive(AsEntries(fs, FALSE, TRUE)), ok |-> TRUE]
        ELSE [content |-> Archive(AsEntries(SubSeq(fs, 1, bad), FALSE, FALSE)), ok |-> FALSE]

SavedLabels(labels) == [content |-> [kind |-> "npy", entries |-> [p \in {<<>>} |-> Npy(labels)]], ok |-> TRUE]

(* What a save can leave, complete or not.                                 *)
Writes(data, numpy) ==
    IF data.type = "labels" THEN {SavedLabels(data.labels)}
    ELSE IF numpy THEN {ToDict(data)}
    ELSE {NativeWrite(Files(data, order)) : order \in Orders(data)}

-----------------------------------------------------------------------------
(* Reading *)

_labels_from_mts(entry) == entry.labels

(* read_data accepts complete arrays of 64-bit floats in C order; numpy    *)
(* reads any array that is complete.                                       *)
read_data(e, numpy) == e.complete /\ (numpy \/ (e.dtype = "f8" /\ ~e.fortran))

(* The names of the gradients in an archive: the segment after the prefix, *)
(* of the files called "values" (numpy) or "samples" (native).             *)
parameters_of(entries, prefix, numpy) ==
    {<<p[Len(prefix) + 2]>> :
        p \in {p \in DOMAIN entries :
                 /\ IsPrefix(prefix \o <<"gradients">>, p)
                 /\ Last(p) = IF numpy THEN "values" ELSE "samples"}}

RECURSIVE single_block(_, _, _, _)
single_block(entries, prefix, properties, numpy) ==
    IF (prefix \o <<"values">>) \notin DOMAIN entries THEN Raise("missing file")
    ELSE
    LET values == entries[prefix \o <<"values">>]
        components == [i \in 1..values.ndim - 2 |-> prefix \o <<"components", Digit[i]>>]
        needed == {prefix \o <<"samples">>} \union ToSet(components)
        parameters == parameters_of(entries, prefix, numpy)
        gradients == [p \in parameters |-> single_block(entries, prefix \o <<"gradients">> \o p, properties, numpy)]
    IN  IF ~read_data(values, numpy) \/ ~(needed \subseteq DOMAIN entries) THEN Raise("missing data")
        ELSE IF \E p \in parameters : Failed(gradients[p]) THEN Raise("gradient")
        ELSE [values |-> [id |-> values.id, ndim |-> values.ndim, dtype |-> values.dtype],
              samples |-> _labels_from_mts(entries[prefix \o <<"samples">>]),
              components |-> [i \in 1..Len(components) |-> _labels_from_mts(entries[components[i]])],
              properties |-> properties, gradients |-> gradients]

Top(entries, prefix, numpy) ==
    LET p == prefix \o <<"properties">>
    IN  IF p \notin DOMAIN entries THEN Raise("missing file")
        ELSE single_block(entries, prefix, _labels_from_mts(entries[p]), numpy)

(* _tensor_from_mts, _block_from_mts and the functions load of the core.   *)
FromArchive(content, type, numpy) ==
    IF content.kind # "archive" THEN Raise("not an archive")
    ELSE IF type = "block"
    THEN LET block == Top(content.entries, <<>>, numpy)
         IN  IF Failed(block) THEN block ELSE [type |-> "block", block |-> block]
    ELSE IF <<"keys">> \notin DOMAIN content.entries THEN Raise("missing file")
    ELSE LET keys == _labels_from_mts(content.entries[<<"keys">>])
             blocks == [b \in 1..keys.count |-> Top(content.entries, <<"blocks", Digit[b]>>, numpy)]
         IN  IF \E b \in 1..keys.count : Failed(blocks[b]) THEN Raise("block")
             ELSE [type |-> "tensor", keys |-> keys, blocks |-> blocks]

load_labels_buffer(content) ==
    IF content.kind # "npy" THEN Raise("not an array")
    ELSE [type |-> "labels", labels |-> _labels_from_mts(content.entries[<<>>])]

(* load_buffer and load_block_buffer.                                      *)
load_buffer(content, type, use_numpy) ==
    IF type = "labels" THEN load_labels_buffer(content) ELSE FromArchive(content, type, use_numpy)

-----------------------------------------------------------------------------

Init ==
    /\ files = [p \in {<<q.name, ext>> : q \in Places, ext \in BOOLEAN} |-> NoFile]
    /\ buffer = NoFile
    /\ saved = [p \in DOMAIN files \union {<<"buffer", TRUE>>} |-> Nothing]
    /\ last = [op |-> "", place |-> <<"buffer", TRUE>>, type |-> "", numpy |-> FALSE, form |-> "", result |-> Nothing]
    /\ ops = 0

Saved(data, numpy, ok) == [type |-> data.type, data |-> data, numpy |-> numpy, complete |-> ok]

(* Without an extension, the native code saves under name.mts; an object   *)
(* has no name.                                                            *)
PathOf(place, numpy) == <<place.name, place.ext \/ (~numpy /\ place.form # "object")>>

Call(op, place, type, numpy, form, result) ==
    /\ ops' = ops + 1
    /\ last' = [op |-> op, place |-> place, type |-> type, numpy |-> numpy, form |-> form, result |-> result]

SaveResult(ok, numpy) == IF ok THEN Nothing ELSE Raise(IF numpy THEN "RuntimeError" ELSE "MetatensorError")

(* _save_labels, _save_block and _save_tensor. Labels are always saved by  *)
(* the native code. It creates a file, whose old content is lost, before   *)
(* anything is written; a file object gets the whole buffer at the end.    *)
Save(place, data, use_numpy) ==
    LET numpy == use_numpy /\ data.type # "labels"
        path == PathOf(place, numpy)
    IN  \E written \in Writes(data, numpy) :
            LET kept == ~written.ok /\ (numpy \/ place.form = "object")
            IN  /\ Call("save", path, data.type, numpy, place.form, SaveResult(written.ok, numpy))
                /\ files' = IF kept THEN files ELSE [files EXCEPT ![path] = written.content]
                /\ saved' = IF kept THEN saved ELSE [saved EXCEPT ![path] = Saved(data, numpy, written.ok)]
                /\ UNCHANGED buffer

(* load_labels with a pathlib.Path reads a variable before it is assigned. *)
Load(place, type, use_numpy) ==
    LET path == <<place.name, place.ext>>
    IN  /\ Call("load", path, type, use_numpy, place.form,
                IF type = "labels" /\ place.form = "path" THEN Raise("UnboundLocalError")
                ELSE load_buffer(files[path], type, use_numpy))
        /\ UNCHANGED <<files, buffer, saved>>

(* save_buffer; the buffer of a failed call is never seen.                 *)
SaveBuffer(data, use_numpy) ==
    LET numpy == use_numpy /\ data.type # "labels"
    IN  \E written \in Writes(data, numpy) :
            /\ Call("save_buffer", <<"buffer", TRUE>>, data.type, numpy, "buffer", SaveResult(written.ok, numpy))
            /\ buffer' = IF written.ok THEN written.content ELSE buffer
            /\ saved' = IF written.ok THEN [saved EXCEPT ![<<"buffer", TRUE>>] = Saved(data, numpy, TRUE)] ELSE saved
            /\ UNCHANGED files

LoadBuffer(type, use_numpy) ==
    /\ Call("load", <<"buffer", TRUE>>, type, use_numpy, "buffer", load_buffer(buffer, type, use_numpy))
    /\ UNCHANGED <<files, buffer, saved>>

(* TensorMap.load_buffer and TensorBlock.load_buffer do not pass use_numpy on. *)
LoadBufferMethod(type, use_numpy) ==
    /\ Call("load_method", <<"buffer", TRUE>>, type, use_numpy, "buffer", load_buffer(buffer, type, FALSE))
    /\ UNCHANGED <<files, buffer, saved>>

(* __reduce_ex__ and _from_pickle: always the native code.                 *)
Pickle(data) ==
    \E written \in Writes(data, FALSE) :
        /\ Call("pickle", <<"buffer", TRUE>>, data.type, FALSE, "pickle",
                [of |-> data, ok |-> written.ok,
                 got |-> IF written.ok THEN load_buffer(written.content, data.type, FALSE) ELSE Raise("MetatensorError")])
        /\ UNCHANGED <<files, buffer, saved>>

Types == {"labels", "block", "tensor"}

Operation ==
    \/ \E place \in Places, data \in Data, numpy \in BOOLEAN : Save(place, data, numpy)
    \/ \E place \in Places, type \in Types, numpy \in BOOLEAN : Load(place, type, numpy)
    \/ \E data \in Data, numpy \in BOOLEAN : SaveBuffer(data, numpy)
    \/ \E type \in Types, numpy \in BOOLEAN : LoadBuffer(type, numpy)
    \/ \E type \in {"block", "tensor"}, numpy \in BOOLEAN : LoadBufferMethod(type, numpy)
    \/ \E data \in Data : Pickle(data)

Next ==
    \/ ops < MaxOps /\ Operation
    \/ ops = MaxOps /\ UNCHANGED vars

Spec == Init /\ [][Next]_vars

-----------------------------------------------------------------------------

(* The types of the files.                                                 *)
TypeOK ==
    /\ \A p \in DOMAIN files : files[p].kind \in {"none", "npy", "archive"}
    /\ \A p \in DOMAIN files : files[p].kind = "npy" => DOMAIN files[p].entries = {<<>>}
    /\ buffer.kind # "none" <=> saved[<<"buffer", TRUE>>].type # "nothing"

(* The gradients whose name holds no "/".                                  *)
Found(block) == {p \in DOMAIN block.gradients : Len(p) = 1}

(* What can come back of what was saved: everything but the layout and the *)
(* device of the arrays, and gradients with a "/" in their name.           *)
RECURSIVE Plain(_)
Plain(block) ==
    [values |-> [id |-> block.values.id, ndim |-> block.values.ndim, dtype |-> block.values.dtype],
     samples |-> block.samples, components |-> block.components, properties |-> block.properties,
     gradients |-> [p \in Found(block) |-> Plain(block.gradients[p])]]
PlainData(data) ==
    CASE data.type = "labels" -> data
      [] data.type = "block" -> [type |-> "block", block |-> Plain(data.block)]
      [] data.type = "tensor" -> [type |-> "tensor", keys |-> data.keys,
                                  blocks |-> [b \in 1..Len(data.blocks) |-> Plain(data.blocks[b])]]

ArraysOf(data) ==
    IF data.type = "labels" THEN {} ELSE {f[2] : f \in {f \in ToSet(AnyFiles(data)) : IsArray(f[2])}}
PlainNames(data) == data.type = "labels" \/ \A p \in Parameters(data) : Len(p) = 1

(* A block that lacks gradients, and has none of the arrays of a set.      *)
RECURSIVE LacksGradients(_, _, _)
LacksGradients(block, all, bad) ==
    /\ [block EXCEPT !.gradients = all.gradients] = all
    /\ block.values.id \notin bad
    /\ DOMAIN block.gradients \subseteq DOMAIN all.gradients
    /\ \A p \in DOMAIN block.gradients : LacksGradients(block.gradients[p], all.gradients[p], bad)

(* The data, but the last block lacks the gradients that were not written. *)
LacksLastGradients(result, data) ==
    LET all == PlainData(data)
        bad == {a.id : a \in {a \in ArraysOf(data) : ~_mts_array_data(a)}}
    IN  IF data.type = "block" THEN LacksGradients(result.block, all.block, bad)
        ELSE /\ [result EXCEPT !.blocks = all.blocks] = all /\ all.blocks # <<>>
             /\ Front(result.blocks) = Front(all.blocks)
             /\ \A b \in DOMAIN all.blocks : LacksGradients(result.blocks[b], all.blocks[b], bad)

(* Native code reads what native code wrote, and of what numpy wrote the   *)
(* arrays of 64-bit floats in C order; numpy reads everything. Nobody      *)
(* finds a gradient with a "/" in its name.                                *)
CanLoad(s, numpy) ==
    /\ s.complete /\ PlainNames(s.data)
    /\ s.type = "labels" \/ numpy \/ ~s.numpy \/ \A a \in ArraysOf(s.data) : a.dtype = "f8" /\ a.layout # "fortran"

(* "Load a previously saved TensorMap": a load that succeeds returns what  *)
(* the last save to this place wrote, whichever code wrote and reads it,   *)
(* except for gradients with a "/" in their name.                          *)
(* If that save failed half way there is still an archive, which lacks the *)
(* gradient that could not be written and those after it. Only native code *)
(* reads it, and only when it failed in the last block: everything but     *)
(* these gradients is as in what was to be saved.                          *)
LoadsWhatWasSaved ==
    last.op \in {"load", "load_method"} /\ ~Failed(last.result) =>
        LET s == saved[last.place]
        IN  /\ s.type = last.type
            /\ s.complete => last.result = PlainData(s.data)
            /\ ~s.complete => ~last.numpy /\ LacksLastGradients(last.result, s.data)

(* What was saved completely can be loaded again, if the names of the      *)
(* gradients hold no "/".                                                  *)
SavedCanBeLoaded ==
    last.op = "load" /\ saved[last.place].type = last.type /\ CanLoad(saved[last.place], last.numpy)
        => ~Failed(last.result) \/ (last.type = "labels" /\ last.form = "path")

(* Pickling gives back an equal object, or raises when it is pickled; the  *)
(* names of gradients hold no "/".                                         *)
PicklesAreEqual ==
    last.op = "pickle" /\ PlainNames(last.result.of) =>
        /\ Failed(last.result.got) <=> ~last.result.ok
        /\ ~Failed(last.result.got) => last.result.got = PlainData(last.result.of)

=============================================================================
