------------------------------ MODULE MCPython -------------------------------
(***************************************************************************)
(* The Python packages around the tensor maps. A behaviour is one of one   *)
(* part, and the variables of the other parts are off:                     *)
(*                                                                         *)
(* "files": saving and loading labels, blocks and tensor maps, natively    *)
(* and with numpy, to files with and without the extension, path objects,  *)
(* file objects and buffers; gradients of gradients, arrays that give no   *)
(* data or in an order that only one side reads, in blocks, gradients and  *)
(* gradients of gradients, and names of gradients with a "/".              *)
(* "selection": blocks chosen by position, keywords, dictionaries, entries *)
(* and labels, from keys with up to four entries.                          *)
(* "datasets": datasets of three samples, read by index, by sample ID and  *)
(* in epochs; "careless": the user changes the lists that they were made   *)
(* from.                                                                   *)
(* "origins": two threads that register the origins of arrays.             *)
(***************************************************************************)
EXTENDS PyLabels, DataOrigins

VARIABLES
    part, last,
    files, buffer, saved,
    keys, loop,
    lists, dataset, pc, loader, todo, batch, batches, asked, returned

-----------------------------------------------------------------------------
(* Files *)

Saved(id, ndim, dtype, layout, device) ==
    [id |-> id, ndim |-> ndim, dtype |-> dtype, layout |-> layout, device |-> device, requires_grad |-> FALSE]
Good(id, ndim) == Saved(id, ndim, "f8", "c", "cpu")
Tracked(id, ndim) == [Good(id, ndim) EXCEPT !.requires_grad = TRUE]
SavedLabels(name, n) == [labels |-> name, count |-> n]
Leaf == [p \in {} |-> Good("none", 2)]
SavedBlock(values, components, gradients) ==
    [values |-> values, samples |-> SavedLabels("s", 2), components |-> components, properties |-> SavedLabels("p", 2), gradients |-> gradients]
SavedGradient(values, components, gradients) == [SavedBlock(values, components, gradients) EXCEPT !.samples = SavedLabels("g", 3)]
SavedMap(blocks) == [type |-> "tensor", keys |-> SavedLabels("k", Len(blocks)), blocks |-> blocks]
One(p, g) == [q \in {<<p>>} |-> g]

Simple == SavedBlock(Good("v", 3), <<SavedLabels("c", 3)>>, Leaf)
Nested == SavedBlock(Good("w", 2), <<>>,
            [q \in {<<"x">>, <<"cell">>} |->
               IF q = <<"x">> THEN SavedGradient(Good("gx", 3), <<SavedLabels("xyz", 3)>>, One("x", SavedGradient(Good("gxx", 4), <<SavedLabels("abc", 3), SavedLabels("xyz", 3)>>, Leaf)))
               ELSE SavedGradient(Good("gc", 4), <<SavedLabels("a", 3), SavedLabels("b", 3)>>, Leaf)])
Strided == SavedBlock(Saved("t", 2, "f8", "other", "cuda"), <<>>, Leaf)

(* Gradients that native code can not write: one of two, in the first      *)
(* block, the last and the only one, and the gradient of a gradient.       *)
BadGradient(array) ==
    SavedBlock(Good("u", 2), <<>>,
        [q \in {<<"x">>, <<"cell">>} |->
            SavedGradient(IF q = <<"x">> THEN array ELSE Good("uc", 2), <<>>, Leaf)])
BadNested ==
    SavedBlock(Good("n", 2), <<>>, One("x", SavedGradient(Good("nx", 2), <<>>, One("x", SavedGradient(Tracked("nxx", 2), <<>>, Leaf)))))

(* Names with a "/": "x/y" next to "x", and alone.                         *)
SlashNames(names) == SavedBlock(Good("l", 2), <<>>, [q \in names |-> SavedGradient(Good("lx", 2), <<>>, Leaf)])

MCData == {[type |-> "labels", labels |-> SavedLabels("s", 2)], SavedMap(<<>>),
           SavedMap(<<Simple, Nested>>), SavedMap(<<Simple, Strided>>),
           SavedMap(<<BadGradient(Saved("ux", 2, "f4", "c", "cpu")), Simple>>), SavedMap(<<Simple, BadGradient(Tracked("ux", 2))>>),
           [type |-> "block", block |-> BadGradient(Saved("ux", 2, "f8", "fortran", "cpu"))], [type |-> "block", block |-> BadNested],
           [type |-> "block", block |-> SlashNames({<<"x">>, <<"x", "y">>})], SavedMap(<<SlashNames({<<"x", "y">>})>>)}

MCPlaces == {[name |-> "a", ext |-> TRUE, form |-> "str"], [name |-> "a", ext |-> FALSE, form |-> "str"],
             [name |-> "a", ext |-> TRUE, form |-> "path"], [name |-> "file", ext |-> TRUE, form |-> "object"]}

-----------------------------------------------------------------------------
(* Selections *)

MCKeysSets ==
    {Labels(<<"a", "b">>, v) : v \in { << <<0, 0>>, <<1, 0>>, <<0, 1>>, <<1, 2>> >>, << <<2, 1>>, <<0, 1>> >>, << <<1, 0>> >>, <<>> }}
    \union {Labels(<<"a">>, << <<1>>, <<0>>, <<2>> >>), Labels(<<"b">>, << <<0>> >>)}

NamesAndValues ==
    {[names |-> <<n>>, values |-> <<v>>] : n \in {"a", "b", "c"}, v \in 0..3}
    \union {[names |-> n, values |-> <<v, w>>] : n \in {<<"a", "b">>, <<"b", "a">>, <<"b", "c">>}, v \in 0..2, w \in 0..2}

MCSelections ==
    {[type |-> t, names |-> s.names, values |-> s.values, integers |-> TRUE] : t \in {"none", "dict", "entry"}, s \in NamesAndValues}
    \union {[type |-> "labels", labels |-> NewLabels(s.names, <<s.values>>)] : s \in NamesAndValues}
    \union {[type |-> "labels", labels |-> Labels(<<"a">>, << <<0>>, <<1>> >>)], [type |-> "labels", labels |-> Labels(<<"a">>, <<>>)],
            [type |-> "none", names |-> <<>>, values |-> <<>>, integers |-> TRUE], [type |-> "dict", names |-> <<"a">>, values |-> <<1>>, integers |-> FALSE]}
    \union {[type |-> "int", ids |-> <<i>>] : i \in -1..4}
    \union {[type |-> "ints", ids |-> ids] : ids \in {<<0>>, <<1, 0>>, <<0, 5>>, <<>>}}

-----------------------------------------------------------------------------
(* Datasets *)

Item(type, x, form, labels) == [type |-> type, of |-> <<x>>, form |-> form, labels |-> labels, tensor |-> FALSE]
Keys(x) == IF x \in {0, 10} THEN {"k1"} ELSE {"k1", "k2"}

Id(x) == Item("id", x, {}, {})
MapOf(x) == Item("TensorMap", x, Keys(x), {x})
SameLabels(x) == Item("TensorMap", x, Keys(x), {0})
TensorOf(x) == Item("Tensor", x, Keys(x), {})
Plain(type, x) == Item(type, x, {}, {})

Three == <<10, 20, 30>>
MCLists ==
    [ids |-> [k \in 1..3 |-> Id(Three[k])], twice |-> <<Id(10), Id(20), Id(10)>>, none |-> <<>>,
     maps |-> [k \in 1..3 |-> MapOf(Three[k])], maps0 |-> [k \in 1..3 |-> SameLabels(k - 1)],
     tensors |-> [k \in 1..3 |-> TensorOf(Three[k])],
     short |-> <<Plain("int", 10), Plain("int", 20)>>,
     mixed |-> <<Plain("int", 10), Plain("bool", 20), Plain("int", 30)>>,
     bools |-> <<Plain("bool", 0), Plain("int", 1), Plain("int", 2)>>]

MCLoad(f, arg) == IF f.name = "lazy" THEN MapOf(arg) ELSE Plain("int", arg)

List(name, l) == [name |-> name, kind |-> "list", list |-> l]
Function(name) == [name |-> name, kind |-> "callable"]
Other(name) == [name |-> name, kind |-> "other"]

Dataset(n, data) == [class |-> "Dataset", size |-> n, data |-> data]
IndexedDataset(ids, data, from_dict) ==
    [class |-> "IndexedDataset", from_dict |-> from_dict, sample_id |-> ids, data |-> data]

MCArguments ==
    {Dataset({}, <<List("x", "maps0"), Function("lazy"), List("y", "bools")>>),
     Dataset({3}, <<Function("lazy"), Function("z")>>), Dataset({}, <<Function("lazy")>>),
     Dataset({2}, <<List("x", "maps0")>>), Dataset({}, <<List("x", "maps0"), List("y", "short")>>),
     Dataset({3}, <<Other("x")>>), Dataset({}, <<List("x", "mixed")>>), Dataset({}, <<List("x", "none")>>),
     Dataset({}, <<List("sample_id", "ids")>>)}
    \cup {IndexedDataset("ids", <<List("x", "maps"), List("t", "tensors"), Function("lazy")>>, b) : b \in BOOLEAN}
    \cup {IndexedDataset("ids", <<List("sample_id", "short")>>, b) : b \in BOOLEAN}
    \cup {IndexedDataset("ids", <<List("sample_id", "tensors"), Function("z")>>, TRUE),
          IndexedDataset("ids", <<List("y", "short")>>, FALSE), IndexedDataset("ids", <<Function("size")>>, TRUE),
          IndexedDataset("twice", <<Function("z")>>, FALSE)}

MCLoaders ==
    [batch_size : {2, 3}, collate : {"group_and_join"}, all_fields : {TRUE}, fields_to_join : {{}},
     different_keys : {"error", "union"}, remove_tensor_name : BOOLEAN]
    \cup [batch_size : {2, 3}, collate : {"group_and_join"}, all_fields : {FALSE}, fields_to_join : {{"x", "sample_id"}},
          different_keys : {"error", "union"}, remove_tensor_name : BOOLEAN]
    \cup [batch_size : {2}, collate : {"group"}, all_fields : {TRUE}, fields_to_join : {{}},
          different_keys : {"error"}, remove_tensor_name : {FALSE}]
    \cup [batch_size : {1}, collate : {"iter"}, all_fields : {TRUE}, fields_to_join : {{}},
          different_keys : {"error"}, remove_tensor_name : {FALSE}]

(* For users who change the lists. *)
FewArguments ==
    {Dataset({}, <<List("x", "maps0"), Function("lazy")>>),
     IndexedDataset("ids", <<List("x", "maps"), Function("lazy")>>, TRUE)}
FewLoaders ==
    [batch_size : {2}, collate : {"group"}, all_fields : {TRUE}, fields_to_join : {{}},
     different_keys : {"error"}, remove_tensor_name : {FALSE}]

-----------------------------------------------------------------------------
(* Origins: the name of one does not fit in the buffer that is tried first. *)

MCLength == [n \in {"numpy", "torch", "rust", "julia", "unregistered origin"} |-> IF n = "rust" THEN 13 ELSE 1]

-----------------------------------------------------------------------------

F == INSTANCE SaveLoad WITH Data <- MCData, Places <- MCPlaces, MaxOps <- 3
S == INSTANCE BlockSelection WITH KeysSets <- MCKeysSets, Selections <- MCSelections
D == INSTANCE Datasets WITH
    Lists <- MCLists, Arguments <- MCArguments, Loaders <- MCLoaders, Load <- MCLoad, Careless <- FALSE
Careless == INSTANCE Datasets WITH
    Lists <- MCLists, Arguments <- FewArguments, Loaders <- FewLoaders, Load <- MCLoad, Careless <- TRUE

file_vars == <<files, buffer, saved>>
selection_vars == <<keys, loop>>
dataset_vars == <<lists, dataset, pc, loader, todo, batch, batches, asked, returned>>
origin_vars ==
    <<registered_origins, mutex, STORAGE_ORIGIN, ADDITIONAL_ORIGINS, task, given, wrapped, outcome>>
python_vars == <<part, last, ops, file_vars, selection_vars, dataset_vars, origin_vars>>

FilesOff == files = 0 /\ buffer = 0 /\ saved = 0
SelectionOff == keys = 0 /\ loop = 0
DatasetsOff ==
    /\ lists = 0 /\ dataset = 0 /\ pc = 0 /\ loader = 0 /\ todo = 0 /\ batch = 0
    /\ batches = 0 /\ asked = 0 /\ returned = 0

PythonInit ==
    /\ Init
    /\ \/ part = "files" /\ F!Init /\ SelectionOff /\ DatasetsOff
       \/ part = "selection" /\ S!Init /\ FilesOff /\ DatasetsOff
       \/ /\ \/ part = "datasets" /\ D!Init
             \/ part = "careless" /\ Careless!Init
          /\ last = 0 /\ FilesOff /\ SelectionOff
       \/ part = "origins" /\ last = 0 /\ FilesOff /\ SelectionOff /\ DatasetsOff

InOrigins == part = "origins" /\ UNCHANGED <<part, last, file_vars, selection_vars, dataset_vars>>

PythonNext ==
    \/ part = "files" /\ F!Next /\ UNCHANGED <<part, selection_vars, dataset_vars, origin_vars>>
    \/ part = "selection" /\ S!Next /\ UNCHANGED <<part, ops, file_vars, dataset_vars, origin_vars>>
    \/ /\ \/ part = "datasets" /\ D!Next
          \/ part = "careless" /\ Careless!Next
       /\ UNCHANGED <<part, last, ops, file_vars, selection_vars, origin_vars>>
    \/ InOrigins /\ Next

(* A thread that registers or converts goes on; nothing makes one start an operation. *)
PythonSpec ==
    /\ PythonInit /\ [][PythonNext]_python_vars
    /\ \A t \in Threads : WF_python_vars(InOrigins /\ Step(t))

-----------------------------------------------------------------------------

(***************************************************************************)
(* What is loaded is what the last save to that place wrote, whichever     *)
(* code wrote and reads it, but for gradients with a "/" in their name; of *)
(* a native save that failed at a gradient of the last block, it is the    *)
(* data without the gradients that were not written (io/block.rs, io of    *)
(* the Python package). What was saved completely can be loaded by the     *)
(* code that knows its format, and pickles are equal, if no name has a "/". *)
(***************************************************************************)
LoadsWhatWasSaved ==
    part = "files" => F!TypeOK /\ F!LoadsWhatWasSaved /\ F!SavedCanBeLoaded /\ F!PicklesAreEqual

(***************************************************************************)
(* However a selection is written, block and blocks of a TensorMap give    *)
(* the blocks whose key has its values; a loop visits all of them once     *)
(* (tensor.py, mod.rs).                                                    *)
(***************************************************************************)
SelectionIsRight == part = "selection" => S!TypeOK /\ S!SelectionIsRight /\ S!LoopVisitsAll

(***************************************************************************)
(* A sample has all its fields from one structure, every sample of a       *)
(* dataset can be read, and the fields of a batch have the same samples at *)
(* the same place (dataset.py, collate.py). If lists are changed behind    *)
(* the dataset, loaded fields still go with the sample ID.                 *)
(***************************************************************************)
SamplesStayTogether ==
    /\ part = "datasets" =>
          D!TypeOK /\ D!FieldsAreOfOneSample /\ D!AllSamplesCanBeRead /\ D!BatchesAreAligned
    /\ part = "careless" => Careless!LoadedFieldsMatchTheId
=============================================================================
