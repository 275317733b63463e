# A TLA+ model of metatensor

metatensor stores the sparse, labelled arrays of atomistic machine learning. This directory
holds TLA+ modules that model its core, TLC configurations that check them on small
instances, and theorems checked by TLAPS.

## 1. The system

A `TensorMap` has keys (`Labels`) and one `TensorBlock` per key. A block has an array of
values, labels for its samples, components and properties, and named gradients, which are
blocks themselves. The core is a Rust library behind a C API; Python, C++, TorchScript,
Rust and Julia use it through that API, and give it their arrays as tables of callbacks.

| Component | State | Operations | Interactions |
|---|---|---|---|
| Labels (`metatensor-core/src/labels.rs`) | names, entries, a lazily filled map from entries to positions, a user data pointer | construction, `position`, `union`, `intersection`, `select`, user data | results become operands of later calls; handles are shared between languages and threads |
| TensorBlock (`blocks.rs`) | values, samples, components, properties, gradients in a hash map | construction, `add_gradient`, `components_to_properties`, copy | calls array callbacks that can fail |
| TensorMap (`tensor/`) | keys, vector of blocks | construction, `keys_to_properties`, `keys_to_samples`, `components_to_properties`, `blocks_matching`, copy | consumes the blocks it is built from; calls the callbacks |
| C API (`c_api/`) | raw pointers to boxes; reference counts of Labels; a thread-local error | creation, views, moves, frees, `mts_last_error` | pointers are owned by the caller, or point inside of another object; callbacks run in the middle of calls |
| Python classes (`python/metatensor_core`) | a pointer and a parent per object; the table of live array wrappers; the saved exception of a callback; numbers of data origins | all of the above, selection of blocks, garbage collection | decide who frees what |
| Serialization (`io/`, `c_api/io/`) | zip archive of npy files, in a file or in a buffer of the caller | save, load | the buffer grows through the caller's `realloc` |
| Data origins (`data.rs`) | registry of names behind a mutex | register, look up | shared by all threads and libraries |
| metatensor-torch: data | Labels that carry their tensor as user data, blocks and maps with devices and types | the same operations, `to`, loads | the user data of core Labels is shared between holders |
| metatensor-torch: atomistic | a `System` with neighbor lists and data; the module, requests and units of a model | setters, `to`, wrapping and calling a model, neighbor lists of the ASE calculator | the engine and the module share Systems and outputs |
| metatensor-operations | a global switch of checks; else none | join, split, slice, sort, dimensions, comparisons, reductions, arithmetic | built on the core operations, applied one after the other |
| metatensor-learn | datasets, neural network modules | indexing, collation | built on the two above |

What is hard to get right here: labels and numbers are moved separately and must stay
together (merging blocks, moving components, translating the positions that gradients have as
samples); results of set operations are built without checking what construction checks;
memory is owned by objects of another language whose order of deletion is arbitrary, and
given up before the call that takes it, which can fail; the buffer that an archive is written
to is reallocated between writes and seeks; callbacks can fail between two steps; messages and
exceptions are saved in one place and read in another, with other calls and threads in between;
units are converted in place on data that others still hold.
`PROJECT.json` lists these places one by one under "hazards", each with the properties aimed
at it.

What makes each part correct:

- Labels: set operations return exactly the right entries, in order, once each, with
  mappings and positions that agree with them.
- Blocks: shapes, labels and gradients agree after any sequence of calls; a failed operation
  changes nothing.
- Tensor maps: a number is described by the same labels before and after each operation.
- Ownership: nothing is freed twice or used after it is freed, and everything is freed.
- Serialization: the buffer behaves as a file does, and never writes outside of itself; what is
  loaded is what was saved, less the gradients that a failed save did not write.
- Errors: an exception has the message and the cause of its own call.
- Operations: each number keeps its labels, or is the sum, mean, derivative it should be, also
  for sparse gradients, blocks without samples and results of earlier operations.
- Atomistic models: lists, positions and outputs are in the units that each side expects.
- Datasets: all fields of a sample stay together.

## 2. Modules and the code

| Module | Models | State | Actions |
|---|---|---|---|
| `LabelsOps` | `labels.rs`, construction and set operations | the operation in progress with its operands, loop counter, partial result and mappings; the Labels that the last operation returned | one per call, per loop iteration and per return |
| `ByteStream` | what a writer expects of a file | bytes, cursor, status, the size the caller knows | write, seek, end of a call with or without error |
| `ExternalBuffer` | `c_api/io/mod.rs` and its use by the `_save_buffer` functions | allocation, `len`, `current`, locals of `write`, the step of the call, positions kept by the zip writer | growth step by step, `realloc` that succeeds or fails, copy, seek, return |
| `Ownership` | `c_api/blocks.rs`, `c_api/tensor.rs`, `block.py`, `tensor.py` | where each block is and how often it was moved; address, parent and class of each Python object; what the user holds | one per call, release, `__del__` |
| `LabelsData` | Labels as plain data, shared by many modules | none | none |
| `MoveKeys` | `tensor/keys_to_properties.rs`, `keys_to_samples.rs`, `utils.rs` and their checks in `tensor/mod.rs` | the arguments, the finished blocks, the block being filled and the next block to move data from | the checks, one action per group of blocks, per movement of values and per movement of gradients |
| `Blocks` | `blocks.rs`, `components_to_properties` of `tensor/mod.rs`, array callbacks of `array.py` | loose blocks and the blocks of a map, with their gradients as a tree and arrays as flat data with a shape; the clone a call works on | construction, `add_gradient`, creation of a map, the move of components block by block, with an array that may fail at each |
| `PyLabels`, `TensorData` | `labels.py`, and blocks and maps as plain data with the checks of their constructors | none | none: operators for the modules below |
| `Slicing`, `Reordering`, `Metadata` | operations: `slice`, `split`, `filter_blocks`, `drop_blocks`, `remove_gradients`; `sort`, `manipulate_dimension`, `*_like`; `equal`, `allclose`, `equal_metadata`, `unique_metadata` | none | none: one operator per function |
| `Pipeline` | programs made of the operations above | the tensor map, the last call with its arguments and result | one per group of operations |
| `Field` | arithmetic modulo a prime, for arrays | none | none |
| `Reducing` | `reduce_over_samples.py` | as `Pipeline` | sum, mean, variance, standard deviation |
| `Join` | `join.py`, on top of the steps of `MoveKeys` | arguments, tensor maps with common keys, those of `MoveKeys` | the call, stacking, each step of `MoveKeys`, the end |
| `Arithmetic` | `add`, `subtract`, `multiply`, `divide`, `pow`, `abs`, `dot`, `solve`, `lstsq` | two tensor maps, the last call | one per operation |
| `Checks` | `_checks.py` | the global switch, a stack of `with` statements per thread; whether those of two threads ever overlapped | permanent change, enter, leave, an operation that raises |
| `Errors` | `c_api/status.rs`, `status.py`, `utils.py`, `io/_utils.py` | per thread: a stack of calls, the message; the saved exception; whether something disturbed it | call, callback, return, check, reading of the message |
| `DataOrigins` | `data.rs`, `data/array.py`, `data/extract.py` | the registry and its lock, the numbers kept in Python, the registered classes, a program counter per thread | each step of each operation |
| `ArrayWrappers` | `data/array.py`: `_KNOWN_ARRAY_WRAPPERS` | the table, live addresses, the arrays of each block | make, create, copy, destroy, with failures |
| `BlockSelection` | `tensor.py`: `block`, `blocks`, `__getitem__`, `_normalize_selection`; `blocks_matching` | keys, the selection and its result, the loop | one per method |
| `SaveLoad` | `metatensor/io`, `io/block.rs`, `io/tensor.rs`, pickling | archives by place, the last save and load | save and load by the native code and by numpy, failures half-way |
| `LabelsHandles` | `labels.rs` and `c_api/labels.rs` (reference counts, user data), torch `labels.cpp` | counts and user data of each `Arc`, the tensors, holders and blocks, locals of each thread | each access to an `Arc` or a tensor |
| `TorchBlocks` | torch `block.cpp`, `tensor.cpp`, `read_single_block` | objects with devices, types, numbers and gradients; a block is a function from the path of a gradient (parameter, parameter of that gradient...) to its array | construction, `add_gradient`, `to`, `copy`, `load`, moves of keys |
| `System` | `atomistic/system.cpp` | Systems and the last call | constructor, setters, `add_neighbor_list`, `add_data`, `to` |
| `AtomisticModel` | `atomistic/model.py`, `outputs.py`, units of `model.cpp`; uses `System` | units of the modules' options, the wrapped model, the call in progress, outputs, the Systems of the engine | the constructor one request at a time, engine changes, `forward` in four steps |
| `NeighborLists` | `_compute_ase_neighbors`, `NeighborsAutograd` | positions, cell, pairs, samples and distances, gradients | find, compute, move, backward |
| `Datasets` | `learn/data` | lists of the user, dataset, batch and batches of an epoch | constructors, reads, batches, changes of lists |

The `map` of `PROJECT.json` gives the lines behind each definition. `*Proofs` modules hold the
theorems, `MC*` modules the instances.

**LabelsOps.** Rust `usize` counters become naturals, entries are sequences of values and the
positions map is a function that may be absent ("filled" is the `OnceCell`). A call takes its
operands from `Inputs` or from the result of the previous call, because results skip the
check for unique entries; a chain of calls can go on forever.

**ExternalBuffer.** A byte says which chunk it comes from. The zip writer is external: the
model lets it write a local header, chunks of data, seek back to rewrite the header, and write
the directory, which is the order in which the `zip` crate uses its writer. `realloc` belongs
to the caller: it may fail at any call.

**Ownership.** An address is a block together with how often it was moved, so a stale address
is never mistaken for a fresh one. `Careless` allows the calls that Python raises an exception
for half-way. `GrowsAt` says at which sizes a hash map of gradients moves its content. What
following an invalid address does is undefined; no action follows one, and the properties
say when one exists.

**MoveKeys** and **Blocks** follow each number: arrays hold a different value in each cell, and
"meaning" is the relation between values and the labels of their cells (in `Blocks`, the names
of dimensions with their values, so that the order of axes does not matter).

**Operations.** A function either returns a value or a record with the type of the exception it
raises, so that the next call sees what the program would see. Arrays are functions of sample,
component and property; all component axes stand for one. `Pipeline` checks a result against
what the operation promises of each number, not against the code again. `Reducing` and
`Arithmetic` compute in the integers modulo a prime: the rules of derivatives hold there
exactly, and a gradient that is wrong is different. `Reducing` compares gradients with the
derivative of the definition of mean or variance; `Arithmetic` evaluates values as dual numbers.

**Threads.** In `Errors`, `DataOrigins`, `ArrayWrappers` and `LabelsHandles` threads interleave
between any two accesses to what they share. The interpreter lock is given up in every call of
the library, so Python code is no more atomic than that.

**SaveLoad.** An archive is a function from paths to labels or arrays, without the bytes of zip
and npy. The properties compare what was saved last with what a load returns, for all kinds of
places and for the two implementations (native and numpy) in any order over each other. Native
code writes block by block, the gradients of a block in the order of a hash map, until an array
gives no data, and what it wrote is an archive; numpy converts all arrays before it opens the
file. `saved` keeps whether the last save was complete.

**System** and **AtomisticModel** keep of a tensor its type, its device and the power of the
conversion factor that it was multiplied by, so that a forgotten or repeated conversion shows.
A call of the model has one System: `_check_inputs` also compares the types and devices of several
(`model.py:715`), which is not modelled.
Outputs are objects that the module may return twice.

**Datasets.** An item says of which samples it is. The sampler and the loop of `DataLoader` are
torch's (external).

## 3. What TLC checks

Components that do not call each other are checked in one run but not at the same time: the `MC`
module of the run has the variables of all of them and a variable `part`. A behaviour starts
in one part, takes only the steps of that part, and the variables of the other parts keep their
first value, or one that means "off". The components with theorems are extended by their `MC`
module (`MCThreads` extends `LabelsHandles`, `Errors`, `ArrayWrappers` and `Checks`, `MCPython`
extends `DataOrigins`, `MCTensorMaps` extends `Join` and so `MoveKeys`, `MCTorch` extends `NeighborLists`, `System`, `AtomisticModel` and `TorchBlocks`), so
that a run and a theorem speak of the same definition and TLC evaluates the assumptions of the proofs; their names
(`HandlesInit`, `ErrorsNext`, `SystemSpec`...) are prefixed for that. The others are instances.
Where a component does use another one, the module itself composes them: `Join` makes the steps of
`MoveKeys`, `AtomisticModel` those of its own instance of `System`, and `ExternalBuffer` refines `ByteStream`.

| Run | Parts | Properties |
|---|---|---|
| `labels_ops` | `LabelsOps` | `UnionCorrect`, `IntersectionCorrect`, `SelectCorrect` against set-theoretic definitions; `SelectNeverOverflows`; `ResultsAreLabels` |
| `external_buffer` | `ExternalBuffer` | `WritesInBounds`, `CountIsAllocated`, the refinement `IsByteStream`, and the liveness `SaveReturns` |
| `ownership` | `Ownership`, any user | `NoInvalidFree`, `MapViewsAreValid`, `InvalidViewsAreExplained` |
| `ownership_leak` | `Ownership`, a user that does not reuse moved blocks | `NoLeak`, and the liveness `EverythingIsFreed` |
| `tensor_maps` | "move": `MoveKeys`; "join": `Join` with `MoveKeys`; "blocks": `Blocks` | `MeaningIsKept`, `ResultIsValid`, `SamplesAreOrdered`; `JoinIsRight`; `BlocksStayValid`, and the action property `ComponentsKeepMeaning` for at most two components |
| `operations` | "pipeline": `Pipeline` with `Slicing`, `Reordering`, `Metadata`; "reduce": `Reducing`; "arithmetic": `Arithmetic` | `OperationsKeepMeaning`, `SortSorts`, `ComparisonsAgree`; `ReductionsAreExact`; `DerivativesAreExact` |
| `threads` | "handles": `LabelsHandles`; "errors": `Errors`; "wrappers": `ArrayWrappers`; "checks": `Checks`; two threads in each | `HandlesAreSafe`, `ErrorsAreOwn`, `WrappersAreKnown`, `ChecksAreRestored` |
| `python` | "files": `SaveLoad`; "selection": `BlockSelection`; "datasets", "careless": `Datasets`, with lists that are left alone or changed; "origins": `DataOrigins` | `LoadsWhatWasSaved`, `SelectionIsRight`, `SamplesStayTogether`, `OriginsAgree`, and the liveness `OperationsEnd` |
| `torch` | "blocks", "numbers": `TorchBlocks`; "systems": `System`; "model": `AtomisticModel`; "neighbors": `NeighborLists` | `TorchBlocksAreWhole`, `SystemsAgree`, `UnitsAreRight`; `EachPairOnce`, `DistancesMatch`, `BackwardIsTheGradient` |

All of these hold. A property of a run with parts is a conjunction of the properties of the
component's module (`WrappersAreKnown` of `ArraysAreKnown`, `WrappersAreNotShared` and
`NothingElseIsKept`, for instance), each with its own comment there; the type invariants of these
modules are conjuncts too, unless they are proved (`LabelsOps`, `ExternalBuffer`, `Ownership`,
`NeighborLists`, `Errors`, `ArrayWrappers`).

Three runs expect a violation: each checks what a comment or a docstring says, and shows a
behaviour of the code that contradicts it. `PROJECT.json` quotes the sentence under "findings".

- `buffer_growth` (`c_api/io/mod.rs:62`): the loop assigns `2 * self.len` again and again, so
  one write longer than that is never satisfied (`GrowthEnds`). `SaveReturns` holds for chunks
  that fit in the doubled size.
- `blocks_three` (`blocks.rs:330`): `swap_axes` exchanges the moved component with the last
  one, which changes the order of the others when two or more come after it
  (`ComponentsKeepMeaning`, which holds for two components).
- `reducing_sparse` (`reduce_over_samples.py:261`): the gradient of a mean is divided by the
  number of gradient entries and not by the number of samples (`GradientsAreDerivatives`).
  `ReductionsAreExact` holds for sums, and where an entry is there for all samples or for none.

### Where the properties stop

The models do what the code does, also where a docstring promises more. The properties of the
passing runs leave these cases out, or say what holds in them:

- `Ownership` (`block.py:147`): a view of a gradient keeps its Python parent alive, but when the
  parent is moved into a TensorMap the memory moves on without it. `InvalidViewsAreExplained`
  shows that this and a hash map that grows are the only ways to such an address, and
  `MapViewsAreValid` that blocks taken from a TensorMap are never affected. Pointers are
  forgotten before the calls that may raise (`block.py:458`, `tensor.py`); a block that was used
  twice has no owner then and is never freed, which is why `NoLeak` is about careful users.
- `MoveKeys` (`keys_to_properties.rs:285`): when gradients are merged, only a debug assertion
  compares the values of their components (`assertion`). The instances have gradients with equal
  components; section 4 has what is proved when they are not.
- `Errors` (`status.py:20`): the exception of a callback is saved in one variable for all
  threads, and the exception that `realloc` saves is not the cause of its own call. `disturbed`
  tells that calls of two threads overlapped or that a `realloc` failed: `ErrorsAreOwn` is about
  the message of an error in any case, and about its cause as long as nothing was disturbed.
- `Checks` (`_checks.py:42`): threads whose `with` statements overlap (`overlapped`) do not restore
  the switch. `ChecksAreRestored` is about those that follow one another, in any threads. No
  operation looks at the switch.
- `BlockSelection` (`tensor.py:443`, `488`): a list of positions is refused with a TypeError, and
  `block()` without arguments raises an IndexError. `SelectionIsRight` asks for an error of a
  `block()` that can not choose, not for which one, and says nothing of lists of positions.
- `SaveLoad`: a native save that failed at a gradient of the last block leaves an archive that
  native code loads without this gradient and those after it (`io/block.rs:110` looks for
  "samples", which come after "values"). `LoadsWhatWasSaved` says that this is all that such a load
  can lose, that numpy loads no such archive, and that one that failed in an earlier block or at
  the values of a block does not load. A gradient with a slash in its name is not found again
  (`_block.py:282`, `block.rs:112`): the load fails, or leaves it out when a gradient has the name
  before the slash. The properties take these gradients out of what is expected
  (`Found`), and `SavedCanBeLoaded` and `PicklesAreEqual` are about names without a slash. The run
  has all of these cases. `load_labels` fails for a `Path` (`_labels.py:27`), which
  `SavedCanBeLoaded` leaves out, and `TensorMap.load_buffer` ignores `use_numpy` (`tensor.py:217`).
- `Pipeline`: `sort` leaves blocks without samples as they are and raises for gradients
  without entries (`sort.py:104`, `_dispatch.py:282`), and takes "keys" out of the list of the
  caller (`sort.py:335`); integers can not be inserted in labels without entries
  (`manipulate_dimension.py:108`); a sample dimension "sample" can not be renamed when there are
  gradients (`manipulate_dimension.py:378`); gradients of gradients are ignored by comparisons
  (`equal.py:42`). The properties are about calls that return, blocks with samples and plain
  gradients.
- `Reducing` (`reduce_over_samples.py:115`), `Join` (`join.py:30`), `Arithmetic` (`solve.py:42`):
  blocks without samples, properties with other names, and gradients in `solve` raise. The
  properties are about the calls that return.
- `TorchBlocks` (`block.cpp:106`, `177`): gradients of gradients are lost by `to` and
  `add_gradient`. Devices and types are compared at all depths, numbers at depth one.
- `System` (`system.cpp:543`): `set_cell` does not compare the cell with `pbc`.
  `CheckedCellsAgree` is about Systems since their last check, and `ConversionsSucceed` names the
  conversions that raise: such a cell, and custom data without blocks.
- `AtomisticModel` (`model.py:464`, `466`, `574`, `outputs.py:224`): gradients with respect to
  positions keep the length unit of the model, an output that the module returns under two names
  or again in the next call is converted twice, samples may be missing, and the unit of an equal
  request is not compared. `UnitsAreRight` is about values, of modules that make new outputs
  (unless `Shares`), and samples in excess.
- `Datasets` (`dataset.py:297`, `collate.py:98`, `join.py:371`): `get_sample` finds another
  sample once the user sorted the list of sample IDs, batches with other keys raise, a batch
  of one sample has no dimension "tensor". "careless" checks what holds of changed lists.

### Bounds

- `labels_ops`: zero to two dimensions, two values, at most two entries per operand, and
  the result of the previous call as operand: every outcome of each step (new or shared entry,
  smaller first or second operand, equal or fewer names) occurs, in both orders.
- `external_buffer`: `InitialSize` 2 stands for the 1024 of the code; starting sizes below,
  at and above a write; up to `MaxWrites` = 5 writes, enough for two growths, a failed growth
  after a good one, and rewriting a header in a buffer that has moved in between.
- `ownership`: four blocks, four objects, one tensor map, a hash map that moves its content
  when a second gradient comes: enough for a gradient of a gradient next to another one, and a
  view of a view. `ownership_leak` has two maps (a map and its copy), no symmetry as it checks
  liveness.
- `tensor_maps`: "move" has two or three blocks, with zero to two samples and properties each,
  which overlap in other orders, and all requests, valid or not. "join" has lists of zero to three
  tensor maps, whose keys, samples and properties are in other orders, overlap or are
  disjoint, with all options. "blocks" has one block or gradient for each check that
  construction makes and each way to fail it, gradients up to depth two (`MaxBlocks` = 4), and
  `MaxMoves` = 2 moves in a row, which can fail at each block.
- `operations`: two blocks with up to three samples, unsorted labels, gradients with no entry,
  one or several for a sample. `PipelineCalls` = 3, so that an operation gets the result of two
  others; two reductions, or two arithmetic operations, in a row. Arithmetic is modulo 31 for
  reductions and modulo 7 for the rest: every quotient that is used exists, and the numbers of
  the instances are chosen so that a wrong factor is not right by chance.
- `threads`: three `Arc`s, three tensors, two threads, two holders and a block for the handles, as
  a race needs two threads at one `Arc`. Four calls (`MaxCalls`) of two threads, nested up to three
  deep (`MaxDepth`): a call in a callback of a call in a callback. Four addresses and
  three blocks of at most two arrays, so that addresses are used again while another
  thread still copies. Two threads with up to three nested `with` statements each (`MaxNested`). The
  theorems about these four have no bounds.
- `python`: three saves or loads, of arrays of each type, layout and device that decides whether
  they can be written. All selections and keys of a small set, in one call or one loop. Three
  samples, batches of two and three: full, partial and single ones. Two threads with up to three
  operations in all, names shorter and longer than the first buffer of a look-up (two bytes stand
  for 1024), so that it grows more than once.
- `torch`: three objects, gradients of depth two, two devices and types; two objects that differ in
  their numbers. Two Systems, one axis (axes are treated alike, one after the other), one list,
  one piece of data and one with a reserved name. A model with a child that asks for the same
  list, two atoms, two outputs, units that differ by a factor or are empty. Two atoms, two pairs with
  all 27 shifts to a neighboring cell. The theorems about torch objects, Systems, models and pairs have no bounds.

Symmetry is used where model values are interchangeable and only safety is checked: `ownership`,
`threads` (threads, holders and values) and `torch` (objects' numbers, Systems and outputs).

### Fairness and deadlock

- `ExternalBuffer`: weak fairness of the steps of a call. A call runs on the thread of its
  caller and waits for no one; nothing is assumed of how `realloc` ends.
- `Ownership`: weak fairness of `Collect`. CPython deletes an object when its last reference
  is gone; nothing is assumed of the order, or of when the user lets go.
- `DataOrigins`: weak fairness of each thread's steps. The lock is held for a bounded number of
  steps, and a thread that waits for it gets it, as with the mutex of the system.

All other modules are checked for safety only. Deadlock is not checked where the program may
stop: in `ownership` and `ownership_leak` (out of blocks and objects), `operations` (out of
calls) and `threads` (out of places for new labels, calls or statements). The other runs check it.

## 4. What is proved

`LabelsOpsProofs`, for all names, values, operands and sequences of calls:

- `TypeCorrect`, `UnionIsCorrect`, `IntersectionIsCorrect`, `SelectIsCorrect`,
  `SelectStaysInBounds`, `ResultsAreValid`.
- The properties speak of finished calls and are not inductive. `IInv` adds what holds in the
  middle of each loop: the partial union holds the first operand and the entries seen of the
  second one, with positions that are inverse to it (`UnionInv`); the mappings are right for
  the entries seen and -1 elsewhere (`IntersectionInv`); the positions selected so far are
  the matches among the entries seen, so there are at most as many as entries (`SelectInv`);
  and the operands and the last result are valid Labels (`Valid`), which the next call relies on.

`ExternalBufferProofs`, for all chunks, sizes and numbers of writes:

- `TypeCorrect`, `BufferIsSafe`, `CountIsSafe`, and the refinement `ImplementsByteStream`.
- `BInv` is the type invariant with two more parts. `BufferInv`: the cursor is inside of what
  was written, which is inside of the allocation, and a copy that is about to happen fits.
  `WriterInv`: but for the rewriting of a header the writer is at the end of the file, and the
  header it goes back to lies inside of the file; without it a seek could fail, or leave a gap.
  The refinement maps growth and `realloc` to stuttering.

`OwnershipProofs`, for any number of blocks, maps, objects and calls:

- `TypeCorrect`, `NothingIsFreedTwice`, and `NothingIsLost` for users that are not careless
  (section 3 says why the condition is needed).
- `OInv` adds to the properties what each object must have for its `__del__` to be right: an
  owner has the current address of a block in a box and no two owners have the same one, a
  TensorMap has a live map of its own, and what is in a box is in nothing else. The lemma it
  turns on is that the content of a block or a map, the smallest set closed under "is held by",
  contains no box (`ContentIsNotBoxed`), so that freeing it takes nothing from another owner.
- `MapViewsAreAlwaysValid` and `InvalidViewsAreAlwaysExplained`. `VInv` adds three parts to `OInv`:
  a parent is in use as long as it has views (`ParentsInv`); there is a set of objects with all
  TensorMaps, closed under "is made from", whose blocks are held by the one of their parent and are
  where their address says (`MapViewsInv`); and the objects that were not made from a moved
  block form such a set too, but for the addresses of gradients in a hash map that grew
  (`ExplainedInv`). The set is needed as the chain from a view to its TensorMap may be of any
  length: a step is shown to keep the set closed, and nothing has to follow the chain.
- `LInv` adds that blocks of maps are held by maps and gradients by blocks (`PlaceInv`). It is
  kept because the content is closed: nothing stays behind in what is freed.

`MoveKeysProofs`, for valid tensor maps with any number of keys, blocks, samples, properties and gradients, and all
requests:

- `MovedBlocksAreValid` (`ResultIsValid`), `MovedSamplesAreOrdered` (`SamplesAreOrdered`), and
  `MovedBlocksKeepMeaning` with `AgreeingBlocksKeepMeaning` (`MeaningIsKept`).
- The first two properties are about finished blocks. `MInv` says what holds at each stage: the call has valid Labels and
  blocks, and once there are groups it was not refused; the blocks finished so far are valid and ordered, and fewer than the
  new keys as long as a group is left; the block being filled has its labels, shapes and order from
  the start (`NewBlockLemma`), its mappings are rows of it, and moving data into it changes nothing but its arrays.
- Most of the work is in what the collections of the code return. `ListedIsInOrder`: the
  elements of a finite set listed by their rank in a strict total order are all there, each once and in order;
  positions (`AscendingLemma`) and the entries of a `BTreeSet` (`BTreeSetLemma`, with the lexicographic order
  shown transitive and total) are instances. `IndexSetLemma` says that an `IndexSet` keeps first occurrences in
  their order, and `ConcatLemma` places each element of a list of lists in their concatenation, from
  which `OrderLemma` gets the order of samples that are not sorted. `MergedGradient` shows that gradient samples
  that two blocks share are merged, stay sorted and refer to rows of the merged block.
- `MeaningIsKept` needs to know what has been moved at each step. `FInv` adds this to `MInv`: the block being filled
  has the labels that it was allocated with (`LabelledAs`); it has the numbers of the blocks before `j`, each at
  the row of its mapping and in the columns that follow its start, and zero in all other cells (`Transferred`); and the finished
  blocks say what those of their groups said (`FinishedSaid`).
- A movement keeps this (`TransferOne`) because no two cells go to the same place (`ValuesApart`, `GradientsApart`), which
  is the hard part: properties are found by the offset of their first entry, so that the entries of a block have to
  be in a row in the `IndexSet` (`OwnKeysLayout`, `GivenKeysLayout`, `StartsLemma`), and blocks of a group
  that share a sample have different keys (`GroupKeysDiffer`). The row and the column of a cell then name what its old
  labels and the moved part of its key named (`ValueFactsMoved`, `GradientFactsMoved`, where the first value
  of a gradient sample is translated), and the new key and the moved part name what the old key did (`KeysSay`).
- `MovedBlocksKeepMeaning` is about calls whose debug assertion on the components of gradients has not failed, the
  only comparison of them in the code. `AgreeingBlocksKeepMeaning` says the same of the arguments: for blocks that agree on
  these components (`GradientsAgree`) the assertion holds (`AssertionLemma`), and no number is lost.
- Where these lemmas need an induction over a length, it is a least counterexample (`NatMinimum`).

`LabelsHandlesProofs`, for any number of threads, labels, tensors, holders and blocks (finite sets, as a
count is a number), and any interleaving:

- `HandlesAreAlwaysSafe` (`HandlesAreSafe`): no use after free, holders that agree with their labels,
  no leak.
- `HandlesInv` says that each count is the number of places that refer to the labels or to the tensor
  (`CountsInv`; holders, blocks, tensors in the memory of labels, user data, threads at work, and
  things about to be released), that the holder being made belongs to one thread (`DestInv`), that
  labels whose user data is being set are known to that thread only, and a pointer that
  `user_data` returned is still the user data of labels that the thread holds (`JobsInv`), and that
  user data has the entries of its labels and is never put in labels whose memory a tensor shares
  (`DataInv`, without which the counts could go round in a circle and nothing would be freed).
- A step touches at most one place of each kind. `CountStep` says what this does to the size of a
  set, and `StepKeepsInv` derives the invariant from how the places of one step balance; then each
  action only has to name the places it touches.

`GlobalsProofs`, about what calls and threads share in Python:

- `ErrorsAreAlwaysOwn` (`ErrorsAreOwn`) and `ErrorsAreTyped`, for any number of threads, calls and any depth.
  `MessageInv`: a call that has failed and is back still has its message in its thread's
  variable. `CauseInv`, until something disturbs it: `LAST_EXCEPTION` is the exception of the
  innermost call, and there is none between calls.
- `ChecksAreAlwaysRestored` (`ChecksAreRestored`): `Nested` says that each `with` statement saved what the
  one around it asks for, and the outermost one the permanent state.
- `WrappersAreAlwaysKnown` (`WrappersAreKnown`) and `WrappersAreTyped`: `Good` says of the function from
  blocks and calls to what they hold that ids are in the table, for the right array, all different,
  and none is missing or left over. Lemmas show that it is kept when an array is appended, moved to
  another keeper or destroyed; the actions are compositions of these.

`DataOriginsProofs`, for any number of threads and names:

- `OriginsAlwaysAgree` (`OriginsAgree`). `OriginsInv`: the registry has no name twice, a thread that
  searches or appends has the lock (`MutexInv`), a thread that is about to append has seen all names
  that there are (`TasksInv`), and all numbers that were given, saved in Python or used for a class
  are those of their names (`GivenInv`, `StorageInv`, `WrappedInv`). Names are only appended, so that
  a number that was right stays right after the lock is given back.

`TorchProofs`, for any handles, axes, options, types, devices and data, and any modules, units and outputs:

- `SystemsAlwaysAgree` (`SystemsAgree`). `SystemInv` says that each System is well typed and its data
  agrees with it, which each setter keeps. The lemma it turns on is that the
  constructor and the checks that `to` runs again accept all converted lists and data, unless one of
  the three reasons of `ConversionsSucceed` applies.
- `UnitsAreAlwaysRight` (`UnitsAreRight`). `ModelInv` has one part for each stage: the requests so far are
  those of the modules seen so far, each once and with the unit of the model (`RequestsInv`, from
  which the module finds its lists); Systems of the engine and their lists have one scale
  (`InputsInv`), so that what the module sees has one too (`SeenInv`); outputs that are still to do are
  in the declared unit and the others in the unit of the engine (`OutputsInv`). Two names for one
  TensorMap would break the last part: this is where `Shares` matters. That the samples of an energy
  are the selected atoms follows from sizes of sets, as in the code.

- `TorchBlocksStayWhole` (`TorchBlocksAreWhole`), for gradients of any depth: the parts of every object have one
  device and type, and `to`, `copy` and `components_to_properties` return all numbers they were given (`to` and
  `components_to_properties` where no gradient has gradients). `WholeInv` says this of all objects that
  exist, with keys on the device of the blocks, and that every block has values, whatever its gradients. A block is a function
  from paths to arrays, so that the tree of gradients needs no recursion.

`TorchProofs`, about neighbors lists, for any number of atoms and pairs, any shifts and coordinates:

- `PairsAreKeptOnce` (`EachPairOnce`), `DistancesAreRight` (`DistancesMatch`) and `BackwardIsRight`
  (`BackwardIsTheGradient`).
- `NInv` is the type invariant, with two more parts: pairs are found from both ends and none is
  an atom paired with itself (`NlInv`), and the distances of the samples match. The lemma behind
  it is `OneOfTwo`: of a pair and its mirror image, the comparison of atoms and of the sums of
  shifts rejects exactly one, whatever integers the shifts are. TLC checks the 27 nearest shifts only.
- For the gradients, `GradientsInv` says that they were made by `backward` for some upstream gradients of the
  current samples, of which there are finitely many. That these sums are what the loss changes by, when one
  coordinate moves by one, needs that a sum over a finite set can be taken apart. This is proved by induction over
  finite sets: `SmallestSubset` gives a smallest subset for which a statement fails, as strict inclusion is well-founded.

The proofs assume only the named assumptions on constants, which TLC evaluates in a run that extends
the module: `InputsAssumption` (the operands of `LabelsOps` passed the checks of construction),
`SizeAssumption`, `ChunkAssumption` and `ByteAssumption` of `ExternalBuffer`, `ConstantsAssumption` of
`Ownership` (finite sets, NULL is not one of their members, a map with one entry has not grown),
`ShiftsAssumption` (with a shift there is its opposite; gradients are integers, where the code has floating point numbers),
`TensorsAssumption` and `RequestsAssumption` of `MoveKeys` (the tensor maps and Labels that a call is given passed
the checks of their constructors), `TorchBlocksAssumption` (the CPU is a device, `float64` a type), `KeepersAssumption` (a block is not a
thread), `ThreadsAssumption` (nobody is not a thread), `NamesAssumption` ("unregistered origin" is
not a name of the user), `InitialAssumption` (a first buffer is not empty), `MaxCallsAssumption`,
`HandlesAssumption` (finite sets, NULL is not one of their members, the CPU is a device),
`UnitsAssumption` (units that are not empty have a scale, 0 for those of the engine), `ModulesAssumption`
(a sequence) and `AtomsAssumption` (finitely many atoms).

Only model-checked:

- Liveness (`SaveReturns`, `EverythingIsFreed`, `OperationsEnd`), which is out of the prover's reach.
- `JoinIsRight`, `BlocksStayValid`, `ComponentsKeepMeaning` and `LoadsWhatWasSaved`:
  trees of gradients need operators that are recursive over data.
- The properties of operations
  (`OperationsKeepMeaning`, `SortSorts`, `ComparisonsAgree`, `ReductionsAreExact`, `DerivativesAreExact`) and
  `SelectionIsRight`, `SamplesStayTogether`: they compare the results of sorts, folds and sums over a
  whole tensor map or dataset. The induction theorems of the library take an operator as a parameter, which
  the provers can not instantiate; each of the proofs would need least-counterexample arguments of its own for
  all the folds involved.

## 5. Plan

Done: all components of section 2, with the runs of section 3 and the proofs of section 4.

Left: the parts of `BlockSelection` and `Datasets` that follow from their loops.

## 6. Not modelled

- Rounding and the size of numbers: arithmetic is exact. Random numbers, least squares of systems
  without exact solution, and the differences between numpy and torch (`_dispatch.py`) beyond
  what an operation does to each number.
- Neural network modules of metatensor-learn: functions of numbers, whose only state is a device.
- Character-level parsing of npy headers and zip records: a conversion of text, without state.
- The ASE calculator beyond its neighbor lists, the export of models to files, the loading of
  extensions and the JSON form of metadata: calls of other programs and conversions of text.
- The C++ API: the same C API as the Python classes, whose ownership is modelled; the Rust API,
  where the compiler enforces ownership; Julia, a thin wrapper of the C API.
- The files under `metatensor_torch` that only hold documentation of the C++ classes.
- Build system, documentation and examples.
