------------------------------- MODULE Metadata -------------------------------
(***************************************************************************)
(* Comparisons of tensor maps (metatensor_operations: _utils.py,           *)
(* equal_metadata.py, equal.py, allclose.py) and the labels that they have *)
(* (unique_metadata.py). The functions that compare return a message: here *)
(* "" when there is no difference, "different", or the exception.          *)
(***************************************************************************)
EXTENDS TensorData

check_same_keys_impl(a, b) ==
    IF \/ a.keys.names # b.keys.names
       \/ count(a.keys) # count(b.keys)
       \/ \E e \in Entries(b.keys) : e \notin Entries(a.keys)
    THEN "different" ELSE ""

(* The axes to check, one after the other; something else is only found when its turn comes. *)
Checkable == {"samples", "components", "properties"}
AllMetadata == <<"samples", "components", "properties">>

FirstProblem(check, Differs(_)) ==
    LET problems == SelectSeq(check, LAMBDA x : x \notin Checkable \/ Differs(x))
    IN  IF problems = <<>> THEN ""
        ELSE IF Head(problems) \notin Checkable THEN "ValueError" ELSE "different"

check_blocks_impl_NoSamples(a, b, check) ==
    FirstProblem(check, LAMBDA x : x # "samples" /\ a[x] # b[x])
check_blocks_impl(a, b, check) == FirstProblem(check, LAMBDA x : a[x] # b[x])

(* The properties of a gradient are those of its block. *)
check_same_gradients_impl(a, b, check) ==
    LET axis(c, p, x) == IF x = "properties" THEN c.properties ELSE c.gradients[p][x]
        messages == {FirstProblem(check, LAMBDA x : axis(a, p, x) # axis(b, p, x)) : p \in DOMAIN a.gradients}
    IN  IF DOMAIN a.gradients # DOMAIN b.gradients THEN "different"
        ELSE IF messages \subseteq {""} THEN ""
        ELSE CHOOSE message \in messages : message # ""

(* The first of the messages that is not empty. *)
FirstMessage(messages) ==
    LET problems == SelectSeq(messages, LAMBDA x : x # "")
    IN  IF problems = <<>> THEN "" ELSE Head(problems)

block(t, e) == t.blocks[position(t.keys, e)]
CompareBlocks(a, b, Compare(_, _)) ==
    IF check_same_keys_impl(a, b) # "" THEN "different"
    ELSE FirstMessage([k \in 1..Len(a.blocks) |-> Compare(a.blocks[k], block(b, a.keys.values[k]))])

equal_metadata_block_impl(a, b, check) ==
    LET message == check_blocks_impl(a, b, check)
    IN  IF message # "" THEN message ELSE check_same_gradients_impl(a, b, check)
equal_metadata_impl(a, b, check) ==
    CompareBlocks(a, b, LAMBDA x, y : equal_metadata_block_impl(x, y, check))

(* Arrays are compared before the labels, once they have the same shape. *)
CompareValues(a, b, Same(_, _)) ==
    IF DOMAIN a.values # DOMAIN b.values \/ ~Same(a.values, b.values) THEN "different"
    ELSE IF equal_metadata_block_impl(a, b, AllMetadata) # "" THEN "different"
    ELSE IF \E p \in DOMAIN a.gradients : ~Same(a.gradients[p].values, b.gradients[p].values) THEN "different"
    ELSE ""

equal_block_impl(a, b) == CompareValues(a, b, LAMBDA x, y : x = y)
equal_impl(a, b) == CompareBlocks(a, b, equal_block_impl)

(* Tolerances are in percent, and in units. *)
Distance(x, y) == IF x < y THEN y - x ELSE x - y
allclose_arrays(x, y, rtol, atol) ==
    \A ix \in DOMAIN x : 100 * Distance(x[ix], y[ix]) <= 100 * atol + rtol * Distance(y[ix], 0)
allclose_block_impl(a, b, rtol, atol) ==
    CompareValues(a, b, LAMBDA x, y : allclose_arrays(x, y, rtol, atol))
allclose_impl(a, b, rtol, atol) ==
    CompareBlocks(a, b, LAMBDA x, y : allclose_block_impl(x, y, rtol, atol))

(* Each of them returns whether there is no message, or raises it. *)
Bool(message) == IF message = "ValueError" THEN Raise("ValueError") ELSE [bool |-> message = ""]
OrRaise(message) ==
    CASE message = "" -> [bool |-> TRUE]
      [] message = "different" -> Raise("NotEqualError")
      [] OTHER -> Raise(message)

equal_metadata(a, b, check) == Bool(equal_metadata_impl(a, b, check))
equal_metadata_raise(a, b, check) == OrRaise(equal_metadata_impl(a, b, check))
equal_metadata_block(a, b, check) == Bool(equal_metadata_block_impl(a, b, check))
equal_metadata_block_raise(a, b, check) == OrRaise(equal_metadata_block_impl(a, b, check))
equal(a, b) == Bool(equal_impl(a, b))
equal_raise(a, b) == OrRaise(equal_impl(a, b))
equal_block(a, b) == Bool(equal_block_impl(a, b))
equal_block_raise(a, b) == OrRaise(equal_block_impl(a, b))
allclose(a, b, rtol, atol) == Bool(allclose_impl(a, b, rtol, atol))
allclose_raise(a, b, rtol, atol) == OrRaise(allclose_impl(a, b, rtol, atol))
allclose_block(a, b, rtol, atol) == Bool(allclose_block_impl(a, b, rtol, atol))
allclose_block_raise(a, b, rtol, atol) == OrRaise(allclose_block_impl(a, b, rtol, atol))

-----------------------------------------------------------------------------
(* unique_metadata.py: the values of some dimensions, sorted and once. At least one block is needed. *)

unique_from_blocks(labels, names) ==
    IF labels = <<>> THEN Raise("IndexError")
    ELSE IF \E k \in 1..Len(labels) : Failed(view(labels[k], names)) THEN Raise("ValueError")
    ELSE NewLabels(names, BTreeSet(UNION {ToSet(view(labels[k], names).values) : k \in 1..Len(labels)}))

(* The labels of a block, or of one of its gradients. *)
LabelsOf(b, axis, gradient) ==
    IF axis = "properties" THEN b.properties
    ELSE IF gradient = "" THEN b.samples ELSE b.gradients[gradient].samples

unique_of(blocks, axis, names, gradient) ==
    IF axis \notin {"samples", "properties"} THEN Raise("ValueError")
    ELSE IF gradient # "" /\ \E k \in 1..Len(blocks) : gradient \notin DOMAIN blocks[k].gradients
    THEN Raise("MetatensorError")
    ELSE unique_from_blocks([k \in 1..Len(blocks) |-> LabelsOf(blocks[k], axis, gradient)], names)

unique_metadata(t, axis, names, gradient) == unique_of(t.blocks, axis, names, gradient)
unique_metadata_block(b, axis, names, gradient) == unique_of(<<b>>, axis, names, gradient)
=============================================================================
