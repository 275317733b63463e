--------------------------- MODULE BlockSelection ---------------------------
(***************************************************************************)
(* Getting blocks out of a TensorMap by position or by their keys          *)
(* (tensor.py: block, blocks, block_by_id, blocks_by_id, blocks_matching,  *)
(* __getitem__, items, _normalize_selection; core: blocks_matching), and   *)
(* the loop "for block in tensor", which Python runs by calling            *)
(* __getitem__ with 0, 1, 2... until it raises IndexError.                 *)
(*                                                                         *)
(* A block is its position, from 0. A selection is a record with its Python *)
(* type: "none", "dict" and "entry" have names, values and whether the     *)
(* values are all integers, "labels" has labels, "int" and "ints" positions. *)
(***************************************************************************)
EXTENDS PyLabels

CONSTANTS
  KeysSets,     \* the keys of the tensor maps that are looked at
  Selections    \* the selections that are made

VARIABLES
  keys,
  last,      \* the last call and what it returned
  loop       \* the blocks a loop has visited, and how the loop ended

vars == <<keys, last, loop>>

Blocks(ids) == [blocks |-> ids]
Ids == [k \in 1..count(keys) |-> k - 1]

(* A Python int goes to the library as a usize: a negative one is huge.    *)
mts_tensormap_block_by_id(i) ==
    IF i \in 0..count(keys) - 1 THEN Blocks(<<i>>) ELSE Raise("MetatensorError")

block_by_id(i) == IF i >= count(keys) THEN Raise("IndexError") ELSE mts_tensormap_block_by_id(i)

blocks_by_id(ids) ==
    LET bad == {k \in 1..Len(ids) : Failed(block_by_id(ids[k]))}
    IN  IF bad = {} THEN Blocks(ids)
        ELSE block_by_id(ids[CHOOSE k \in bad : \A j \in bad : k <= j])

_normalize_selection(s) ==
    CASE s.type = "dict" ->
           IF ~s.integers THEN Raise("TypeError")
           ELSE IF s.names = <<>> THEN NewLabels(<<>>, <<>>)
           ELSE NewLabels(s.names, <<s.values>>)
      [] s.type = "labels" -> s.labels
      [] s.type = "entry" -> NewLabels(s.names, <<s.values>>)
      [] OTHER -> Raise("TypeError")

Dimensions(selection) == DimensionsOf(keys, selection.names)

Matching_FirstOnly(selection) ==
    SelectSeq(Ids, LAMBDA i : keys.values[i + 1][Dimensions(selection)[1]] = selection.values[1][1])

Matching(selection) ==
    SelectSeq(Ids, LAMBDA i : Pick(keys.values[i + 1], Dimensions(selection)) = selection.values[1])

blocks_matching(selection) ==
    IF size(selection) = 0 THEN Blocks(Ids)
    ELSE IF count(selection) # 1 \/ ~(ToSet(selection.names) \subseteq ToSet(keys.names))
    THEN Raise("MetatensorError")
    ELSE Blocks(Matching(selection))

(* selection[0].print() in a message fails when the selection is empty.    *)
Message(selection) == IF count(selection) = 0 THEN Raise("IndexError") ELSE Raise("ValueError")

(* block(None, **kwargs) is block(kwargs).                                 *)
Keywords(s) == IF s.type = "none" THEN [s EXCEPT !.type = "dict"] ELSE s

SelectOne(s) ==
    LET selection == _normalize_selection(s)
        matching == blocks_matching(selection)
    IN  IF Failed(selection) THEN selection
        ELSE IF Failed(matching) THEN matching
        ELSE IF matching.blocks = <<>>
             THEN IF count(keys) = 0 THEN Raise("ValueError") ELSE Message(selection)
        ELSE IF Len(matching.blocks) > 1 THEN Message(selection)
        ELSE block_by_id(matching.blocks[1])

block(selection) ==
    LET s == Keywords(selection)
    IN  IF s.type = "int" THEN block_by_id(s.ids[1]) ELSE SelectOne(s)

SelectMany(s) ==
    LET selection == _normalize_selection(s)
        matching == blocks_matching(selection)
    IN  IF Failed(selection) THEN selection
        ELSE IF Failed(matching) THEN matching
        ELSE IF count(keys) = 0 THEN Blocks(<<>>)
        ELSE IF matching.blocks = <<>> THEN Message(selection)
        ELSE blocks_by_id(matching.blocks)

blocks(selection) ==
    LET s == Keywords(selection)
    IN  IF s.type = "int" THEN block_by_id(s.ids[1]) ELSE SelectMany(s)

-----------------------------------------------------------------------------

NoCall == [op |-> "", selection |-> [type |-> "none"], result |-> Blocks(<<>>)]
NoLoop == [visited |-> <<>>, ended |-> ""]

Init == keys \in KeysSets /\ last = NoCall /\ loop = NoLoop

Return(op, s, result) ==
    /\ last' = [op |-> op, selection |-> s, result |-> result]
    /\ UNCHANGED <<keys, loop>>

Block == \E s \in Selections : Return("block", s, block(s))
Blocks_ == \E s \in Selections : Return("blocks", s, blocks(s))
BlocksById == \E s \in Selections : s.type = "ints" /\ Return("blocks_by_id", s, blocks_by_id(s.ids))

__getitem__(i) == block([type |-> "int", ids |-> <<i>>])

(* One turn of "for block in tensor".                                      *)
For ==
    /\ loop.ended = ""
    /\ LET r == __getitem__(Len(loop.visited))
       IN  loop' = IF Failed(r) THEN [loop EXCEPT !.ended = r.error]
                   ELSE [loop EXCEPT !.visited = @ \o r.blocks]
    /\ UNCHANGED <<keys, last>>

(* The keys and the blocks that items() gives.                             *)
items == [k \in 1..count(keys) |-> <<keys.values[k], block_by_id(k - 1).blocks[1]>>]

Next == Block \/ Blocks_ \/ BlocksById \/ For

Spec == Init /\ [][Next]_vars

-----------------------------------------------------------------------------

(* The types of what is returned.                                          *)
TypeOK ==
    /\ Failed(last.result) \/ ToSet(last.result.blocks) \subseteq ToSet(Ids)
    /\ ToSet(loop.visited) \subseteq ToSet(Ids)

(* Whether an entry of the keys has the values that a selection gives.     *)
Says(s) == IF s.type = "labels" THEN Named(s.labels, s.labels.values[1])
           ELSE Named(s, s.values)
HasValues(e, said) == said \subseteq Named(keys, e)

(* A selection that names dimensions of the keys and gives an integer for  *)
(* each, in any of the forms that are documented.                          *)
WellFormed(s) ==
    /\ s.type \in {"none", "dict", "entry", "labels"}
    /\ s.type = "labels" => Len(s.labels.values) = 1
    /\ s.type # "labels" => s.integers
    /\ {d[1] : d \in Says(s)} \subseteq ToSet(keys.names)

Wanted(s) == SelectSeq(Ids, LAMBDA i : HasValues(keys.values[i + 1], Says(s)))

(* However a selection is written (keywords, dictionary, entry or Labels,  *)
(* the dimensions in any order), block gives the one block that has these  *)
(* values in its key and raises when there is none or more than one, and   *)
(* blocks gives all of them in the order of the keys.                      *)
SelectionIsRight ==
    LET s == last.selection
        r == last.result
    IN  last.op \in {"block", "blocks"} /\ WellFormed(s) =>
            IF last.op = "block" THEN IF Len(Wanted(s)) = 1 THEN r = Blocks(Wanted(s)) ELSE Failed(r)
            ELSE IF Wanted(s) = <<>> /\ count(keys) > 0 THEN Failed(r) ELSE r = Blocks(Wanted(s))

(* A loop over a TensorMap visits every block once, in the order of the    *)
(* keys as items() gives them, and stops without an error.                 *)
LoopVisitsAll ==
    loop.ended # "" => /\ loop.ended = "IndexError"
                       /\ loop.visited = [k \in 1..Len(items) |-> items[k][2]]

=============================================================================
