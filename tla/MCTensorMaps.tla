---------------------------- MODULE MCTensorMaps -----------------------------
(***************************************************************************)
(* Operations on whole tensor maps, on small ones. A behaviour is one of   *)
(* one part, and the variables of the other parts are off:                 *)
(*                                                                         *)
(* "move": a call of keys_to_properties or keys_to_samples. Keys with two  *)
(* dimensions, blocks with few samples and properties that overlap from    *)
(* block to block in different orders.                                     *)
(* "join": a call of join, which goes through "move". Tensor maps whose    *)
(* keys are in different orders or partly the same, whose samples and      *)
(* properties overlap or not, with sparse gradients.                       *)
(* "blocks": blocks and gradients of them are built from all shapes that   *)
(* the checks tell apart, put in a map, and their components are moved.    *)
(*                                                                         *)
(* All numbers are different, so that they say where they are from.        *)
(***************************************************************************)
EXTENDS Join

CONSTANTS
    Parts,          \* the parts to start from
    BlockArguments, \* what blocks are built from
    MaxBlocks, MaxMoves

VARIABLES
    part, blocks, tensor, clone, dimensions, at, status, created, moves

-----------------------------------------------------------------------------
(* Tensor maps whose keys are moved *)
SamplesOverlap == {<<>>, <<1, 0>>, <<2, 1>>}
PropertiesOverlap == {<<>>, <<0, 2>>, <<2>>}
SameComponents == {<<0>>}
KeySets == {<< <<0, 0>>, <<1, 0>> >>, << <<1, 0>>, <<0, 1>>, <<0, 0>> >>}

Column(s) == [k \in 1..Len(s) |-> <<s[k]>>]
Numbered(samples, components, properties, number, tag) ==
    [ix \in Cells(samples, components, properties) |->
        <<tag, number, ix>>]

(* The gradient has an entry for each sample, the last sample first, and two for it. *)
GradientSamples(samples) ==
    LET n == count(samples)
    IN  Labels(<<"sample", "atom">>,
               (IF n > 0 THEN << <<n - 1, 3>> >> ELSE <<>>) \o [i \in 1..n |-> <<n - i, 2>>])

MakeBlock(s, p, c, k, nested, property_name) ==
    LET samples == Labels(<<"s">>, Column(s))
        properties == Labels(<<property_name>>, Column(p))
        components == Labels(<<"c">>, << <<0>> >>)
        g == Labels(<<"d">>, Column(c))
    IN  [samples |-> samples, components |-> components, properties |-> properties,
         values |-> Numbered(samples, components, properties, k, "v"),
         gradients |-> [x \in {"positions"} |->
             [samples |-> GradientSamples(samples), components |-> g, nested |-> nested,
              values |-> Numbered(GradientSamples(samples), g, properties, k, "g")]]]

BlockChoices == SamplesOverlap \X PropertiesOverlap \X SameComponents

MakeTensor(keys, choice, nested, property_name) ==
    [keys |-> Labels(<<"a", "b">>, keys),
     blocks |-> [k \in 1..Len(keys) |->
         MakeBlock(choice[k][1], choice[k][2], choice[k][3], k, nested, property_name)]]

(***************************************************************************)
(* Some tensors can not be merged: no keys, gradients of gradients, blocks *)
(* with other components, a key and a property with the same name.         *)
(***************************************************************************)
OneBlock == << << <<0>>, <<0>>, <<0>> >> >>
Unmergeable ==
    {MakeTensor(<<>>, <<>>, FALSE, "p"),
     MakeTensor(<< <<0, 0>> >>, OneBlock, TRUE, "p"),
     MakeTensor(<< <<0, 0>> >>, OneBlock, FALSE, "a"),
     [MakeTensor(<< <<0, 0>>, <<1, 0>> >>, OneBlock \o OneBlock, FALSE, "p")
         EXCEPT !.blocks[2].components.values = << <<5>> >>]}

(* Of the third block, only some choices. *)
LastChoices == {<< <<1, 0>>, <<0, 2>>, <<0>> >>, << <<2, 1>>, <<2>>, <<0>> >>, << <<2, 1>>, <<>>, <<0>> >>, << <<>>, <<2>>, <<0>> >>}

MCTensors ==
    UNION {{MakeTensor(keys, choice, FALSE, "p") :
            choice \in {x \in [1..Len(keys) -> BlockChoices] : Len(keys) = 3 => x[3] \in LastChoices}}
           : keys \in KeySets}
    \cup Unmergeable

ToMove ==
    {Labels(<<"a">>, <<>>), Labels(<<"b">>, <<>>), Labels(<<"b", "a">>, <<>>), Labels(<<>>, <<>>),
     Labels(<<"a">>, << <<1>>, <<0>> >>), Labels(<<"a">>, << <<2>>, <<0>> >>), Labels(<<"z">>, <<>>)}

MCRequests ==
    [op : {"properties", "samples"}, keys_to_move : ToMove, sort_samples : BOOLEAN]

-----------------------------------------------------------------------------
(* Tensor maps to join, and some that can not be joined *)

Counted(samples, components, properties, first) ==
    [ix \in Cells(samples, components, properties) |-> first + 16 * ix[1] + 4 * ix[2] + ix[3]]

JoinBlock(s, p, names, first, nested) ==
    LET samples == Labels(<<names[1]>>, Column(s))
        properties == Labels(<<names[2]>>, Column(p))
        components == Labels(<<"c">>, << <<0>> >>)
        g == Labels(<<"sample", "atom">>,
                    [k \in 1..Len(s) |-> <<Len(s) - k, 3>>] \o (IF s = <<>> THEN <<>> ELSE << <<0, 2>> >>))
    IN  [samples |-> samples, components |-> components, properties |-> properties,
         values |-> Counted(samples, components, properties, first),
         gradients |-> [x \in {"positions"} |->
             [samples |-> g, components |-> components, nested |-> nested,
              values |-> Counted(g, components, properties, first + 100)]]]

Usual == <<"s", "p">>
MapOf(keys, bs) == [keys |-> Labels(<<"a">>, Column(keys)), blocks |-> bs]

Pool ==
    {MapOf(<<1, 0>>, <<JoinBlock(<<2, 0>>, <<0, 1>>, Usual, 1000, FALSE), JoinBlock(<<1>>, <<0, 1>>, Usual, 2000, FALSE)>>),
     MapOf(<<0, 1>>, <<JoinBlock(<<0>>, <<1, 0>>, Usual, 3000, FALSE), JoinBlock(<<1>>, <<0, 1>>, Usual, 4000, FALSE)>>),
     MapOf(<<0, 1>>, <<JoinBlock(<<2, 0>>, <<0, 1>>, Usual, 5000, FALSE), JoinBlock(<<>>, <<0, 1>>, Usual, 6000, FALSE)>>),
     MapOf(<<0, 1>>, <<JoinBlock(<<1>>, <<3>>, Usual, 7000, FALSE), JoinBlock(<<2, 0>>, <<2>>, Usual, 8000, FALSE)>>),
     MapOf(<<1, 2>>, <<JoinBlock(<<3>>, <<0, 1>>, Usual, 9000, FALSE), JoinBlock(<<1>>, <<2>>, Usual, 10000, FALSE)>>)}

OtherNames ==
    {MapOf(<<0, 1>>, <<JoinBlock(<<2, 0>>, <<4, 5>>, <<"s", "q">>, 11000, FALSE), JoinBlock(<<1>>, <<3>>, <<"s", "q">>, 12000, FALSE)>>),
     MapOf(<<0, 1>>, <<JoinBlock(<<5>>, <<0, 1>>, <<"x", "p">>, 13000, FALSE), JoinBlock(<<4>>, <<0, 1>>, <<"x", "p">>, 14000, FALSE)>>)}

Unusual ==
    {MapOf(<<0>>, <<JoinBlock(<<5>>, <<0, 1>>, Usual, 15000, TRUE)>>), MapOf(<<7>>, <<JoinBlock(<<5>>, <<0, 1>>, Usual, 16000, FALSE)>>),
     [MapOf(<<0>>, <<JoinBlock(<<5>>, <<0, 1>>, Usual, 17000, FALSE)>>) EXCEPT !.keys.names = <<"tensor">>],
     [MapOf(<<0>>, <<JoinBlock(<<5>>, <<0, 1>>, Usual, 17000, FALSE)>>) EXCEPT !.keys.names = <<"b">>],
     MapOf(<<>>, <<>>)}

(* Three of the pool, the one with the keys in the other order in the middle. *)
Reversed == CHOOSE x \in Pool : x.keys.values = Column(<<1, 0>>)
SomeTriples == {<<x, Reversed, z>> : x, z \in Pool \ {Reversed}}

Lists ==
    {<<x, y>> : x \in Pool, y \in Pool \cup OtherNames \cup Unusual}
    \cup {<<x, x>> : x \in Unusual} \cup {<<>>} \cup {<<x>> : x \in Unusual}
    \cup SomeTriples

MCJoins ==
    [tensors : Lists, axis : {"samples", "properties"}, different_keys : {"error", "intersection", "union"},
     sort_samples : BOOLEAN, remove_tensor_name : BOOLEAN]
    \cup {[tensors |-> <<x, x>>, axis |-> "components", different_keys |-> "error", sort_samples |-> FALSE,
           remove_tensor_name |-> FALSE] : x \in Pool}
    \cup {[tensors |-> <<x, x>>, axis |-> "samples", different_keys |-> "all", sort_samples |-> FALSE,
           remove_tensor_name |-> FALSE] : x \in Pool}

-----------------------------------------------------------------------------
(* Blocks *)

BlockSamples == Labels(<<"s">>, << <<7>>, <<3>> >>)
BlockGradientSamples == Labels(<<"sample", "a">>, << <<1, 0>>, <<0, 5>>, <<1, 5>> >>)
OutOfRange == Labels(<<"sample", "a">>, << <<2, 0>> >>)
Negative == Labels(<<"sample">>, << <<-1>> >>)
BlockProperties == Labels(<<"p">>, << <<4>>, <<2>> >>)
NoProperties == Labels(<<"p">>, <<>>)

C(name, n) == Labels(<<name>>, [c \in 1..n |-> <<c>>])

Argument(id, samples, components, properties) ==
    LET shape == <<count(samples)>> \o [c \in 1..Len(components) |-> count(components[c])]
                                    \o <<count(properties)>>
    IN  [values |-> [origin |-> "rust", shape |-> shape,
                     data |-> [flat \in 0..(FoldLeft(LAMBDA x, y : x * y, 1, shape) - 1) |-> <<id, flat>>]],
         samples |-> samples, components |-> components, properties |-> properties]

Block12 == Argument("v", BlockSamples, <<C("x", 3), C("y", 2)>>, BlockProperties)
Gradient12 == Argument("g", BlockGradientSamples, <<C("d", 2), C("x", 3), C("y", 2)>>, BlockProperties)
Block3 == Argument("v", BlockSamples, <<C("x", 2), C("y", 3), C("z", 2)>>, BlockProperties)

MCArguments ==
    {Block12, Gradient12,
     Argument("w", BlockSamples, <<C("x", 1), C("y", 2)>>, NoProperties),
     Argument("h", OutOfRange, <<C("x", 3), C("y", 2)>>, BlockProperties),
     Argument("u", Labels(<<"s">>, << <<1>> >>), <<C("p", 2)>>, BlockProperties)}

(* One more case for each check that is not reached by those. *)
RefusedArguments ==
    {[Block12 EXCEPT !.values.shape[2] = 4],
     Argument("r", BlockSamples, <<C("x", 0)>>, BlockProperties),
     [Gradient12 EXCEPT !.values.origin = "torch"],
     Argument("n", Negative, <<C("x", 3), C("y", 2)>>, BlockProperties)}

AllArguments == MCArguments \cup RefusedArguments
ThreeComponents == {Block3}

MCDimensions == {<<>>, <<"x">>, <<"y">>, <<"p">>, <<"x", "y">>}

B == INSTANCE Blocks WITH
    Arguments <- BlockArguments, Parameter <- {"positions"}, Dimensions <- MCDimensions, k <- at

block_vars == <<blocks, tensor, clone, dimensions, at, status, created, moves>>

-----------------------------------------------------------------------------
JoinOff == args = 0 /\ tensors = 0 /\ returned = NotYet
MoveOff ==
    /\ call = NoCall /\ pc = "off" /\ new_blocks = <<>> /\ j = 1 /\ new_block = NoBlock
    /\ assertion = TRUE
BlocksOff ==
    /\ blocks = 0 /\ tensor = 0 /\ clone = 0 /\ dimensions = 0 /\ at = 0 /\ status = 0
    /\ created = 0 /\ moves = 0

MapsInit ==
    /\ part \in Parts
    /\ \/ part = "move" /\ Init /\ JoinOff /\ BlocksOff
       \/ part = "join" /\ JoinInit /\ BlocksOff
       \/ part = "blocks" /\ B!Init /\ MoveOff /\ JoinOff

(* Who makes blocks may stop at any time, the other calls go on until they return. *)
MapsNext ==
    /\ UNCHANGED part
    /\ \/ part = "move" /\ Next /\ UNCHANGED <<join_vars, block_vars>>
       \/ part = "join" /\ JoinNext /\ UNCHANGED block_vars
       \/ part = "blocks" /\ B!Next /\ UNCHANGED all_vars
       \/ part = "blocks" /\ UNCHANGED <<block_vars, all_vars>>

MapsSpec == MapsInit /\ [][MapsNext]_<<part, block_vars, all_vars>>

-----------------------------------------------------------------------------
(***************************************************************************)
(* join.py: what is joined keeps its meaning, is a tensor map that the     *)
(* constructors accept, sorted if that was asked for, and has a dimension  *)
(* "tensor" only where the parts can not be told apart without it.         *)
(***************************************************************************)
JoinIsRight == JoinKeepsMeaning /\ JoinReturnsAMap /\ JoinSortsSamples /\ TensorNameIsRemoved

(* blocks.rs: blocks are valid whatever they were built from and whatever failed before. *)
BlocksStayValid == part = "blocks" => B!BlocksAreValid

(* blocks.rs: moving components keeps the meaning of each number, or leaves the map as it was. *)
ComponentsKeepMeaning == [][part = "blocks" => B!MoveKeepsMeaning]_block_vars
=============================================================================
