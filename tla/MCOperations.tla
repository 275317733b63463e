---------------------------- MODULE MCOperations -----------------------------
(***************************************************************************)
(* Sequences of calls to metatensor-operations on a tensor map, each with  *)
(* what the one before returned. A behaviour is one of one part:           *)
(*                                                                         *)
(* "pipeline": slice, split, filter, drop, sort, gradients, dimensions.    *)
(* Blocks with overlapping labels out of order, sparse gradients, blocks   *)
(* without samples, no blocks at all; each number is different.            *)
(* "reduce": sum, mean, variance and deviation over samples, with dense    *)
(* and sparse gradients.                                                   *)
(* "arithmetic": numbers and their derivatives.                            *)
(* The last two calculate modulo a prime, which is large enough that a     *)
(* wrong factor or term is not right for all the numbers by chance.        *)
(***************************************************************************)
EXTENDS PyLabels, TensorData

CONSTANTS
    Parts,              \* the parts to start from
    PipelineCalls       \* bound: the calls of the pipeline

VARIABLES part, tensor, last, calls, axes, before

ReducingPrime == 31
ArithmeticPrime == 7

-----------------------------------------------------------------------------
(* The pipeline *)

Column(s) == [k \in 1..Len(s) |-> <<s[k]>>]
Numbered(samples, components, properties, first) ==
    [ix \in Cells(samples, components, properties) |-> first + 16 * ix[1] + 4 * ix[2] + ix[3]]

MakeBlock(samples_values, gradient_values, properties_values, k, nested) ==
    LET samples == Labels(<<"s", "t">>, samples_values)
        components == Labels(<<"c">>, << <<1>>, <<0>> >>)
        properties == Labels(<<"p">>, Column(properties_values))
        g == Labels(<<"sample", "atom">>, gradient_values)
    IN  [samples |-> samples, components |-> components, properties |-> properties,
         values |-> Numbered(samples, components, properties, 1000 * k),
         gradients |-> [x \in {"positions"} |->
             [samples |-> g, components |-> components, nested |-> nested,
              values |-> Numbered(g, components, properties, 1000 * k + 500)]]]

Full(k, nested) ==
    MakeBlock(<< <<2, 0>>, <<1, 1>>, <<1, 0>> >>, << <<2, 5>>, <<0, 4>>, <<2, 3>> >>, <<3, 1>>, k, nested)
Small(k) == MakeBlock(<< <<1, 0>>, <<0, 1>> >>, << <<1, 4>>, <<0, 4>> >>, <<1>>, k, FALSE)
NoGradient(k) == MakeBlock(<< <<0, 1>> >>, <<>>, <<2, 1>>, k, FALSE)
Empty(k) == Ungraded(MakeBlock(<<>>, <<>>, <<2, 1>>, k, FALSE))

Map(keys, blocks) == [keys |-> Labels(<<"a", "b">>, keys), blocks |-> blocks]
TwoKeys == << <<1, 0>>, <<0, 1>> >>

PipelineTensors ==
    {Map(TwoKeys, <<Full(1, FALSE), Small(2)>>), Map(TwoKeys, <<Small(1), NoGradient(2)>>),
     Map(<< <<0, 0>> >>, <<Full(1, TRUE)>>), Map(<<>>, <<>>),
     Map(TwoKeys, <<Ungraded(Full(1, FALSE)), Empty(2)>>)}

List(indices) == [kind |-> "list", indices |-> indices]
ByLabels(names, values) == [kind |-> "labels", labels |-> Labels(names, values)]

MCSelections ==
    {[axis |-> "samples", selection |-> s] : s \in
        {List(<<1, 0>>), List(<<0>>), List(<<>>), List(<<0, 0>>), List(<<2>>),
         ByLabels(<<"s", "t">>, << <<1, 0>>, <<5, 5>>, <<2, 0>> >>),
         ByLabels(<<"t">>, << <<0>> >>), ByLabels(<<"z">>, << <<0>> >>)}}
    \cup {[axis |-> "properties", selection |-> s] : s \in
        {List(<<1, 0>>), List(<<0, 0>>), ByLabels(<<"p">>, << <<1>>, <<7>> >>)}}
    \cup {[axis |-> "components", selection |-> List(<<0>>)]}

MCSplits ==
    {[axis |-> "samples", selections |->
         << ByLabels(<<"t">>, << <<1>> >>), ByLabels(<<"t">>, << <<0>>, <<2>> >>) >>],
     [axis |-> "properties", selections |->
         << ByLabels(<<"p">>, << <<1>> >>), ByLabels(<<"p">>, << <<3>>, <<2>> >>) >>],
     [axis |-> "samples", selections |-> << List(<<0>>), ByLabels(<<"z">>, << <<0>> >>) >>],
     [axis |-> "samples", selections |-> << List(<<0>>), List(<<0>>) >>]}

MCKeySelections ==
    {Labels(<<"a">>, << <<1>> >>), Labels(<<"a", "b">>, << <<0, 1>>, <<3, 3>>, <<1, 0>> >>),
     Labels(<<"z">>, << <<1>> >>)}

MCGradients ==
    {[given |-> FALSE], [given |-> TRUE, parameters |-> {"positions"}],
     [given |-> TRUE, parameters |-> {}], [given |-> TRUE, parameters |-> {"cell"}]}

MCQueries ==
    {[axis |-> "samples", names |-> <<"t">>, gradient |-> ""], [axis |-> "samples", names |-> <<"atom">>, gradient |-> "positions"],
     [axis |-> "samples", names |-> <<"t", "s">>, gradient |-> ""], [axis |-> "properties", names |-> <<"p">>, gradient |-> "positions"],
     [axis |-> "keys", names |-> <<"a">>, gradient |-> ""], [axis |-> "samples", names |-> <<"t">>, gradient |-> "cell"]}

MCAxesToSort == {{"all"}, {"keys"}, {"samples"}, {"components", "properties"}, {"nothing"}}

Scalar(v) == [int |-> TRUE, value |-> v]
Array_(s) == [int |-> FALSE, array |-> s]
OldName == [keys |-> "a", samples |-> "s", properties |-> "p", components |-> "c"]
NewName == [keys |-> "nk", samples |-> "ns", properties |-> "np", components |-> "nc"]
MCDimensions ==
    {[op |-> "insert", axis |-> x, index |-> 0, name |-> NewName[x], values |-> Scalar(7)] :
        x \in {"keys", "samples", "properties", "components"}}
    \cup {[op |-> "insert", axis |-> x, index |-> 2, name |-> NewName[x], values |-> Array_(<<4, 3>>)] :
        x \in {"keys", "samples", "properties"}}
    \cup {[op |-> "append", axis |-> x, name |-> NewName[x], values |-> Scalar(6)] :
        x \in {"keys", "samples", "properties", "components"}}
    \cup {[op |-> "permute", axis |-> x, indexes |-> <<1, 0>>] :
        x \in {"keys", "samples", "properties", "sample"}}
    \cup {[op |-> "permute", axis |-> "keys", indexes |-> <<0, 1>>]}
    \cup {[op |-> "remove", axis |-> x, name |-> n] :
        x \in {"keys", "samples"}, n \in {"a", "t"}}
    \cup {[op |-> "rename", axis |-> x, name |-> OldName[x], new |-> NewName[x]] :
        x \in {"keys", "samples", "properties", "components"}}
    \cup {[op |-> "rename", axis |-> "samples", name |-> "a", new |-> "nk"]}

-----------------------------------------------------------------------------
(* Reductions *)

Varied(samples, components, properties, first) ==
    [ix \in Cells(samples, components, properties) |->
        (first + 7 * ix[1] * ix[1] + 5 * ix[2] + 3 * ix[3]) % ReducingPrime]

ReducedBlock(samples_values, gradient_values, first, nested) ==
    LET samples == Labels(<<"s", "t">>, samples_values)
        components == Labels(<<"c">>, << <<0>> >>)
        gradient_components == Labels(<<"xyz">>, << <<0>>, <<1>> >>)
        properties == Labels(<<"p">>, << <<1>>, <<0>> >>)
        g == Labels(<<"sample", "atom">>, gradient_values)
    IN  [samples |-> samples, components |-> components, properties |-> properties,
         values |-> Varied(samples, components, properties, first),
         gradients |-> [x \in {"positions"} |->
             [samples |-> g, components |-> gradient_components, nested |-> nested,
              values |-> Varied(g, gradient_components, properties, first + 9)]]]

Systems == << <<1, 0>>, <<0, 1>>, <<1, 2>> >>
FourSamples == << <<2, 1>>, <<1, 0>>, <<2, 0>>, <<1, 2>> >>
DenseGradient == << <<2, 4>>, <<1, 4>>, <<0, 4>>, <<0, 3>>, <<2, 3>> >>
SparseGradient == << <<2, 4>>, <<0, 3>>, <<2, 3>>, <<1, 4>> >>

ReducedMap(blocks) == [keys |-> Labels(<<"a">>, [k \in 1..Len(blocks) |-> <<k>>]), blocks |-> blocks]
EmptyBlock == ReducedBlock(<<>>, <<>>, 0, FALSE)

ReducedTensors ==
    {ReducedMap(<<ReducedBlock(Systems, g, f, FALSE)>>) :
        g \in {DenseGradient, SparseGradient, <<>>}, f \in 0..4}
    \cup {ReducedMap(<<ReducedBlock(FourSamples, g, f, FALSE)>>) : g \in {DenseGradient, SparseGradient}, f \in 0..4}
    \cup {ReducedMap(<<>>), ReducedMap(<<EmptyBlock>>), ReducedMap(<<ReducedBlock(Systems, DenseGradient, 1, TRUE)>>),
          ReducedMap(<<ReducedBlock(Systems, DenseGradient, 1, FALSE), ReducedBlock(FourSamples, SparseGradient, 2, FALSE)>>),
          ReducedMap(<<EmptyBlock, ReducedBlock(Systems, DenseGradient, 1, FALSE)>>)}

MCSampleNames == {{"t"}, {"s"}, {"s", "t"}, {"z"}, {}}

-----------------------------------------------------------------------------
(* Arithmetic *)

NoComponents == Labels(<<>>, << <<>> >>)

NonZeros(samples, components, properties, f) ==
    [ix \in Cells(samples, components, properties) |-> 1 + ((f + 2 * ix[1] * ix[1] + 3 * ix[2] + ix[1] * ix[3]) % (ArithmeticPrime - 1))]

Operand(n_samples, components, gradient_values, f, nested) ==
    LET samples == Labels(<<"s">>, [i \in 1..n_samples |-> <<3 - i>>])
        xyz == Labels(<<"xyz">>, [i \in 1..(2 * count(components)) |-> <<i>>])
        properties == Labels(<<"p">>, << <<1>>, <<0>> >>)
        g == Labels(<<"sample", "atom">>, gradient_values)
    IN  [samples |-> samples, components |-> components, properties |-> properties,
         values |-> NonZeros(samples, components, properties, f),
         gradients |-> IF gradient_values = <<>> THEN NoGradients
                       ELSE [x \in {"positions"} |-> [samples |-> g, components |-> xyz, nested |-> nested,
                                                      values |-> NonZeros(g, xyz, properties, f + 1)]]]

OperandMap(keys, blocks) == [keys |-> Labels(<<"a">>, [k \in 1..Len(keys) |-> <<keys[k]>>]), blocks |-> blocks]
Entries1 == << <<1, 0>>, <<0, 2>>, <<1, 1>> >>
Entries2 == << <<0, 2>>, <<1, 1>> >>
Two == Labels(<<"c">>, << <<0>>, <<1>> >>)

OperandTensors ==
    {OperandMap(<<0, 1>>, <<Operand(2, Two, Entries1, 0, FALSE), Operand(2, Two, Entries2, 3, FALSE)>>),
     OperandMap(<<1, 0>>, <<Operand(2, Two, Entries2, 5, FALSE), Operand(2, Two, Entries1, 2, FALSE)>>),
     OperandMap(<<0, 1>>, <<Operand(2, NoComponents, <<>>, 1, FALSE), Operand(2, NoComponents, <<>>, 4, FALSE)>>),
     OperandMap(<<0, 1>>, <<Operand(2, NoComponents, Entries2, 1, FALSE), Operand(2, NoComponents, Entries1, 4, FALSE)>>),
     OperandMap(<<1, 0>>, <<Operand(1, NoComponents, << <<0, 0>>, <<0, 1>> >>, 0, FALSE), Operand(1, NoComponents, << <<0, 0>> >>, 2, FALSE)>>),
     OperandMap(<<0>>, <<Operand(2, NoComponents, Entries2, 1, TRUE)>>),
     OperandMap(<<0>>, <<Operand(0, NoComponents, <<>>, 1, FALSE)>>),
     OperandMap(<<0, 1>>, <<Operand(2, Two, Entries2, 0, FALSE), Operand(2, Two, Entries1, 3, FALSE)>>)}

MCScalars == {[scalar |-> 0], [scalar |-> 3], [text |-> "3"]}

Weight(f, n) == [Operand(n, NoComponents, <<>>, f, FALSE) EXCEPT !.samples.names = <<"w">>]
MCWeights == {OperandMap(<<1, 0>>, <<Weight(0, 1), Weight(3, 1)>>), OperandMap(<<0, 1>>, <<Weight(1, 3), Weight(5, 3)>>)}

-----------------------------------------------------------------------------

P == INSTANCE Pipeline WITH
    Tensors <- PipelineTensors, Selections <- MCSelections, Splits <- MCSplits,
    KeySelections <- MCKeySelections, Gradients <- MCGradients, Queries <- MCQueries,
    AxesToSort <- MCAxesToSort, Dimensions <- MCDimensions, MaxCalls <- PipelineCalls
R == INSTANCE Reducing WITH
    Tensors <- ReducedTensors, SampleNames <- MCSampleNames, Prime <- ReducingPrime, MaxCalls <- 2
A == INSTANCE Arithmetic WITH
    Tensors <- OperandTensors, Scalars <- MCScalars, Weights <- MCWeights, Prime <- ArithmeticPrime,
    MaxCalls <- 2

Init ==
    /\ part \in Parts
    /\ \/ part = "pipeline" /\ P!Init /\ before = 0
       \/ part = "reduce" /\ R!Init /\ axes = 0 /\ before = 0
       \/ part = "arithmetic" /\ A!Init /\ axes = 0

Next ==
    /\ UNCHANGED part
    /\ \/ part = "pipeline" /\ P!Next /\ UNCHANGED before
       \/ part = "reduce" /\ R!Next /\ UNCHANGED <<axes, before>>
       \/ part = "arithmetic" /\ A!Next /\ UNCHANGED axes

Spec == Init /\ [][Next]_<<part, tensor, last, calls, axes, before>>

-----------------------------------------------------------------------------

(***************************************************************************)
(* slice, split, filter_blocks, drop_blocks, remove_gradients, zeros_like  *)
(* and its likes, sort, and the functions that change dimensions leave a   *)
(* tensor map that its constructors accept, where each number has exactly  *)
(* the labels that the call says, in gradients too.                        *)
(***************************************************************************)
OperationsKeepMeaning ==
    part = "pipeline" =>
        /\ P!TypeOK /\ P!SliceKeepsMeaning /\ P!SplitLosesNothing /\ P!BlocksAreSelected
        /\ P!OnlyGradientsAreRemoved /\ P!LikeHasTheLabels /\ P!SortKeepsMeaning
        /\ P!DimensionsKeepMeaning

(* sort.py: what was asked for is sorted, up or down, in gradients too. *)
SortSorts == part = "pipeline" => P!SortSorts

(***************************************************************************)
(* equal, allclose, equal_metadata and their variants, on the result of a  *)
(* call and its argument, agree with each other and with equality, and     *)
(* unique_metadata lists each value once.                                  *)
(***************************************************************************)
ComparisonsAgree == part = "pipeline" => P!ComparisonsAgree /\ P!UniqueIsComplete

(***************************************************************************)
(* reduce_over_samples.py: what sum, mean, var and std give, and, with     *)
(* gradients that have an entry for all the samples that become one or for *)
(* none of them, its derivatives.                                          *)
(***************************************************************************)
ReductionsAreExact ==
    part = "reduce" =>
        R!TypeOK /\ R!ValuesAreReduced /\ R!SumsAreDifferentiated /\ R!DenseGradientsAreDerivatives

(* "f(x(t))-> df(x(t))/dx * dx/dt": also when only some of the samples have a derivative. *)
GradientsAreDerivatives == part = "reduce" => R!GradientsAreDerivatives

(***************************************************************************)
(* add, subtract, multiply, divide, pow, abs and dot return the            *)
(* derivatives of what they return, solve and lstsq undo dot, and operands *)
(* with other metadata are refused.                                        *)
(***************************************************************************)
DerivativesAreExact ==
    part = "arithmetic" =>
        A!TypeOK /\ A!DerivativesAreExact /\ A!DotIsLinear /\ A!WeightsAreRecovered /\ A!MetadataIsCompared
=============================================================================
