------------------------------- MODULE Reducing -------------------------------
(***************************************************************************)
(* Reductions over samples (metatensor_operations:                         *)
(* reduce_over_samples.py): samples that only differ in some dimensions    *)
(* become one sample, whose numbers are the sum, mean, variance or         *)
(* standard deviation of theirs; gradients are reduced with them. The      *)
(* program reduces a tensor map again and again.                           *)
(***************************************************************************)
EXTENDS TensorData, Field

CONSTANTS
    Tensors,    \* the tensor maps to start from
    SampleNames,\* the dimensions to reduce over, for each call
    MaxCalls    \* bound: the calls

(* index_add into zeros: rows with the same index are added up. *)
index_add(n_rows, array, index, components, properties) ==
    [ix \in (1..n_rows) \X (1..count(components)) \X (1..count(properties)) |->
        Sum_({i \in 1..Len(index) : index[i] = ix[1]}, LAMBDA i : array[<<i, ix[2], ix[3]>>])]

bincount(index, k) == Cardinality({i \in 1..Len(index) : index[i] = k})
DividedBy(array, index) == [ix \in DOMAIN array |-> Over(array[ix], bincount(index, ix[1]) % Prime)]

(* unique_with_inverse: the different rows in order, and the place of each row among them. *)
unique_with_inverse(rows) ==
    LET rows_once == BTreeSet(ToSet(rows))
    IN  [labels |-> rows_once,
         inverse |-> [i \in 1..Len(rows) |-> CHOOSE k \in 1..Len(rows_once) : rows_once[k] = rows[i]]]

remaining_sample_names(names, sample_names) == SelectSeq(names, LAMBDA n : n \notin sample_names)

(***************************************************************************)
(* The values, and the mean values that the gradients need. The last       *)
(* component axes of a gradient are the ones of the values.                *)
(***************************************************************************)
Reduced(b, n_rows, index, reduction) ==
    LET added(array) == index_add(n_rows, array, index, b.components, b.properties)
        mean == DividedBy(added(b.values), index)
        mean2 == DividedBy(added([ix \in DOMAIN b.values |-> Times(b.values[ix], b.values[ix])]), index)
        var == [ix \in DOMAIN mean |-> Minus(mean2[ix], Times(mean[ix], mean[ix]))]
    IN  [mean |-> mean,
         result |-> CASE reduction = "sum" -> added(b.values)
                      [] reduction = "mean" -> mean
                      [] reduction = "var" -> var
                      [] reduction = "std" -> [ix \in DOMAIN var |-> SquareRoot(var[ix])]]

(* A row of the reduced gradient refers to the new sample; equal rows are added up. *)
moved_samples_Untouched(g, index) == g.samples.values
moved_samples(g, index) ==
    [i \in 1..count(g.samples) |-> [g.samples.values[i] EXCEPT ![1] = index[@ + 1] - 1]]

(* d(x^2) = 2 x dx *)
ChainFactor(x) == Times(2, x)

(* The divisor of the mean is the number of rows that were added up. *)
ReducedGradient(b, g, index, values, reduction) ==
    LET new == unique_with_inverse(moved_samples(g, index))
        samples == Labels(g.samples.names, new.labels)
        added(array) == index_add(Len(new.labels), array, new.inverse, g.components, b.properties)
        mean == DividedBy(added(g.values), new.inverse)
        times_values == [ix \in DOMAIN g.values |->
            Times(g.values[ix], b.values[ValueCell(b, g.samples.values[ix[1]][1] + 1, ix)])]
        mean_times == DividedBy(added(times_values), new.inverse)
        cell(ix) == ValueCell(b, new.labels[ix[1]][1] + 1, ix)
        covariance == [ix \in DOMAIN mean |-> Minus(mean_times[ix], Times(mean[ix], values.mean[cell(ix)]))]
        nan_to_num(x, y) == IF y = 0 THEN 0 ELSE Over(x, y)
    IN  [g EXCEPT !.samples = samples,
                  !.values =
            CASE reduction = "sum" -> added(g.values)
              [] reduction = "mean" -> mean
              [] reduction = "var" -> [ix \in DOMAIN mean |-> ChainFactor(covariance[ix])]
              [] reduction = "std" -> [ix \in DOMAIN mean |->
                                          nan_to_num(covariance[ix], values.result[cell(ix)])]]

(* _reduce_over_samples_block: without samples there is nothing to reduce but the names. *)
reduce_over_samples_block(b, remaining, reduction) ==
    LET rows == unique_with_inverse(PickAll(b.samples.values, DimensionsOf(b.samples, remaining)))
        values == Reduced(b, Len(rows.labels), rows.inverse, reduction)
        samples == IF remaining = <<>> THEN single ELSE Labels(remaining, rows.labels)
        gradient(g) == IF is_empty(g.samples) THEN g
                       ELSE ReducedGradient(b, g, rows.inverse, values, reduction)
    IN  IF AnyNested(b, DOMAIN b.gradients) THEN Raise("NotImplementedError")
        ELSE IF is_empty(b.samples) THEN TensorBlock([b EXCEPT !.samples = Labels(remaining, <<>>)])
        ELSE TensorBlock([b EXCEPT !.samples = samples, !.values = values.result,
                                   !.gradients = [p \in DOMAIN @ |-> gradient(@[p])]])

(* The dimensions that stay are the ones of the first block. *)
reduce_over_samples(t, sample_names, reduction) ==
    LET names == IF t.blocks = <<>> THEN <<>> ELSE t.blocks[1].samples.names
        remaining == remaining_sample_names(names, sample_names)
    IN  IF ~(sample_names \subseteq ToSet(names)) THEN Raise("ValueError")
        ELSE TensorMapOf(t.keys, [k \in 1..Len(t.blocks) |->
                 reduce_over_samples_block(t.blocks[k], remaining, reduction)])

(* The functions for blocks do not look at names that the samples do not have. *)
reduce_block(b, sample_names, reduction) ==
    reduce_over_samples_block(b, remaining_sample_names(b.samples.names, sample_names), reduction)

sum_over_samples(t, names) == reduce_over_samples(t, names, "sum")
mean_over_samples(t, names) == reduce_over_samples(t, names, "mean")
var_over_samples(t, names) == reduce_over_samples(t, names, "var")
std_over_samples(t, names) == reduce_over_samples(t, names, "std")
sum_over_samples_block(b, names) == reduce_block(b, names, "sum")
mean_over_samples_block(b, names) == reduce_block(b, names, "mean")
var_over_samples_block(b, names) == reduce_block(b, names, "var")
std_over_samples_block(b, names) == reduce_block(b, names, "std")

-----------------------------------------------------------------------------
VARIABLES
    tensor,     \* the tensor map
    last,       \* the last call, what it got and what it returned
    calls       \* how many calls there were

vars == <<tensor, last, calls>>

Init ==
    /\ tensor \in Tensors
    /\ last = [op |-> "none", names |-> {}, before |-> tensor, result |-> tensor]
    /\ calls = 0

Return(op, names, result) ==
    /\ calls < MaxCalls /\ calls' = calls + 1
    /\ last' = [op |-> op, names |-> names, before |-> tensor, result |-> result]
    /\ tensor' = IF Failed(result) THEN tensor ELSE result

ByBlock(F(_)) == TensorMapOf(tensor.keys, [k \in 1..Len(tensor.blocks) |-> F(tensor.blocks[k])])

Sum == \E n \in SampleNames :
    \/ Return("sum", n, sum_over_samples(tensor, n))
    \/ Return("sum", n, ByBlock(LAMBDA b : sum_over_samples_block(b, n)))
Mean == \E n \in SampleNames :
    \/ Return("mean", n, mean_over_samples(tensor, n))
    \/ Return("mean", n, ByBlock(LAMBDA b : mean_over_samples_block(b, n)))
Var == \E n \in SampleNames :
    \/ Return("var", n, var_over_samples(tensor, n))
    \/ Return("var", n, ByBlock(LAMBDA b : var_over_samples_block(b, n)))
(* Numbers of a field need not have a root: only variances that do are looked at. *)
HasRoots(r) ==
    IF Failed(r) THEN TRUE
    ELSE \A b \in ToSet(r.blocks) : \A ix \in DOMAIN b.values : IsSquare(b.values[ix])
Std == \E n \in SampleNames :
    \/ /\ HasRoots(var_over_samples(tensor, n))
       /\ Return("std", n, std_over_samples(tensor, n))
    \/ /\ HasRoots(ByBlock(LAMBDA b : var_over_samples_block(b, n)))
       /\ Return("std", n, ByBlock(LAMBDA b : std_over_samples_block(b, n)))
Done == calls = MaxCalls /\ UNCHANGED vars

Next == Sum \/ Mean \/ Var \/ Std \/ Done
Spec == Init /\ [][Next]_vars

-----------------------------------------------------------------------------
(* Properties *)

(* Whatever the sequence of reductions, the tensor map is one its constructors accept. *)
TypeOK ==
    /\ calls \in 0..MaxCalls
    /\ TensorMap_allowed(tensor.keys, tensor.blocks)
    /\ \A b \in ToSet(tensor.blocks) :
          /\ TensorBlock_allowed(b) /\ IsInjective(b.samples.values)
          /\ \A ix \in DOMAIN b.values : b.values[ix] \in Number
          /\ \A p \in DOMAIN b.gradients : IsInjective(b.gradients[p].samples.values)

Returned == last.op # "none" /\ ~Failed(last.result)

(* The samples of the old block that became this sample of the new one. *)
Members(old, new, s) ==
    IF new.samples = single THEN 1..count(old.samples)
    ELSE {i \in 1..count(old.samples) :
             Pick(old.samples.values[i], DimensionsOf(old.samples, new.samples.names)) = new.samples.values[s]}

MeanOf(old, G, c, p) == Over(Sum_(G, LAMBDA i : old.values[<<i, c, p>>]), Cardinality(G))

(***************************************************************************)
(* Every sample of the result stands for at least one sample, each sample  *)
(* is in one of them, and the numbers are the sum, the mean, the mean      *)
(* square distance to the mean or its root.                                *)
(***************************************************************************)
ValueIsRight(old, new, ix) ==
    LET G == Members(old, new, ix[1])
        v(i) == old.values[<<i, ix[2], ix[3]>>]
        distance(i) == Minus(v(i), MeanOf(old, G, ix[2], ix[3]))
        variance == Over(Sum_(G, LAMBDA i : Times(distance(i), distance(i))), Cardinality(G))
        x == new.values[ix]
    IN  CASE last.op = "sum" -> x = Sum_(G, v)
          [] last.op = "mean" -> x = MeanOf(old, G, ix[2], ix[3])
          [] last.op = "var" -> x = variance
          [] last.op = "std" -> Times(x, x) = variance

ValuesAreReduced ==
    Returned => \A k \in 1..Len(last.before.blocks) :
        LET old == last.before.blocks[k]
            new == last.result.blocks[k]
        IN  /\ \A s \in 1..count(new.samples) : Members(old, new, s) # {}
            /\ (1..count(old.samples)) = UNION {Members(old, new, s) : s \in 1..count(new.samples)}
            /\ \A ix \in DOMAIN new.values : ValueIsRight(old, new, ix)

(***************************************************************************)
(* The gradients of the result are the derivatives of its values, by the   *)
(* rules of calculus: a sample without an entry has derivative zero. Of    *)
(* the standard deviation, where it is not zero.                           *)
(***************************************************************************)
Derivative(b, g, i, e, c, p) ==
    LET row == [e EXCEPT ![1] = i - 1]
    IN  IF row \in Entries(g.samples) THEN g.values[<<position(g.samples, row), c, p>>] ELSE 0

DerivativeIsRight(old, new, parameter, ix) ==
    LET g == old.gradients[parameter]
        e == new.gradients[parameter].samples.values[ix[1]]
        s == e[1] + 1
        cell == ValueCell(old, s, ix)
        G == Members(old, new, s)
        d(i) == Derivative(old, g, i, e, ix[2], ix[3])
        distance(i) == Minus(old.values[<<i, cell[2], cell[3]>>], MeanOf(old, G, cell[2], cell[3]))
        of_variance == Times(2, Over(Sum_(G, LAMBDA i : Times(distance(i), d(i))), Cardinality(G)))
        x == new.gradients[parameter].values[ix]
    IN  CASE last.op = "sum" -> x = Sum_(G, d)
          [] last.op = "mean" -> x = Over(Sum_(G, d), Cardinality(G))
          [] last.op = "var" -> x = of_variance
          [] last.op = "std" ->
                new.values[cell] # 0 => Times(2, Times(new.values[cell], x)) = of_variance

NoDerivativeIsLost(old, new, parameter) ==
    \A e \in Entries(old.gradients[parameter].samples) :
        \E f \in Entries(new.gradients[parameter].samples) :
            /\ e[1] + 1 \in Members(old, new, f[1] + 1)
            /\ f = [e EXCEPT ![1] = f[1]]

GradientIsRight(old, new, parameter) ==
    /\ NoDerivativeIsLost(old, new, parameter)
    /\ \A ix \in DOMAIN new.gradients[parameter].values : DerivativeIsRight(old, new, parameter, ix)

(* The gradient has an entry for all the samples that become one, or for none. *)
Dense(old, new, parameter) ==
    \A e \in Entries(old.gradients[parameter].samples), s \in 1..count(new.samples) :
        e[1] + 1 \in Members(old, new, s) =>
            \A i \in Members(old, new, s) : [e EXCEPT ![1] = i - 1] \in Entries(old.gradients[parameter].samples)

GradientsOf(P(_, _, _)) ==
    \A k \in 1..Len(last.before.blocks) :
        LET old == last.before.blocks[k]
            new == last.result.blocks[k]
        IN  \A p \in DOMAIN old.gradients : P(old, new, p)

SumsAreDifferentiated == Returned /\ last.op = "sum" => GradientsOf(GradientIsRight)

DenseGradientsAreDerivatives ==
    Returned => GradientsOf(LAMBDA old, new, p : Dense(old, new, p) => GradientIsRight(old, new, p))


(* "f(x(t))-> df(x(t))/dx * dx/dt": also when only some of the samples have a derivative. *)
GradientsAreDerivatives == Returned => GradientsOf(GradientIsRight)

=============================================================================
