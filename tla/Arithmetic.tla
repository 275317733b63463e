------------------------------ MODULE Arithmetic ------------------------------
(***************************************************************************)
(* Arithmetic with tensor maps (metatensor_operations: add.py,             *)
(* subtract.py, multiply.py, divide.py, pow.py, abs.py, dot.py, solve.py   *)
(* and lstsq.py). Values are combined entry by entry, and gradients with   *)
(* the rules of derivatives, which need the value that each entry of a     *)
(* gradient is the derivative of. The program keeps a tensor map and what  *)
(* the last call returned, and uses them in the next calls.                *)
(***************************************************************************)
EXTENDS Metadata, Field

CONSTANTS
    Tensors,    \* the tensor maps to start from, and the other arguments
    Scalars,    \* numbers to use instead, as [scalar |-> n]; others raise TypeError
    Weights,    \* second arguments of dot
    MaxCalls    \* bound: the calls

IsScalar(x) == "scalar" \in DOMAIN x
IsTensor(x) == "blocks" \in DOMAIN x

(* to_index_array(gradient.samples.column("sample")): the row of values for each row of a gradient. *)
sample_of(g, i) == g.samples.values[i][1] + 1

(***************************************************************************)
(* A block made of one, or of two, entry by entry: V gives the values, G   *)
(* the gradients from the values and the gradients of the arguments.       *)
(***************************************************************************)
block_constant(b, V(_), G(_, _)) ==
    IF AnyNested(b, DOMAIN b.gradients) THEN Raise("NotImplementedError")
    ELSE [b EXCEPT
        !.values = [ix \in DOMAIN @ |-> V(@[ix])],
        !.gradients = [p \in DOMAIN @ |-> LET g == @[p] IN [g EXCEPT
            !.values = [ix \in DOMAIN @ |-> G(b.values[ValueCell(b, sample_of(g, ix[1]), ix)], @[ix])]]]]

block_block(a, b, V(_, _), G(_, _, _, _)) ==
    IF AnyNested(a, DOMAIN a.gradients) \/ AnyNested(b, DOMAIN a.gradients) THEN Raise("NotImplementedError")
    ELSE [a EXCEPT
        !.values = [ix \in DOMAIN @ |-> V(@[ix], b.values[ix])],
        !.gradients = [p \in DOMAIN @ |-> LET g == @[p] h == b.gradients[p] IN [g EXCEPT
            !.values = [ix \in DOMAIN @ |->
                G(a.values[ValueCell(a, sample_of(g, ix[1]), ix)], @[ix],
                  b.values[ValueCell(b, sample_of(h, ix[1]), ix)], h.values[ix])]]]]

add_block_constant(b, c) == block_constant(b, LAMBDA x : Plus(c, x), LAMBDA x, dx : dx)
add_block_block(a, b) ==
    block_block(a, b, Plus, LAMBDA x, dx, y, dy : Plus(dx, dy))
multiply_block_constant(b, c) ==
    block_constant(b, LAMBDA x : Times(c, x), LAMBDA x, dx : Times(dx, c))
multiply_block_block(a, b) ==
    block_block(a, b, Times, LAMBDA x, dx, y, dy : Plus(Times(x, dy), Times(dx, y)))
divide_block_constant(b, c) ==
    block_constant(b, LAMBDA x : Over(x, c), LAMBDA x, dx : Over(dx, c))
divide_block_block(a, b) ==
    block_block(a, b, Over, LAMBDA x, dx, y, dy :
        Plus(Minus(0, Over(Times(x, dy), Times(y, y))), Over(dx, y)))

(* A negative exponent is a division by the power. *)
float_pow(x, n) == IF n >= 0 THEN Power[x, n] ELSE Inverse_(Power[x, -n])
pow_block_constant_SamePower(b, n) ==
    block_constant(b, LAMBDA x : float_pow(x, n), LAMBDA x, dx : Times(Times(n % Prime, dx), float_pow(x, n)))
pow_block_constant(b, n) ==
    block_constant(b, LAMBDA x : float_pow(x, n), LAMBDA x, dx : Times(Times(n % Prime, dx), float_pow(x, n - 1)))
abs_block(b) == block_constant(b, LAMBDA x : Times(Sign(x), x), LAMBDA x, dx : Times(dx, Sign(x)))

-----------------------------------------------------------------------------
(* Tensor maps: the blocks of the second are found by key, and must have the same metadata. *)
check_same(x, y) ==
    FirstMessage(<<check_blocks_impl(x, y, AllMetadata), check_same_gradients_impl(x, y, AllMetadata)>>)

TwoTensors(a, b, F(_, _)) ==
    IF check_same_keys_impl(a, b) # "" THEN Raise("NotEqualError")
    ELSE TensorMapOf(a.keys, [k \in 1..Len(a.blocks) |->
             LET x == a.blocks[k] y == block(b, a.keys.values[k])
             IN  IF check_same(x, y) # "" THEN Raise("NotEqualError") ELSE F(x, y)])

OneTensor(a, F(_)) == TensorMapOf(a.keys, [k \in 1..Len(a.blocks) |-> F(a.blocks[k])])

Apply(a, b, C(_, _), F(_, _)) ==
    IF IsScalar(b) THEN OneTensor(a, LAMBDA x : C(x, b.scalar))
    ELSE IF IsTensor(b) THEN TwoTensors(a, b, F)
    ELSE Raise("TypeError")

add(a, b) == Apply(a, b, add_block_constant, add_block_block)
multiply(a, b) == Apply(a, b, multiply_block_constant, multiply_block_block)
divide(a, b) == Apply(a, b, divide_block_constant, divide_block_block)
subtract(a, b) ==
    IF IsScalar(b) THEN add(a, [scalar |-> Minus(0, b.scalar)])
    ELSE IF ~IsTensor(b) THEN Raise("TypeError")
    ELSE LET minus_b == multiply(b, [scalar |-> Prime - 1])
         IN  IF Failed(minus_b) THEN minus_b ELSE add(a, minus_b)
pow(a, n) == OneTensor(a, LAMBDA x : pow_block_constant(x, n))
abs(a) == OneTensor(a, abs_block)

(* numpy.dot(A, B.T): the samples of the second block become properties. *)
dot_arrays(values, b) ==
    [ix \in {<<i, c, s>> : i \in {x[1] : x \in DOMAIN values}, c \in {x[2] : x \in DOMAIN values}, s \in 1..count(b.samples)} |->
        Sum_(1..count(b.properties), LAMBDA p : Times(values[<<ix[1], ix[2], p>>], b.values[<<ix[3], 1, p>>]))]

NoComponents == Labels(<<>>, << <<>> >>)
dot_block(a, b) ==
    IF a.properties # b.properties \/ b.components # NoComponents \/ DOMAIN b.gradients # {} THEN Raise("ValueError")
    ELSE IF AnyNested(a, DOMAIN a.gradients) THEN Raise("NotImplementedError")
    ELSE [a EXCEPT !.properties = b.samples, !.values = dot_arrays(@, b),
                   !.gradients = [p \in DOMAIN @ |-> [@[p] EXCEPT !.values = dot_arrays(@, b)]]]

ByKey(a, b, F(_, _)) ==
    IF check_same_keys_impl(a, b) # "" THEN Raise("NotEqualError")
    ELSE TensorMapOf(a.keys, [k \in 1..Len(a.blocks) |-> F(a.blocks[k], block(b, a.keys.values[k]))])
dot(a, b) == ByKey(a, b, dot_block)

(***************************************************************************)
(* solve and lstsq: values and gradients, one below the other, as rows of  *)
(* linear equations. numpy.linalg (external) gives the one solution there  *)
(* is; without one, solve raises and lstsq returns something close, which  *)
(* is not looked at.                                                       *)
(***************************************************************************)
rows(b) ==
    {<<"values", ix[1], ix[2]>> : ix \in DOMAIN b.values}
    \cup UNION {{<<p, ix[1], ix[2]>> : ix \in DOMAIN b.gradients[p].values} : p \in DOMAIN b.gradients}
NumberAt(b, row, property) ==
    (IF row[1] = "values" THEN b ELSE b.gradients[row[1]]).values[<<row[2], row[3], property>>]

Solutions(x, y, column_y) ==
    {w \in [1..count(x.properties) -> Number] : \A r \in rows(x) :
        Sum_(1..count(x.properties), LAMBDA p : Times(NumberAt(x, r, p), w[p])) = NumberAt(y, r, column_y)}

WeightsOf(x, y, failure) ==
    LET found == [q \in 1..count(y.properties) |-> Solutions(x, y, q)]
        weight == [q \in 1..count(y.properties) |-> CHOOSE w \in found[q] : TRUE]
    IN  IF \E q \in DOMAIN found : Cardinality(found[q]) # 1 THEN Raise(failure)
        ELSE [samples |-> y.properties, components |-> NoComponents, properties |-> x.properties,
              values |-> [ix \in Cells(y.properties, NoComponents, x.properties) |-> weight[ix[1]][ix[3]]],
              gradients |-> NoGradients]

lstsq_block(x, y) ==
    LET check == <<"samples", "components">>
    IN  IF FirstMessage(<<check_blocks_impl(x, y, check), check_same_gradients_impl(x, y, check)>>) # ""
        THEN Raise("NotEqualError") ELSE WeightsOf(x, y, "close")
lstsq(x, y) == ByKey(x, y, lstsq_block)

solve_block(x, y) ==
    IF x.samples # y.samples THEN Raise("ValueError")
    ELSE IF check_same_gradients_impl(x, y, AllMetadata) # "" THEN Raise("NotEqualError")
    ELSE IF Cardinality(rows(x)) # count(x.properties) THEN Raise("LinAlgError")
    ELSE WeightsOf(x, y, "LinAlgError")
solve(x, y) ==
    IF check_same_keys_impl(x, y) # "" THEN Raise("NotEqualError")
    ELSE IF \E b \in ToSet(x.blocks) : b.components # NoComponents \/ count(b.samples) # count(b.properties)
    THEN Raise("ValueError")
    ELSE ByKey(x, y, solve_block)

-----------------------------------------------------------------------------
VARIABLES
    tensor,     \* the tensor map
    last,       \* the last call: what it got and what it returned
    before,     \* the call before that
    calls       \* how many calls there were

vars == <<tensor, last, before, calls>>

NoCall == [op |-> "none", a |-> [blocks |-> <<>>], b |-> [scalar |-> 0], result |-> Raise("none")]

Init == tensor \in Tensors /\ last = NoCall /\ before = NoCall /\ calls = 0

(* What is returned is used as the first argument of the next call, or as the second. *)
Return(op, b, result) ==
    /\ calls < MaxCalls /\ calls' = calls + 1
    /\ before' = last /\ last' = [op |-> op, a |-> tensor, b |-> b, result |-> result]
    /\ tensor' \in {tensor} \cup (IF Failed(result) THEN {} ELSE {result})

Returned == IF Failed(last.result) THEN {} ELSE {last.result}
Operands == Tensors \cup Returned \cup Scalars
(* Without a number that can not be divided by: what numpy makes of it is no number here. *)
Divisible(b) ==
    IF IsScalar(b) THEN b.scalar # 0
    ELSE IsTensor(b) => \A x \in ToSet(b.blocks) : \A ix \in DOMAIN x.values : x.values[ix] # 0

Add == \E b \in Operands : Return("add", b, add(tensor, b))
Subtract == \E b \in Operands : Return("subtract", b, subtract(tensor, b))
Multiply == \E b \in Operands : Return("multiply", b, multiply(tensor, b))
Divide == \E b \in Operands : Divisible(b) /\ Return("divide", b, divide(tensor, b))
Pow == \E n \in -1..3 : (n > 0 \/ Divisible(tensor)) /\ Return("pow", [scalar |-> n], pow(tensor, n))
Abs == Return("abs", NoCall.b, abs(tensor))
Dot == \E b \in Weights \cup Tensors : Return("dot", b, dot(tensor, b))
Solve == \E y \in Returned \cup Tensors : Return("solve", y, solve(tensor, y))
Lstsq == \E y \in Returned \cup Tensors : Return("lstsq", y, lstsq(tensor, y))

Next == Add \/ Subtract \/ Multiply \/ Divide \/ Pow \/ Abs \/ Dot \/ Solve \/ Lstsq

Spec == Init /\ [][Next]_vars

-----------------------------------------------------------------------------
(***************************************************************************)
(* Properties. A number x with its derivative dx is the dual number        *)
(* x + dx e with e * e = 0; arithmetic with dual numbers gives the         *)
(* derivatives of the results, whatever the rules in the code are.         *)
(***************************************************************************)
Dual(x, dx) == [v |-> x, d |-> dx]
Duals == [v : Number, d : Number]
DPlus(x, y) == Dual(Plus(x.v, y.v), Plus(x.d, y.d))
DTimes(x, y) == Dual(Times(x.v, y.v), Plus(Times(x.v, y.d), Times(x.d, y.v)))
DPower[x \in Duals, n \in Nat] == IF n = 0 THEN Dual(1, 0) ELSE DTimes(x, DPower[x, n - 1])

IsResult(op, x, y, n, z) ==
    CASE op = "add" -> z = DPlus(x, y)
      [] op = "subtract" -> x = DPlus(z, y)
      [] op = "multiply" -> z = DTimes(x, y)
      [] op = "divide" -> x = DTimes(z, y)
      [] op = "pow" -> IF n >= 0 THEN z = DPower[x, n] ELSE DTimes(z, DPower[x, -n]) = Dual(1, 0)
      [] op = "abs" -> z = DTimes(x, Dual(Sign(x.v), 0))

(* The dual number with some labels in a block, for a parameter and a row of its gradient. *)
DualIn(b, g, entry, component, property) ==
    LET i == position(g.samples, entry)
        q == position(b.properties, property)
    IN  Dual(b.values[<<entry[1] + 1, ((component - 1) % count(b.components)) + 1, q>>], g.values[<<i, component, q>>])

(* What is returned is made of blocks and a tensor map that their constructors accept. *)
TypeOK ==
    /\ calls \in 0..MaxCalls
    /\ TensorMap_allowed(tensor.keys, tensor.blocks)
    /\ \A b \in ToSet(tensor.blocks) : TensorBlock_allowed(b)

(***************************************************************************)
(* The gradients that add, subtract, multiply, divide, pow and abs return  *)
(* are the derivatives of the values that they return, for each key,       *)
(* sample and property, also when the arguments are gradients of results.  *)
(***************************************************************************)
Elementwise == {"add", "subtract", "multiply", "divide", "pow", "abs"}

DerivativesAreExact ==
    last.op \in Elementwise /\ ~Failed(last.result) =>
        \A k \in 1..Len(last.a.blocks) :
            LET a == last.a.blocks[k]
                r == block(last.result, last.a.keys.values[k])
                n == IF IsScalar(last.b) THEN last.b.scalar ELSE 0
            IN  \A p \in DOMAIN a.gradients : \A ix \in DOMAIN r.gradients[p].values :
                    LET entry == r.gradients[p].samples.values[ix[1]]
                        property == r.properties.values[ix[3]]
                        of(b) == DualIn(b, b.gradients[p], entry, ix[2], property)
                        y == IF IsScalar(last.b) THEN Dual(n % Prime, 0) ELSE of(block(last.b, last.a.keys.values[k]))
                    IN  IsResult(last.op, of(a), y, n, of(r))

(* dot: each number is the sum of the products with the weights of the same key, and so are the derivatives. *)
DotIsLinear ==
    last.op = "dot" /\ ~Failed(last.result) =>
        \A e \in Entries(last.a.keys) :
            LET a == block(last.a, e) b == block(last.b, e) r == block(last.result, e)
                product(values, ix) ==
                    Sum_(1..count(a.properties), LAMBDA p : Times(values[<<ix[1], ix[2], p>>],
                        b.values[<<position(b.samples, r.properties.values[ix[3]]), 1, p>>]))
            IN  /\ \A ix \in DOMAIN r.values : r.values[ix] = product(a.values, ix)
                /\ \A p \in DOMAIN a.gradients : \A ix \in DOMAIN r.gradients[p].values :
                      r.gradients[p].values[ix] = product(a.gradients[p].values, ix)

(***************************************************************************)
(* The weights that were used in dot are found again from what it gave, by *)
(* lstsq with values and gradients, and by solve with a square matrix, if  *)
(* they are determined: no other weights give zero for all the samples.    *)
(***************************************************************************)
Determined(b) ==
    \A w \in [1..count(b.properties) -> Number] \ {[p \in 1..count(b.properties) |-> 0]} :
        LET nonzero(values) == \E i \in {ix[1] : ix \in DOMAIN values}, c \in {ix[2] : ix \in DOMAIN values} :
                Sum_(1..count(b.properties), LAMBDA p : Times(values[<<i, c, p>>], w[p])) # 0
        IN  nonzero(b.values) \/ \E p \in DOMAIN b.gradients : nonzero(b.gradients[p].values)

Undoes(op) ==
    /\ last.op = op /\ before.op = "dot" /\ ~Failed(before.result)
    /\ last.a = before.a /\ last.b = before.result
    /\ \A b \in ToSet(last.a.blocks) : Determined(b)

Recovered == ~Failed(last.result) /\ equal(last.result, before.b) = [bool |-> TRUE]

WeightsAreRecovered ==
    /\ Undoes("lstsq") => Recovered
    /\ Undoes("solve") /\ (\A b \in ToSet(last.a.blocks) :
           b.gradients = NoGradients /\ b.components = NoComponents /\ count(b.samples) = count(b.properties)) => Recovered

(* "``B`` is a TensorMap it has to have the same metadata as ``A``": exactly the pairs that equal_metadata refuses raise. *)
MetadataIsCompared ==
    last.op \in {"add", "multiply", "divide", "subtract"} /\ IsTensor(last.b) =>
        (last.result = Raise("NotEqualError") <=>
            /\ equal_metadata(last.a, last.b, AllMetadata) = [bool |-> FALSE]
            /\ last.result # Raise("NotImplementedError"))

=============================================================================
