------------------------------ MODULE TensorData ------------------------------
(***************************************************************************)
(* Blocks and tensor maps as plain data, for the code that makes new ones  *)
(* from old ones. A block is [samples, components, properties, values,     *)
(* gradients]; a gradient, by parameter, is [samples, components, nested,  *)
(* values], nested meaning that it has gradients itself.                   *)
(*                                                                         *)
(* An array is a function of a sample, a component and a property, all     *)
(* 1-based; the components stand for all the component axes at once. The   *)
(* sample that a gradient entry refers to is data and is 0-based, as in    *)
(* the code.                                                               *)
(***************************************************************************)
EXTENDS PyLabels

(***************************************************************************)
(* Arrays of the right shape: the samples, the components and the          *)
(* properties of the block number their cells.                             *)
(***************************************************************************)
Cells(samples, components, properties) ==
    (1..count(samples)) \X (1..count(components)) \X (1..count(properties))

Array(samples, components, properties, value) ==
    [ix \in Cells(samples, components, properties) |-> value]

(* Positions, in ascending order. *)
Ascending(S) ==
    [k \in 1..Cardinality(S) |-> CHOOSE i \in S : Cardinality({h \in S : h < i}) = k - 1]

(* An IndexSet filled from s: the first of equal elements stays. *)
IndexSet(s) == Pick(s, Ascending({i \in 1..Len(s) : \A h \in 1..(i - 1) : s[h] # s[i]}))

(* Comparison of entries, for sort_unstable and BTreeSet. *)
Before(e, f) ==
    \E n \in 1..Len(e) : e[n] < f[n] /\ \A m \in 1..(n - 1) : e[m] = f[m]

(* The elements of a BTreeSet, in order: each comes after all the smaller ones. *)
BTreeSet(S) ==
    [k \in 1..Cardinality(S) |->
        CHOOSE e \in S : Cardinality({f \in S : Before(f, e)}) = k - 1]

Concat(s) == FlattenSeq(s)

Sorted(s) == \A m, n \in 1..Len(s) : m < n => Before(s[m], s[n])

-----------------------------------------------------------------------------
(* What the constructors accept *)

IsArray(b, properties) == DOMAIN b.values = Cells(b.samples, b.components, properties)

(* TensorBlock(...), and add_gradient for each of the gradients. *)
TensorBlock_allowed(b) ==
    /\ IsArray(b, b.properties)
    /\ ~is_empty(b.components)
    /\ \A p \in DOMAIN b.gradients : LET g == b.gradients[p] IN
          /\ IsArray(g, b.properties)
          /\ ~is_empty(g.components)
          /\ size(g.samples) > 0 /\ g.samples.names[1] = "sample"
          /\ \A e \in Entries(g.samples) : e[1] \in 0..(count(b.samples) - 1)

(* TensorMap(...): a block for each key, all with the same names. *)
Names(b) ==
    [samples |-> b.samples.names, components |-> b.components.names,
     properties |-> b.properties.names,
     gradients |-> [p \in DOMAIN b.gradients |->
         <<b.gradients[p].samples.names, b.gradients[p].components.names>>]]

TensorMap_allowed(keys, blocks) ==
    /\ count(keys) = Len(blocks)
    /\ \A k \in 1..Len(blocks) : Names(blocks[k]) = Names(blocks[1])

TensorBlock(b) == IF TensorBlock_allowed(b) THEN b ELSE Raise("MetatensorError")
TensorMap(keys, blocks) ==
    IF TensorMap_allowed(keys, blocks) THEN [keys |-> keys, blocks |-> blocks]
    ELSE Raise("MetatensorError")

(* The map of the new blocks, unless making one of them raised. *)
TensorMapOf(keys, results) ==
    IF \E k \in 1..Len(results) : Failed(results[k])
    THEN SelectSeq(results, Failed)[1]
    ELSE TensorMap(keys, results)

(* take, mask and fancy indexing: the rows, components and columns at some positions. *)
Positions(l) == [i \in 1..count(l) |-> i]
take(values, rows, components, columns) ==
    [ix \in (1..Len(rows)) \X (1..Len(components)) \X (1..Len(columns)) |->
        values[<<rows[ix[1]], components[ix[2]], columns[ix[3]]>>]]
At(l, positions) == NewLabels(l.names, [k \in 1..Len(positions) |-> l.values[positions[k]]])

(* The number that a cell of a gradient is the derivative of: its last component axes are those of the values. *)
ValueCell(b, row, ix) == <<row, ((ix[2] - 1) % count(b.components)) + 1, ix[3]>>

NoGradients == [p \in {} |-> p]
AnyNested(b, parameters) == \E p \in parameters : b.gradients[p].nested
Ungraded(b) == [b EXCEPT !.gradients = NoGradients]

-----------------------------------------------------------------------------
(***************************************************************************)
(* What a tensor map says: for each of its numbers, the values of all the  *)
(* named dimensions that describe it (where: pairs of a name and a value). *)
(* A sample of a gradient stands for the sample of the values that it      *)
(* refers to.                                                              *)
(***************************************************************************)
Fact(what, where, component, value) ==
    [what |-> what, where |-> where, component |-> component, value |-> value]

ValueFacts(key, b) ==
    {Fact("values",
          key \cup Named(b.samples, b.samples.values[ix[1]])
              \cup Named(b.properties, b.properties.values[ix[3]]),
          b.components.values[ix[2]], b.values[ix]) : ix \in DOMAIN b.values}

GradientFacts(key, b, p) ==
    LET g == b.gradients[p]
        sample(i) == g.samples.values[i]
        extra(i) == {d \in Named(g.samples, sample(i)) : d[1] # "sample"}
    IN  {Fact(p,
              key \cup Named(b.samples, b.samples.values[sample(ix[1])[1] + 1])
                  \cup extra(ix[1]) \cup Named(b.properties, b.properties.values[ix[3]]),
              g.components.values[ix[2]], g.values[ix]) : ix \in DOMAIN g.values}

BlockFacts(key, b) ==
    ValueFacts(key, b) \cup UNION {GradientFacts(key, b, p) : p \in DOMAIN b.gradients}

FactsOf(keys, blocks, positions) ==
    UNION {BlockFacts(Named(keys, keys.values[k]), blocks[k]) : k \in positions}
Facts(keys, blocks) == FactsOf(keys, blocks, 1..count(keys))
=============================================================================
