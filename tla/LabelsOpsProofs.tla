--------------------------- MODULE LabelsOpsProofs ---------------------------
(***************************************************************************)
(* Proofs about LabelsOps, for any names, values and input Labels.         *)
(***************************************************************************)
EXTENDS LabelsOps, FiniteSetTheorems, TLAPS

-----------------------------------------------------------------------------
(* The inductive invariant *)

(***************************************************************************)
(* What every Labels value in the hands of a caller satisfies.             *)
(***************************************************************************)
Valid(l) ==
    /\ IsLabels(l)
    /\ Distinct(l.names)
    /\ Distinct(l.values)
    /\ l.filled => l.positions = init_positions(l.values)

Running(o) == op = o /\ pc \in {"loop", "done"}

(* The mapping of the first n entries has been filled in. *)
MappedUpTo(mapping, entries, n) ==
    mapping # <<>> =>
        /\ Len(mapping) = Len(entries)
        /\ \A k \in 1..n : /\ mapping[k] \in 0..(Len(values) - 1)
                           /\ values[mapping[k] + 1] = entries[k]

(***************************************************************************)
(* union after i entries of other: the map is the one of the values, which *)
(* are the entries of self and then new entries among those seen.          *)
(***************************************************************************)
UnionInv ==
    /\ self.names = other.names
    /\ positions = init_positions(values)
    /\ Distinct(values)
    /\ i <= count(other)
    /\ Len(values) >= count(self)
    /\ \A k \in 1..count(self) : values[k] = self.values[k]
    /\ \A k \in 1..Len(values) :
          k > count(self) => \E j \in 1..i : values[k] = other.values[j]
    /\ \A j \in 1..i : other.values[j] \in EntrySet(values)
    /\ MappedUpTo(first_mapping, self.values, count(self))
    /\ MappedUpTo(second_mapping, other.values, i)
    /\ pc = "done" => i = count(other)

(***************************************************************************)
(* intersection after i entries of the smaller Labels: the values are the  *)
(* common entries among those seen.                                        *)
(***************************************************************************)
IntersectionInv ==
    /\ self.names = other.names
    /\ Distinct(values)
    /\ i <= count(smaller)
    /\ \A k \in 1..Len(values) :
          /\ \E j \in 1..i : values[k] = smaller.values[j]
          /\ values[k] \in EntrySet(larger.values)
    /\ \A j \in 1..i : smaller.values[j] \in EntrySet(larger.values) =>
                           smaller.values[j] \in EntrySet(values)
    /\ MapsToOrMissing(first_mapping, self.values, values)
    /\ MapsToOrMissing(second_mapping, other.values, values)
    /\ pc = "done" => i = count(smaller)

(***************************************************************************)
(* select after i iterations: the positions p with Hit(p, i) are listed.   *)
(***************************************************************************)
Hit(p, n) ==
    IF SameNames THEN \E j \in 1..n : other.values[j] = self.values[p + 1]
    ELSE p < n /\ candidate(self.values[p + 1]) \in EntrySet(other.values)

Selectable == 0..(count(self) - 1)

SelectInv ==
    /\ EntrySet(other.names) \subseteq EntrySet(self.names)
    /\ Len(selected) = count(self)
    /\ n_selected <= count(self)
    /\ \A k \in 1..n_selected : selected[k] \in Selectable /\ Hit(selected[k], i)
    /\ \A p \in Selectable : Hit(p, i) => \E k \in 1..n_selected : selected[k] = p
    /\ \A k, l \in 1..n_selected : selected[k] = selected[l] => k = l
    /\ \A k \in (n_selected + 1)..Len(selected) : selected[k] = -1
    /\ i <= IF SameNames THEN count(other) ELSE count(self)
    /\ pc = "done" => i = IF SameNames THEN count(other) ELSE count(self)

IInv ==
    /\ TypeOK
    /\ Valid(self) /\ Valid(other) /\ Valid(last)
    /\ Running("union") => UnionInv
    /\ Running("intersection") => IntersectionInv
    /\ Running("select") => SelectInv
    /\ SelectNeverOverflows

-----------------------------------------------------------------------------
(* Lemmas about positions maps *)

(* A position of the code is the index of the next element in TLA+. *)
LEMMA PositionIsIndex ==
    ASSUME NEW n \in Nat, NEW p \in 0..(n - 1)
    PROVE  p + 1 \in 1..n
    OBVIOUS

(* The entries of a sequence of distinct entries are as many as its length. *)
LEMMA EntrySetCardinality ==
    ASSUME NEW S, NEW v \in Seq(S), Distinct(v)
    PROVE  Cardinality(EntrySet(v)) = Len(v)
<1>1. v \in Bijection(1..Len(v), EntrySet(v))
    BY DEF Distinct, EntrySet, Bijection, Injection, IsInjective, Surjection
<1>2. IsFiniteSet(1..Len(v)) /\ Cardinality(1..Len(v)) = Len(v)
    <2>1. 1 \in Int /\ Len(v) \in Int /\ Len(v) \in Nat
        OBVIOUS
    <2>2. /\ IsFiniteSet(1..Len(v))
          /\ Cardinality(1..Len(v)) = IF 1 > Len(v) THEN 0 ELSE Len(v) - 1 + 1
        BY <2>1, FS_Interval
    <2> QED BY <2>1, <2>2
<1> QED
    BY <1>1, <1>2, FS_Bijection DEF ExistsBijection

(* Appending an entry adds it to the entries. *)
LEMMA AppendEntrySet ==
    ASSUME NEW S, NEW v \in Seq(S), NEW e \in S
    PROVE  EntrySet(Append(v, e)) = EntrySet(v) \cup {e}
<1>1. /\ Len(Append(v, e)) = Len(v) + 1 /\ Append(v, e)[Len(v) + 1] = e
      /\ \A k \in 1..Len(v) : Append(v, e)[k] = v[k]
    OBVIOUS
<1> QED BY <1>1 DEF EntrySet

(* init_positions maps every entry to the one index where it is. *)
LEMMA InitPositionsIndex ==
    ASSUME NEW S, NEW v \in Seq(S), Distinct(v)
    PROVE  /\ DOMAIN init_positions(v) = EntrySet(v)
           /\ \A k \in 1..Len(v) : init_positions(v)[v[k]] = k - 1
           /\ \A e \in EntrySet(v) : /\ init_positions(v)[e] \in 0..(Len(v) - 1)
                                     /\ v[init_positions(v)[e] + 1] = e
<1>1. DOMAIN init_positions(v) = EntrySet(v)
    BY DEF init_positions
<1>2. ASSUME NEW k \in 1..Len(v)
      PROVE  init_positions(v)[v[k]] = k - 1
    <2>1. v[k] \in EntrySet(v)
        BY DEF EntrySet
    <2>2. init_positions(v)[v[k]] = CHOOSE p \in 0..(Len(v) - 1) : v[p + 1] = v[k]
        BY <2>1 DEF init_positions
    <2>3. k - 1 \in 0..(Len(v) - 1) /\ v[(k - 1) + 1] = v[k]
        OBVIOUS
    <2>4. \A p \in 0..(Len(v) - 1) : v[p + 1] = v[k] => p = k - 1
        BY DEF Distinct
    <2> QED BY <2>2, <2>3, <2>4
<1> QED
    BY <1>1, <1>2 DEF EntrySet

(* A map with the same domain and the same positions is that map. *)
LEMMA InitPositionsUnique ==
    ASSUME NEW S, NEW v \in Seq(S), Distinct(v),
           NEW f, f = [e \in EntrySet(v) |-> f[e]],
           \A k \in 1..Len(v) : f[v[k]] = k - 1
    PROVE  f = init_positions(v)
<1>1. ASSUME NEW e \in EntrySet(v)
      PROVE  f[e] = init_positions(v)[e]
    <2>1. PICK k \in 1..Len(v) : e = v[k]
        BY DEF EntrySet
    <2>2. init_positions(v)[v[k]] = k - 1
        BY InitPositionsIndex
    <2> QED BY <2>1, <2>2
<1>2. init_positions(v) = [e \in EntrySet(v) |-> init_positions(v)[e]]
    BY DEF init_positions
<1> QED
    BY <1>1, <1>2

(* Inserting a new entry in the map is appending it to the values. *)
LEMMA InsertNewPosition ==
    ASSUME NEW S, NEW v \in Seq(S), Distinct(v), NEW e \in S, e \notin EntrySet(v)
    PROVE  /\ Append(v, e) \in Seq(S)
           /\ Distinct(Append(v, e))
           /\ EntrySet(Append(v, e)) = EntrySet(v) \cup {e}
           /\ NewPosition(init_positions(v)) = Len(v)
           /\ InsertPosition(init_positions(v), e) = init_positions(Append(v, e))
<1> DEFINE w == Append(v, e)
           p == init_positions(v)
           f == InsertPosition(p, e)
<1>1. w \in Seq(S) /\ Len(w) = Len(v) + 1 /\ w[Len(v) + 1] = e
      /\ \A k \in 1..Len(v) : w[k] = v[k]
    OBVIOUS
<1>2. Distinct(w)
    BY <1>1 DEF Distinct, EntrySet
<1>3. EntrySet(w) = EntrySet(v) \cup {e}
    BY AppendEntrySet
<1>4. NewPosition(p) = Len(v)
    BY EntrySetCardinality, InitPositionsIndex DEF NewPosition
<1>5. DOMAIN p = EntrySet(v)
    BY InitPositionsIndex
<1>6. f = [x \in EntrySet(w) |-> f[x]]
    BY <1>3, <1>5 DEF InsertPosition
<1>7. ASSUME NEW k \in 1..Len(w)
      PROVE  f[w[k]] = k - 1
    <2>1. CASE k = Len(v) + 1
        BY <2>1, <1>1, <1>4, <1>5 DEF InsertPosition
    <2>2. CASE k \in 1..Len(v)
        <3>1. w[k] = v[k] /\ v[k] \in EntrySet(v)
            BY <2>2, <1>1 DEF EntrySet
        <3>2. f[v[k]] = p[v[k]]
            BY <3>1, <1>5 DEF InsertPosition
        <3> QED BY <3>1, <3>2, <2>2, InitPositionsIndex
    <2> QED BY <1>1, <2>1, <2>2
<1>8. f = init_positions(w)
    <2> HIDE DEF w, f
    <2> QED BY <1>1, <1>2, <1>6, <1>7, InitPositionsUnique
<1> QED
    BY <1>1, <1>2, <1>3, <1>4, <1>8

(* Inserting an entry that is already there changes nothing. *)
LEMMA InsertOldPosition ==
    ASSUME NEW S, NEW v \in Seq(S), Distinct(v), NEW e \in EntrySet(v)
    PROVE  InsertPosition(init_positions(v), e) = init_positions(v)
<1>1. DOMAIN init_positions(v) = EntrySet(v)
    BY InitPositionsIndex
<1>2. EntrySet(v) \cup {e} = EntrySet(v)
    OBVIOUS
<1> QED
    BY <1>1, <1>2 DEF InsertPosition, init_positions

(* Valid Labels always have the same positions, cached or not. *)
LEMMA ValidPositions ==
    ASSUME NEW l, Valid(l)
    PROVE  get_or_init_positions(l) = init_positions(l.values)
    BY DEF Valid, get_or_init_positions

(* The labels a caller makes with Labels::new satisfy the data invariant. *)
LEMMA InputsValid == \A l \in Inputs : Valid(l)
    BY InputsAssumption DEF Valid, new_impl

(***************************************************************************)
(* What the actions of a call leave alone or reset, as facts.              *)
(***************************************************************************)
LEMMA CallKeepsValid ==
    ASSUME IInv, NEW o, Call(o)
    PROVE  Valid(self') /\ Valid(other') /\ Valid(last') /\ i' = 0 /\ op' = o
    BY InputsValid DEF Call, IInv

-----------------------------------------------------------------------------
(* Type correctness, and validity of the Labels *)

(* The invariant holds before the first call. *)
LEMMA InitIInv == Init => IInv
<1> SUFFICES ASSUME Init PROVE IInv
    OBVIOUS
<1>1. Valid(last)
    BY InputsValid DEF Init
<1>2. TypeOK
    BY <1>1 DEF Init, TypeOK, Valid
<1> QED
    BY <1>1, <1>2 DEF Init, IInv, Running, SelectNeverOverflows

(* A call that fails (different names, no dimension) leaves nothing behind. *)
LEMMA FailKeepsIInv ==
    ASSUME IInv, NEW o \in {"union", "intersection", "select"}, Call(o),
           NEW r \in {"error", "panic"}, Fail(r),
           o = "select" /\ r = "panic" => size(other') = 0
    PROVE  IInv'
<1>1. Valid(self') /\ Valid(other') /\ Valid(last') /\ i' = 0 /\ op' = o
    BY CallKeepsValid
<1>2. TypeOK'
    BY <1>1 DEF Fail, TypeOK, Valid
<1> QED
    BY <1>1, <1>2 DEF IInv, Running, Fail, SelectNeverOverflows

-----------------------------------------------------------------------------
(* union *)

(* A sequence filled with integers. *)
LEMMA FilledSeq ==
    ASSUME NEW n \in Nat, NEW x \in Int
    PROVE  /\ Filled(n, x) \in Seq(Int)
           /\ Len(Filled(n, x)) = n
           /\ \A k \in 1..n : Filled(n, x)[k] = x
    BY DEF Filled

(* The start of union: the result so far is self, with its positions. *)
LEMMA UnionStartInv ==
    ASSUME IInv, Call("union"), UnionStart
    PROVE  IInv'
<1>1. Valid(self') /\ Valid(other') /\ Valid(last') /\ i' = 0 /\ op' = "union"
    BY CallKeepsValid
<1>2. /\ self'.values \in Seq(Seq(Value)) /\ other'.values \in Seq(Seq(Value))
      /\ count(self') \in Nat /\ count(other') \in Nat
    BY <1>1 DEF Valid, IsLabels, count
<1>3. values' = self'.values /\ positions' = init_positions(self'.values)
    BY <1>1, ValidPositions DEF UnionStart, EqualNames
<1>4. /\ first_mapping' \in Seq(Int)
      /\ MappedUpTo(first_mapping, self.values, count(self))'
    <2>1. CASE first_mapping' = <<>>
        BY <2>1 DEF MappedUpTo
    <2>2. CASE first_mapping' = [k \in 1..count(self') |-> k - 1]
        <3>1. first_mapping' \in Seq(Int) /\ Len(first_mapping') = count(self')
            BY <2>2, <1>2
        <3>2. \A k \in 1..count(self') : first_mapping'[k] = k - 1
            BY <2>2
        <3> QED BY <3>1, <3>2, <1>2, <1>3 DEF MappedUpTo, count
    <2> QED BY <2>1, <2>2 DEF UnionStart, EqualNames
<1>5. /\ second_mapping' \in Seq(Int)
      /\ MappedUpTo(second_mapping, other.values, i)'
    <2>1. second_mapping' \in Seq(Int)
          /\ (second_mapping' # <<>> => Len(second_mapping') = count(other'))
        BY <1>2, FilledSeq DEF UnionStart, EqualNames
    <2> QED BY <2>1, <1>1 DEF MappedUpTo, count
<1>6. TypeOK'
    BY <1>1, <1>2, <1>3, <1>4, <1>5 DEF TypeOK, UnionStart, EqualNames, Valid
<1>7. UnionInv'
    BY <1>1, <1>2, <1>3, <1>4, <1>5 DEF UnionInv, UnionStart, EqualNames, Valid, count
<1> QED
    BY <1>1, <1>6, <1>7 DEF IInv, Running, SelectNeverOverflows

(* One entry of other is found, or appended with the next position. *)
LEMMA UnionStepInv ==
    ASSUME IInv, UnionStep
    PROVE  IInv'
<1> DEFINE entry == other.values[i + 1]
           new == ~Occupied(positions, entry)
<1>1. /\ TypeOK /\ UnionInv /\ Valid(self) /\ Valid(other) /\ Valid(last)
      /\ pc = "loop" /\ op = "union" /\ i < count(other) /\ i \in Nat
    BY DEF IInv, UnionStep, Running, TypeOK
<1>2. /\ UNCHANGED <<self, other, last, op, pc, first_mapping, selected, n_selected>>
      /\ i' = i + 1
    BY DEF UnionStep, args
<1>3. /\ other.values \in Seq(Seq(Value)) /\ entry \in Seq(Value)
      /\ values \in Seq(Seq(Value)) /\ Distinct(values)
      /\ positions = init_positions(values)
      /\ count(other) = Len(other.values) /\ count(self) \in Nat
      /\ first_mapping \in Seq(Int) /\ second_mapping \in Seq(Int)
    BY <1>1 DEF TypeOK, UnionInv, Valid, IsLabels, count
<1>4. DOMAIN positions = EntrySet(values)
    BY <1>3, InitPositionsIndex
<1>5. /\ values' \in Seq(Seq(Value)) /\ Distinct(values')
      /\ positions' = init_positions(values')
      /\ EntrySet(values') = EntrySet(values) \cup {entry}
      /\ Len(values') >= Len(values)
      /\ \A k \in 1..Len(values) : values'[k] = values[k]
      /\ \A k \in 1..Len(values') : k > Len(values) => values'[k] = entry
    <2>1. CASE new
        <3>1. entry \notin EntrySet(values)
            BY <2>1, <1>4 DEF Occupied
        <3>2. values' = Append(values, entry)
              /\ positions' = InsertPosition(positions, entry)
            BY <2>1 DEF UnionStep
        <3> QED BY <3>1, <3>2, <1>3, InsertNewPosition
    <2>2. CASE ~new
        <3>1. entry \in EntrySet(values)
            BY <2>2, <1>4 DEF Occupied
        <3>2. values' = values /\ positions' = InsertPosition(positions, entry)
            BY <2>2 DEF UnionStep
        <3> QED BY <3>1, <3>2, <1>3, InsertOldPosition
    <2> QED BY <2>1, <2>2
<1>6. /\ second_mapping' \in Seq(Int)
      /\ MappedUpTo(second_mapping, other.values, i)'
    <2> DEFINE at == IF Occupied(positions, entry) THEN positions[entry]
                                                   ELSE NewPosition(positions)
    <2>1. at \in 0..(Len(values') - 1) /\ values'[at + 1] = entry
        <3>1. CASE new
            <4>1. entry \notin EntrySet(values)
                BY <3>1, <1>4 DEF Occupied
            <4>2. values' = Append(values, entry)
                BY <3>1 DEF UnionStep
            <4>3. at = Len(values)
                BY <3>1, <4>1, <1>3, InsertNewPosition
            <4>4. Len(values') = Len(values) + 1 /\ values'[Len(values) + 1] = entry
                  /\ Len(values) \in Nat
                BY <4>2, <1>3
            <4> QED BY <4>3, <4>4
        <3>2. CASE ~new
            <4>1. entry \in EntrySet(values)
                BY <3>2, <1>4 DEF Occupied
            <4>2. values' = values
                BY <3>2 DEF UnionStep
            <4> QED BY <3>2, <4>1, <4>2, <1>3, InitPositionsIndex
        <3> QED BY <3>1, <3>2
    <2>2. CASE second_mapping = <<>>
        BY <2>2 DEF UnionStep, MappedUpTo
    <2>3. CASE second_mapping # <<>>
        <3> HIDE DEF at
        <3>1. Len(second_mapping) = Len(other.values) /\ i + 1 \in 1..Len(second_mapping)
            BY <2>3, <1>1, <1>3 DEF UnionInv, MappedUpTo
        <3>2. second_mapping' = [second_mapping EXCEPT ![i + 1] = at]
            BY <2>3 DEF UnionStep, at
        <3>3. /\ second_mapping' \in Seq(Int)
              /\ Len(second_mapping') = Len(other.values)
              /\ second_mapping'[i + 1] = at
              /\ \A k \in 1..i : second_mapping'[k] = second_mapping[k]
            BY <3>1, <3>2, <2>1, <1>1, <1>3
        <3>4. ASSUME NEW k \in 1..(i + 1)
              PROVE  /\ second_mapping'[k] \in 0..(Len(values') - 1)
                     /\ values'[second_mapping'[k] + 1] = other.values[k]
            <4>1. CASE k = i + 1
                BY <4>1, <3>3, <2>1
            <4>2. CASE k \in 1..i
                <5>1. /\ second_mapping[k] \in 0..(Len(values) - 1)
                      /\ values[second_mapping[k] + 1] = other.values[k]
                    BY <4>2, <2>3, <1>1 DEF UnionInv, MappedUpTo
                <5>2. second_mapping'[k] = second_mapping[k]
                    BY <4>2, <3>3
                <5>3. Len(values) \in Nat /\ Len(values') \in Nat /\ Len(values') >= Len(values)
                    BY <1>3, <1>5
                <5>4. second_mapping[k] + 1 \in 1..Len(values)
                    BY <5>1, <5>3, PositionIsIndex
                <5>5. values'[second_mapping[k] + 1] = values[second_mapping[k] + 1]
                    BY <5>4, <1>5
                <5> QED BY <5>1, <5>2, <5>5, <5>3
            <4> QED BY <4>1, <4>2, <1>1
        <3> QED BY <3>3, <3>4, <1>2 DEF MappedUpTo
    <2> QED BY <2>2, <2>3
<1>7. MappedUpTo(first_mapping, self.values, count(self))'
    <2>1. MappedUpTo(first_mapping, self.values, count(self))
        BY <1>1 DEF UnionInv
    <2>2. Len(values) \in Nat /\ Len(values') \in Nat /\ Len(values') >= Len(values)
        BY <1>3, <1>5
    <2>3. ASSUME first_mapping # <<>>, NEW k \in 1..count(self)
          PROVE  /\ first_mapping[k] \in 0..(Len(values') - 1)
                 /\ values'[first_mapping[k] + 1] = self.values[k]
        <3>1. /\ first_mapping[k] \in 0..(Len(values) - 1)
              /\ values[first_mapping[k] + 1] = self.values[k]
            BY <2>1, <2>3 DEF MappedUpTo
        <3>2. first_mapping[k] + 1 \in 1..Len(values)
            BY <3>1, <2>2, PositionIsIndex
        <3>3. values'[first_mapping[k] + 1] = values[first_mapping[k] + 1]
            BY <3>2, <1>5
        <3> QED BY <3>1, <3>3, <2>2
    <2> QED BY <2>1, <2>3, <1>2 DEF MappedUpTo, count
<1>8. \A k \in 1..Len(values') :
          k > count(self) => \E j \in 1..(i + 1) : values'[k] = other.values[j]
    <2> SUFFICES ASSUME NEW k \in 1..Len(values'), k > count(self)
                 PROVE  \E j \in 1..(i + 1) : values'[k] = other.values[j]
        OBVIOUS
    <2>1. CASE k > Len(values)
        BY <2>1, <1>1, <1>5
    <2>2. CASE k \in 1..Len(values)
        BY <2>2, <1>1, <1>5 DEF UnionInv
    <2> QED BY <2>1, <2>2, <1>3
<1>9. \A j \in 1..(i + 1) : other.values[j] \in EntrySet(values')
    BY <1>1, <1>5 DEF UnionInv
<1>10. UnionInv'
    <2>1. ASSUME NEW k \in 1..count(self)
          PROVE  values'[k] = self.values[k]
        <3>1. values[k] = self.values[k] /\ Len(values) >= count(self)
            BY <1>1 DEF UnionInv
        <3>2. k \in 1..Len(values)
            BY <3>1, <1>3
        <3> QED BY <3>1, <3>2, <1>5
    <2>2. Len(values') >= count(self) /\ i + 1 <= count(other)
        BY <1>1, <1>3, <1>5 DEF UnionInv
    <2> QED BY <1>1, <1>2, <1>5, <1>6, <1>7, <1>8, <1>9, <2>1, <2>2 DEF UnionInv, count
<1>11. TypeOK'
    BY <1>1, <1>2, <1>5, <1>6 DEF TypeOK
<1> QED
    BY <1>1, <1>2, <1>10, <1>11 DEF IInv, Running, SelectNeverOverflows

(* The Labels that union returns are valid, their positions map included. *)
LEMMA UnionReturnInv ==
    ASSUME IInv, UnionReturn
    PROVE  IInv'
<1>1. /\ TypeOK /\ UnionInv /\ Valid(self) /\ Valid(other)
      /\ op = "union" /\ i = count(other)
    BY DEF IInv, UnionReturn, ResultPositions, Running
<1>2. /\ UNCHANGED <<self, other, op, i, values, positions, first_mapping,
                     second_mapping, selected, n_selected>>
      /\ pc' = "done"
    BY DEF UnionReturn, ResultPositions, args
<1>3. Valid(last')
    <2>1. self.names = other.names
        BY <1>1 DEF UnionInv
    <2>2. last' = [names |-> self.names, values |-> values,
                   filled |-> TRUE, positions |-> positions]
        BY DEF UnionReturn, ResultPositions
    <2>3. ASSUME NEW k \in 1..Len(values)
          PROVE  Len(values[k]) = Len(self.names)
        <3>1. CASE k > count(self)
            BY <3>1, <2>1, <1>1 DEF UnionInv, Valid, IsLabels, count
        <3>2. CASE k \in 1..count(self)
            BY <3>2, <1>1 DEF UnionInv, Valid, IsLabels, count
        <3>3. count(self) \in Nat /\ Len(values) \in Nat
            BY <1>1 DEF TypeOK, IsLabels, count
        <3> QED BY <3>1, <3>2, <3>3
    <2>4. /\ last'.names = self.names /\ last'.values = values
          /\ last'.filled = TRUE /\ last'.positions = positions
        BY <2>2
    <2>5. IsLabels(last')
        BY <2>2, <2>3, <2>4, <1>1 DEF IsLabels, TypeOK, Valid
    <2> QED BY <2>4, <2>5, <1>1 DEF Valid, UnionInv
<1>4. TypeOK'
    BY <1>1, <1>2, <1>3 DEF TypeOK, Valid
<1>5. UnionInv'
    <2>1. MappedUpTo(first_mapping, self.values, count(self))'
          /\ MappedUpTo(second_mapping, other.values, i)'
        BY <1>1, <1>2 DEF UnionInv, MappedUpTo, count
    <2> QED BY <2>1, <1>1, <1>2 DEF UnionInv, count
<1> QED
    BY <1>1, <1>2, <1>3, <1>4, <1>5 DEF IInv, Running, SelectNeverOverflows

-----------------------------------------------------------------------------
(* intersection *)

(***************************************************************************)
(* Appending a common entry to the result, and its new position to the     *)
(* mapping of Labels that have it, keeps that mapping right.               *)
(***************************************************************************)
LEMMA MappingStep ==
    ASSUME NEW S, NEW v \in Seq(S), NEW entries \in Seq(S), Distinct(entries),
           NEW e \in S, e \notin EntrySet(v),
           NEW p \in 0..(Len(entries) - 1), entries[p + 1] = e,
           NEW m \in Seq(Int), MapsToOrMissing(m, entries, v)
    PROVE  /\ SetMapping(m, p, Len(v)) \in Seq(Int)
           /\ MapsToOrMissing(SetMapping(m, p, Len(v)), entries, Append(v, e))
<1> DEFINE w == Append(v, e)
           n == SetMapping(m, p, Len(v))
<1>1. CASE m = <<>>
    BY <1>1 DEF SetMapping, MapsToOrMissing
<1>2. CASE m # <<>>
    <2>1. Len(m) = Len(entries) /\ Len(v) \in Nat /\ Len(entries) \in Nat
        BY <1>2 DEF MapsToOrMissing
    <2>2. p + 1 \in 1..Len(entries)
        BY <2>1, PositionIsIndex
    <2>3. n = [m EXCEPT ![p + 1] = Len(v)]
        BY <1>2 DEF SetMapping
    <2>4. /\ n \in Seq(Int) /\ Len(n) = Len(entries) /\ n[p + 1] = Len(v)
          /\ \A k \in 1..Len(entries) : k # p + 1 => n[k] = m[k]
        BY <2>1, <2>2, <2>3
    <2>5. /\ w \in Seq(S) /\ Len(w) = Len(v) + 1 /\ w[Len(v) + 1] = e
          /\ \A k \in 1..Len(v) : w[k] = v[k]
        OBVIOUS
    <2>6. EntrySet(w) = EntrySet(v) \cup {e}
        BY AppendEntrySet
    <2>7. ASSUME NEW k \in 1..Len(entries)
          PROVE  IF entries[k] \in EntrySet(w)
                 THEN n[k] \in 0..(Len(w) - 1) /\ w[n[k] + 1] = entries[k]
                 ELSE n[k] = -1
        <3> HIDE DEF n, w
        <3>1. CASE k = p + 1
            BY <3>1, <2>1, <2>4, <2>5, <2>6
        <3>2. CASE k # p + 1
            <4>1. entries[k] # e /\ n[k] = m[k]
                BY <3>2, <2>2, <2>4 DEF Distinct
            <4>2. CASE entries[k] \in EntrySet(v)
                <5>1. m[k] \in 0..(Len(v) - 1) /\ v[m[k] + 1] = entries[k]
                    BY <4>2, <1>2 DEF MapsToOrMissing
                <5>2. m[k] + 1 \in 1..Len(v)
                    BY <5>1, <2>1, PositionIsIndex
                <5>3. w[m[k] + 1] = entries[k]
                    BY <5>1, <5>2, <2>5
                <5>4. m[k] \in 0..(Len(w) - 1)
                    BY <5>1, <2>1, <2>5
                <5> QED BY <4>1, <4>2, <5>3, <5>4, <2>6
            <4>3. CASE entries[k] \notin EntrySet(v)
                <5>1. m[k] = -1
                    BY <4>3, <1>2 DEF MapsToOrMissing
                <5> QED BY <4>1, <4>3, <5>1, <2>6
            <4> QED BY <4>2, <4>3
        <3> QED BY <3>1, <3>2
    <2> QED BY <2>4, <2>7 DEF MapsToOrMissing
<1> QED BY <1>1, <1>2

(* Nothing is in an empty result: every entry is missing. *)
LEMMA MissingMapping ==
    ASSUME NEW S, NEW entries \in Seq(S)
    PROVE  /\ Filled(Len(entries), -1) \in Seq(Int)
           /\ MapsToOrMissing(Filled(Len(entries), -1), entries, <<>>)
<1>1. Len(entries) \in Nat /\ -1 \in Int /\ EntrySet(<<>>) = {}
    BY DEF EntrySet
<1>2. /\ Filled(Len(entries), -1) \in Seq(Int)
      /\ Len(Filled(Len(entries), -1)) = Len(entries)
      /\ \A k \in 1..Len(entries) : Filled(Len(entries), -1)[k] = -1
    BY <1>1, FilledSeq
<1> QED BY <1>1, <1>2 DEF MapsToOrMissing

(* The start of intersection: nothing found, mappings filled with -1. *)
LEMMA IntersectionStartInv ==
    ASSUME IInv, Call("intersection"), IntersectionStart
    PROVE  IInv'
<1>1. Valid(self') /\ Valid(other') /\ Valid(last') /\ i' = 0 /\ op' = "intersection"
    BY CallKeepsValid
<1>2. count(self') \in Nat /\ count(other') \in Nat
      /\ count(self') = Len(self'.values) /\ count(other') = Len(other'.values)
    BY <1>1 DEF Valid, IsLabels, count
<1>3. values' = <<>> /\ EntrySet(values') = {} /\ Len(values') = 0
    BY DEF IntersectionStart, EqualNames, EntrySet
<1>4. /\ first_mapping' \in Seq(Int)
      /\ MapsToOrMissing(first_mapping, self.values, values)'
    <2>1. CASE first_mapping' = <<>>
        BY <2>1 DEF MapsToOrMissing
    <2>2. CASE first_mapping' = Filled(count(self'), -1)
        <3>1. self'.values \in Seq(Seq(Value))
            BY <1>1 DEF Valid, IsLabels
        <3> QED BY <2>2, <3>1, <1>2, <1>3, MissingMapping
    <2> QED BY <2>1, <2>2 DEF IntersectionStart, EqualNames, IntersectionMappings
<1>5. /\ second_mapping' \in Seq(Int)
      /\ MapsToOrMissing(second_mapping, other.values, values)'
    <2>1. CASE second_mapping' = <<>>
        BY <2>1 DEF MapsToOrMissing
    <2>2. CASE second_mapping' = Filled(count(other'), -1)
        <3>1. other'.values \in Seq(Seq(Value))
            BY <1>1 DEF Valid, IsLabels
        <3> QED BY <2>2, <3>1, <1>2, <1>3, MissingMapping
    <2> QED BY <2>1, <2>2 DEF IntersectionStart, EqualNames, IntersectionMappings
<1>6. TypeOK'
    BY <1>1, <1>3, <1>4, <1>5 DEF TypeOK, IntersectionStart, EqualNames, Valid
<1>7. IntersectionInv'
    <2>1. count(smaller') \in Nat
        BY <1>2 DEF smaller, SelfIsSmaller
    <2>2. Distinct(values')
        BY <1>3 DEF Distinct
    <2> QED BY <1>1, <1>3, <1>4, <1>5, <2>1, <2>2 DEF IntersectionInv, IntersectionStart, EqualNames
<1> QED
    BY <1>1, <1>6, <1>7 DEF IInv, Running, SelectNeverOverflows

(* One entry of the smaller Labels is looked up in the larger ones. *)
LEMMA IntersectionStepInv ==
    ASSUME IInv, IntersectionStep
    PROVE  IInv'
<1> DEFINE entry == smaller.values[i + 1]
           found == init_positions(larger.values)
           inSelf == IF SelfIsSmaller THEN i ELSE found[entry]
           inOther == IF SelfIsSmaller THEN found[entry] ELSE i
<1>1. /\ TypeOK /\ IntersectionInv /\ Valid(self) /\ Valid(other) /\ Valid(last)
      /\ pc = "loop" /\ op = "intersection" /\ i < count(smaller) /\ i \in Nat
    BY DEF IInv, IntersectionStep, Running, TypeOK
<1>2. /\ UNCHANGED <<self, other, last, op, pc, positions, selected, n_selected>>
      /\ UNCHANGED <<smaller, larger>>
      /\ i' = i + 1
    BY DEF IntersectionStep, args, smaller, larger, SelfIsSmaller, count
<1>3. Valid(smaller) /\ Valid(larger)
    BY <1>1 DEF smaller, larger
<1>4. /\ smaller.values \in Seq(Seq(Value)) /\ larger.values \in Seq(Seq(Value))
      /\ self.values \in Seq(Seq(Value)) /\ other.values \in Seq(Seq(Value))
      /\ Distinct(smaller.values) /\ Distinct(larger.values)
      /\ Distinct(self.values) /\ Distinct(other.values)
      /\ values \in Seq(Seq(Value)) /\ Distinct(values)
      /\ first_mapping \in Seq(Int) /\ second_mapping \in Seq(Int)
    BY <1>1, <1>3 DEF TypeOK, Valid, IsLabels, IntersectionInv
<1>5. /\ count(smaller) = Len(smaller.values) /\ i + 1 \in 1..Len(smaller.values)
      /\ entry \in Seq(Value)
    BY <1>1, <1>4 DEF count
<1>6. get_or_init_positions(larger) = found /\ DOMAIN found = EntrySet(larger.values)
    BY <1>3, <1>4, ValidPositions, InitPositionsIndex
<1>7. entry \notin EntrySet(values)
    <2> SUFFICES ASSUME NEW k \in 1..Len(values), values[k] = entry
                 PROVE  FALSE
        BY DEF EntrySet
    <2>1. PICK j \in 1..i : values[k] = smaller.values[j]
        BY <1>1 DEF IntersectionInv
    <2>2. j \in 1..Len(smaller.values) /\ j # i + 1
        BY <1>1, <1>5
    <2> QED BY <2>1, <2>2, <1>4, <1>5 DEF Distinct
<1>8. CASE ~Occupied(found, entry)
    <2>1. /\ UNCHANGED <<values, first_mapping, second_mapping>>
          /\ entry \notin EntrySet(larger.values)
        BY <1>6, <1>8 DEF IntersectionStep, Occupied
    <2>2. IntersectionInv'
        <3>1. \A k \in 1..Len(values) :
                  /\ \E j \in 1..(i + 1) : values[k] = smaller.values[j]
                  /\ values[k] \in EntrySet(larger.values)
            BY <1>1 DEF IntersectionInv
        <3>2. \A j \in 1..(i + 1) : smaller.values[j] \in EntrySet(larger.values) =>
                                       smaller.values[j] \in EntrySet(values)
            BY <1>1, <2>1 DEF IntersectionInv
        <3>3. i + 1 <= count(smaller)
            BY <1>1, <1>5, <1>4
        <3> QED BY <1>1, <1>2, <2>1, <3>1, <3>2, <3>3 DEF IntersectionInv, MapsToOrMissing, count
    <2>3. TypeOK'
        BY <1>1, <1>2, <2>1 DEF TypeOK
    <2> QED BY <1>1, <1>2, <2>2, <2>3 DEF IInv, Running, SelectNeverOverflows
<1>9. CASE Occupied(found, entry)
    <2>1. entry \in EntrySet(larger.values)
        BY <1>6, <1>9 DEF Occupied
    <2>2. /\ values' = Append(values, entry)
          /\ first_mapping' = SetMapping(first_mapping, inSelf, Len(values))
          /\ second_mapping' = SetMapping(second_mapping, inOther, Len(values))
        BY <1>6, <1>9 DEF IntersectionStep
    <2>3. found[entry] \in 0..(Len(larger.values) - 1) /\ larger.values[found[entry] + 1] = entry
        BY <2>1, <1>4, InitPositionsIndex
    <2>4. i \in 0..(Len(smaller.values) - 1)
        BY <1>1, <1>4, <1>5
    <2>5. /\ inSelf \in 0..(Len(self.values) - 1) /\ self.values[inSelf + 1] = entry
          /\ inOther \in 0..(Len(other.values) - 1) /\ other.values[inOther + 1] = entry
        BY <2>3, <2>4 DEF smaller, larger
    <2>6. /\ first_mapping' \in Seq(Int) /\ second_mapping' \in Seq(Int)
          /\ MapsToOrMissing(first_mapping, self.values, values)'
          /\ MapsToOrMissing(second_mapping, other.values, values)'
        <3>1. /\ MapsToOrMissing(first_mapping, self.values, values)
              /\ MapsToOrMissing(second_mapping, other.values, values)
            BY <1>1 DEF IntersectionInv
        <3> HIDE DEF inSelf, inOther, entry
        <3>2. /\ SetMapping(first_mapping, inSelf, Len(values)) \in Seq(Int)
              /\ MapsToOrMissing(SetMapping(first_mapping, inSelf, Len(values)),
                                 self.values, Append(values, entry))
            BY <3>1, <2>5, <1>4, <1>5, <1>7, MappingStep
        <3>3. /\ SetMapping(second_mapping, inOther, Len(values)) \in Seq(Int)
              /\ MapsToOrMissing(SetMapping(second_mapping, inOther, Len(values)),
                                 other.values, Append(values, entry))
            BY <3>1, <2>5, <1>4, <1>5, <1>7, MappingStep
        <3> QED BY <2>2, <3>2, <3>3, <1>2
    <2>7. /\ values' \in Seq(Seq(Value)) /\ Distinct(values')
          /\ EntrySet(values') = EntrySet(values) \cup {entry}
          /\ Len(values') = Len(values) + 1 /\ values'[Len(values) + 1] = entry
          /\ \A k \in 1..Len(values) : values'[k] = values[k]
          /\ Len(values) \in Nat
        BY <2>2, <1>4, <1>5, <1>7, InsertNewPosition
    <2>8. ASSUME NEW k \in 1..Len(values')
          PROVE  /\ \E j \in 1..(i + 1) : values'[k] = smaller.values[j]
                 /\ values'[k] \in EntrySet(larger.values)
        <3>1. CASE k = Len(values) + 1
            BY <3>1, <2>1, <2>7, <1>1
        <3>2. CASE k \in 1..Len(values)
            <4>1. PICK j \in 1..i : values[k] = smaller.values[j]
                BY <3>2, <1>1 DEF IntersectionInv
            <4>2. values[k] \in EntrySet(larger.values)
                BY <3>2, <1>1 DEF IntersectionInv
            <4>3. j \in 1..(i + 1) /\ values'[k] = values[k]
                BY <3>2, <2>7, <1>1
            <4> QED BY <4>1, <4>2, <4>3
        <3> QED BY <3>1, <3>2, <2>7
    <2>9. \A j \in 1..(i + 1) : smaller.values[j] \in EntrySet(larger.values) =>
                                   smaller.values[j] \in EntrySet(values')
        BY <1>1, <2>7 DEF IntersectionInv
    <2>10. IntersectionInv'
        <3>1. i + 1 <= count(smaller)
            BY <1>1, <1>5, <1>4
        <3> QED BY <1>1, <1>2, <2>6, <2>7, <2>8, <2>9, <3>1 DEF IntersectionInv, count
    <2>11. TypeOK'
        BY <1>1, <1>2, <2>6, <2>7 DEF TypeOK
    <2> QED BY <1>1, <1>2, <2>10, <2>11 DEF IInv, Running, SelectNeverOverflows
<1> QED BY <1>8, <1>9

(* The Labels that intersection returns are valid. *)
LEMMA IntersectionReturnInv ==
    ASSUME IInv, IntersectionReturn
    PROVE  IInv'
<1>1. /\ TypeOK /\ IntersectionInv /\ Valid(self) /\ Valid(other)
      /\ op = "intersection" /\ i = count(smaller)
    BY DEF IInv, IntersectionReturn, Running
<1>2. /\ UNCHANGED <<self, other, op, i, values, positions, first_mapping,
                     second_mapping, selected, n_selected>>
      /\ UNCHANGED <<smaller, larger>>
      /\ pc' = "done"
    BY DEF IntersectionReturn, args, smaller, larger, SelfIsSmaller, count
<1>3. Valid(last')
    <2>1. last' = [names |-> self.names, values |-> values,
                   filled |-> FALSE, positions |-> NoPositions]
        BY DEF IntersectionReturn
    <2>2. Valid(smaller) /\ smaller.names = self.names
        BY <1>1 DEF smaller, IntersectionInv
    <2>3. ASSUME NEW k \in 1..Len(values)
          PROVE  Len(values[k]) = Len(self.names)
        <3>1. PICK j \in 1..i : values[k] = smaller.values[j]
            BY <1>1 DEF IntersectionInv
        <3>2. j \in 1..Len(smaller.values)
            BY <3>1, <1>1 DEF count
        <3> QED BY <3>1, <3>2, <2>2 DEF Valid, IsLabels
    <2>4. /\ last'.names = self.names /\ last'.values = values
          /\ last'.filled = FALSE /\ last'.positions = NoPositions
        BY <2>1
    <2>5. IsLabels(last')
        BY <2>1, <2>3, <2>4, <1>1 DEF IsLabels, TypeOK, Valid
    <2> QED BY <2>4, <2>5, <1>1 DEF Valid, IntersectionInv
<1>4. TypeOK'
    BY <1>1, <1>2, <1>3 DEF TypeOK, Valid
<1>5. IntersectionInv'
    BY <1>1, <1>2 DEF IntersectionInv, MapsToOrMissing, count
<1> QED
    BY <1>1, <1>2, <1>3, <1>4, <1>5 DEF IInv, Running, SelectNeverOverflows

-----------------------------------------------------------------------------
(* select *)

(***************************************************************************)
(* n distinct positions below c that leave out one more are fewer than c:  *)
(* there is room for that one in an array of c positions.                  *)
(***************************************************************************)
LEMMA RoomLeft ==
    ASSUME NEW n \in Nat, NEW c \in Nat, NEW s \in Injection(1..n, 0..(c - 1)),
           NEW p \in 0..(c - 1), \A k \in 1..n : s[k] # p
    PROVE  n < c
<1> DEFINE g == [k \in 1..(n + 1) |-> IF k <= n THEN s[k] ELSE p]
<1>1. g \in [1..(n + 1) -> 0..(c - 1)]
    BY DEF Injection
<1>2. \A k, l \in 1..(n + 1) : g[k] = g[l] => k = l
    BY DEF Injection, IsInjective
<1>3. g \in Injection(1..(n + 1), 0..(c - 1))
    BY <1>1, <1>2 DEF Injection, IsInjective
<1>4. IsFiniteSet(0..(c - 1)) /\ Cardinality(0..(c - 1)) = c
    <2>1. 0 \in Int /\ c - 1 \in Int
        OBVIOUS
    <2>2. /\ IsFiniteSet(0..(c - 1))
          /\ Cardinality(0..(c - 1)) = IF 0 > c - 1 THEN 0 ELSE (c - 1) - 0 + 1
        BY <2>1, FS_Interval
    <2> QED BY <2>2
<1>5. Cardinality(1..(n + 1)) = n + 1
    <2>1. 1 \in Int /\ n + 1 \in Int
        OBVIOUS
    <2>2. Cardinality(1..(n + 1)) = IF 1 > n + 1 THEN 0 ELSE (n + 1) - 1 + 1
        BY <2>1, FS_Interval
    <2> QED BY <2>2
<1>6. Cardinality(1..(n + 1)) <= Cardinality(0..(c - 1))
    BY <1>3, <1>4, FS_Injection
<1> QED BY <1>4, <1>5, <1>6

(* The start of select: nothing selected, the output filled with -1. *)
LEMMA SelectStartInv ==
    ASSUME IInv, Call("select"), SelectStart
    PROVE  IInv'
<1>1. Valid(self') /\ Valid(other') /\ Valid(last') /\ i' = 0 /\ op' = "select"
    BY CallKeepsValid
<1>2. /\ count(self') \in Nat /\ count(other') \in Nat
      /\ selected' = Filled(count(self'), -1) /\ n_selected' = 0 /\ pc' = "loop"
    BY <1>1 DEF Valid, IsLabels, count, SelectStart, SelectedLength
<1>3. /\ selected' \in Seq(Int) /\ Len(selected') = count(self')
      /\ \A k \in 1..count(self') : selected'[k] = -1
    <2>1. -1 \in Int
        OBVIOUS
    <2> QED BY <1>2, <2>1, FilledSeq
<1>4. TypeOK'
    BY <1>1, <1>2, <1>3 DEF TypeOK, SelectStart, SelectedLength, Valid
<1>5. SelectInv'
    <2>1. \A p \in Selectable' : ~Hit(p, 0)'
        BY <1>1, <1>2 DEF Hit, Selectable
    <2> QED BY <1>1, <1>2, <1>3, <2>1 DEF SelectInv, SelectStart, SelectedLength
<1> QED
    BY <1>1, <1>2, <1>4, <1>5 DEF IInv, Running, SelectNeverOverflows

(* One iteration of either loop of select; there is room for what it picks. *)
LEMMA SelectStepInv ==
    ASSUME IInv, SelectStep
    PROVE  IInv'
<1>1. /\ TypeOK /\ SelectInv /\ Valid(self) /\ Valid(other) /\ Valid(last)
      /\ pc = "loop" /\ op = "select" /\ i \in Nat /\ n_selected \in Nat
    BY DEF IInv, SelectStep, Running, TypeOK
<1>2. /\ UNCHANGED <<self, other, last, op, values, positions, first_mapping, second_mapping>>
      /\ i' = i + 1
    BY DEF SelectStep, args
<1>3. /\ self.values \in Seq(Seq(Value)) /\ other.values \in Seq(Seq(Value))
      /\ Distinct(self.values) /\ Distinct(other.values)
      /\ count(self) = Len(self.values) /\ count(other) = Len(other.values)
      /\ count(self) \in Nat /\ count(other) \in Nat
      /\ selected \in Seq(Int) /\ Len(selected) = count(self)
    BY <1>1 DEF TypeOK, Valid, IsLabels, SelectInv, count
<1>4. /\ SameNames' <=> SameNames
      /\ Selectable' = Selectable
      /\ \A q, n : Hit(q, n)' <=> Hit(q, n)
    BY <1>2 DEF SameNames, Selectable, count, Hit, candidate, dimensions_to_match, size
<1>5. ASSUME SelectNoDimension
      PROVE  IInv'
    BY <1>1, <1>2, <1>5 DEF SelectNoDimension, IInv, TypeOK, Running, SelectNeverOverflows, size
(* What is left: a position p is new and picked, or nothing new matches. *)
<1>6. ASSUME NEW p \in Selectable, Pick(p), ~Hit(p, i), Hit(p, i + 1),
             \A q \in Selectable : q # p => (Hit(q, i + 1) <=> Hit(q, i)),
             i + 1 <= IF SameNames THEN count(other) ELSE count(self)
      PROVE  IInv'
    <2>1. \A k \in 1..n_selected : selected[k] # p
        BY <1>1, <1>6 DEF SelectInv
    <2>2. n_selected < count(self)
        <3>1. /\ \A k \in 1..n_selected : selected[k] \in 0..(count(self) - 1)
              /\ \A k, l \in 1..n_selected : selected[k] = selected[l] => k = l
              /\ p \in 0..(count(self) - 1)
            BY <1>1 DEF SelectInv, Selectable
        <3> DEFINE s == [k \in 1..n_selected |-> selected[k]]
        <3>2. s \in Injection(1..n_selected, 0..(count(self) - 1))
            BY <3>1 DEF Injection, IsInjective
        <3>3. \A k \in 1..n_selected : s[k] # p
            BY <2>1
        <3>4. n_selected \in Nat /\ count(self) \in Nat
            BY <1>1, <1>3
        <3> HIDE DEF s
        <3> QED BY <3>1, <3>2, <3>3, <3>4, RoomLeft
    <2>3. /\ selected' = [selected EXCEPT ![n_selected + 1] = p]
          /\ n_selected' = n_selected + 1 /\ pc' = "loop"
        BY <1>1, <1>3, <1>6, <2>2 DEF Pick
    <2>4. n_selected + 1 \in 1..Len(selected) /\ p \in Int
        BY <1>1, <1>3, <2>2 DEF Selectable
    <2>5. /\ selected' \in Seq(Int) /\ Len(selected') = count(self)
          /\ selected'[n_selected + 1] = p
          /\ \A k \in 1..Len(selected) : k # n_selected + 1 => selected'[k] = selected[k]
        BY <1>3, <2>3, <2>4
    <2>6. TypeOK'
        BY <1>1, <1>2, <2>3, <2>5 DEF TypeOK
    <2>7. ASSUME NEW k \in 1..n_selected
          PROVE  selected'[k] = selected[k] /\ selected[k] \in Selectable /\ selected[k] # p
        <3>1. k \in 1..Len(selected) /\ k # n_selected + 1
            BY <1>1, <1>3, <2>2
        <3>2. selected[k] \in Selectable
            BY <1>1 DEF SelectInv
        <3> QED BY <3>1, <3>2, <2>1, <2>5
    <2>8. ASSUME NEW k \in 1..(n_selected + 1)
          PROVE  selected'[k] \in Selectable /\ Hit(selected'[k], i + 1)
        <3>1. CASE k = n_selected + 1
            BY <3>1, <2>5, <1>6
        <3>2. CASE k \in 1..n_selected
            <4>1. Hit(selected[k], i)
                BY <3>2, <1>1 DEF SelectInv
            <4> QED BY <3>2, <4>1, <2>7, <1>6
        <3> QED BY <3>1, <3>2, <1>1
    <2>9. ASSUME NEW q \in Selectable, Hit(q, i + 1)
          PROVE  \E k \in 1..(n_selected + 1) : selected'[k] = q
        <3>1. CASE q = p
            BY <3>1, <2>5, <1>1
        <3>2. CASE q # p
            <4>1. PICK k \in 1..n_selected : selected[k] = q
                BY <3>2, <2>9, <1>6, <1>1 DEF SelectInv
            <4> QED BY <4>1, <2>7, <1>1
        <3> QED BY <3>1, <3>2
    <2>10. \A k, l \in 1..(n_selected + 1) : selected'[k] = selected'[l] => k = l
        <3>1. \A k, l \in 1..n_selected : selected[k] = selected[l] => k = l
            BY <1>1 DEF SelectInv
        <3>2. \A k \in 1..(n_selected + 1) : k = n_selected + 1 \/ k \in 1..n_selected
            BY <1>1
        <3> QED BY <3>1, <3>2, <2>5, <2>7
    <2>11. \A k \in (n_selected + 2)..Len(selected') : selected'[k] = -1
        <3>1. \A k \in (n_selected + 2)..Len(selected) :
                  k \in (n_selected + 1)..Len(selected) /\ k \in 1..Len(selected) /\ k # n_selected + 1
            BY <1>1, <1>3
        <3>2. \A k \in (n_selected + 1)..Len(selected) : selected[k] = -1
            BY <1>1 DEF SelectInv
        <3>3. Len(selected') = Len(selected)
            BY <2>5, <1>3
        <3> QED BY <3>1, <3>2, <3>3, <2>5
    <2>12. SelectInv'
        BY <1>1, <1>2, <1>4, <1>6, <2>2, <2>3, <2>5, <2>8, <2>9, <2>10, <2>11
           DEF SelectInv, count
    <2> QED
        BY <1>1, <1>2, <2>3, <2>6, <2>12 DEF IInv, Running, SelectNeverOverflows
<1>7. ASSUME Skip, \A q \in Selectable : Hit(q, i + 1) <=> Hit(q, i),
             i + 1 <= IF SameNames THEN count(other) ELSE count(self)
      PROVE  IInv'
    <2>1. UNCHANGED <<selected, n_selected, pc>>
        BY <1>7 DEF Skip
    <2>2. SelectInv'
        BY <1>1, <1>2, <1>4, <1>7, <2>1 DEF SelectInv, count
    <2>3. TypeOK'
        BY <1>1, <1>2, <2>1 DEF TypeOK
    <2> QED
        BY <1>1, <1>2, <2>1, <2>2, <2>3 DEF IInv, Running, SelectNeverOverflows
<1>8. ASSUME SelectSameNames
      PROVE  IInv'
    <2> DEFINE entry == other.values[i + 1]
               found == init_positions(self.values)
    <2>1. /\ SameNames /\ i < count(other) /\ i + 1 \in 1..Len(other.values)
          /\ get_or_init_positions(self) = found /\ DOMAIN found = EntrySet(self.values)
        BY <1>1, <1>3, <1>8, ValidPositions, InitPositionsIndex DEF SelectSameNames
    <2>2. \A q \in Selectable :
              Hit(q, i + 1) <=> Hit(q, i) \/ self.values[q + 1] = entry
        BY <1>1, <2>1 DEF Hit
    <2>3. i + 1 <= count(other)
        BY <1>1, <1>3, <2>1
    <2>4. CASE Occupied(found, entry)
        <3>1. Pick(found[entry]) /\ entry \in EntrySet(self.values)
            BY <1>8, <2>1, <2>4 DEF SelectSameNames, Occupied
        <3>2. found[entry] \in Selectable /\ self.values[found[entry] + 1] = entry
            BY <3>1, <1>3, InitPositionsIndex DEF Selectable
        <3>3. \A q \in Selectable : self.values[q + 1] = entry => q = found[entry]
            <4>1. \A q \in Selectable : q + 1 \in 1..Len(self.values)
                BY <1>3 DEF Selectable
            <4>2. ASSUME NEW q \in Selectable, self.values[q + 1] = entry
                  PROVE  q + 1 = found[entry] + 1
                BY <4>1, <4>2, <3>2, <1>3 DEF Distinct
            <4>3. \A q \in Selectable : q \in Int
                BY DEF Selectable
            <4> HIDE DEF found, entry
            <4> QED BY <4>2, <4>3, <3>2
        <3>4. ~Hit(found[entry], i)
            <4> SUFFICES ASSUME NEW j \in 1..i, other.values[j] = entry
                         PROVE  FALSE
                BY <3>2, <2>1 DEF Hit
            <4> QED BY <1>1, <1>3, <2>1 DEF Distinct
        <3> HIDE DEF found, entry
        <3> QED BY <3>1, <3>2, <3>3, <3>4, <2>1, <2>2, <2>3, <1>6
    <2>5. CASE ~Occupied(found, entry)
        <3>1. Skip /\ entry \notin EntrySet(self.values)
            BY <1>8, <2>1, <2>5 DEF SelectSameNames, Occupied
        <3>2. \A q \in Selectable : self.values[q + 1] # entry
            BY <3>1, <1>3 DEF EntrySet, Selectable
        <3> QED BY <3>1, <3>2, <2>1, <2>2, <2>3, <1>7
    <2> QED BY <2>4, <2>5
<1>9. ASSUME SelectOtherNames
      PROVE  IInv'
    <2> DEFINE wanted == init_positions(other.values)
    <2>1. /\ ~SameNames /\ i < count(self) /\ i \in Selectable
          /\ get_or_init_positions(other) = wanted /\ DOMAIN wanted = EntrySet(other.values)
        BY <1>1, <1>3, <1>9, ValidPositions, InitPositionsIndex DEF SelectOtherNames, Selectable
    <2>3. \A q \in Selectable : q # i => (Hit(q, i + 1) <=> Hit(q, i))
        BY <1>1, <2>1 DEF Hit, Selectable
    <2>4. ~Hit(i, i) /\ (Hit(i, i + 1) <=> candidate(self.values[i + 1]) \in EntrySet(other.values))
        BY <1>1, <2>1 DEF Hit
    <2>5. i + 1 <= count(self)
        BY <1>1, <1>3, <2>1
    <2>6. CASE Occupied(wanted, candidate(self.values[i + 1]))
        <3>1. Pick(i) /\ Hit(i, i + 1)
            BY <1>9, <2>1, <2>4, <2>6 DEF SelectOtherNames, Occupied
        <3> QED BY <3>1, <2>1, <2>3, <2>4, <2>5, <1>6
    <2>7. CASE ~Occupied(wanted, candidate(self.values[i + 1]))
        <3>1. Skip /\ ~Hit(i, i + 1)
            BY <1>9, <2>1, <2>4, <2>7 DEF SelectOtherNames, Occupied
        <3> QED BY <3>1, <2>1, <2>3, <2>4, <2>5, <1>7
    <2> QED BY <2>6, <2>7
<1> QED
    BY <1>5, <1>8, <1>9 DEF SelectStep

(* At the end of its loop select has looked at every entry. *)
LEMMA SelectReturnInv ==
    ASSUME IInv, SelectReturn
    PROVE  IInv'
<1>1. TypeOK /\ SelectInv /\ op = "select"
      /\ i = IF SameNames THEN count(other) ELSE count(self)
    BY DEF IInv, SelectReturn, Running
<1>2. /\ UNCHANGED <<self, other, op, i, values, positions, first_mapping,
                     second_mapping, selected, n_selected, last>>
      /\ pc' = "done"
    BY DEF SelectReturn, args
<1>3. SelectInv'
    <2>1. SameNames' <=> SameNames
        BY <1>2 DEF SameNames
    <2>2. Selectable' = Selectable /\ \A q, n : Hit(q, n)' <=> Hit(q, n)
        BY <1>2, <2>1 DEF Selectable, count, Hit, candidate, dimensions_to_match, size
    <2> QED BY <1>1, <1>2, <2>1, <2>2 DEF SelectInv, count
<1>4. TypeOK'
    BY <1>1, <1>2 DEF TypeOK
<1> QED
    BY <1>1, <1>2, <1>3, <1>4 DEF IInv, Running, SelectNeverOverflows

-----------------------------------------------------------------------------
(* The invariant, and the theorems that follow from it *)

(* Between two calls only the last result stays. *)
LEMMA FinishInv ==
    ASSUME IInv, Finish
    PROVE  IInv'
<1>1. TypeOK'
    BY DEF IInv, Finish, TypeOK
<1> QED
    BY <1>1 DEF IInv, Finish, Running, SelectNeverOverflows

(* Every step of every operation preserves the invariant. *)
LEMMA NextIInv == IInv /\ [Next]_vars => IInv'
<1> SUFFICES ASSUME IInv, [Next]_vars PROVE IInv'
    OBVIOUS
<1>1. CASE CallUnion
    BY <1>1, UnionStartInv, FailKeepsIInv DEF CallUnion, SetOperationFails, EqualNames
<1>2. CASE CallIntersection
    BY <1>2, IntersectionStartInv, FailKeepsIInv DEF CallIntersection, SetOperationFails, EqualNames
<1>3. CASE CallSelect
    <2>1. CASE Call("select") /\ SelectFails
        BY <2>1, FailKeepsIInv DEF SelectFails, size
    <2> QED BY <1>3, <2>1, SelectStartInv DEF CallSelect
<1>4. CASE UNCHANGED vars
    <2>1. TypeOK'
        BY <1>4 DEF IInv, TypeOK, vars
    <2>2. Running("union")' => UnionInv'
        BY <1>4 DEF IInv, Running, vars, UnionInv, MappedUpTo, count
    <2>3. Running("intersection")' => IntersectionInv'
        BY <1>4 DEF IInv, Running, vars, IntersectionInv, MapsToOrMissing,
                    smaller, larger, SelfIsSmaller, count
    <2>4. Running("select")' => SelectInv'
        <3>1. UNCHANGED <<self, other>> /\ (SameNames' <=> SameNames)
            BY <1>4 DEF vars, SameNames
        <3>2. Selectable' = Selectable /\ \A q, n : Hit(q, n)' <=> Hit(q, n)
            BY <3>1 DEF Selectable, count, Hit, candidate, dimensions_to_match, size
        <3> QED BY <1>4, <3>1, <3>2 DEF IInv, Running, vars, SelectInv, count
    <2> QED BY <1>4, <2>1, <2>2, <2>3, <2>4 DEF IInv, vars, SelectNeverOverflows, size
<1> QED
    BY <1>1, <1>2, <1>3, <1>4, UnionStepInv, UnionReturnInv, IntersectionStepInv,
       IntersectionReturnInv, SelectStepInv, SelectReturnInv, FinishInv DEF Next

(* The state stays well typed in every call of union, intersection and select. *)
THEOREM TypeCorrect == Spec => []TypeOK
<1>1. IInv => TypeOK
    BY DEF IInv
<1> QED BY <1>1, InitIInv, NextIInv, PTL DEF Spec

(***************************************************************************)
(* Labels::union returns the entries of both inputs, once each, the first  *)
(* input's first, and both mappings point at the right entries, for inputs *)
(* of any length, cached positions included.                               *)
(***************************************************************************)
THEOREM UnionIsCorrect == Spec => []UnionCorrect
<1>1. IInv => UnionCorrect
    <2> SUFFICES ASSUME IInv, pc = "done", op = "union"
                 PROVE  /\ EntrySet(values) = EntrySet(self.values) \cup EntrySet(other.values)
                        /\ Distinct(values)
                        /\ \A k \in 1..count(self) : values[k] = self.values[k]
                        /\ MapsTo(first_mapping, self.values, values)
                        /\ MapsTo(second_mapping, other.values, values)
        BY DEF UnionCorrect
    <2>1. UnionInv /\ i = count(other) /\ TypeOK
        BY DEF IInv, Running, UnionInv
    <2>2. /\ values \in Seq(Seq(Value)) /\ self.values \in Seq(Seq(Value))
          /\ other.values \in Seq(Seq(Value))
          /\ count(self) = Len(self.values) /\ i = Len(other.values)
        BY <2>1 DEF TypeOK, IsLabels, count
    <2>3. MapsTo(first_mapping, self.values, values) /\ MapsTo(second_mapping, other.values, values)
        BY <2>1, <2>2 DEF UnionInv, MappedUpTo, MapsTo
    <2>4. ASSUME NEW k \in 1..Len(values)
          PROVE  values[k] \in EntrySet(self.values) \cup EntrySet(other.values)
        <3>1. CASE k > count(self)
            BY <3>1, <2>1, <2>2 DEF UnionInv, EntrySet
        <3>2. CASE k \in 1..count(self)
            BY <3>2, <2>1, <2>2 DEF UnionInv, EntrySet
        <3> QED BY <3>1, <3>2, <2>2
    <2>5. \A k \in 1..Len(self.values) : self.values[k] \in EntrySet(values)
        <3>1. \A k \in 1..Len(self.values) : k \in 1..Len(values) /\ values[k] = self.values[k]
            BY <2>1, <2>2 DEF UnionInv
        <3> QED BY <3>1 DEF EntrySet
    <2>6. \A k \in 1..Len(other.values) : other.values[k] \in EntrySet(values)
        BY <2>1, <2>2 DEF UnionInv
    <2>7. EntrySet(values) = EntrySet(self.values) \cup EntrySet(other.values)
        <3>1. EntrySet(values) \subseteq EntrySet(self.values) \cup EntrySet(other.values)
            BY <2>4 DEF EntrySet
        <3>2. EntrySet(self.values) \subseteq EntrySet(values)
            BY <2>5 DEF EntrySet
        <3>3. EntrySet(other.values) \subseteq EntrySet(values)
            BY <2>6 DEF EntrySet
        <3> QED BY <3>1, <3>2, <3>3
    <2> QED BY <2>1, <2>3, <2>7 DEF UnionInv
<1> QED BY <1>1, InitIInv, NextIInv, PTL DEF Spec

(***************************************************************************)
(* Labels::intersection returns the common entries, once each, and both    *)
(* mappings point at them or are -1, whichever input is the smaller one.   *)
(***************************************************************************)
THEOREM IntersectionIsCorrect == Spec => []IntersectionCorrect
<1>1. IInv => IntersectionCorrect
    <2> SUFFICES ASSUME IInv, pc = "done", op = "intersection"
                 PROVE  /\ EntrySet(values) = EntrySet(self.values) \cap EntrySet(other.values)
                        /\ Distinct(values)
                        /\ MapsToOrMissing(first_mapping, self.values, values)
                        /\ MapsToOrMissing(second_mapping, other.values, values)
        BY DEF IntersectionCorrect
    <2>1. IntersectionInv /\ i = count(smaller)
        BY DEF IInv, Running, IntersectionInv
    <2>2. EntrySet(smaller.values) \cap EntrySet(larger.values)
            = EntrySet(self.values) \cap EntrySet(other.values)
        BY DEF smaller, larger
    <2>3. EntrySet(values) \subseteq EntrySet(smaller.values) \cap EntrySet(larger.values)
        BY <2>1 DEF IntersectionInv, EntrySet, count
    <2>4. EntrySet(smaller.values) \cap EntrySet(larger.values) \subseteq EntrySet(values)
        <3> SUFFICES ASSUME NEW e \in EntrySet(smaller.values), e \in EntrySet(larger.values)
                     PROVE  e \in EntrySet(values)
            OBVIOUS
        <3>1. PICK j \in 1..Len(smaller.values) : e = smaller.values[j]
            BY DEF EntrySet
        <3> QED BY <3>1, <2>1 DEF IntersectionInv, count
    <2> QED BY <2>1, <2>2, <2>3, <2>4 DEF IntersectionInv
<1> QED BY <1>1, InitIInv, NextIInv, PTL DEF Spec

(***************************************************************************)
(* An entry of the selection matches an entry of self exactly when it is   *)
(* the candidate that select looks up.                                     *)
(***************************************************************************)
LEMMA MatchesCandidate ==
    ASSUME Valid(self), Valid(other),
           EntrySet(other.names) \subseteq EntrySet(self.names),
           NEW entry, NEW e \in Seq(Value), Len(e) = size(other)
    PROVE  Matches(entry, e) <=> e = candidate(entry)
<1>1. /\ self.names \in Seq(Name) /\ other.names \in Seq(Name)
      /\ size(self) = Len(self.names) /\ size(other) = Len(other.names)
      /\ size(self) \in Nat /\ size(other) \in Nat /\ Distinct(self.names)
    BY DEF Valid, IsLabels, size
<1>2. ASSUME NEW d \in 1..size(other)
      PROVE  /\ dimensions_to_match[d] \in 1..size(self)
             /\ self.names[dimensions_to_match[d]] = other.names[d]
             /\ \A k \in 1..size(self) : other.names[d] = self.names[k] => k = dimensions_to_match[d]
    <2>1. PICK k \in 1..size(self) : self.names[k] = other.names[d]
        BY <1>1 DEF EntrySet
    <2>2. dimensions_to_match[d] = CHOOSE m \in 1..size(self) : self.names[m] = other.names[d]
        BY DEF dimensions_to_match
    <2>3. /\ dimensions_to_match[d] \in 1..size(self)
          /\ self.names[dimensions_to_match[d]] = other.names[d]
        BY <2>1, <2>2
    <2> QED BY <2>3, <1>1 DEF Distinct
<1>3. Matches(entry, e) <=> \A d \in 1..size(other) : e[d] = entry[dimensions_to_match[d]]
    BY <1>2 DEF Matches
<1>4. e = [d \in 1..size(other) |-> e[d]]
    BY <1>1
<1> QED BY <1>3, <1>4 DEF candidate

(***************************************************************************)
(* Labels::select lists exactly the positions of the entries that match    *)
(* one of the selection, once each, whether the names are the same or not. *)
(***************************************************************************)
THEOREM SelectIsCorrect == Spec => []SelectCorrect
<1>1. IInv => SelectCorrect
    <2> SUFFICES ASSUME IInv, pc = "done", op = "select"
                 PROVE  /\ n_selected \in 0..Len(selected)
                        /\ {selected[k] : k \in 1..n_selected} =
                              {p \in 0..(count(self) - 1) :
                                 \E e \in EntrySet(other.values) : Matches(self.values[p + 1], e)}
                        /\ Distinct(SubSeq(selected, 1, n_selected))
                        /\ \A k \in (n_selected + 1)..Len(selected) : selected[k] = -1
        BY DEF SelectCorrect
    <2>1. SelectInv /\ Valid(self) /\ Valid(other) /\ TypeOK
          /\ i = IF SameNames THEN count(other) ELSE count(self)
        BY DEF IInv, Running, SelectInv
    <2>2. /\ count(self) = Len(self.values) /\ count(other) = Len(other.values)
          /\ count(self) \in Nat /\ count(other) \in Nat
          /\ self.values \in Seq(Seq(Value)) /\ other.values \in Seq(Seq(Value))
          /\ n_selected \in Nat /\ selected \in Seq(Int) /\ Len(selected) = count(self)
          /\ n_selected <= count(self)
        BY <2>1 DEF TypeOK, IsLabels, count, SelectInv
    <2>3. ASSUME NEW p \in Selectable
          PROVE  Hit(p, i) <=> \E e \in EntrySet(other.values) : Matches(self.values[p + 1], e)
        <3> DEFINE entry == self.values[p + 1]
        <3>1. p + 1 \in 1..Len(self.values)
            BY <2>2, PositionIsIndex DEF Selectable
        <3>2. entry \in Seq(Value) /\ Len(entry) = size(self)
            BY <3>1, <2>1, <2>2 DEF Valid, IsLabels, size
        <3>3. \A e \in EntrySet(other.values) : e \in Seq(Value) /\ Len(e) = size(other)
            BY <2>1, <2>2 DEF Valid, IsLabels, size, EntrySet
        <3>4. \A e \in EntrySet(other.values) : Matches(entry, e) <=> e = candidate(entry)
            BY <3>3, <2>1, MatchesCandidate DEF SelectInv
        <3>5. CASE SameNames
            <4>1. EntrySet(other.names) \subseteq EntrySet(self.names) /\ size(self) = size(other)
                BY <3>5 DEF SameNames, size
            <4>2. Matches(entry, entry)
                BY <3>5, <2>1 DEF Matches, SameNames, Valid, Distinct, size
            <4>3. entry = candidate(entry)
                BY <4>1, <4>2, <3>2, <2>1, MatchesCandidate
            <4>4. Hit(p, i) <=> entry \in EntrySet(other.values)
                BY <3>5, <2>1, <2>2 DEF Hit, EntrySet
            <4> QED BY <3>4, <4>3, <4>4
        <3>6. CASE ~SameNames
            <4>1. Hit(p, i) <=> candidate(entry) \in EntrySet(other.values)
                BY <3>6, <2>1, <2>2 DEF Hit, Selectable
            <4> QED BY <3>4, <4>1
        <3> QED BY <3>5, <3>6
    <2>4. {selected[k] : k \in 1..n_selected} = {p \in Selectable : Hit(p, i)}
        BY <2>1 DEF SelectInv
    <2>5. Distinct(SubSeq(selected, 1, n_selected))
        <3>1. /\ Len(SubSeq(selected, 1, n_selected)) = n_selected
              /\ \A k \in 1..n_selected : SubSeq(selected, 1, n_selected)[k] = selected[k]
            BY <2>2
        <3> QED BY <3>1, <2>1 DEF Distinct, SelectInv
    <2>6. {p \in Selectable : Hit(p, i)} =
              {p \in 0..(count(self) - 1) :
                  \E e \in EntrySet(other.values) : Matches(self.values[p + 1], e)}
        BY <2>3 DEF Selectable
    <2>7. n_selected \in 0..Len(selected)
        BY <2>2
    <2>8. \A k \in (n_selected + 1)..Len(selected) : selected[k] = -1
        BY <2>1 DEF SelectInv
    <2>9. {selected[k] : k \in 1..n_selected} =
              {p \in 0..(count(self) - 1) :
                  \E e \in EntrySet(other.values) : Matches(self.values[p + 1], e)}
        BY <2>4, <2>6, Zenon
    <2> QED BY <2>5, <2>7, <2>8, <2>9
<1> QED BY <1>1, InitIInv, NextIInv, PTL DEF Spec

(***************************************************************************)
(* The write index of Labels::select never leaves the output array.        *)
(***************************************************************************)
THEOREM SelectStaysInBounds == Spec => []SelectNeverOverflows
<1>1. IInv => SelectNeverOverflows
    BY DEF IInv
<1> QED BY <1>1, InitIInv, NextIInv, PTL DEF Spec

(***************************************************************************)
(* What union and intersection return are valid Labels again: the entries  *)
(* are unique without a check, and the positions map is the right one.     *)
(***************************************************************************)
THEOREM ResultsAreValid == Spec => []ResultsAreLabels
<1>1. IInv => ResultsAreLabels
    BY DEF IInv, Valid, ResultsAreLabels
<1> QED BY <1>1, InitIInv, NextIInv, PTL DEF Spec

=============================================================================
