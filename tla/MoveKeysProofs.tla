--------------------------- MODULE MoveKeysProofs ---------------------------
(***************************************************************************)
(* Proofs about keys_to_properties and keys_to_samples, for valid tensor   *)
(* maps with any number of keys, blocks, samples, properties and           *)
(* gradients, and all requests: the blocks they make are valid, their      *)
(* samples in the documented order, and no number loses its labels. The    *)
(* lemmas say what the collections of the code (IndexSet, BTreeSet) and    *)
(* the steps of the merge return; the induction over the length of a list  *)
(* is a least counterexample each time (NatMinimum).                       *)
(***************************************************************************)
EXTENDS MoveKeys, FiniteSetTheorems, SequenceTheorems, TLAPS

-----------------------------------------------------------------------------
(* Sequences *)

(* A set of numbers has a least one.                                       *)
LEMMA NatMinimum ==
    ASSUME NEW T \in SUBSET Nat, T # {}
    PROVE  \E x \in T : \A y \in T : x <= y
<1>1. IsWellFoundedOn(OpToRel(<, Nat), Nat)
    BY NatLessThanWellFounded
<1>2. PICK x \in T : \A y \in T : ~ (<<y, x>> \in OpToRel(<, Nat))
    BY <1>1, WFMin
<1>3. ASSUME NEW y \in T PROVE x <= y
    <2>1. ~ (y < x)
        BY <1>2, Zenon DEF OpToRel
    <2>2. x \in Nat /\ y \in Nat
        OBVIOUS
    <2> QED BY <2>1, <2>2
<1> QED
    BY <1>3

(* A function on 1..n is a sequence of length n.                           *)
LEMMA FunctionIsSeq ==
    ASSUME NEW n \in Nat, NEW S, NEW f \in [1..n -> S]
    PROVE  f \in Seq(S) /\ Len(f) = n /\ DOMAIN f = 1..n
<1>1. f \in Seq(S)
    BY SeqDef
<1>2. Len(f) \in Nat /\ DOMAIN f = 1..Len(f)
    BY <1>1
<1>3. 1..Len(f) = 1..n
    BY <1>2
<1> QED
    BY <1>1, <1>2, <1>3

(* What is known of the elements of a sequence.                            *)
LEMMA SeqLemma ==
    ASSUME NEW S, NEW s \in Seq(S)
    PROVE  /\ Len(s) \in Nat /\ DOMAIN s = 1..Len(s) /\ s \in [1..Len(s) -> S]
           /\ \A k \in 1..Len(s) : s[k] \in S
           /\ ToSet(s) = {s[k] : k \in 1..Len(s)}
<1>1. Len(s) \in Nat /\ DOMAIN s = 1..Len(s) /\ s \in [1..Len(s) -> S]
    OBVIOUS
<1>2. ToSet(s) = {s[k] : k \in 1..Len(s)}
    BY <1>1, Zenon DEF ToSet
<1> QED
    BY <1>1, <1>2

(* A sequence of elements of S is one of elements of a larger set.         *)
LEMMA WiderSeq ==
    ASSUME NEW S, NEW T, S \subseteq T, NEW s \in Seq(S)
    PROVE  s \in Seq(T)
<1>1. Len(s) \in Nat /\ s \in [1..Len(s) -> T]
    BY SeqLemma
<1> QED
    BY <1>1, FunctionIsSeq

(* A set of positions 1..n is finite.                                      *)
LEMMA PositionsAreFinite ==
    ASSUME NEW n \in Nat, NEW S, S \subseteq 1..n
    PROVE  S \in SUBSET Int /\ IsFiniteSet(S)
<1>1. IsFiniteSet(1..n)
    BY FS_Interval
<1>2. S \in SUBSET (1..n) /\ S \in SUBSET Int
    OBVIOUS
<1>3. IsFiniteSet(S)
    BY <1>1, <1>2, FS_Subset
<1> QED
    BY <1>2, <1>3

(***************************************************************************)
(* The elements of a finite set in a strict total order R: the one of rank *)
(* k - 1 is the k-th one.                                                  *)
(***************************************************************************)
Orders(R, S) ==
    /\ \A x \in S : <<x, x>> \notin R
    /\ \A x, y, z \in S : <<x, y>> \in R /\ <<y, z>> \in R => <<x, z>> \in R
    /\ \A x, y \in S : x = y \/ <<x, y>> \in R \/ <<y, x>> \in R

(* The elements before one, its rank, and all of them by rank.             *)
Smaller(S, R, e) == {f \in S : <<f, e>> \in R}
Rank(S, R, e) == Cardinality(Smaller(S, R, e))
Listed(S, R) == [k \in 1..Cardinality(S) |-> CHOOSE e \in S : Rank(S, R, e) = k - 1]

(* The rank of an element is less than the number of elements.             *)
LEMMA RankType ==
    ASSUME NEW S, IsFiniteSet(S), NEW R, Orders(R, S), NEW e \in S
    PROVE  Rank(S, R, e) \in 0..Cardinality(S) - 1
<1>1. Smaller(S, R, e) \in SUBSET S /\ e \notin Smaller(S, R, e)
    BY DEF Smaller, Orders
<1>2. Smaller(S, R, e) # S
    BY <1>1
<1>3. /\ Cardinality(Smaller(S, R, e)) \in Nat /\ Cardinality(S) \in Nat
      /\ Cardinality(Smaller(S, R, e)) <= Cardinality(S)
      /\ Cardinality(Smaller(S, R, e)) # Cardinality(S)
    BY <1>1, <1>2, FS_Subset, FS_CardinalityType
<1> QED
    BY <1>3 DEF Rank

(* An element after another has a greater rank.                            *)
LEMMA RankIsMonotonic ==
    ASSUME NEW S, IsFiniteSet(S), NEW R, Orders(R, S), NEW e \in S, NEW f \in S, <<e, f>> \in R
    PROVE  Rank(S, R, e) < Rank(S, R, f)
<1> DEFINE E == Smaller(S, R, e)
           F == Smaller(S, R, f)
<1>1. E \in SUBSET F /\ F \in SUBSET S
    BY DEF Smaller, Orders
<1>2. e \in F /\ e \notin E
    BY DEF Smaller, Orders
<1>3. IsFiniteSet(F)
    BY <1>1, FS_Subset
<1>4. Cardinality(E) \in Nat /\ Cardinality(F) \in Nat /\ Cardinality(E) <= Cardinality(F) /\ Cardinality(E) # Cardinality(F)
    <2> HIDE DEF E, F
    <2> QED BY <1>1, <1>2, <1>3, FS_Subset, FS_CardinalityType
<1> QED
    BY <1>4 DEF Rank

(* Every number below the cardinality is the rank of an element.           *)
LEMMA RankIsSurjective ==
    ASSUME NEW S, IsFiniteSet(S), NEW R, Orders(R, S), NEW n \in 0..Cardinality(S) - 1
    PROVE  \E e \in S : Rank(S, R, e) = n
<1> DEFINE c == Cardinality(S)
           T == 0..c - 1
           r == [e \in S |-> Rank(S, R, e)]
<1>1. c \in Nat
    BY FS_CardinalityType
<1>2. IsFiniteSet(T) /\ Cardinality(T) = c
    BY <1>1, FS_Interval
<1>3. r \in [S -> T]
    BY RankType
<1>4. ASSUME NEW e \in S, NEW f \in S, r[e] = r[f] PROVE e = f
    <2>1. r[e] \in Int /\ r[f] \in Int /\ r[e] = Rank(S, R, e) /\ r[f] = Rank(S, R, f)
        BY <1>1, <1>3
    <2>2. <<e, f>> \notin R /\ <<f, e>> \notin R
        BY <2>1, <1>4, RankIsMonotonic
    <2> QED BY <2>2 DEF Orders
<1>5. r \in Injection(S, T)
    BY <1>3, <1>4, Zenon DEF Injection, IsInjective
<1>6. r \in Surjection(S, T)
    <2> HIDE DEF r, T
    <2> QED BY <1>2, <1>5, FS_Injection
<1>7. PICK e \in S : r[e] = n
    BY <1>6 DEF Surjection
<1> QED
    BY <1>7

(* The elements listed by their rank are all there, once, in order.        *)
LEMMA ListedIsInOrder ==
    ASSUME NEW S, IsFiniteSet(S), NEW R, Orders(R, S)
    PROVE  LET s == Listed(S, R)
           IN  /\ s \in Seq(S) /\ Len(s) = Cardinality(S) /\ Len(s) \in Nat
               /\ \A e \in S : \E k \in 1..Len(s) : s[k] = e
               /\ \A m, n \in 1..Len(s) : m < n => <<s[m], s[n]>> \in R
<1> DEFINE s == Listed(S, R)
           c == Cardinality(S)
<1>1. c \in Nat
    BY FS_CardinalityType
<1>2. ASSUME NEW k \in 1..c PROVE s[k] \in S /\ Rank(S, R, s[k]) = k - 1
    <2>1. k - 1 \in 0..c - 1
        BY <1>1
    <2>2. \E e \in S : Rank(S, R, e) = k - 1
        BY <2>1, RankIsSurjective
    <2>3. s[k] = CHOOSE e \in S : Rank(S, R, e) = k - 1
        BY DEF Listed
    <2> QED BY <2>2, <2>3
<1>3. s \in [1..c -> S]
    BY <1>2 DEF Listed
<1>4. s \in Seq(S) /\ Len(s) = c
    <2> HIDE DEF s, c
    <2> QED BY <1>1, <1>3, FunctionIsSeq
<1> HIDE DEF s
<1>5. ASSUME NEW e \in S PROVE \E k \in 1..c : s[k] = e
    <2> DEFINE k == Rank(S, R, e) + 1
    <2>1. Rank(S, R, e) \in 0..c - 1
        BY RankType
    <2>2. k \in 1..c /\ k - 1 = Rank(S, R, e)
        BY <1>1, <2>1
    <2>3. s[k] \in S /\ Rank(S, R, s[k]) = Rank(S, R, e)
        BY <1>2, <2>2
    <2>4. Rank(S, R, s[k]) \in Int
        BY <1>1, <2>1, <2>3
    <2>5. <<s[k], e>> \notin R /\ <<e, s[k]>> \notin R
        BY <2>3, <2>4, RankIsMonotonic
    <2>6. s[k] = e
        BY <2>3, <2>5 DEF Orders
    <2> QED BY <2>2, <2>6
<1>6. ASSUME NEW m \in 1..c, NEW n \in 1..c, m < n PROVE <<s[m], s[n]>> \in R
    <2>1. s[m] \in S /\ s[n] \in S /\ Rank(S, R, s[m]) < Rank(S, R, s[n])
        BY <1>1, <1>2, <1>6
    <2>2. Rank(S, R, s[m]) \in Int /\ Rank(S, R, s[n]) \in Int
        BY <1>1, <1>2
    <2>3. ~ (Rank(S, R, s[n]) < Rank(S, R, s[m])) /\ s[m] # s[n]
        BY <2>1, <2>2
    <2>4. <<s[n], s[m]>> \notin R
        BY <2>1, <2>3, RankIsMonotonic
    <2> QED BY <2>1, <2>3, <2>4 DEF Orders
<1> QED
    BY <1>1, <1>4, <1>5, <1>6 DEF s

(* Numbers in ascending order.                                             *)
LEMMA AscendingLemma ==
    ASSUME NEW S \in SUBSET Int, IsFiniteSet(S)
    PROVE  LET s == Ascending(S)
           IN  /\ s \in Seq(S) /\ Len(s) = Cardinality(S) /\ Len(s) \in Nat
               /\ \A e \in S : \E k \in 1..Len(s) : s[k] = e
               /\ \A m, n \in 1..Len(s) : m < n => s[m] < s[n]
<1> DEFINE R == {r \in S \X S : r[1] < r[2]}
           s == Ascending(S)
<1>1. \A x, y \in S : <<x, y>> \in R <=> x < y
    OBVIOUS
<1> HIDE DEF R
<1>2. Orders(R, S)
    BY <1>1 DEF Orders
<1>3. \A e \in S : {h \in S : h < e} = Smaller(S, R, e)
    BY <1>1 DEF Smaller
<1>4. s = Listed(S, R)
    <2>1. \A e \in S : Cardinality({h \in S : h < e}) = Rank(S, R, e)
        BY <1>3 DEF Rank
    <2> DEFINE c(k) == CHOOSE i \in S : Cardinality({h \in S : h < i}) = k - 1
               d(k) == CHOOSE e \in S : Rank(S, R, e) = k - 1
    <2>2. \A k \in 1..Cardinality(S) : c(k) = d(k)
        BY <2>1, Zenon
    <2>3. Ascending(S) = [k \in 1..Cardinality(S) |-> c(k)] /\ Listed(S, R) = [k \in 1..Cardinality(S) |-> d(k)]
        BY Zenon DEF Ascending, Listed
    <2> HIDE DEF c, d
    <2> QED BY <2>2, <2>3
<1> HIDE DEF s
<1>5. /\ s \in Seq(S) /\ Len(s) = Cardinality(S) /\ Len(s) \in Nat
      /\ \A e \in S : \E k \in 1..Len(s) : s[k] = e
      /\ \A m, n \in 1..Len(s) : m < n => <<s[m], s[n]>> \in R
    BY <1>2, <1>4, ListedIsInOrder
<1>6. ASSUME NEW m \in 1..Len(s), NEW n \in 1..Len(s), m < n PROVE s[m] < s[n]
    <2>1. s[m] \in S /\ s[n] \in S
        BY <1>5
    <2> QED BY <1>1, <1>5, <1>6, <2>1
<1> QED
    BY <1>5, <1>6 DEF s

(***************************************************************************)
(* An IndexSet has the elements of the sequence it was filled from, each   *)
(* once, and in the order in which they first came.                        *)
(***************************************************************************)
First(s, i) == \A h \in 1..(i - 1) : s[h] # s[i]

(* A value in a sequence has a first occurrence.                           *)
LEMMA FirstExists ==
    ASSUME NEW E, NEW s \in Seq(E), NEW i \in 1..Len(s)
    PROVE  \E f \in 1..Len(s) : First(s, f) /\ s[f] = s[i]
<1> DEFINE T == {h \in 1..Len(s) : s[h] = s[i]}
<1>1. T \in SUBSET Nat /\ T # {}
    OBVIOUS
<1>2. PICK f \in T : \A h \in T : f <= h
    BY <1>1, NatMinimum
<1>3. ASSUME NEW h \in 1..(f - 1) PROVE s[h] # s[f]
    <2>1. h \in 1..Len(s) /\ ~ (f <= h)
        OBVIOUS
    <2> QED BY <1>2, <2>1
<1> QED
    BY <1>2, <1>3 DEF First

(* An IndexSet has the values of the sequence, each once, in the order of  *)
(* their first occurrences.                                                *)
LEMMA IndexSetLemma ==
    ASSUME NEW E, NEW s \in Seq(E)
    PROVE  LET t == IndexSet(s)
           IN  /\ t \in Seq(E) /\ Len(t) \in Nat /\ IsInjective(t) /\ ToSet(t) = ToSet(s)
               /\ \A a, b \in 1..Len(t), i, l \in 1..Len(s) :
                      t[a] = s[i] /\ t[b] = s[l] /\ First(s, i) /\ First(s, l) /\ i < l => a < b
<1> DEFINE P == {i \in 1..Len(s) : \A h \in 1..(i - 1) : s[h] # s[i]}
           f == Ascending(P)
           t == IndexSet(s)
<1>1. Len(s) \in Nat /\ DOMAIN s = 1..Len(s)
    OBVIOUS
<1>2. P \in SUBSET Int /\ IsFiniteSet(P) /\ (\A i : i \in P <=> i \in 1..Len(s) /\ First(s, i))
    <2>1. IsFiniteSet(1..Len(s)) /\ P \in SUBSET (1..Len(s))
        BY <1>1, FS_Interval
    <2>2. IsFiniteSet(P)
        <3> HIDE DEF P
        <3> QED BY <2>1, FS_Subset
    <2> QED BY <2>1, <2>2 DEF First
<1>3. t = [k \in 1..Len(f) |-> s[f[k]]]
    BY DEF IndexSet, Pick
<1> HIDE DEF P, f, t
<1>4. /\ f \in Seq(P) /\ Len(f) \in Nat
      /\ \A e \in P : \E k \in 1..Len(f) : f[k] = e
      /\ \A m, n \in 1..Len(f) : m < n => f[m] < f[n]
    BY <1>2, AscendingLemma DEF f
<1>5. \A k \in 1..Len(f) : f[k] \in P /\ f[k] \in 1..Len(s) /\ First(s, f[k])
    BY <1>2, <1>4
<1>6. t \in [1..Len(f) -> E]
    BY <1>3, <1>5
<1>7. t \in Seq(E) /\ Len(t) = Len(f) /\ DOMAIN t = 1..Len(f)
    BY <1>4, <1>6, FunctionIsSeq
<1>8. ASSUME NEW a \in 1..Len(f), NEW l \in 1..Len(s), First(s, l), t[a] = s[l] PROVE f[a] = l
    <2>1. s[f[a]] = s[l] /\ First(s, f[a]) /\ f[a] \in 1..Len(s)
        BY <1>3, <1>5, <1>8
    <2>2. ~ (f[a] < l) /\ ~ (l < f[a])
        BY <1>8, <2>1 DEF First
    <2> QED BY <2>1, <2>2
<1>9. ASSUME NEW a \in 1..Len(f), NEW b \in 1..Len(f), f[a] <= f[b] PROVE a <= b
    <2>1. f[a] \in Int /\ f[b] \in Int
        BY <1>5
    <2>2. b < a => f[b] < f[a]
        BY <1>4
    <2>3. ~ (f[b] < f[a])
        BY <1>9, <2>1
    <2> QED BY <1>4, <2>2, <2>3
<1>10. IsInjective(t)
    <2>1. ASSUME NEW a \in 1..Len(f), NEW b \in 1..Len(f), t[a] = t[b] PROVE a = b
        <3>1. t[b] = s[f[b]] /\ f[b] \in 1..Len(s) /\ First(s, f[b])
            BY <1>3, <1>5
        <3>2. f[a] = f[b]
            BY <2>1, <3>1, <1>8
        <3>3. a <= b /\ b <= a
            BY <1>9, <3>1, <3>2
        <3> QED BY <1>4, <3>3
    <2> QED BY <1>7, <2>1 DEF IsInjective
<1>11. ToSet(t) = ToSet(s)
    <2>1. ASSUME NEW a \in 1..Len(f) PROVE \E i \in 1..Len(s) : t[a] = s[i]
        BY <1>3, <1>5
    <2>2. ASSUME NEW i \in 1..Len(s) PROVE \E a \in 1..Len(f) : t[a] = s[i]
        <3>1. PICK g \in 1..Len(s) : First(s, g) /\ s[g] = s[i]
            BY FirstExists
        <3>2. PICK a \in 1..Len(f) : f[a] = g
            BY <1>2, <1>4, <3>1
        <3> QED BY <1>3, <3>1, <3>2
    <2>3. ToSet(t) = {t[a] : a \in 1..Len(f)} /\ ToSet(s) = {s[i] : i \in 1..Len(s)}
        BY <1>1, <1>7, Zenon DEF ToSet
    <2> QED BY <2>1, <2>2, <2>3
<1>12. ASSUME NEW a \in 1..Len(f), NEW b \in 1..Len(f), NEW i \in 1..Len(s), NEW l \in 1..Len(s),
              t[a] = s[i], t[b] = s[l], First(s, i), First(s, l), i < l
       PROVE a < b
    <2>1. f[a] = i /\ f[b] = l
        BY <1>8, <1>12
    <2>2. a <= b /\ a # b
        BY <1>9, <1>12, <2>1
    <2> QED BY <1>4, <2>2
<1> QED
    BY <1>4, <1>7, <1>10, <1>11, <1>12 DEF t

-----------------------------------------------------------------------------
(* The order of entries *)

(* Entries with the same number of values.                                 *)
AreEntries(T, n) == n \in Nat /\ \A e \in T : e \in Seq(Int) /\ Len(e) = n

(* The lexicographic order of entries of the same size is transitive.      *)
LEMMA BeforeIsTransitive ==
    ASSUME NEW n \in Nat, NEW d \in Seq(Int), NEW e \in Seq(Int), NEW f \in Seq(Int),
           Len(d) = n, Len(e) = n, Len(f) = n, Before(d, e), Before(e, f)
    PROVE  Before(d, f)
<1>1. \A i \in 1..n : d[i] \in Int /\ e[i] \in Int /\ f[i] \in Int
    OBVIOUS
<1>2. PICK a \in 1..n : d[a] < e[a] /\ \A m \in 1..(a - 1) : d[m] = e[m]
    BY DEF Before
<1>3. PICK b \in 1..n : e[b] < f[b] /\ \A m \in 1..(b - 1) : e[m] = f[m]
    BY DEF Before
<1>4. CASE a <= b
    <2>1. e[a] <= f[a]
        <3>1. CASE a = b
            BY <1>1, <1>3, <3>1
        <3>2. CASE a < b
            <4>1. a \in 1..(b - 1)
                BY <3>2
            <4> QED BY <1>1, <1>3, <4>1
        <3> QED BY <1>4, <3>1, <3>2
    <2>2. d[a] < f[a]
        BY <1>1, <1>2, <2>1
    <2>3. ASSUME NEW m \in 1..(a - 1) PROVE d[m] = f[m]
        <3>1. m \in 1..(b - 1)
            BY <1>4
        <3> QED BY <1>2, <1>3, <3>1
    <2> QED BY <2>2, <2>3 DEF Before
<1>5. CASE b < a
    <2>1. b \in 1..(a - 1)
        BY <1>5
    <2>2. d[b] < f[b]
        BY <1>1, <1>2, <1>3, <2>1
    <2>3. ASSUME NEW m \in 1..(b - 1) PROVE d[m] = f[m]
        <3>1. m \in 1..(a - 1)
            BY <1>5
        <3> QED BY <1>2, <1>3, <3>1
    <2> QED BY <2>2, <2>3 DEF Before
<1> QED BY <1>4, <1>5

(* It compares any two entries of the same size.                           *)
LEMMA BeforeIsTotal ==
    ASSUME NEW n \in Nat, NEW e \in Seq(Int), NEW f \in Seq(Int), Len(e) = n, Len(f) = n
    PROVE  e = f \/ Before(e, f) \/ Before(f, e)
<1> DEFINE T == {i \in 1..n : e[i] # f[i]}
<1>1. \A i \in 1..n : e[i] \in Int /\ f[i] \in Int
    OBVIOUS
<1>2. CASE T = {}
    BY <1>2
<1>3. CASE T # {}
    <2>1. T \in SUBSET Nat
        OBVIOUS
    <2>2. PICK i \in T : \A m \in T : i <= m
        BY <1>3, <2>1, NatMinimum
    <2>3. i \in 1..n /\ e[i] # f[i]
        OBVIOUS
    <2>4. ASSUME NEW m \in 1..(i - 1) PROVE e[m] = f[m]
        <3>1. m \in 1..n /\ ~ (i <= m)
            BY <2>3
        <3> QED BY <2>2, <3>1
    <2>5. e[i] < f[i] \/ f[i] < e[i]
        BY <1>1, <2>3
    <2> QED BY <2>3, <2>4, <2>5 DEF Before
<1> QED BY <1>2, <1>3

(* The elements of a BTreeSet are sorted and all there.                    *)
LEMMA BTreeSetLemma ==
    ASSUME NEW S, IsFiniteSet(S), NEW n, AreEntries(S, n)
    PROVE  LET s == BTreeSet(S)
           IN  /\ s \in Seq(S) /\ Len(s) = Cardinality(S) /\ Len(s) \in Nat
               /\ ToSet(s) = S /\ Sorted(s) /\ IsInjective(s)
<1> DEFINE R == {r \in S \X S : Before(r[1], r[2])}
           s == BTreeSet(S)
<1>1. \A x, y \in S : <<x, y>> \in R <=> Before(x, y)
    OBVIOUS
<1> HIDE DEF R
<1>2. Orders(R, S)
    <2>1. ASSUME NEW x \in S PROVE ~ Before(x, x)
        BY DEF Before, AreEntries
    <2>2. ASSUME NEW x \in S, NEW y \in S, NEW z \in S, Before(x, y), Before(y, z) PROVE Before(x, z)
        BY <2>2, BeforeIsTransitive DEF AreEntries
    <2>3. ASSUME NEW x \in S, NEW y \in S PROVE x = y \/ Before(x, y) \/ Before(y, x)
        BY BeforeIsTotal DEF AreEntries
    <2> QED BY <1>1, <2>1, <2>2, <2>3 DEF Orders
<1>3. \A e \in S : {f \in S : Before(f, e)} = Smaller(S, R, e)
    BY <1>1 DEF Smaller
<1>4. s = Listed(S, R)
    <2>1. \A e \in S : Cardinality({f \in S : Before(f, e)}) = Rank(S, R, e)
        BY <1>3 DEF Rank
    <2> DEFINE c(k) == CHOOSE e \in S : Cardinality({f \in S : Before(f, e)}) = k - 1
               d(k) == CHOOSE e \in S : Rank(S, R, e) = k - 1
    <2>2. \A k \in 1..Cardinality(S) : c(k) = d(k)
        BY <2>1, Zenon
    <2>3. BTreeSet(S) = [k \in 1..Cardinality(S) |-> c(k)] /\ Listed(S, R) = [k \in 1..Cardinality(S) |-> d(k)]
        BY Zenon DEF BTreeSet, Listed
    <2> HIDE DEF c, d
    <2> QED BY <2>2, <2>3
<1> HIDE DEF s
<1>5. /\ s \in Seq(S) /\ Len(s) = Cardinality(S) /\ Len(s) \in Nat
      /\ \A e \in S : \E k \in 1..Len(s) : s[k] = e
      /\ \A a, b \in 1..Len(s) : a < b => <<s[a], s[b]>> \in R
    BY <1>2, <1>4, ListedIsInOrder
<1>6. DOMAIN s = 1..Len(s) /\ \A k \in 1..Len(s) : s[k] \in S
    BY <1>5
<1>7. Sorted(s)
    BY <1>1, <1>5, <1>6 DEF Sorted
<1>8. ToSet(s) = S
    <2>1. ToSet(s) = {s[k] : k \in 1..Len(s)}
        BY <1>6, Zenon DEF ToSet
    <2> QED BY <1>5, <1>6, <2>1
<1>9. IsInjective(s)
    <2>1. ASSUME NEW a \in 1..Len(s), NEW b \in 1..Len(s), s[a] = s[b] PROVE a = b
        <3>1. ~ (a < b) /\ ~ (b < a)
            BY <1>2, <1>5, <1>6, <2>1 DEF Orders
        <3> QED BY <1>5, <3>1
    <2> QED BY <1>6, <2>1 DEF IsInjective
<1> QED
    BY <1>5, <1>7, <1>8, <1>9 DEF s

-----------------------------------------------------------------------------
(* Sequences that are put together *)

(* Where the first k of the sequences ss are in c: one after the other.    *)
Placed(c, ss, k, start) ==
    /\ start \in [1..k -> Nat]
    /\ \A m \in 1..k : start[m] + Len(ss[m]) <= Len(c)
    /\ \A m \in 1..k : \A i \in 1..Len(ss[m]) : c[start[m] + i] = ss[m][i]
    /\ \A l, m \in 1..k : l < m => start[l] + Len(ss[l]) <= start[m]
    /\ \A x \in 1..Len(c) : \E m \in 1..k : \E i \in 1..Len(ss[m]) : x = start[m] + i

(* The concatenation of the first lists, for each number of them.          *)
IsFlat(f, ss, n) == f = [i \in 1..n |-> IF i = 1 THEN ss[i] ELSE f[i - 1] \o ss[i]]

(* The recursive function that a concatenation is defined with.            *)
LEMMA FlatExists ==
    ASSUME NEW ss, NEW n \in Nat
    PROVE  \E f : IsFlat(f, ss, n)
<1> DEFINE T == {k \in Nat : ~ \E f : IsFlat(f, ss, k)}
<1>1. SUFFICES ASSUME T # {} PROVE FALSE
    OBVIOUS
<1>2. PICK k \in T : \A m \in T : k <= m
    BY <1>1, NatMinimum
<1>3. k # 0
    <2>1. IsFlat([i \in 1..0 |-> 0], ss, 0)
        BY DEF IsFlat
    <2> QED BY <2>1
<1>4. k - 1 \in Nat /\ k - 1 \notin T
    BY <1>2, <1>3
<1>5. PICK g : IsFlat(g, ss, k - 1)
    BY <1>4
<1> DEFINE f == [i \in 1..k |-> IF i < k THEN g[i] ELSE IF k = 1 THEN ss[k] ELSE g[k - 1] \o ss[k]]
<1>6. ASSUME NEW i \in 1..k PROVE f[i] = (IF i = 1 THEN ss[i] ELSE f[i - 1] \o ss[i])
    <2>1. CASE i < k
        <3>1. i \in 1..k - 1 /\ i \in 1..k
            BY <2>1
        <3>2. f[i] = g[i] /\ g[i] = (IF i = 1 THEN ss[i] ELSE g[i - 1] \o ss[i])
            BY <1>5, <2>1, <3>1 DEF IsFlat
        <3>3. i # 1 => f[i - 1] = g[i - 1]
            BY <3>1
        <3> QED BY <3>2, <3>3
    <2>2. CASE i = k
        <3>1. f[k] = (IF k = 1 THEN ss[k] ELSE g[k - 1] \o ss[k])
            BY <1>4
        <3>2. k # 1 => f[k - 1] = g[k - 1]
            BY <1>4
        <3> HIDE DEF f
        <3> QED BY <2>2, <3>1, <3>2
    <2> QED BY <2>1, <2>2
<1>7. IsFlat(f, ss, k)
    <2>1. f = [i \in 1..k |-> f[i]]
        OBVIOUS
    <2> HIDE DEF f
    <2> QED BY <1>6, <2>1 DEF IsFlat
<1> QED
    BY <1>7

(* Where the elements of the first n + 1 sequences are, when those of the  *)
(* first n are placed.                                                     *)
LEMMA PlaceOne ==
    ASSUME NEW E, NEW c \in Seq(E), NEW ss, NEW k \in Nat, NEW start, Placed(c, ss, k, start),
           \A m \in 1..(k + 1) : ss[m] \in Seq(E)
    PROVE  \E next : Placed(c \o ss[k + 1], ss, k + 1, next)
<1> DEFINE s == ss[k + 1]
           d == c \o s
           next == [m \in 1..(k + 1) |-> IF m <= k THEN start[m] ELSE Len(c)]
<1>1. s \in Seq(E) /\ Len(s) \in Nat /\ Len(c) \in Nat /\ d \in Seq(E) /\ Len(d) = Len(c) + Len(s)
    OBVIOUS
<1>2. (\A x \in 1..Len(c) : d[x] = c[x]) /\ \A i \in 1..Len(s) : d[Len(c) + i] = s[i]
    BY <1>1, ConcatProperties
<1>3. \A m \in 1..k : m \in 1..(k + 1) /\ m # k + 1 /\ ss[m] \in Seq(E) /\ Len(ss[m]) \in Nat /\ next[m] = start[m] /\ start[m] \in Nat
    BY DEF Placed
<1>4. k + 1 \in 1..(k + 1) /\ next[k + 1] = Len(c) /\ \A m \in 1..(k + 1) : m \in 1..k \/ m = k + 1
    OBVIOUS
<1>5. next \in [1..(k + 1) -> Nat]
    BY <1>1, <1>3, <1>4
<1> HIDE DEF next, d, s
<1>6. s = ss[k + 1]
    BY DEF s
<1>7. ASSUME NEW m \in 1..(k + 1) PROVE next[m] + Len(ss[m]) <= Len(d)
    <2>1. CASE m \in 1..k
        <3>1. start[m] + Len(ss[m]) <= Len(c)
            BY <2>1 DEF Placed
        <3> QED BY <1>1, <1>3, <2>1, <3>1
    <2>2. CASE m = k + 1
        BY <1>1, <1>4, <1>6, <2>2
    <2> QED BY <1>4, <2>1, <2>2
<1>8. ASSUME NEW m \in 1..(k + 1), NEW i \in 1..Len(ss[m]) PROVE d[next[m] + i] = ss[m][i]
    <2>1. CASE m \in 1..k
        <3>1. start[m] + Len(ss[m]) <= Len(c) /\ c[start[m] + i] = ss[m][i]
            BY <2>1 DEF Placed
        <3>2. start[m] + i \in 1..Len(c)
            BY <1>1, <1>3, <2>1, <3>1
        <3> QED BY <1>2, <1>3, <2>1, <3>1, <3>2
    <2>2. CASE m = k + 1
        BY <1>2, <1>4, <1>6, <2>2
    <2> QED BY <1>4, <2>1, <2>2
<1>9. ASSUME NEW l \in 1..(k + 1), NEW m \in 1..(k + 1), l < m PROVE next[l] + Len(ss[l]) <= next[m]
    <2>1. l \in 1..k
        BY <1>9
    <2>2. CASE m \in 1..k
        BY <1>3, <1>9, <2>1, <2>2 DEF Placed
    <2>3. CASE m = k + 1
        BY <1>3, <1>4, <2>1, <2>3 DEF Placed
    <2> QED BY <1>4, <2>2, <2>3
<1>10. ASSUME NEW x \in 1..Len(d) PROVE \E m \in 1..(k + 1) : \E i \in 1..Len(ss[m]) : x = next[m] + i
    <2>1. CASE x <= Len(c)
        <3>1. x \in 1..Len(c)
            BY <1>1, <2>1
        <3>2. PICK m \in 1..k : \E i \in 1..Len(ss[m]) : x = start[m] + i
            BY <3>1 DEF Placed
        <3> QED BY <1>3, <3>2
    <2>2. CASE ~ (x <= Len(c))
        <3>1. x - Len(c) \in 1..Len(s) /\ x = Len(c) + (x - Len(c))
            BY <1>1, <2>2
        <3> QED BY <1>4, <1>6, <3>1
    <2> QED BY <2>1, <2>2
<1>11. Placed(d, ss, k + 1, next)
    BY <1>5, <1>7, <1>8, <1>9, <1>10 DEF Placed
<1> QED
    BY <1>11 DEF d, s

(* Every element of the sequences has its place in their concatenation,    *)
(* later sequences after earlier ones, and there is nothing else.          *)
LEMMA ConcatLemma ==
    ASSUME NEW E, NEW ss, NEW n \in Nat, Len(ss) = n, n # 0 \/ ss = <<>>, \A m \in 1..n : ss[m] \in Seq(E)
    PROVE  Concat(ss) \in Seq(E) /\ \E start : Placed(Concat(ss), ss, n, start)
<1>1. CASE n = 0
    <2>1. Concat(ss) = <<>> /\ <<>> \in Seq(E)
        BY <1>1 DEF Concat, FlattenSeq
    <2>2. Placed(<<>>, ss, 0, [i \in 1..0 |-> 0])
        BY DEF Placed
    <2> QED BY <1>1, <2>1, <2>2
<1>2. CASE n # 0
    <2> DEFINE f == CHOOSE g : IsFlat(g, ss, n)
    <2>1. IsFlat(f, ss, n)
        BY FlatExists
    <2>2. Concat(ss) = f[n]
        <3>1. f = CHOOSE g : g = [i \in 1..n |-> IF i = 1 THEN ss[i] ELSE g[i - 1] \o ss[i]]
            BY Zenon DEF IsFlat
        <3>2. Len(ss) # 0
            BY <1>2
        <3> HIDE DEF f
        <3> QED BY <3>1, <3>2, Zenon DEF Concat, FlattenSeq
    <2> HIDE DEF f
    <2> DEFINE Good(k) == f[k] \in Seq(E) /\ \E start : Placed(f[k], ss, k, start)
               T == {k \in 1..n : ~ Good(k)}
    <2>3. SUFFICES ASSUME T # {} PROVE FALSE
        BY <1>2, <2>2
    <2>4. T \in SUBSET Nat
        OBVIOUS
    <2>5. PICK k \in T : \A m \in T : k <= m
        BY <2>3, <2>4, NatMinimum
    <2>6. k \in 1..n /\ ~ Good(k)
        OBVIOUS
    <2>7. CASE k = 1
        <3>1. f[1] = ss[1] /\ ss[1] \in Seq(E)
            BY <2>1, <2>6, <2>7 DEF IsFlat
        <3>2. Placed(<<>>, ss, 0, [i \in 1..0 |-> 0]) /\ <<>> \in Seq(E)
            BY DEF Placed
        <3>3. PICK start : Placed(<<>> \o ss[0 + 1], ss, 0 + 1, start)
            <4>1. 0 + 1 = 1 /\ \A m \in 1..1 : ss[m] \in Seq(E)
                BY <3>1
            <4> QED BY <3>2, <4>1, PlaceOne
        <3>4. 0 + 1 = 1 /\ <<>> \o ss[1] = ss[1]
            BY <3>1
        <3> QED BY <2>6, <2>7, <3>1, <3>3, <3>4
    <2>8. CASE k # 1
        <3> DEFINE h == k - 1
        <3>1. h \in Nat /\ h \in 1..n /\ h + 1 = k /\ ~ (k <= h)
            BY <2>6, <2>8
        <3>2. Good(h)
            BY <2>5, <3>1
        <3>3. f[k] = f[h] \o ss[k]
            BY <2>1, <2>6, <2>8 DEF IsFlat
        <3>4. \A m \in 1..(h + 1) : ss[m] \in Seq(E)
            BY <2>6, <3>1
        <3> HIDE DEF h
        <3>5. PICK start : Placed(f[h], ss, h, start)
            BY <3>2
        <3>6. \E next : Placed(f[h] \o ss[h + 1], ss, h + 1, next)
            BY <3>1, <3>2, <3>4, <3>5, PlaceOne
        <3>7. f[k] \in Seq(E)
            BY <2>6, <3>2, <3>3
        <3> QED BY <2>6, <3>1, <3>3, <3>6, <3>7
    <2> QED BY <2>7, <2>8
<1> QED
    BY <1>1, <1>2

-----------------------------------------------------------------------------
(* Labels, keys and groups of blocks *)

(* The elements of a finite set, under a function, are a finite set.       *)
LEMMA ImageIsFinite ==
    ASSUME NEW S, IsFiniteSet(S), NEW f, DOMAIN f = S
    PROVE  IsFiniteSet({f[x] : x \in S})
<1> DEFINE T == {f[x] : x \in S}
           h == [x \in S |-> f[x]]
<1>1. h \in Surjection(S, T)
    BY DEF Surjection
<1> QED
    BY <1>1, FS_Surjection

(* The entries of Labels, and where they are.                              *)
LEMMA LabelsLemma ==
    ASSUME NEW l, ValidLabels(l)
    PROVE  /\ l.names \in Seq(STRING) /\ size(l) \in Nat /\ DOMAIN l.names = 1..size(l)
           /\ l.values \in Seq(Seq(Int)) /\ count(l) \in Nat /\ DOMAIN l.values = 1..count(l)
           /\ \A i \in 1..count(l) : l.values[i] \in Seq(Int) /\ Len(l.values[i]) = size(l)
           /\ \A i, k \in 1..count(l) : l.values[i] = l.values[k] => i = k
           /\ Entries(l) = {l.values[i] : i \in 1..count(l)}
<1>1. /\ l.names \in Seq(STRING) /\ size(l) \in Nat /\ DOMAIN l.names = 1..size(l)
      /\ l.values \in Seq(Seq(Int)) /\ count(l) \in Nat /\ DOMAIN l.values = 1..count(l)
    BY DEF ValidLabels, size, count
<1>2. Entries(l) = {l.values[i] : i \in 1..count(l)}
    BY <1>1, Zenon DEF Entries, ToSet
<1>3. \A i \in 1..count(l) : l.values[i] \in Seq(Int) /\ l.values[i] \in Entries(l)
    BY <1>1, <1>2
<1>4. \A i \in 1..count(l) : Len(l.values[i]) = size(l)
    BY <1>3 DEF ValidLabels
<1>5. \A i, k \in 1..count(l) : l.values[i] = l.values[k] => i = k
    BY <1>1 DEF ValidLabels, IsInjective
<1> QED
    BY <1>1, <1>2, <1>3, <1>4, <1>5

(* The values of an entry at some positions.                               *)
LEMMA AnyPickLemma ==
    ASSUME NEW E, NEW e \in Seq(E), NEW ixs, NEW n \in Nat, Len(ixs) = n, \A k \in 1..n : ixs[k] \in 1..Len(e)
    PROVE  Pick(e, ixs) \in Seq(E) /\ Len(Pick(e, ixs)) = n /\ \A k \in 1..n : Pick(e, ixs)[k] = e[ixs[k]]
<1> DEFINE s == Pick(e, ixs)
<1>1. s = [k \in 1..n |-> e[ixs[k]]]
    BY DEF Pick
<1>2. s \in [1..n -> E]
    <2>1. \A k \in 1..n : e[ixs[k]] \in E
        BY SeqLemma
    <2> QED BY <1>1, <2>1
<1> HIDE DEF s
<1>3. s \in Seq(E) /\ Len(s) = n
    BY <1>2, FunctionIsSeq
<1> QED
    BY <1>1, <1>3 DEF s

(* The same for entries, and for the names of dimensions.                  *)
LEMMA PickLemma ==
    ASSUME NEW e \in Seq(Int), NEW ixs, NEW n \in Nat, Len(ixs) = n, \A k \in 1..n : ixs[k] \in 1..Len(e)
    PROVE  Pick(e, ixs) \in Seq(Int) /\ Len(Pick(e, ixs)) = n /\ \A k \in 1..n : Pick(e, ixs)[k] = e[ixs[k]]
BY AnyPickLemma

(* The dimensions of a key that are moved are names.                       *)
LEMMA NamesPickLemma ==
    ASSUME NEW e \in Seq(STRING), NEW ixs, NEW n \in Nat, Len(ixs) = n, \A k \in 1..n : ixs[k] \in 1..Len(e)
    PROVE  Pick(e, ixs) \in Seq(STRING) /\ Len(Pick(e, ixs)) = n /\ \A k \in 1..n : Pick(e, ixs)[k] = e[ixs[k]]
BY AnyPickLemma

(* The arguments passed the checks of their constructors.                  *)
CallInv ==
    /\ ValidLabels(call.keys) /\ TensorMap_allowed(call.keys, call.blocks)
    /\ \A k \in 1..Len(call.blocks) : ValidBlock(call.blocks[k])
    /\ ValidLabels(call.keys_to_move)

(* The keys that stay, at their positions.                                 *)
Kept == remaining(call.keys, names_to_move)
Moved == dimensions_positions(call.keys, names_to_move)

(* The dimensions of the keys that are moved, and those that stay.         *)
LEMMA PositionsLemma ==
    ASSUME CallInv, ~ Refused
    PROVE  /\ Kept \in Seq(1..size(call.keys)) /\ Len(Kept) \in Nat
           /\ Len(names_to_move) \in Nat /\ Len(Moved) = Len(names_to_move)
           /\ \A d \in 1..Len(names_to_move) :
                  Moved[d] \in 1..size(call.keys) /\ call.keys.names[Moved[d]] = names_to_move[d]
<1>1. /\ call.keys.names \in Seq(STRING) /\ size(call.keys) \in Nat
      /\ DOMAIN call.keys.names = 1..size(call.keys) /\ size(call.keys) = Len(call.keys.names)
    BY LabelsLemma DEF CallInv, size
<1>2. names_to_move \in Seq(STRING) /\ Len(names_to_move) \in Nat /\ DOMAIN names_to_move = 1..Len(names_to_move)
    BY LabelsLemma DEF CallInv, names_to_move
<1> DEFINE S == {d \in 1..size(call.keys) : call.keys.names[d] \notin ToSet(names_to_move)}
<1>3. S \subseteq 1..size(call.keys) /\ S \in SUBSET Int /\ IsFiniteSet(S)
    <2>1. S \subseteq 1..size(call.keys)
        OBVIOUS
    <2> HIDE DEF S
    <2> QED BY <1>1, <2>1, PositionsAreFinite
<1>4. Kept = Ascending(S)
    BY <1>1, Zenon DEF Kept, remaining
<1>5. Kept \in Seq(1..size(call.keys)) /\ Len(Kept) \in Nat
    <2> HIDE DEF S
    <2>1. Kept \in Seq(S) /\ Len(Kept) \in Nat
        BY <1>3, <1>4, AscendingLemma
    <2> QED BY <1>3, <2>1, WiderSeq
<1>6. \A d \in 1..Len(names_to_move) : \E c \in 1..size(call.keys) : call.keys.names[c] = names_to_move[d]
    <2>1. ToSet(names_to_move) \subseteq ToSet(call.keys.names)
        BY DEF Refused
    <2> QED BY <1>1, <1>2, <2>1 DEF ToSet
<1>7. Moved = [d \in 1..Len(names_to_move) |-> CHOOSE c \in 1..size(call.keys) : call.keys.names[c] = names_to_move[d]]
    <2>1. Moved = [d \in 1..Len(names_to_move) |-> CHOOSE c \in 1..Len(call.keys.names) : call.keys.names[c] = names_to_move[d]]
        BY Zenon DEF Moved, dimensions_positions
    <2> QED BY <1>1, <2>1
<1>8. \A d \in 1..Len(names_to_move) :
          Moved[d] \in 1..size(call.keys) /\ call.keys.names[Moved[d]] = names_to_move[d]
    BY <1>6, <1>7
<1>9. Moved \in [1..Len(names_to_move) -> 1..size(call.keys)]
    BY <1>7, <1>8
<1>10. Len(Moved) = Len(names_to_move)
    BY <1>2, <1>9, FunctionIsSeq
<1> QED
    BY <1>2, <1>5, <1>8, <1>10

(* split_keys makes unique keys, and a call that is not refused has one.   *)
LEMMA SplittedLemma ==
    ASSUME CallInv, ~ Refused
    PROVE  /\ count(call.keys) \in Nat \ {0} /\ Len(call.blocks) = count(call.keys)
           /\ splitted_keys.values \in Seq(Seq(Int)) /\ count(splitted_keys) \in Nat \ {0}
           /\ IsInjective(splitted_keys.values)
           /\ \/ count(splitted_keys) = 1
              \/ /\ \A k \in 1..count(call.keys) : \E n \in 1..count(splitted_keys) :
                        splitted_keys.values[n] = Pick(call.keys.values[k], Kept)
                 /\ \A n \in 1..count(splitted_keys) : \E k \in 1..count(call.keys) :
                        splitted_keys.values[n] = Pick(call.keys.values[k], Kept)
<1> DEFINE keys == call.keys
<1>1. /\ count(keys) \in Nat \ {0} /\ Len(call.blocks) = count(keys)
      /\ \A k \in 1..count(keys) : keys.values[k] \in Seq(Int) /\ Len(keys.values[k]) = size(keys)
    BY LabelsLemma DEF CallInv, Refused, is_empty, TensorMap_allowed
<1>2. Kept \in Seq(1..size(keys)) /\ Len(Kept) \in Nat
    BY PositionsLemma
<1>3. CASE Kept = <<>>
    <2>1. splitted_keys = Labels(<<"_">>, << <<0>> >>)
        BY <1>3 DEF splitted_keys, new_keys, Kept
    <2>2. splitted_keys.values = << <<0>> >>
        BY <2>1 DEF Labels
    <2> QED BY <1>1, <2>2 DEF count, IsInjective
<1>4. CASE Kept # <<>>
    <2> DEFINE s == [k \in 1..count(keys) |-> Pick(keys.values[k], Kept)]
    <2>1. splitted_keys.values = IndexSet(s)
        BY <1>4, Zenon DEF splitted_keys, new_keys, Kept, Labels
    <2>2. \A k \in 1..count(keys) : Pick(keys.values[k], Kept) \in Seq(Int)
        <3>1. \A d \in 1..Len(Kept) : Kept[d] \in 1..size(keys)
            BY <1>2, SeqLemma
        <3> QED BY <1>1, <1>2, <3>1, PickLemma
    <2>3. s \in [1..count(keys) -> Seq(Int)]
        BY <2>2
    <2>4. s \in Seq(Seq(Int)) /\ Len(s) = count(keys)
        <3> HIDE DEF s
        <3> QED BY <1>1, <2>3, FunctionIsSeq
    <2>5. \A k \in 1..count(keys) : s[k] = Pick(keys.values[k], Kept)
        OBVIOUS
    <2> HIDE DEF s
    <2> DEFINE t == IndexSet(s)
    <2>6. t \in Seq(Seq(Int)) /\ Len(t) \in Nat /\ IsInjective(t) /\ ToSet(t) = ToSet(s)
        BY <2>4, IndexSetLemma
    <2> HIDE DEF t
    <2>7. ToSet(t) = {t[n] : n \in 1..Len(t)} /\ ToSet(s) = {s[k] : k \in 1..count(keys)}
        BY <2>4, <2>6, SeqLemma
    <2>8. \A n \in 1..Len(t) : \E k \in 1..count(keys) : t[n] = s[k]
        BY <2>6, <2>7
    <2>9. \A k \in 1..count(keys) : \E n \in 1..Len(t) : t[n] = s[k]
        BY <2>6, <2>7
    <2>10. 1 \in 1..count(keys)
        BY <1>1
    <2>11. Len(t) # 0
        BY <2>9, <2>10
    <2>12. splitted_keys.values = t /\ count(splitted_keys) = Len(t)
        BY <2>1, Zenon DEF t, count
    <2> QED BY <1>1, <2>5, <2>6, <2>8, <2>9, <2>11, <2>12
<1> QED
    BY <1>3, <1>4

(* Blocks that can be put together, with their keys of length n.           *)
GroupOK(g, n) ==
    /\ Len(g) \in Nat \ {0} /\ n \in Nat
    /\ \A k \in 1..Len(g) :
          /\ ValidBlock(g[k].block) /\ Names(g[k].block) = Names(g[1].block)
          /\ g[k].key \in Seq(Int) /\ Len(g[k].key) = n

(* The positions of the keys whose blocks are merged next.                 *)
Matching ==
    IF count(splitted_keys) = 1 THEN [k \in 1..count(call.keys) |-> k]
    ELSE blocks_matching(splitted_keys.values[Len(new_blocks) + 1])

(* The blocks merged together: at least one, all valid, of the same        *)
(* components, gradients and sample names.                                 *)
LEMMA GroupLemma ==
    ASSUME CallInv, ~ Refused, Len(new_blocks) \in 0..(count(splitted_keys) - 1)
    PROVE  /\ GroupOK(group, Len(names_to_move))
           /\ Matching \in Seq(1..count(call.keys)) /\ Len(group) = Len(Matching)
           /\ \A m \in 1..Len(group) : /\ group[m].block = call.blocks[Matching[m]]
                                       /\ group[m].key = Pick(call.keys.values[Matching[m]], Moved)
           /\ \A l, m \in 1..Len(group) : l < m => Matching[l] < Matching[m]
           /\ \A k \in 1..count(call.keys) :
                 (\E m \in 1..Len(group) : Matching[m] = k)
                 <=> count(splitted_keys) = 1 \/ Pick(call.keys.values[k], Kept) = splitted_keys.values[Len(new_blocks) + 1]
<1> DEFINE keys == call.keys
           c == count(keys)
           e == splitted_keys.values[Len(new_blocks) + 1]
<1>1. /\ c \in Nat \ {0} /\ Len(call.blocks) = c
      /\ \A k \in 1..c : keys.values[k] \in Seq(Int) /\ Len(keys.values[k]) = size(keys)
    BY SplittedLemma, LabelsLemma DEF CallInv
<1>2. count(splitted_keys) \in Nat \ {0}
    BY SplittedLemma
<1>3. /\ Matching \in Seq(1..c) /\ Len(Matching) \in Nat \ {0}
      /\ \A l, m \in 1..Len(Matching) : l < m => Matching[l] < Matching[m]
      /\ \A k \in 1..c : (\E m \in 1..Len(Matching) : Matching[m] = k)
                         <=> count(splitted_keys) = 1 \/ Pick(keys.values[k], Kept) = e
    <2>1. CASE count(splitted_keys) = 1
        <3> DEFINE s == [k \in 1..c |-> k]
        <3>1. Matching = s
            BY <2>1, Zenon DEF Matching
        <3>2. s \in [1..c -> 1..c]
            OBVIOUS
        <3>3. s \in Seq(1..c) /\ Len(s) = c
            <4> HIDE DEF s, c
            <4> QED BY <1>1, <3>2, FunctionIsSeq
        <3> QED BY <1>1, <2>1, <3>1, <3>3
    <2>2. CASE count(splitted_keys) # 1
        <3> DEFINE S == {k \in 1..c : Pick(keys.values[k], Kept) = e}
        <3>1. Matching = Ascending(S)
            BY <2>2, Zenon DEF Matching, blocks_matching, Kept
        <3>2. S \in SUBSET (1..c) /\ S \in SUBSET Int /\ IsFiniteSet(S)
            <4>1. S \in SUBSET (1..c) /\ c \in Nat
                BY <1>1
            <4> HIDE DEF S, c
            <4> QED BY <4>1, PositionsAreFinite
        <3>3. PICK k \in 1..c : e = Pick(keys.values[k], Kept)
            <4>1. Len(new_blocks) + 1 \in 1..count(splitted_keys)
                BY <1>2
            <4> QED BY <2>2, <4>1, SplittedLemma
        <3>4. k \in S /\ \A x \in 1..c : x \in S <=> Pick(keys.values[x], Kept) = e
            BY <3>3
        <3> HIDE DEF S
        <3>5. /\ Matching \in Seq(S) /\ Len(Matching) \in Nat
              /\ \A x \in S : \E m \in 1..Len(Matching) : Matching[m] = x
              /\ \A l, m \in 1..Len(Matching) : l < m => Matching[l] < Matching[m]
            BY <3>1, <3>2, AscendingLemma
        <3>6. Len(Matching) # 0
            BY <3>4, <3>5
        <3>7. \A m \in 1..Len(Matching) : Matching[m] \in S
            BY <3>5, SeqLemma
        <3>8. Matching \in Seq(1..c)
            BY <3>2, <3>5, WiderSeq
        <3> QED BY <2>2, <3>4, <3>5, <3>6, <3>7, <3>8
    <2> QED BY <2>1, <2>2
<1>4. group = [m \in 1..Len(Matching) |-> [key |-> Pick(keys.values[Matching[m]], Moved), block |-> call.blocks[Matching[m]]]]
    BY Zenon DEF group, Matching, Moved
<1> DEFINE B == {group[m] : m \in 1..Len(Matching)}
<1>5. group \in [1..Len(Matching) -> B]
    BY <1>4
<1>6. Len(group) = Len(Matching)
    <2> HIDE DEF B
    <2> QED BY <1>3, <1>5, FunctionIsSeq
<1>7. \A m \in 1..Len(group) : /\ group[m].block = call.blocks[Matching[m]]
                               /\ group[m].key = Pick(keys.values[Matching[m]], Moved)
    BY <1>4, <1>6
<1>8. \A m \in 1..Len(group) : Matching[m] \in 1..c
    BY <1>3, <1>6, SeqLemma
<1>9. ASSUME NEW m \in 1..Len(group)
      PROVE  ValidBlock(group[m].block) /\ Names(group[m].block) = Names(group[1].block)
    <2>1. 1 \in 1..Len(group)
        BY <1>3, <1>6
    <2>2. \A x \in 1..c : ValidBlock(call.blocks[x]) /\ Names(call.blocks[x]) = Names(call.blocks[1])
        BY <1>1 DEF CallInv, TensorMap_allowed
    <2> QED BY <1>7, <1>8, <2>1, <2>2
<1>10. ASSUME NEW m \in 1..Len(group) PROVE group[m].key \in Seq(Int) /\ Len(group[m].key) = Len(names_to_move)
    <2>1. /\ Len(names_to_move) \in Nat /\ Len(Moved) = Len(names_to_move)
          /\ \A d \in 1..Len(names_to_move) : Moved[d] \in 1..size(keys)
        BY PositionsLemma
    <2>2. PICK x \in 1..c : x = Matching[m]
        BY <1>8
    <2>3. keys.values[x] \in Seq(Int) /\ Len(keys.values[x]) = size(keys)
        BY <1>1
    <2>4. Pick(keys.values[x], Moved) \in Seq(Int) /\ Len(Pick(keys.values[x], Moved)) = Len(names_to_move)
        BY <2>1, <2>3, PickLemma
    <2> QED BY <1>7, <2>2, <2>4
<1>11. GroupOK(group, Len(names_to_move))
    BY <1>3, <1>6, <1>9, <1>10, PositionsLemma DEF GroupOK
<1> QED
    BY <1>3, <1>6, <1>7, <1>11

-----------------------------------------------------------------------------
(* merge_samples *)

(* The samples of a block with its key, if it is added.                    *)
Full(b, add_key) ==
    [i \in 1..count(b.block.samples) |-> SampleWithKey(b.block.samples.values[i], b.key, add_key)]

(* Whether the moved key goes to the samples, and their size then.         *)
AddsKey(g, names) == Len(g[1].block.samples.names) < Len(names)
FullSize(g, n, names) == size(g[1].block.samples) + (IF AddsKey(g, names) THEN n ELSE 0)
AllFull(g, names) == [k \in 1..Len(g) |-> Full(g[k], AddsKey(g, names))]

(* The entry of a sample with the moved key after it.                      *)
LEMMA EntryWithKey ==
    ASSUME NEW v \in Seq(Int), NEW w \in Seq(Int), NEW key \in Seq(Int), NEW n \in Nat, Len(v) = n, Len(w) = n
    PROVE  /\ v \o key \in Seq(Int) /\ Len(v \o key) = n + Len(key)
           /\ v \o key = w \o key => v = w
<1>1. v \o key \in Seq(Int) /\ Len(v \o key) = n + Len(key)
    BY ConcatProperties
<1>2. \A x \in 1..n : v[x] = (v \o key)[x] /\ w[x] = (w \o key)[x]
    BY ConcatProperties
<1>3. ASSUME v \o key = w \o key PROVE v = w
    <2>1. \A x \in 1..n : v[x] = w[x]
        BY <1>2, <1>3
    <2> QED BY <2>1
<1> QED
    BY <1>1, <1>3

(* The samples of a block with the moved key stay unique, and as many.     *)
LEMMA FullLemma ==
    ASSUME NEW g, NEW n, GroupOK(g, n), NEW names, NEW k \in 1..Len(g)
    PROVE  LET f == Full(g[k], AddsKey(g, names))
           IN  /\ f \in Seq(Seq(Int)) /\ Len(f) = count(g[k].block.samples) /\ Len(f) \in Nat
               /\ \A i \in 1..Len(f) : f[i] \in Seq(Int) /\ Len(f[i]) = FullSize(g, n, names)
               /\ \A i, l \in 1..Len(f) : f[i] = f[l] => i = l
               /\ (Len(g[k].block.samples.names) < Len(names)) = AddsKey(g, names)
<1> DEFINE add == AddsKey(g, names)
           f == Full(g[k], add)
           l == g[k].block.samples
           key == g[k].key
<1>1. ValidLabels(l) /\ l.names = g[1].block.samples.names /\ key \in Seq(Int) /\ Len(key) = n /\ n \in Nat
    BY DEF GroupOK, ValidBlock, Names
<1>2. /\ count(l) \in Nat /\ size(l) \in Nat /\ size(l) = size(g[1].block.samples)
      /\ \A i \in 1..count(l) : l.values[i] \in Seq(Int) /\ Len(l.values[i]) = size(l)
      /\ \A i, m \in 1..count(l) : l.values[i] = l.values[m] => i = m
    BY <1>1, LabelsLemma DEF size
<1>3. \A i \in 1..count(l) : f[i] = IF add THEN l.values[i] \o key ELSE l.values[i]
    BY DEF Full, SampleWithKey
<1>4. add \in BOOLEAN /\ (Len(l.names) < Len(names)) = add
    BY <1>1 DEF AddsKey
<1>5. f = [i \in 1..count(l) |-> f[i]]
    BY DEF Full
<1> HIDE DEF f, l, key, add
<1>6. FullSize(g, n, names) = size(l) + (IF add THEN n ELSE 0)
    BY <1>2 DEF FullSize, add
<1>7. ASSUME NEW i \in 1..count(l) PROVE f[i] \in Seq(Int) /\ Len(f[i]) = FullSize(g, n, names)
    <2>1. PICK v \in Seq(Int) : v = l.values[i] /\ Len(v) = size(l)
        BY <1>2
    <2>2. v \o key \in Seq(Int) /\ Len(v \o key) = size(l) + n
        BY <1>1, <1>2, <2>1, EntryWithKey
    <2>3. f[i] = (IF add THEN v \o key ELSE v)
        BY <1>3, <2>1
    <2> QED BY <1>2, <1>6, <2>1, <2>2, <2>3
<1>8. ASSUME NEW i \in 1..count(l), NEW m \in 1..count(l), f[i] = f[m] PROVE i = m
    <2>1. PICK v \in Seq(Int) : v = l.values[i] /\ Len(v) = size(l)
        BY <1>2
    <2>2. PICK w \in Seq(Int) : w = l.values[m] /\ Len(w) = size(l)
        BY <1>2
    <2>3. CASE ~ add
        BY <1>2, <1>3, <1>8, <2>3
    <2>4. CASE add
        <3>1. v \o key = w \o key
            BY <1>3, <1>8, <2>1, <2>2, <2>4
        <3>2. Len(v) = size(l) /\ Len(w) = size(l) /\ size(l) \in Nat /\ key \in Seq(Int)
            BY <1>1, <1>2, <2>1, <2>2
        <3>3. v = w
            BY <3>1, <3>2, EntryWithKey
        <3> QED BY <1>2, <2>1, <2>2, <3>3
    <2> QED BY <2>3, <2>4
<1>9. f \in [1..count(l) -> Seq(Int)]
    BY <1>5, <1>7
<1>10. f \in Seq(Seq(Int)) /\ Len(f) = count(l)
    BY <1>2, <1>9, FunctionIsSeq
<1> QED
    BY <1>2, <1>4, <1>7, <1>8, <1>10 DEF f, l, add

(* The merged samples: those of all blocks, each once.                     *)
LEMMA MergedLemma ==
    ASSUME NEW g, NEW n, GroupOK(g, n), NEW names
    PROVE  LET c == Concat(AllFull(g, names))
               m == merged_samples(g, names)
           IN  /\ c \in Seq(Seq(Int)) /\ m = IndexSet(c)
               /\ \E start : Placed(c, AllFull(g, names), Len(g), start)
               /\ m \in Seq(Seq(Int)) /\ IsInjective(m) /\ IsFiniteSet(ToSet(m))
               /\ AreEntries(ToSet(m), FullSize(g, n, names))
               /\ \A k \in 1..Len(g) : \A i \in 1..count(g[k].block.samples) :
                      Full(g[k], AddsKey(g, names))[i] \in ToSet(m)
<1> DEFINE ss == AllFull(g, names)
           c == Concat(ss)
           m == merged_samples(g, names)
           F(k) == Full(g[k], AddsKey(g, names))
<1>1. Len(g) \in Nat \ {0}
    BY DEF GroupOK
<1>2. ss = [k \in 1..Len(g) |-> F(k)]
    BY DEF AllFull
<1>3. \A k \in 1..Len(g) : /\ F(k) \in Seq(Seq(Int)) /\ Len(F(k)) = count(g[k].block.samples) /\ Len(F(k)) \in Nat
                           /\ \A i \in 1..Len(F(k)) : F(k)[i] \in Seq(Int) /\ Len(F(k)[i]) = FullSize(g, n, names)
    BY FullLemma
<1>4. m = IndexSet(c)
    BY Zenon DEF merged_samples, AllFull, Full, AddsKey
<1> HIDE DEF ss, F, m
<1>5. ss \in [1..Len(g) -> Seq(Seq(Int))] /\ \A k \in 1..Len(g) : ss[k] = F(k)
    BY <1>2, <1>3
<1>6. Len(ss) = Len(g)
    BY <1>1, <1>5, FunctionIsSeq
<1>7. c \in Seq(Seq(Int)) /\ \E start : Placed(c, ss, Len(g), start)
    BY <1>1, <1>3, <1>5, <1>6, ConcatLemma
<1> HIDE DEF c
<1>8. PICK start : Placed(c, ss, Len(g), start)
    BY <1>7
<1>9. m \in Seq(Seq(Int)) /\ IsInjective(m) /\ ToSet(m) = ToSet(c)
    BY <1>4, <1>7, IndexSetLemma
<1>10. Len(c) \in Nat /\ DOMAIN c = 1..Len(c) /\ ToSet(c) = {c[x] : x \in 1..Len(c)} /\ \A x \in 1..Len(c) : c[x] \in Seq(Int)
    BY <1>7, SeqLemma
<1>11. ASSUME NEW x \in 1..Len(c) PROVE Len(c[x]) = FullSize(g, n, names)
    <2>1. PICK k \in 1..Len(g) : \E i \in 1..Len(ss[k]) : x = start[k] + i
        BY <1>8 DEF Placed
    <2>2. PICK i \in 1..Len(F(k)) : x = start[k] + i
        BY <1>5, <2>1
    <2>3. c[x] = F(k)[i]
        BY <1>5, <1>8, <2>2 DEF Placed
    <2> QED BY <1>3, <2>3
<1>12. IsFiniteSet(ToSet(c))
    <2>1. IsFiniteSet(1..Len(c))
        BY <1>10, FS_Interval
    <2> QED BY <1>10, <2>1, ImageIsFinite
<1>13. FullSize(g, n, names) \in Nat
    <2>1. 1 \in 1..Len(g)
        BY <1>1
    <2>2. ValidLabels(g[1].block.samples) /\ n \in Nat
        BY <2>1 DEF GroupOK, ValidBlock
    <2>3. size(g[1].block.samples) \in Nat
        BY <2>2, LabelsLemma
    <2> QED BY <2>2, <2>3 DEF FullSize
<1>14. AreEntries(ToSet(c), FullSize(g, n, names))
    BY <1>10, <1>11, <1>13 DEF AreEntries
<1>15. ASSUME NEW k \in 1..Len(g), NEW i \in 1..count(g[k].block.samples) PROVE F(k)[i] \in ToSet(c)
    <2>1. i \in 1..Len(ss[k]) /\ Len(ss[k]) \in Nat
        BY <1>3, <1>5
    <2>2. c[start[k] + i] = F(k)[i] /\ start[k] + Len(ss[k]) <= Len(c) /\ start[k] \in Nat
        BY <1>5, <1>8, <2>1 DEF Placed
    <2>3. start[k] + i \in 1..Len(c)
        BY <1>10, <2>1, <2>2
    <2> QED BY <1>10, <2>2, <2>3
<1> QED
    BY <1>4, <1>7, <1>9, <1>12, <1>14, <1>15 DEF c, ss, m, F

(* The rows that the samples of block k have in the merged ones.           *)
LEMMA RowsLemma ==
    ASSUME NEW g, NEW n, GroupOK(g, n), NEW names, NEW sort \in BOOLEAN
    PROVE  LET l == merge_samples(g, names, sort)
           IN  /\ l.names = names /\ l.values \in Seq(Seq(Int)) /\ IsInjective(l.values)
               /\ ToSet(l.values) = ToSet(merged_samples(g, names))
               /\ sort => Sorted(l.values)
               /\ ~ sort => l.values = merged_samples(g, names)
               /\ \A k \in 1..Len(g) :
                     /\ samples_mapping(g[k], l) \in [1..count(g[k].block.samples) -> 1..count(l)]
                     /\ Len(samples_mapping(g[k], l)) = count(g[k].block.samples)
                     /\ \A i \in 1..count(g[k].block.samples) :
                           l.values[samples_mapping(g[k], l)[i]] = Full(g[k], AddsKey(g, names))[i]
<1> DEFINE m == merged_samples(g, names)
           l == merge_samples(g, names, sort)
           N == FullSize(g, n, names)
           b == BTreeSet(ToSet(m))
<1>1. /\ m \in Seq(Seq(Int)) /\ IsInjective(m) /\ IsFiniteSet(ToSet(m)) /\ AreEntries(ToSet(m), N)
      /\ \A k \in 1..Len(g) : \A i \in 1..count(g[k].block.samples) : Full(g[k], AddsKey(g, names))[i] \in ToSet(m)
    BY MergedLemma
<1>2. l.names = names /\ l.values = IF sort THEN b ELSE m
    BY DEF merge_samples, Labels
<1> HIDE DEF m, l, N, b
<1>3. b \in Seq(ToSet(m)) /\ ToSet(b) = ToSet(m) /\ Sorted(b) /\ IsInjective(b)
    BY <1>1, BTreeSetLemma DEF b
<1>4. ToSet(m) \subseteq Seq(Int)
    BY <1>1 DEF AreEntries
<1>5. b \in Seq(Seq(Int))
    BY <1>3, <1>4, WiderSeq
<1>6. l.values \in Seq(Seq(Int)) /\ IsInjective(l.values) /\ ToSet(l.values) = ToSet(m)
    BY <1>1, <1>2, <1>3, <1>5
<1>7. sort => Sorted(l.values)
    BY <1>2, <1>3
<1>8. count(l) \in Nat /\ ToSet(l.values) = {l.values[x] : x \in 1..count(l)}
    BY <1>6, SeqLemma DEF count
<1>9. ASSUME NEW k \in 1..Len(g)
      PROVE  /\ samples_mapping(g[k], l) \in [1..count(g[k].block.samples) -> 1..count(l)]
             /\ Len(samples_mapping(g[k], l)) = count(g[k].block.samples)
             /\ \A i \in 1..count(g[k].block.samples) :
                   l.values[samples_mapping(g[k], l)[i]] = Full(g[k], AddsKey(g, names))[i]
    <2> DEFINE c == count(g[k].block.samples)
               f == Full(g[k], AddsKey(g, names))
               r == samples_mapping(g[k], l)
    <2>1. c \in Nat /\ (Len(g[k].block.samples.names) < Len(names)) = AddsKey(g, names)
        BY FullLemma
    <2>2. r = [i \in 1..c |-> position(l, f[i])]
        BY <1>2, <2>1 DEF samples_mapping, Full
    <2> HIDE DEF c, f, r
    <2>3. ASSUME NEW i \in 1..c PROVE r[i] \in 1..count(l) /\ l.values[r[i]] = f[i]
        <3>1. f[i] \in ToSet(m)
            BY <1>1 DEF c, f
        <3>2. \E x \in 1..count(l) : l.values[x] = f[i]
            BY <1>6, <1>8, <3>1
        <3>3. r[i] = CHOOSE x \in 1..count(l) : l.values[x] = f[i]
            BY <2>2 DEF position
        <3> QED BY <3>2, <3>3
    <2>4. r \in [1..c -> 1..count(l)]
        BY <2>2, <2>3
    <2>5. Len(r) = c
        BY <2>1, <2>4, FunctionIsSeq
    <2> QED BY <2>3, <2>4, <2>5 DEF c, f, r
<1> QED
    BY <1>2, <1>6, <1>7, <1>9 DEF l, m

(***************************************************************************)
(* Without sorting, samples that no earlier block has keep their order.    *)
(***************************************************************************)
InOrder(mappings) ==
    \A k, m \in 1..Len(mappings) :
        \A i \in 1..Len(mappings[k]), l \in 1..Len(mappings[m]) :
            /\ New(mappings, k, i) /\ New(mappings, m, l)
            /\ k < m \/ (k = m /\ i < l)
            => mappings[k][i] < mappings[m][l]

(* Without sorting, samples that are new stay in the order of the blocks   *)
(* and of their rows.                                                      *)
LEMMA OrderLemma ==
    ASSUME NEW g, NEW n, GroupOK(g, n), NEW names, NEW sort \in BOOLEAN, ~ sort
    PROVE  LET l == merge_samples(g, names, sort)
           IN  InOrder([k \in 1..Len(g) |-> samples_mapping(g[k], l)])
<1> DEFINE l == merge_samples(g, names, sort)
           r == [k \in 1..Len(g) |-> samples_mapping(g[k], l)]
           ss == AllFull(g, names)
           c == Concat(ss)
           m == merged_samples(g, names)
           F(k) == Full(g[k], AddsKey(g, names))
           N(k) == count(g[k].block.samples)
<1>1. Len(g) \in Nat
    BY DEF GroupOK
<1>2. /\ l.values = m
      /\ \A k \in 1..Len(g) :
            /\ r[k] \in [1..N(k) -> 1..count(l)] /\ Len(r[k]) = N(k)
            /\ \A i \in 1..N(k) : l.values[r[k][i]] = F(k)[i]
    <2>1. /\ l.values = m
          /\ \A k \in 1..Len(g) :
                /\ samples_mapping(g[k], l) \in [1..N(k) -> 1..count(l)] /\ Len(samples_mapping(g[k], l)) = N(k)
                /\ \A i \in 1..N(k) : l.values[samples_mapping(g[k], l)[i]] = F(k)[i]
        BY RowsLemma
    <2>2. \A k \in 1..Len(g) : r[k] = samples_mapping(g[k], l)
        OBVIOUS
    <2> HIDE DEF l, r, m, F, N
    <2> QED BY <2>1, <2>2
<1>3. ASSUME NEW k \in 1..Len(g)
      PROVE  /\ ss[k] = F(k) /\ Len(F(k)) = N(k) /\ N(k) \in Nat
             /\ \A i, y \in 1..N(k) : F(k)[i] = F(k)[y] => i = y
    <2>1. ss[k] = F(k)
        BY DEF AllFull
    <2>2. /\ Len(F(k)) = N(k) /\ Len(F(k)) \in Nat
          /\ \A i, y \in 1..Len(F(k)) : F(k)[i] = F(k)[y] => i = y
        BY FullLemma
    <2> HIDE DEF ss, F, N
    <2> QED BY <2>1, <2>2
<1>4. c \in Seq(Seq(Int)) /\ m = IndexSet(c) /\ \E start : Placed(c, ss, Len(g), start)
    BY MergedLemma
<1>5. Len(r) = Len(g)
    <2> DEFINE S == {r[k] : k \in 1..Len(g)}
    <2>1. r \in [1..Len(g) -> S]
        OBVIOUS
    <2> HIDE DEF r, S
    <2> QED BY <1>1, <2>1, FunctionIsSeq
<1>6. /\ m \in Seq(Seq(Int)) /\ IsInjective(m)
      /\ \A a, b \in 1..Len(m), i, h \in 1..Len(c) :
             m[a] = c[i] /\ m[b] = c[h] /\ First(c, i) /\ First(c, h) /\ i < h => a < b
    BY <1>4, IndexSetLemma
<1> HIDE DEF l, r, ss, c, m, F, N
<1>7. PICK start : Placed(c, ss, Len(g), start)
    BY <1>4
<1>8. count(l) = Len(m) /\ Len(m) \in Nat /\ Len(c) \in Nat /\ DOMAIN m = 1..Len(m)
    BY <1>2, <1>4, <1>6, SeqLemma DEF count
<1>9. ASSUME NEW k \in 1..Len(g), NEW i \in 1..N(k)
      PROVE  /\ start[k] \in Nat /\ start[k] + i \in 1..Len(c) /\ c[start[k] + i] = F(k)[i]
             /\ start[k] + N(k) <= Len(c)
             /\ r[k][i] \in 1..Len(m) /\ m[r[k][i]] = F(k)[i]
    <2>1. N(k) \in Nat /\ N(k) = Len(ss[k]) /\ ss[k] = F(k)
        BY <1>3
    <2>2. start[k] \in Nat /\ start[k] + Len(ss[k]) <= Len(c) /\ c[start[k] + i] = ss[k][i]
        BY <1>7, <2>1 DEF Placed
    <2>3. start[k] + i \in 1..Len(c)
        BY <1>8, <2>1, <2>2
    <2>4. r[k][i] \in 1..Len(m) /\ m[r[k][i]] = F(k)[i]
        BY <1>2, <1>8
    <2> QED BY <2>1, <2>2, <2>3, <2>4
<1>10. ASSUME NEW k \in 1..Len(g), NEW i \in 1..N(k), New(r, k, i) PROVE First(c, start[k] + i)
    <2> DEFINE x == start[k] + i
    <2>1. /\ start[k] \in Nat /\ x \in 1..Len(c) /\ c[x] = F(k)[i]
          /\ r[k][i] \in 1..Len(m) /\ m[r[k][i]] = F(k)[i]
        BY <1>9
    <2>2. ASSUME NEW h \in 1..(x - 1), c[h] = c[x] PROVE FALSE
        <3>1. h \in 1..Len(c) /\ h < x
            BY <1>8, <2>1
        <3>2. PICK q \in 1..Len(g) : \E y \in 1..Len(ss[q]) : h = start[q] + y
            BY <1>7, <3>1 DEF Placed
        <3>3. PICK y \in 1..N(q) : h = start[q] + y
            BY <1>3, <3>2
        <3>4. /\ start[q] \in Nat /\ c[h] = F(q)[y] /\ r[q][y] \in 1..Len(m) /\ m[r[q][y]] = F(q)[y]
            BY <1>9, <3>3
        <3>5. r[q][y] = r[k][i]
            BY <1>6, <1>8, <2>1, <2>2, <3>4 DEF IsInjective
        <3>6. CASE q < k
            <4>1. q \in 1..(k - 1)
                BY <1>1, <3>6
            <4>2. r[k][i] \notin ToSet(r[q])
                BY <1>10, <4>1 DEF New
            <4>3. r[q][y] \in ToSet(r[q])
                BY <1>2 DEF ToSet
            <4> QED BY <3>5, <4>2, <4>3
        <3>7. CASE q = k
            <4>1. y = i
                BY <1>3, <2>1, <2>2, <3>4, <3>7
            <4> QED BY <2>1, <3>1, <3>3, <3>7, <4>1
        <3>8. CASE k < q
            <4>1. start[k] + N(k) <= start[q] /\ N(k) \in Nat
                BY <1>3, <1>7, <3>8 DEF Placed
            <4> QED BY <2>1, <3>1, <3>3, <3>4, <4>1
        <3> QED BY <3>6, <3>7, <3>8
    <2> HIDE DEF x
    <2>3. First(c, x)
        BY <2>2 DEF First
    <2> QED BY <2>3 DEF x
<1>11. ASSUME NEW k \in 1..Len(g), NEW q \in 1..Len(g), NEW i \in 1..N(k), NEW y \in 1..N(q),
              New(r, k, i), New(r, q, y), k < q \/ (k = q /\ i < y)
       PROVE  r[k][i] < r[q][y]
    <2>1. /\ start[k] \in Nat /\ start[k] + i \in 1..Len(c) /\ c[start[k] + i] = F(k)[i]
          /\ r[k][i] \in 1..Len(m) /\ m[r[k][i]] = F(k)[i]
        BY <1>9
    <2>2. /\ start[q] \in Nat /\ start[q] + y \in 1..Len(c) /\ c[start[q] + y] = F(q)[y]
          /\ r[q][y] \in 1..Len(m) /\ m[r[q][y]] = F(q)[y]
        BY <1>9
    <2>3. start[k] + i < start[q] + y
        <3>1. CASE k < q
            <4>1. start[k] + N(k) <= start[q] /\ N(k) \in Nat
                BY <1>3, <1>7, <3>1 DEF Placed
            <4> QED BY <2>1, <2>2, <4>1
        <3>2. CASE k = q /\ i < y
            BY <2>1, <2>2, <3>2
        <3> QED BY <1>11, <3>1, <3>2
    <2>4. First(c, start[k] + i) /\ First(c, start[q] + y)
        BY <1>10, <1>11
    <2>5. m[r[k][i]] = c[start[k] + i] /\ m[r[q][y]] = c[start[q] + y]
        BY <2>1, <2>2
    <2> QED BY <1>6, <2>1, <2>2, <2>3, <2>4, <2>5
<1>12. InOrder(r)
    <2>1. \A k \in 1..Len(g) : Len(r[k]) = N(k)
        BY <1>2
    <2> QED BY <1>5, <1>11, <2>1 DEF InOrder
<1> QED
    BY <1>12 DEF r, l

-----------------------------------------------------------------------------
(* merge_gradient_samples *)

(* A gradient sample whose row is translated with a mapping refers to a    *)
(* row of the merged block.                                                *)
LEMMA TranslateLemma ==
    ASSUME NEW e \in Seq(Int), Len(e) > 0, NEW c \in Nat, NEW n \in Nat, NEW mapping \in [1..n -> 1..c], e[1] \in 0..(n - 1)
    PROVE  LET t == translate(e, mapping)
           IN  /\ t \in Seq(Int) /\ Len(t) = Len(e) /\ t[1] = mapping[e[1] + 1] - 1 /\ t[1] \in 0..(c - 1)
               /\ \A d \in 2..Len(e) : t[d] = e[d]
<1> DEFINE t == translate(e, mapping)
           v == mapping[e[1] + 1] - 1
<1>1. Len(e) \in Nat /\ e \in [1..Len(e) -> Int] /\ DOMAIN e = 1..Len(e) /\ 1 \in 1..Len(e)
    OBVIOUS
<1>2. e[1] + 1 \in 1..n
    OBVIOUS
<1>3. mapping[e[1] + 1] \in 1..c
    BY <1>2
<1>4. v \in 0..(c - 1) /\ v \in Int
    BY <1>3
<1>5. t = [e EXCEPT ![1] = v]
    BY DEF translate
<1> HIDE DEF v, t
<1>6. t \in [1..Len(e) -> Int] /\ t[1] = v /\ \A d \in 2..Len(e) : t[d] = e[d]
    BY <1>1, <1>4, <1>5
<1>7. t \in Seq(Int) /\ Len(t) = Len(e)
    BY <1>1, <1>6, FunctionIsSeq
<1> QED
    BY <1>4, <1>6, <1>7 DEF t, v

(* The translated samples of the gradients of block k.                     *)
Translated(g, p, mappings, k) == {translate(e, mappings[k]) : e \in Entries(g[k].block.gradients[p].samples)}

(* What is known of the gradients of the blocks that are merged.           *)
LEMMA GradientOfGroup ==
    ASSUME NEW g, NEW n, GroupOK(g, n), NEW p \in DOMAIN g[1].block.gradients, NEW k \in 1..Len(g)
    PROVE  LET l == g[k].block.gradients[p].samples
           IN  /\ p \in DOMAIN g[k].block.gradients
               /\ ValidLabels(l) /\ l.names = g[1].block.gradients[p].samples.names /\ size(l) > 0
               /\ ValidLabels(g[k].block.gradients[p].components)
               /\ \A e \in Entries(l) : e[1] \in 0..(count(g[k].block.samples) - 1)
               /\ ValidLabels(g[k].block.samples) /\ ValidLabels(g[k].block.properties)
               /\ IsArray(g[k].block, g[k].block.properties)
               /\ IsArray(g[k].block.gradients[p], g[k].block.properties)
<1>1. ValidBlock(g[k].block) /\ Names(g[k].block) = Names(g[1].block)
    BY DEF GroupOK
<1> DEFINE G(b) == [q \in DOMAIN b.gradients |-> <<b.gradients[q].samples.names, b.gradients[q].components.names>>]
<1>2. G(g[k].block) = G(g[1].block)
    BY <1>1 DEF Names
<1>3. p \in DOMAIN g[k].block.gradients /\ G(g[k].block)[p] = G(g[1].block)[p]
    BY <1>2
<1>4. g[k].block.gradients[p].samples.names = g[1].block.gradients[p].samples.names
    BY <1>3
<1> QED
    BY <1>1, <1>3, <1>4 DEF ValidBlock, TensorBlock_allowed

(* The gradient samples merged from the blocks are unique, sorted, and     *)
(* refer to rows of the merged block.                                      *)
LEMMA MergedGradient ==
    ASSUME NEW g, NEW n, GroupOK(g, n), NEW p \in DOMAIN g[1].block.gradients, NEW c \in Nat, NEW mappings,
           \A k \in 1..Len(g) : mappings[k] \in [1..count(g[k].block.samples) -> 1..c]
    PROVE  LET l == merge_gradient_samples(g, p, mappings)
           IN  /\ l.names = g[1].block.gradients[p].samples.names
               /\ l.values \in Seq(Seq(Int)) /\ Sorted(l.values) /\ IsInjective(l.values)
               /\ Entries(l) = UNION {Translated(g, p, mappings, k) : k \in 1..Len(g)}
               /\ \A e \in Entries(l) : e[1] \in 0..(c - 1)
<1> DEFINE l == merge_gradient_samples(g, p, mappings)
           A(k) == Translated(g, p, mappings, k)
           S == UNION {A(k) : k \in 1..Len(g)}
           G(k) == g[k].block.gradients[p].samples
           N == size(G(1))
<1>1. Len(g) \in Nat \ {0}
    BY DEF GroupOK
<1>2. l.names = G(1).names /\ l.values = BTreeSet(S)
    BY DEF merge_gradient_samples, Labels, Translated
<1>3. ASSUME NEW k \in 1..Len(g)
      PROVE  /\ ValidLabels(G(k)) /\ size(G(k)) = N /\ N \in Nat /\ N > 0 /\ count(g[k].block.samples) \in Nat
             /\ \A e \in Entries(G(k)) : e[1] \in 0..(count(g[k].block.samples) - 1) /\ e \in Seq(Int) /\ Len(e) = N
    <2>1. /\ ValidLabels(G(k)) /\ G(k).names = G(1).names /\ size(G(k)) > 0 /\ ValidLabels(g[k].block.samples)
          /\ \A e \in Entries(G(k)) : e[1] \in 0..(count(g[k].block.samples) - 1)
        BY GradientOfGroup
    <2>2. count(g[k].block.samples) \in Nat
        BY <2>1, LabelsLemma
    <2> HIDE DEF G
    <2>3. size(G(k)) \in Nat /\ \A i \in 1..count(G(k)) : G(k).values[i] \in Seq(Int) /\ Len(G(k).values[i]) = size(G(k))
        BY <2>1, LabelsLemma
    <2>4. Entries(G(k)) = {G(k).values[i] : i \in 1..count(G(k))}
        BY <2>1, LabelsLemma
    <2>5. size(G(k)) = N
        BY <2>1 DEF size
    <2> QED BY <2>1, <2>2, <2>3, <2>4, <2>5
<1>4. ASSUME NEW k \in 1..Len(g), NEW t \in A(k) PROVE t \in Seq(Int) /\ Len(t) = N /\ t[1] \in 0..(c - 1)
    <2>1. PICK e \in Entries(G(k)) : t = translate(e, mappings[k])
        BY DEF Translated
    <2>2. e \in Seq(Int) /\ Len(e) = N /\ Len(e) > 0 /\ e[1] \in 0..(count(g[k].block.samples) - 1) /\ count(g[k].block.samples) \in Nat
        BY <1>3
    <2> DEFINE m == mappings[k]
               d == count(g[k].block.samples)
    <2>3. m \in [1..d -> 1..c] /\ d \in Nat /\ e[1] \in 0..(d - 1) /\ t = translate(e, m)
        BY <2>1, <2>2
    <2> HIDE DEF m, d
    <2>4. translate(e, m) \in Seq(Int) /\ Len(translate(e, m)) = Len(e) /\ translate(e, m)[1] \in 0..(c - 1)
        BY <2>2, <2>3, TranslateLemma
    <2> QED BY <2>2, <2>3, <2>4
<1>5. ASSUME NEW k \in 1..Len(g) PROVE IsFiniteSet(A(k))
    <2> DEFINE s == G(k).values
               d == count(G(k))
               f == [i \in 1..d |-> translate(s[i], mappings[k])]
    <2>1. d \in Nat /\ Entries(G(k)) = {s[i] : i \in 1..d}
        BY <1>3, LabelsLemma
    <2>2. A(k) = {f[i] : i \in 1..d}
        BY <2>1 DEF Translated
    <2>3. IsFiniteSet(1..d) /\ DOMAIN f = 1..d
        BY <2>1, FS_Interval
    <2> HIDE DEF f, d, A
    <2>4. IsFiniteSet({f[i] : i \in 1..d})
        BY <2>3, ImageIsFinite
    <2> QED BY <2>2, <2>4
<1>6. IsFiniteSet(S)
    <2> DEFINE f == [k \in 1..Len(g) |-> A(k)]
               T == {f[k] : k \in 1..Len(g)}
    <2>1. IsFiniteSet(1..Len(g)) /\ DOMAIN f = 1..Len(g) /\ \A k \in 1..Len(g) : f[k] = A(k)
        BY <1>1, FS_Interval
    <2> HIDE DEF A, f
    <2>2. IsFiniteSet(T)
        BY <2>1, ImageIsFinite
    <2>3. S = UNION T
        BY <2>1
    <2>4. \A X \in T : IsFiniteSet(X)
        BY <1>5, <2>1
    <2> HIDE DEF T
    <2> QED BY <2>2, <2>3, <2>4, FS_UNION
<1>7. \A t \in S : t \in Seq(Int) /\ Len(t) = N /\ t[1] \in 0..(c - 1)
    <2> HIDE DEF A, N
    <2> QED BY <1>4
<1>8. N \in Nat
    <2>1. 1 \in 1..Len(g)
        BY <1>1
    <2> QED BY <1>3, <2>1
<1> HIDE DEF S, N, l
<1>9. AreEntries(S, N)
    BY <1>7, <1>8 DEF AreEntries
<1>10. BTreeSet(S) \in Seq(S) /\ ToSet(BTreeSet(S)) = S /\ Sorted(BTreeSet(S)) /\ IsInjective(BTreeSet(S))
    BY <1>6, <1>9, BTreeSetLemma
<1>11. S \subseteq Seq(Int)
    BY <1>7
<1>12. l.values \in Seq(Seq(Int)) /\ Entries(l) = S
    BY <1>2, <1>10, <1>11, WiderSeq DEF Entries
<1> QED
    BY <1>2, <1>7, <1>10, <1>12 DEF l, S

-----------------------------------------------------------------------------
(* The blocks that are made *)

(* What TensorBlock::new and add_gradient would check.                     *)
BlockOK(b) ==
    /\ IsInjective(b.samples.values) /\ IsInjective(b.properties.values)
    /\ IsArray(b, b.properties)
    /\ \A p \in DOMAIN b.gradients : LET g == b.gradients[p] IN
          /\ IsArray(g, b.properties)
          /\ Sorted(g.samples.values)
          /\ \A e \in Entries(g.samples) : e[1] \in 0..(count(b.samples) - 1)

(* The samples are in the documented order.                                *)
BlockOrdered(b, sort) == IF sort THEN Sorted(b.samples.values) ELSE InOrder(b.mappings)

(* The fields that a new block has.                                        *)
BlockFields(b) ==
    /\ b = [samples |-> b.samples, mappings |-> b.mappings, components |-> b.components,
            properties |-> b.properties, values |-> b.values, gradients |-> b.gradients]
    /\ b.gradients = [p \in DOMAIN b.gradients |->
            [samples |-> b.gradients[p].samples, components |-> b.gradients[p].components,
             nested |-> b.gradients[p].nested, values |-> b.gradients[p].values]]

(* What merge_samples returned to the caller.                              *)
RowsOK(b, g) ==
    \A k \in 1..Len(g) : b.mappings[k] \in [1..count(g[k].block.samples) -> 1..count(b.samples)]

(* The properties of the merged block are unique.                          *)
LEMMA PropertiesLemma ==
    ASSUME CallInv, ~ Refused, Len(new_blocks) \in 0..(count(splitted_keys) - 1)
    PROVE  new_properties.values \in Seq(Seq(Int)) /\ IsInjective(new_properties.values)
<1>1. GroupOK(group, Len(names_to_move))
    BY GroupLemma
<1>2. Len(group) \in Nat \ {0} /\ 1 \in 1..Len(group)
    BY <1>1 DEF GroupOK
<1>3. CASE Along("samples")
    <2>1. new_properties = first_block.properties
        BY <1>3 DEF new_properties
    <2>2. ValidLabels(first_block.properties)
        BY <1>1, <1>2 DEF GroupOK, ValidBlock, first_block
    <2> QED BY <2>1, <2>2 DEF ValidLabels
<1>4. CASE ~ Along("samples")
    <2>1. new_properties.values = IndexSet(all_property_values)
        BY <1>4 DEF new_properties, new_property_values, Labels
    <2>2. ASSUME NEW key \in Seq(Int), NEW k \in 1..Len(group)
          PROVE  Prefixed(key, group[k].block.properties) \in Seq(Seq(Int))
        <3> DEFINE l == group[k].block.properties
                   s == Prefixed(key, l)
        <3>1. ValidLabels(l)
            BY <1>1 DEF GroupOK, ValidBlock
        <3>2. count(l) \in Nat /\ \A i \in 1..count(l) : l.values[i] \in Seq(Int)
            BY <3>1, LabelsLemma
        <3> HIDE DEF l
        <3>3. ASSUME NEW i \in 1..count(l) PROVE key \o l.values[i] \in Seq(Int)
            <4>1. PICK v \in Seq(Int) : v = l.values[i]
                BY <3>2
            <4> QED BY <4>1
        <3>4. s \in [1..count(l) -> Seq(Int)]
            BY <3>3 DEF Prefixed
        <3> HIDE DEF s
        <3>5. s \in Seq(Seq(Int))
            BY <3>2, <3>4, FunctionIsSeq
        <3> QED BY <3>5 DEF s, l
    <2>3. ASSUME NEW key \in Seq(Int)
          PROVE  Concat([k \in 1..Len(group) |-> Prefixed(key, group[k].block.properties)]) \in Seq(Seq(Int))
        <3> DEFINE s == [k \in 1..Len(group) |-> Prefixed(key, group[k].block.properties)]
        <3>1. s \in [1..Len(group) -> Seq(Seq(Int))] /\ \A k \in 1..Len(group) : s[k] \in Seq(Seq(Int))
            BY <2>2
        <3> HIDE DEF s
        <3>2. Len(s) = Len(group)
            BY <1>2, <3>1, FunctionIsSeq
        <3>3. Concat(s) \in Seq(Seq(Int))
            BY <1>2, <3>1, <3>2, ConcatLemma
        <3> QED BY <3>3 DEF s
    <2>4. all_property_values \in Seq(Seq(Int))
        <3>1. CASE is_empty(call.keys_to_move)
            <4> DEFINE s == [k \in 1..Len(group) |-> Prefixed(group[k].key, group[k].block.properties)]
            <4>1. s \in [1..Len(group) -> Seq(Seq(Int))] /\ \A k \in 1..Len(group) : s[k] \in Seq(Seq(Int))
                <5>1. \A k \in 1..Len(group) : group[k].key \in Seq(Int)
                    BY <1>1 DEF GroupOK
                <5>2. \A k \in 1..Len(group) : Prefixed(group[k].key, group[k].block.properties) \in Seq(Seq(Int))
                    BY <2>2, <5>1
                <5> QED BY <5>2
            <4> HIDE DEF s
            <4>2. Len(s) = Len(group)
                BY <1>2, <4>1, FunctionIsSeq
            <4>3. Concat(s) \in Seq(Seq(Int))
                BY <1>2, <4>1, <4>2, ConcatLemma
            <4>4. all_property_values = Concat(s)
                BY <3>1 DEF all_property_values, s
            <4> QED BY <4>3, <4>4
        <3>2. CASE ~ is_empty(call.keys_to_move)
            <4> DEFINE l == call.keys_to_move
                       C(key) == Concat([k \in 1..Len(group) |-> Prefixed(key, group[k].block.properties)])
                       s == [m \in 1..count(l) |-> C(l.values[m])]
            <4>1. count(l) \in Nat \ {0} /\ \A m \in 1..count(l) : l.values[m] \in Seq(Int)
                BY <3>2, LabelsLemma DEF CallInv, is_empty
            <4>2. all_property_values = Concat(s)
                BY <3>2 DEF all_property_values
            <4>3. \A key \in Seq(Int) : C(key) \in Seq(Seq(Int))
                BY <2>3
            <4> HIDE DEF C, l
            <4>4. s \in [1..count(l) -> Seq(Seq(Int))] /\ \A m \in 1..count(l) : s[m] \in Seq(Seq(Int))
                BY <4>1, <4>3
            <4> HIDE DEF s
            <4>5. Len(s) = count(l)
                BY <4>1, <4>4, FunctionIsSeq
            <4>6. Concat(s) \in Seq(Seq(Int))
                BY <4>1, <4>4, <4>5, ConcatLemma
            <4> QED BY <4>2, <4>6
        <3> QED BY <3>1, <3>2
    <2> QED BY <2>1, <2>4, IndexSetLemma
<1> QED
    BY <1>3, <1>4

(* The block that StartGroup makes, of blocks g with the properties l.     *)
NewBlock(g, names, sort, l) ==
    LET samples == merge_samples(g, names, sort)
        mappings == [k \in 1..Len(g) |-> samples_mapping(g[k], samples)]
        merged(p) == merge_gradient_samples(g, p, mappings)
        components(p) == g[1].block.gradients[p].components
    IN  [samples |-> samples, mappings |-> mappings,
         components |-> g[1].block.components,
         properties |-> l,
         values |-> Array(samples, g[1].block.components, l, Zero),
         gradients |-> [p \in DOMAIN g[1].block.gradients |->
             [samples |-> merged(p), components |-> components(p), nested |-> FALSE,
              values |-> Array(merged(p), components(p), l, Zero)]]]

(* The block that is allocated for a group is valid and ordered, and its   *)
(* mappings are rows.                                                      *)
LEMMA NewBlockLemma ==
    ASSUME NEW g, NEW n, GroupOK(g, n), NEW names, NEW sort \in BOOLEAN, NEW l, IsInjective(l.values)
    PROVE  LET b == NewBlock(g, names, sort, l)
           IN  BlockOK(b) /\ BlockOrdered(b, sort) /\ BlockFields(b) /\ RowsOK(b, g) /\ b # NoBlock
<1> DEFINE b == NewBlock(g, names, sort, l)
           s == merge_samples(g, names, sort)
           r == [k \in 1..Len(g) |-> samples_mapping(g[k], s)]
           G == g[1].block.gradients
           M(p) == merge_gradient_samples(g, p, r)
<1>1. /\ b.samples = s /\ b.mappings = r /\ b.components = g[1].block.components /\ b.properties = l
      /\ b.values = Array(s, g[1].block.components, l, Zero)
      /\ b.gradients = [p \in DOMAIN G |-> [samples |-> M(p), components |-> G[p].components, nested |-> FALSE,
                                            values |-> Array(M(p), G[p].components, l, Zero)]]
    BY DEF NewBlock
<1>2. b = [samples |-> b.samples, mappings |-> b.mappings, components |-> b.components,
           properties |-> b.properties, values |-> b.values, gradients |-> b.gradients]
    BY DEF NewBlock
<1>3. b # NoBlock
    <2>1. "samples" \in DOMAIN b /\ "samples" \notin DOMAIN NoBlock
        BY <1>2 DEF NoBlock, NewBlock
    <2> QED BY <2>1
<1>4. /\ s.values \in Seq(Seq(Int)) /\ IsInjective(s.values) /\ (sort => Sorted(s.values))
      /\ \A k \in 1..Len(g) : samples_mapping(g[k], s) \in [1..count(g[k].block.samples) -> 1..count(s)]
    BY RowsLemma
<1>5. ~ sort => InOrder(r)
    BY OrderLemma
<1>6. \A k \in 1..Len(g) : r[k] = samples_mapping(g[k], s)
    OBVIOUS
<1>7. count(s) \in Nat
    BY <1>4, SeqLemma DEF count
<1> HIDE DEF b, s, r
<1>8. RowsOK(b, g)
    BY <1>1, <1>4, <1>6 DEF RowsOK
<1>9. BlockOrdered(b, sort)
    BY <1>1, <1>4, <1>5 DEF BlockOrdered
<1>10. IsArray(b, b.properties)
    BY <1>1 DEF IsArray, Array
<1>11. ASSUME NEW p \in DOMAIN G
       PROVE  Sorted(M(p).values) /\ \A e \in Entries(M(p)) : e[1] \in 0..(count(s) - 1)
    <2>1. \A k \in 1..Len(g) : r[k] \in [1..count(g[k].block.samples) -> 1..count(s)]
        BY <1>4, <1>6
    <2> QED BY <1>7, <2>1, MergedGradient
<1> HIDE DEF M, G
<1>12. DOMAIN b.gradients = DOMAIN G
    BY <1>1
<1>13. ASSUME NEW p \in DOMAIN b.gradients
       PROVE  /\ b.gradients[p] = [samples |-> M(p), components |-> G[p].components, nested |-> FALSE,
                                   values |-> Array(M(p), G[p].components, l, Zero)]
              /\ b.gradients[p].samples = M(p) /\ b.gradients[p].components = G[p].components
              /\ b.gradients[p].nested = FALSE
              /\ b.gradients[p].values = Array(M(p), G[p].components, l, Zero)
    BY <1>1, <1>12
<1>14. ASSUME NEW p \in DOMAIN b.gradients
       PROVE  /\ IsArray(b.gradients[p], b.properties)
              /\ Sorted(b.gradients[p].samples.values)
              /\ \A e \in Entries(b.gradients[p].samples) : e[1] \in 0..(count(b.samples) - 1)
    <2>1. IsArray(b.gradients[p], b.properties)
        BY <1>1, <1>13 DEF IsArray, Array
    <2>2. p \in DOMAIN G
        BY <1>12
    <2> QED BY <1>1, <1>11, <1>13, <2>1, <2>2
<1>15. BlockOK(b)
    BY <1>1, <1>4, <1>10, <1>14 DEF BlockOK
<1>16. BlockFields(b)
    <2>1. b.gradients = [p \in DOMAIN b.gradients |-> b.gradients[p]]
        BY <1>1
    <2>2. \A p \in DOMAIN b.gradients : b.gradients[p] =
            [samples |-> b.gradients[p].samples, components |-> b.gradients[p].components,
             nested |-> b.gradients[p].nested, values |-> b.gradients[p].values]
        BY <1>13
    <2> QED BY <1>2, <2>1, <2>2 DEF BlockFields
<1> QED
    BY <1>3, <1>8, <1>9, <1>15, <1>16 DEF b

-----------------------------------------------------------------------------
(* The invariant *)

(* The finished blocks are a sequence, and a block may be filled.          *)
IsSeq(s) == \E S : s \in Seq(S)
Filling == pc \in {"values", "gradients", "finish"}

(***************************************************************************)
(* What is known at each stage of a call. The call is valid. The finished  *)
(* blocks are valid and ordered, and fewer than the new keys as long as    *)
(* there is a group to merge. The block being filled is valid and ordered  *)
(* already when it is allocated, its mappings are rows, and filling it     *)
(* changes its arrays only.                                                *)
(***************************************************************************)
MInv ==
    /\ CallInv /\ call.sort_samples \in BOOLEAN
    /\ pc \in {"start", "group", "values", "gradients", "finish", "done", "error", "panic"}
    /\ pc \in {"group", "values", "gradients", "finish", "done"} => ~ Refused
    /\ IsSeq(new_blocks) /\ (pc = "start" => new_blocks = <<>>)
    /\ pc = "group" \/ Filling => Len(new_blocks) \in 0..(count(splitted_keys) - 1)
    /\ pc = "done" => Len(new_blocks) = count(splitted_keys)
    /\ \A n \in 1..Len(new_blocks) : BlockOK(new_blocks[n]) /\ BlockOrdered(new_blocks[n], call.sort_samples)
    /\ ~ Filling => new_block = NoBlock
    /\ Filling => /\ BlockOK(new_block) /\ BlockOrdered(new_block, call.sort_samples)
                  /\ BlockFields(new_block) /\ RowsOK(new_block, group)

(* A sequence with one more element.                                       *)
LEMMA AppendLemma ==
    ASSUME NEW s, IsSeq(s), NEW x
    PROVE  LET t == Append(s, x)
           IN  /\ IsSeq(t) /\ Len(s) \in Nat /\ Len(t) = Len(s) + 1 /\ t[Len(s) + 1] = x
               /\ \A n \in 1..Len(s) : t[n] = s[n]
<1>1. PICK S : s \in Seq(S)
    BY DEF IsSeq
<1>2. s \in Seq(S \union {x})
    BY <1>1, WiderSeq
<1>3. Append(s, x) \in Seq(S \union {x})
    BY <1>2
<1> QED
    BY <1>2, <1>3 DEF IsSeq

(* Nothing is merged before the call starts.                               *)
LEMMA InitInv == Init => MInv
<1> SUFFICES ASSUME Init PROVE MInv
    OBVIOUS
<1>1. PICK tensor \in Tensors, request \in Requests :
          call = [keys |-> tensor.keys, blocks |-> tensor.blocks, op |-> request.op,
                  keys_to_move |-> request.keys_to_move, sort_samples |-> request.sort_samples]
    BY DEF Init
<1>2. CallInv
    BY <1>1, TensorsAssumption, RequestsAssumption DEF CallInv
<1>3. call.sort_samples \in BOOLEAN
    BY <1>1, RequestsAssumption
<1>4. pc = "start" /\ new_blocks = <<>> /\ new_block = NoBlock
    BY DEF Init
<1>5. new_blocks \in Seq({}) /\ Len(new_blocks) = 0
    BY <1>4
<1> QED
    BY <1>2, <1>3, <1>4, <1>5 DEF MInv, IsSeq, Filling

(* What follows from the call is kept as long as the call is.              *)
LEMMA CallIsConstant ==
    ASSUME UNCHANGED call
    PROVE  /\ CallInv' = CallInv /\ Refused' = Refused /\ splitted_keys' = splitted_keys
           /\ UNCHANGED new_blocks => group' = group
BY DEF CallInv, Refused, splitted_keys, group, names_to_move, blocks_matching, Along

(* A step that changes the arrays of the new block only.                   *)
LEMMA ArraysMoved ==
    ASSUME NEW b, NEW c, NEW g, NEW sort, BlockOK(b), BlockOrdered(b, sort), BlockFields(b), RowsOK(b, g),
           NEW values, NEW arrays, DOMAIN values = DOMAIN b.values,
           \A p \in DOMAIN b.gradients : DOMAIN arrays[p] = DOMAIN b.gradients[p].values,
           c = [samples |-> b.samples, mappings |-> b.mappings, components |-> b.components,
                properties |-> b.properties, values |-> values,
                gradients |-> [p \in DOMAIN b.gradients |->
                    [samples |-> b.gradients[p].samples, components |-> b.gradients[p].components,
                     nested |-> b.gradients[p].nested, values |-> arrays[p]]]]
    PROVE  BlockOK(c) /\ BlockOrdered(c, sort) /\ BlockFields(c) /\ RowsOK(c, g)
<1>1. /\ c.samples = b.samples /\ c.mappings = b.mappings /\ c.components = b.components
      /\ c.properties = b.properties /\ c.values = values
      /\ DOMAIN c.gradients = DOMAIN b.gradients
    OBVIOUS
<1>2. ASSUME NEW p \in DOMAIN b.gradients
      PROVE  /\ c.gradients[p] = [samples |-> b.gradients[p].samples, components |-> b.gradients[p].components,
                                  nested |-> b.gradients[p].nested, values |-> arrays[p]]
             /\ c.gradients[p].samples = b.gradients[p].samples
             /\ c.gradients[p].components = b.gradients[p].components
             /\ c.gradients[p].nested = b.gradients[p].nested /\ c.gradients[p].values = arrays[p]
    OBVIOUS
<1>3. c.gradients = [p \in DOMAIN c.gradients |-> c.gradients[p]]
    OBVIOUS
<1>4. c = [samples |-> c.samples, mappings |-> c.mappings, components |-> c.components,
           properties |-> c.properties, values |-> c.values, gradients |-> c.gradients]
    OBVIOUS
<1>5. BlockFields(c)
    BY <1>1, <1>2, <1>3, <1>4 DEF BlockFields
<1>6. IsArray(c, c.properties)
    BY <1>1 DEF BlockOK, IsArray
<1>7. ASSUME NEW p \in DOMAIN c.gradients
      PROVE  /\ IsArray(c.gradients[p], c.properties)
             /\ Sorted(c.gradients[p].samples.values)
             /\ \A e \in Entries(c.gradients[p].samples) : e[1] \in 0..(count(c.samples) - 1)
    <2>1. p \in DOMAIN b.gradients
        BY <1>1
    <2>2. /\ IsArray(b.gradients[p], b.properties)
          /\ Sorted(b.gradients[p].samples.values)
          /\ \A e \in Entries(b.gradients[p].samples) : e[1] \in 0..(count(b.samples) - 1)
        BY <2>1 DEF BlockOK
    <2>3. IsArray(c.gradients[p], c.properties)
        BY <1>1, <1>2, <2>1, <2>2 DEF IsArray
    <2> QED BY <1>1, <1>2, <2>1, <2>2, <2>3
<1>8. BlockOK(c)
    BY <1>1, <1>6, <1>7 DEF BlockOK
<1> QED
    BY <1>1, <1>5, <1>8 DEF BlockOrdered, RowsOK

(* An array keeps its shape when data is moved to it.                      *)
LEMMA MoveFromKeepsShape ==
    ASSUME NEW output, NEW input, NEW mapping, NEW b
    PROVE  DOMAIN MoveFrom(output, input, mapping, b) = DOMAIN output
BY DEF MoveFrom, move_samples_from

(* A new group: the block is allocated.                                    *)
LEMMA StartGroupInv == MInv /\ StartGroup => MInv'
<1> SUFFICES ASSUME MInv, StartGroup PROVE MInv'
    OBVIOUS
<1>1. /\ pc = "group" /\ ~ Refused /\ CallInv /\ call.sort_samples \in BOOLEAN /\ UNCHANGED <<call, new_blocks>>
      /\ Len(new_blocks) \in 0..(count(splitted_keys) - 1)
    BY DEF MInv, StartGroup, Fail
<1>2. CallInv' = CallInv /\ Refused' = Refused /\ splitted_keys' = splitted_keys /\ group' = group
    BY <1>1, CallIsConstant
<1>3. CASE pc' \in {"error", "panic"} /\ new_block' = new_block
    BY <1>1, <1>2, <1>3 DEF MInv, Filling
<1>4. CASE pc' = "values" /\ new_block' = NewBlock(group, new_sample_names, call.sort_samples, new_properties)
    <2>1. GroupOK(group, Len(names_to_move))
        BY <1>1, GroupLemma
    <2>2. IsInjective(new_properties.values)
        BY <1>1, PropertiesLemma
    <2> DEFINE b == NewBlock(group, new_sample_names, call.sort_samples, new_properties)
    <2>3. BlockOK(b) /\ BlockOrdered(b, call.sort_samples) /\ BlockFields(b) /\ RowsOK(b, group)
        BY <1>1, <2>1, <2>2, NewBlockLemma
    <2> HIDE DEF b
    <2>4. BlockOK(new_block') /\ BlockOrdered(new_block', call.sort_samples) /\ BlockFields(new_block') /\ RowsOK(new_block', group)
        BY <1>4, <2>3 DEF b
    <2> QED BY <1>1, <1>2, <1>4, <2>4 DEF MInv, Filling
<1>5. \/ pc' \in {"error", "panic"} /\ new_block' = new_block
      \/ pc' = "values" /\ new_block' = NewBlock(group, new_sample_names, call.sort_samples, new_properties)
    BY Zenon DEF StartGroup, Fail, NewBlock, first_block
<1> QED
    BY <1>3, <1>4, <1>5

(* The values of one block are moved: shapes and labels stay.              *)
LEMMA MoveValuesInv == MInv /\ MoveValues => MInv'
<1> SUFFICES ASSUME MInv, MoveValues PROVE MInv'
    OBVIOUS
<1>1. /\ pc = "values" /\ UNCHANGED <<call, new_blocks>> /\ pc' \in {"values", "gradients"}
      /\ new_block' = [new_block EXCEPT !.values =
             MoveFrom(new_block.values, group[j].block.values, new_block.mappings[j], group[j])]
    BY DEF MoveValues
<1>2. CallInv' = CallInv /\ Refused' = Refused /\ splitted_keys' = splitted_keys /\ group' = group
    BY <1>1, CallIsConstant
<1> DEFINE v == MoveFrom(new_block.values, group[j].block.values, new_block.mappings[j], group[j])
           a == [p \in DOMAIN new_block.gradients |-> new_block.gradients[p].values]
<1>3. /\ BlockOK(new_block) /\ BlockOrdered(new_block, call.sort_samples) /\ BlockFields(new_block)
      /\ RowsOK(new_block, group)
    BY <1>1 DEF MInv, Filling
<1>4. DOMAIN v = DOMAIN new_block.values
    BY MoveFromKeepsShape
<1> HIDE DEF v
<1>5. new_block' = [samples |-> new_block.samples, mappings |-> new_block.mappings, components |-> new_block.components,
                    properties |-> new_block.properties, values |-> v,
                    gradients |-> [p \in DOMAIN new_block.gradients |->
                        [samples |-> new_block.gradients[p].samples, components |-> new_block.gradients[p].components,
                         nested |-> new_block.gradients[p].nested, values |-> a[p]]]]
    <2>1. new_block' = [new_block EXCEPT !.values = v]
        BY <1>1 DEF v
    <2>2. new_block.gradients = [p \in DOMAIN new_block.gradients |->
              [samples |-> new_block.gradients[p].samples, components |-> new_block.gradients[p].components,
               nested |-> new_block.gradients[p].nested, values |-> a[p]]]
        BY <1>3 DEF BlockFields
    <2>3. new_block = [samples |-> new_block.samples, mappings |-> new_block.mappings, components |-> new_block.components,
              properties |-> new_block.properties, values |-> new_block.values, gradients |-> new_block.gradients]
        BY <1>3 DEF BlockFields
    <2>4. new_block' = [samples |-> new_block.samples, mappings |-> new_block.mappings, components |-> new_block.components,
              properties |-> new_block.properties, values |-> v, gradients |-> new_block.gradients]
        BY <2>1, <2>3
    <2> QED BY <2>2, <2>4
<1>6. \A p \in DOMAIN new_block.gradients : DOMAIN a[p] = DOMAIN new_block.gradients[p].values
    OBVIOUS
<1> HIDE DEF a
<1>7. BlockOK(new_block') /\ BlockOrdered(new_block', call.sort_samples) /\ BlockFields(new_block') /\ RowsOK(new_block', group)
    BY <1>3, <1>4, <1>5, <1>6, ArraysMoved
<1> QED
    BY <1>1, <1>2, <1>7 DEF MInv, Filling

(* So do they when its gradients are moved.                                *)
LEMMA MoveGradientsInv == MInv /\ MoveGradients => MInv'
<1> SUFFICES ASSUME MInv, MoveGradients PROVE MInv'
    OBVIOUS
<1> DEFINE F(p) == MoveFrom(new_block.gradients[p].values, group[j].block.gradients[p].values, gradient_mapping(p), group[j])
           a == [p \in DOMAIN new_block.gradients |-> F(p)]
<1>1. /\ pc = "gradients" /\ UNCHANGED <<call, new_blocks>> /\ pc' \in {"gradients", "finish"}
      /\ new_block' = [new_block EXCEPT !.gradients = [p \in DOMAIN new_block.gradients |->
             [new_block.gradients[p] EXCEPT !.values = F(p)]]]
    BY DEF MoveGradients
<1>2. CallInv' = CallInv /\ Refused' = Refused /\ splitted_keys' = splitted_keys /\ group' = group
    BY <1>1, CallIsConstant
<1>3. /\ BlockOK(new_block) /\ BlockOrdered(new_block, call.sort_samples) /\ BlockFields(new_block)
      /\ RowsOK(new_block, group)
    BY <1>1 DEF MInv, Filling
<1>4. \A p \in DOMAIN new_block.gradients : DOMAIN F(p) = DOMAIN new_block.gradients[p].values
    BY MoveFromKeepsShape
<1> HIDE DEF F
<1>5. new_block' = [samples |-> new_block.samples, mappings |-> new_block.mappings, components |-> new_block.components,
                    properties |-> new_block.properties, values |-> new_block.values,
                    gradients |-> [p \in DOMAIN new_block.gradients |->
                        [samples |-> new_block.gradients[p].samples, components |-> new_block.gradients[p].components,
                         nested |-> new_block.gradients[p].nested, values |-> a[p]]]]
    <2> DEFINE G == [p \in DOMAIN new_block.gradients |-> [new_block.gradients[p] EXCEPT !.values = F(p)]]
               H == [p \in DOMAIN new_block.gradients |->
                        [samples |-> new_block.gradients[p].samples, components |-> new_block.gradients[p].components,
                         nested |-> new_block.gradients[p].nested, values |-> a[p]]]
    <2>1. ASSUME NEW p \in DOMAIN new_block.gradients PROVE G[p] = H[p]
        <3>1. PICK q : q = new_block.gradients[p]
            OBVIOUS
        <3>2. q = [samples |-> q.samples, components |-> q.components, nested |-> q.nested, values |-> q.values]
            BY <1>3, <3>1 DEF BlockFields
        <3>3. [q EXCEPT !.values = F(p)]
                = [samples |-> q.samples, components |-> q.components, nested |-> q.nested, values |-> F(p)]
            BY <3>2
        <3> QED BY <3>1, <3>3
    <2>2. G = H
        <3>1. G = [p \in DOMAIN new_block.gradients |-> G[p]] /\ H = [p \in DOMAIN new_block.gradients |-> H[p]]
            OBVIOUS
        <3> HIDE DEF G, H
        <3> QED BY <2>1, <3>1
    <2> HIDE DEF G, H
    <2>3. new_block = [samples |-> new_block.samples, mappings |-> new_block.mappings, components |-> new_block.components,
              properties |-> new_block.properties, values |-> new_block.values, gradients |-> new_block.gradients]
        BY <1>3 DEF BlockFields
    <2>4. new_block' = [new_block EXCEPT !.gradients = G]
        BY <1>1 DEF G
    <2>5. new_block' = [samples |-> new_block.samples, mappings |-> new_block.mappings, components |-> new_block.components,
              properties |-> new_block.properties, values |-> new_block.values, gradients |-> H]
        BY <2>2, <2>3, <2>4
    <2> QED BY <2>5 DEF H
<1>6. \A p \in DOMAIN new_block.gradients : DOMAIN a[p] = DOMAIN new_block.gradients[p].values
    BY <1>4
<1> HIDE DEF a
<1>7. BlockOK(new_block') /\ BlockOrdered(new_block', call.sort_samples) /\ BlockFields(new_block') /\ RowsOK(new_block', group)
    BY <1>3, <1>5, <1>6, ArraysMoved
<1> QED
    BY <1>1, <1>2, <1>7 DEF MInv, Filling

(* The finished block joins the finished ones.                             *)
LEMMA FinishGroupInv == MInv /\ FinishGroup => MInv'
<1> SUFFICES ASSUME MInv, FinishGroup PROVE MInv'
    OBVIOUS
<1>1. /\ pc = "finish" /\ UNCHANGED call /\ new_blocks' = Append(new_blocks, new_block) /\ new_block' = NoBlock
      /\ pc' = IF Len(new_blocks) + 1 = count(splitted_keys) THEN "done" ELSE "group"
    BY DEF FinishGroup
<1>2. CallInv' = CallInv /\ Refused' = Refused /\ splitted_keys' = splitted_keys
    BY <1>1, CallIsConstant
<1>3. /\ CallInv /\ ~ Refused /\ IsSeq(new_blocks) /\ Len(new_blocks) \in 0..(count(splitted_keys) - 1)
      /\ BlockOK(new_block) /\ BlockOrdered(new_block, call.sort_samples)
      /\ \A n \in 1..Len(new_blocks) : BlockOK(new_blocks[n]) /\ BlockOrdered(new_blocks[n], call.sort_samples)
    BY <1>1 DEF MInv, Filling
<1>4. /\ IsSeq(new_blocks') /\ Len(new_blocks) \in Nat /\ Len(new_blocks') = Len(new_blocks) + 1
      /\ new_blocks'[Len(new_blocks) + 1] = new_block
      /\ \A n \in 1..Len(new_blocks) : new_blocks'[n] = new_blocks[n]
    BY <1>1, <1>3, AppendLemma
<1>5. count(splitted_keys) \in Nat
    BY <1>3, SplittedLemma
<1>6. ASSUME NEW n \in 1..Len(new_blocks')
      PROVE  BlockOK(new_blocks'[n]) /\ BlockOrdered(new_blocks'[n], call.sort_samples)
    <2>1. n \in 1..Len(new_blocks) \/ n = Len(new_blocks) + 1
        BY <1>4
    <2> QED BY <1>3, <1>4, <2>1
<1>7. pc' = "group" => Len(new_blocks') \in 0..(count(splitted_keys) - 1)
    BY <1>1, <1>3, <1>4, <1>5
<1>8. pc' = "done" => Len(new_blocks') = count(splitted_keys)
    BY <1>1, <1>4
<1>9. pc' \in {"group", "done"} /\ ~ Filling'
    BY <1>1 DEF Filling
<1> QED
    BY <1>1, <1>2, <1>3, <1>4, <1>6, <1>7, <1>8, <1>9 DEF MInv

(* The call is refused, or there is a first group.                         *)
LEMMA StartInv == MInv /\ Start => MInv'
<1> SUFFICES ASSUME MInv, Start PROVE MInv'
    OBVIOUS
<1>1. /\ pc = "start" /\ UNCHANGED <<call, new_blocks, new_block>> /\ (pc' = "error" \/ (pc' = "group" /\ ~ Refused))
    BY DEF Start, Fail
<1>2. CallInv' = CallInv /\ Refused' = Refused /\ splitted_keys' = splitted_keys
    BY <1>1, CallIsConstant
<1>3. new_blocks = <<>> /\ Len(new_blocks) = 0 /\ CallInv
    BY <1>1 DEF MInv
<1>4. ~ Refused => Len(new_blocks) \in 0..(count(splitted_keys) - 1)
    BY <1>3, SplittedLemma
<1> QED
    BY <1>1, <1>2, <1>3, <1>4 DEF MInv, Filling

(* Every step keeps the invariant.                                         *)
LEMMA NextInv == MInv /\ [Next]_vars => MInv'
<1> SUFFICES ASSUME MInv, [Next]_vars PROVE MInv'
    OBVIOUS
<1>1. CASE UNCHANGED vars
    <2>1. UNCHANGED <<call, pc, new_blocks, new_block>>
        BY <1>1 DEF vars
    <2>2. CallInv' = CallInv /\ Refused' = Refused /\ splitted_keys' = splitted_keys /\ group' = group
        BY <2>1, CallIsConstant
    <2> QED BY <2>1, <2>2 DEF MInv, Filling
<1>2. CASE Next /\ ~ UNCHANGED vars
    BY <1>2, StartInv, StartGroupInv, MoveValuesInv, MoveGradientsInv, FinishGroupInv DEF Next, Done
<1> QED
    BY <1>1, <1>2

(***************************************************************************)
(* keys_to_properties and keys_to_samples make blocks that                 *)
(* TensorBlock::new, add_gradient and TensorMap::new accept: for valid     *)
(* tensor maps of any size and any request, the expect() calls after the   *)
(* unchecked constructors hold, and each row of a merged block has its row *)
(* in the result.                                                          *)
(***************************************************************************)
THEOREM MovedBlocksAreValid == Spec => []ResultIsValid
<1>1. MInv => ResultIsValid
    <2> SUFFICES ASSUME MInv PROVE ResultIsValid
        OBVIOUS
    <2>1. MappingsAreRows
        BY DEF MInv, MappingsAreRows, RowsOK
    <2>2. ASSUME pc = "done" PROVE Len(new_blocks) = count(splitted_keys) /\ IsInjective(splitted_keys.values)
        BY <2>2, SplittedLemma DEF MInv
    <2> QED BY <2>1, <2>2 DEF ResultIsValid, MInv, BlockOK
<1> QED
    BY <1>1, InitInv, NextInv, PTL DEF Spec

(***************************************************************************)
(* The merged samples are sorted when sort_samples is given, and otherwise *)
(* in the order in which they appear in the blocks, as the documentation   *)
(* of keys_to_properties and keys_to_samples says.                         *)
(***************************************************************************)
THEOREM MovedSamplesAreOrdered == Spec => []SamplesAreOrdered
<1>1. MInv => SamplesAreOrdered
    BY DEF MInv, SamplesAreOrdered, BlockOrdered, InOrder
<1> QED
    BY <1>1, InitInv, NextInv, PTL DEF Spec

-----------------------------------------------------------------------------
(* Properties of merged blocks *)

(***************************************************************************)
(* A sequence r without repetition, of the elements e[m][q] in the order   *)
(* of m, then of q: those of one m follow each other.                      *)
(***************************************************************************)
ListedAs(r, c, e, M, n) ==
    /\ \A a, b \in 1..c : r[a] = r[b] => a = b
    /\ \A m \in 1..M : n[m] \in Nat
    /\ \A a \in 1..c : \E m \in 1..M : \E q \in 1..n[m] : r[a] = e[m][q]
    /\ \A m \in 1..M : \A q \in 1..n[m] : \E a \in 1..c : r[a] = e[m][q]
    /\ \A m, l \in 1..M : \A q \in 1..n[m], s \in 1..n[l] : m < l \/ (m = l /\ q < s) =>
          \A a, b \in 1..c : r[a] = e[m][q] /\ r[b] = e[l][s] => a < b

(* The elements of list m follow each other from position a on.            *)
InARow(r, c, e, n, m, a) == \A q \in 1..n[m] : a + q - 1 \in 1..c /\ r[a + q - 1] = e[m][q]

(* Nothing comes between the elements of one list.                         *)
LEMMA Contiguous ==
    ASSUME NEW c \in Nat, NEW r, NEW M \in Nat, NEW n, NEW e, ListedAs(r, c, e, M, n),
           NEW m \in 1..M, NEW a \in 1..c, r[a] = e[m][1]
    PROVE  InARow(r, c, e, n, m, a)
<1>a. ASSUME NEW i \in 1..M, NEW k \in 1..M, i < k, NEW q \in 1..n[i], NEW w \in 1..n[k], NEW u \in 1..c, NEW v \in 1..c,
             r[u] = e[i][q], r[v] = e[k][w]
      PROVE  u < v
    BY <1>a DEF ListedAs
<1>b. ASSUME NEW i \in 1..M, NEW q \in 1..n[i], NEW w \in 1..n[i], q < w, NEW u \in 1..c, NEW v \in 1..c,
             r[u] = e[i][q], r[v] = e[i][w]
      PROVE  u < v
    BY <1>b DEF ListedAs
<1> DEFINE Bad == {q \in 1..n[m] : ~ (a + q - 1 \in 1..c /\ r[a + q - 1] = e[m][q])}
<1>1. SUFFICES ASSUME Bad # {} PROVE FALSE
    BY DEF InARow
<1>2. n[m] \in Nat /\ Bad \in SUBSET Nat
    BY DEF ListedAs
<1>3. PICK x \in Bad : \A y \in Bad : x <= y
    <2> HIDE DEF Bad
    <2> QED BY <1>1, <1>2, NatMinimum
<1>4. x \in 1..n[m] /\ x # 1
    BY <1>2, <1>3
<1>5. x - 1 \in 1..n[m] /\ x - 1 \notin Bad
    BY <1>2, <1>3, <1>4
<1>6. PICK z \in 1..c : z = a + (x - 1) - 1 /\ r[z] = e[m][x - 1]
    BY <1>5
<1> HIDE DEF Bad
<1>7. PICK b \in 1..c : r[b] = e[m][x]
    BY <1>4 DEF ListedAs
<1>8. z < b
    <2>1. x - 1 < x
        BY <1>4
    <2> QED BY <1>b, <1>4, <1>5, <1>6, <1>7, <2>1
<1>9. PICK y \in 1..c : y = z + 1 /\ y = a + x - 1
    BY <1>2, <1>4, <1>6, <1>8
<1>10. y # b
    BY <1>3, <1>4, <1>7, <1>9 DEF Bad
<1>11. y < b
    BY <1>8, <1>9, <1>10
<1>12. PICK l \in 1..M : \E s \in 1..n[l] : r[y] = e[l][s]
    BY DEF ListedAs
<1>13. PICK s \in 1..n[l] : r[y] = e[l][s]
    BY <1>12
<1>14. n[l] \in Nat /\ s \in Int /\ x \in Int /\ z < y
    BY <1>2, <1>4, <1>9 DEF ListedAs
<1>15. ~ (l < m)
    <2>1. l < m => y < z
        BY <1>a, <1>5, <1>6, <1>13
    <2> QED BY <1>14, <2>1
<1>16. ~ (m < l)
    <2>1. m < l => b < y
        BY <1>a, <1>4, <1>7, <1>13
    <2> QED BY <1>11, <2>1
<1>17. l = m
    BY <1>15, <1>16
<1>18. ~ (s < x - 1)
    <2>1. s < x - 1 => y < z
        BY <1>b, <1>5, <1>6, <1>13, <1>17
    <2> QED BY <1>14, <2>1
<1>19. ~ (x < s)
    <2>1. x < s => b < y
        BY <1>b, <1>4, <1>7, <1>13, <1>17
    <2> QED BY <1>11, <2>1
<1>20. s = x - 1 \/ s = x
    <2> SUFFICES ASSUME NEW s_ \in Int, NEW x_ \in Int, ~ (s_ < x_ - 1), ~ (x_ < s_)
                 PROVE  s_ = x_ - 1 \/ s_ = x_
        BY <1>14, <1>18, <1>19
    <2> QED OBVIOUS
<1>21. s # x - 1
    <2>1. s = x - 1 => y = z
        BY <1>6, <1>13, <1>17 DEF ListedAs
    <2> QED BY <1>14, <2>1
<1>22. s # x
    <2>1. s = x => y = b
        BY <1>7, <1>13, <1>17 DEF ListedAs
    <2> QED BY <1>10, <2>1
<1> QED BY <1>20, <1>21, <1>22

(* Each dimension of the keys is moved or stays.                           *)
LEMMA CoverLemma ==
    ASSUME CallInv, ~ Refused
    PROVE  /\ \A y \in 1..Len(Kept) : Kept[y] \in 1..size(call.keys)
           /\ \A d \in 1..size(call.keys) :
                 \/ \E x \in 1..Len(names_to_move) : Moved[x] = d
                 \/ \E y \in 1..Len(Kept) : Kept[y] = d
<1>1. /\ Kept \in Seq(1..size(call.keys)) /\ Len(Kept) \in Nat /\ Len(names_to_move) \in Nat
      /\ \A d \in 1..Len(names_to_move) :
             Moved[d] \in 1..size(call.keys) /\ call.keys.names[Moved[d]] = names_to_move[d]
    BY PositionsLemma
<1>2. /\ call.keys.names \in Seq(STRING) /\ size(call.keys) \in Nat
      /\ DOMAIN call.keys.names = 1..size(call.keys) /\ size(call.keys) = Len(call.keys.names)
    BY LabelsLemma DEF CallInv, size
<1>3. names_to_move \in Seq(STRING) /\ DOMAIN names_to_move = 1..Len(names_to_move)
    BY LabelsLemma DEF CallInv, names_to_move
<1>4. \A c, d \in 1..size(call.keys) : call.keys.names[c] = call.keys.names[d] => c = d
    BY <1>2, Zenon DEF CallInv, ValidLabels, IsInjective
<1> DEFINE S == {d \in 1..size(call.keys) : call.keys.names[d] \notin ToSet(names_to_move)}
<1>5. S \in SUBSET Int /\ IsFiniteSet(S)
    <2>1. S \subseteq 1..size(call.keys)
        OBVIOUS
    <2> HIDE DEF S
    <2> QED BY <1>2, <2>1, PositionsAreFinite
<1>6. Kept = Ascending(S)
    BY <1>2, Zenon DEF Kept, remaining
<1>7. \A d \in S : \E y \in 1..Len(Kept) : Kept[y] = d
    <2> HIDE DEF S
    <2> QED BY <1>5, <1>6, AscendingLemma
<1>8. ASSUME NEW d \in 1..size(call.keys), d \notin S
      PROVE  \E x \in 1..Len(names_to_move) : Moved[x] = d
    <2>1. PICK x \in 1..Len(names_to_move) : names_to_move[x] = call.keys.names[d]
        BY <1>3, <1>8 DEF ToSet
    <2>2. Moved[x] = d
        BY <1>1, <1>4, <2>1
    <2> QED BY <2>2
<1>9. \A y \in 1..Len(Kept) : Kept[y] \in 1..size(call.keys)
    BY <1>1, SeqLemma
<1> HIDE DEF S
<1> QED
    BY <1>7, <1>8, <1>9

(* What the keys that stay are called, and what they are for a block.      *)
LEMMA SplittedSays ==
    ASSUME CallInv, ~ Refused, NEW k \in 1..count(call.keys), NEW n \in 1..count(splitted_keys),
           count(splitted_keys) = 1 \/ Pick(call.keys.values[k], Kept) = splitted_keys.values[n]
    PROVE  \/ Kept = <<>> /\ splitted_keys = Labels(<<"_">>, << <<0>> >>)
           \/ /\ splitted_keys.names = Pick(call.keys.names, Kept)
              /\ splitted_keys.values[n] = Pick(call.keys.values[k], Kept)
<1>1. CASE Kept = <<>>
    BY <1>1 DEF splitted_keys, new_keys, Kept
<1>2. CASE Kept # <<>>
    <2> DEFINE s == [i \in 1..count(call.keys) |-> Pick(call.keys.values[i], Kept)]
               t == IndexSet(s)
    <2>1. splitted_keys = Labels(Pick(call.keys.names, Kept), t)
        BY <1>2, Zenon DEF splitted_keys, new_keys, Kept
    <2>2. splitted_keys.names = Pick(call.keys.names, Kept) /\ splitted_keys.values = t
        <3> HIDE DEF t
        <3> QED BY <2>1 DEF Labels
    <2>3. count(call.keys) \in Nat /\ size(call.keys) \in Nat
          /\ \A i \in 1..count(call.keys) : call.keys.values[i] \in Seq(Int) /\ Len(call.keys.values[i]) = size(call.keys)
        BY LabelsLemma DEF CallInv
    <2>4. s \in [1..count(call.keys) -> Seq(Int)] /\ s[k] = Pick(call.keys.values[k], Kept)
        <3>1. Len(Kept) \in Nat /\ \A y \in 1..Len(Kept) : Kept[y] \in 1..size(call.keys)
            BY PositionsLemma, CoverLemma
        <3>2. \A i \in 1..count(call.keys) : Pick(call.keys.values[i], Kept) \in Seq(Int)
            BY <2>3, <3>1, PickLemma
        <3> QED BY <3>2
    <2> HIDE DEF s
    <2>5. s \in Seq(Seq(Int)) /\ Len(s) = count(call.keys)
        BY <2>3, <2>4, FunctionIsSeq
    <2>6. t \in Seq(Seq(Int)) /\ ToSet(t) = ToSet(s)
        BY <2>5, IndexSetLemma
    <2> HIDE DEF t
    <2>7. ToSet(t) = {t[i] : i \in 1..Len(t)} /\ ToSet(s) = {s[i] : i \in 1..Len(s)}
        BY <2>5, <2>6, SeqLemma
    <2>8. PICK i \in 1..Len(t) : t[i] = s[k]
        BY <2>5, <2>6, <2>7
    <2>9. count(splitted_keys) = Len(t)
        BY <2>2, Zenon DEF count
    <2>10. count(splitted_keys) = 1 => t[n] = s[k]
        BY <2>8, <2>9
    <2>11. t[n] = s[k]
        BY <2>2, <2>4, <2>10
    <2> QED BY <2>2, <2>4, <2>11
<1> QED
    BY <1>1, <1>2

(* The moved parts of the keys tell the blocks of a group apart.           *)
LEMMA GroupKeysDiffer ==
    ASSUME CallInv, ~ Refused, Len(new_blocks) \in 0..(count(splitted_keys) - 1),
           NEW l \in 1..Len(group), NEW m \in 1..Len(group), group[l].key = group[m].key
    PROVE  l = m
<1>1. /\ Matching \in Seq(1..count(call.keys)) /\ Len(group) = Len(Matching) /\ Len(group) \in Nat
      /\ \A x \in 1..Len(group) : group[x].key = Pick(call.keys.values[Matching[x]], Moved)
      /\ \A x, y \in 1..Len(group) : x < y => Matching[x] < Matching[y]
      /\ \A x \in 1..count(call.keys) :
            (\E y \in 1..Len(group) : Matching[y] = x)
            <=> count(splitted_keys) = 1 \/ Pick(call.keys.values[x], Kept) = splitted_keys.values[Len(new_blocks) + 1]
    BY GroupLemma DEF GroupOK
<1>2. \A x \in 1..Len(group) : Matching[x] \in 1..count(call.keys)
    BY <1>1, SeqLemma
<1>3. PICK k \in 1..count(call.keys) : k = Matching[l]
    BY <1>2
<1>4. PICK h \in 1..count(call.keys) : h = Matching[m]
    BY <1>2
<1>5. Pick(call.keys.values[k], Moved) = Pick(call.keys.values[h], Moved)
    BY <1>1, <1>3, <1>4
<1>6. /\ count(splitted_keys) = 1 \/ Pick(call.keys.values[k], Kept) = splitted_keys.values[Len(new_blocks) + 1]
      /\ count(splitted_keys) = 1 \/ Pick(call.keys.values[h], Kept) = splitted_keys.values[Len(new_blocks) + 1]
    BY <1>1, <1>3, <1>4
<1>7. Len(new_blocks) + 1 \in 1..count(splitted_keys)
    <2>1. count(splitted_keys) \in Nat
        BY SplittedLemma
    <2> QED BY <2>1
<1>8. Kept = <<>> \/ Pick(call.keys.values[k], Kept) = Pick(call.keys.values[h], Kept)
    <2>1. PICK n \in 1..count(splitted_keys) : n = Len(new_blocks) + 1
        BY <1>7
    <2>2. Kept = <<>> \/ splitted_keys.values[n] = Pick(call.keys.values[k], Kept)
        BY <1>6, <2>1, SplittedSays
    <2>3. Kept = <<>> \/ splitted_keys.values[n] = Pick(call.keys.values[h], Kept)
        BY <1>6, <2>1, SplittedSays
    <2> QED BY <2>2, <2>3
<1>9. /\ Len(Kept) \in Nat /\ Len(names_to_move) \in Nat /\ Len(Moved) = Len(names_to_move)
      /\ \A y \in 1..Len(Kept) : Kept[y] \in 1..size(call.keys)
      /\ \A x \in 1..Len(names_to_move) : Moved[x] \in 1..size(call.keys)
      /\ \A d \in 1..size(call.keys) :
            \/ \E x \in 1..Len(names_to_move) : Moved[x] = d
            \/ \E y \in 1..Len(Kept) : Kept[y] = d
    BY PositionsLemma, CoverLemma
<1>10. /\ size(call.keys) \in Nat /\ count(call.keys) \in Nat
       /\ \A i \in 1..count(call.keys) : call.keys.values[i] \in Seq(Int) /\ Len(call.keys.values[i]) = size(call.keys)
       /\ \A a, b \in 1..count(call.keys) : call.keys.values[a] = call.keys.values[b] => a = b
    BY LabelsLemma DEF CallInv
<1>11. PICK K \in Seq(Int) : K = call.keys.values[k]
    BY <1>10
<1>12. PICK H \in Seq(Int) : H = call.keys.values[h]
    BY <1>10
<1>13. Len(K) = size(call.keys) /\ Len(H) = size(call.keys)
    BY <1>10, <1>11, <1>12
<1>14. \A x \in 1..Len(names_to_move) : K[Moved[x]] = H[Moved[x]]
    <2>1. PICK s, n : s = Moved /\ n = Len(names_to_move)
        OBVIOUS
    <2>2. n \in Nat /\ Len(s) = n /\ (\A x \in 1..n : s[x] \in 1..Len(K)) /\ (\A x \in 1..n : s[x] \in 1..Len(H))
        BY <1>9, <1>13, <2>1
    <2>3. (\A x \in 1..n : Pick(K, s)[x] = K[s[x]]) /\ (\A x \in 1..n : Pick(H, s)[x] = H[s[x]])
        BY <2>2, PickLemma
    <2>4. Pick(K, s) = Pick(H, s)
        BY <1>5, <1>11, <1>12, <2>1
    <2> QED BY <2>1, <2>3, <2>4
<1>15. \A y \in 1..Len(Kept) : K[Kept[y]] = H[Kept[y]]
    <2>1. PICK s, n : s = Kept /\ n = Len(Kept)
        OBVIOUS
    <2>2. n \in Nat /\ Len(s) = n /\ (\A x \in 1..n : s[x] \in 1..Len(K)) /\ (\A x \in 1..n : s[x] \in 1..Len(H))
        BY <1>9, <1>13, <2>1
    <2>3. (\A x \in 1..n : Pick(K, s)[x] = K[s[x]]) /\ (\A x \in 1..n : Pick(H, s)[x] = H[s[x]])
        BY <2>2, PickLemma
    <2>4. s = <<>> \/ Pick(K, s) = Pick(H, s)
        BY <1>8, <1>11, <1>12, <2>1
    <2>5. s = <<>> => n = 0
        BY <2>2
    <2>6. ASSUME NEW y \in 1..n PROVE K[s[y]] = H[s[y]]
        <3>1. s # <<>>
            BY <2>2, <2>5
        <3>2. Pick(K, s)[y] = Pick(H, s)[y]
            BY <2>4, <3>1, Zenon
        <3> QED BY <2>3, <3>2
    <2> QED BY <2>1, <2>6
<1>16. \A d \in 1..size(call.keys) : K[d] = H[d]
    BY <1>9, <1>14, <1>15
<1>17. K = H
    BY <1>13, <1>16
<1>18. k = h
    BY <1>10, <1>11, <1>12, <1>17
<1>19. ~ (l < m) /\ ~ (m < l)
    <2>1. l < m => k < h
        BY <1>1, <1>3, <1>4
    <2>2. m < l => h < k
        BY <1>1, <1>3, <1>4
    <2> QED BY <1>18, <2>1, <2>2
<1> QED
    BY <1>1, <1>19

(* The elements of two sequences that are put together.                    *)
LEMMA AnyConcatParts ==
    ASSUME NEW E, NEW a \in Seq(E), NEW c \in Seq(E)
    PROVE  /\ Len(a) \in Nat /\ Len(c) \in Nat /\ a \o c \in Seq(E) /\ Len(a \o c) = Len(a) + Len(c)
           /\ \A x \in 1..Len(a) : (a \o c)[x] = a[x]
           /\ \A i \in 1..Len(c) : (a \o c)[Len(a) + i] = c[i]
<1> DEFINE d == a \o c
<1>1. Len(a) \in Nat /\ Len(c) \in Nat /\ d \in Seq(E) /\ Len(d) = Len(a) + Len(c)
    <2>1. Len(a) \in Nat /\ Len(c) \in Nat
        BY SeqLemma
    <2> QED BY <2>1, ConcatProperties
<1>2. (\A x \in 1..Len(a) : d[x] = a[x]) /\ \A i \in 1..Len(c) : d[Len(a) + i] = c[i]
    BY <1>1, ConcatProperties
<1> QED
    BY <1>1, <1>2

(* The same for entries, and for the names of dimensions.                  *)
LEMMA ConcatParts ==
    ASSUME NEW a \in Seq(Int), NEW c \in Seq(Int)
    PROVE  /\ Len(a) \in Nat /\ Len(c) \in Nat /\ a \o c \in Seq(Int) /\ Len(a \o c) = Len(a) + Len(c)
           /\ \A x \in 1..Len(a) : (a \o c)[x] = a[x]
           /\ \A i \in 1..Len(c) : (a \o c)[Len(a) + i] = c[i]
BY AnyConcatParts

(* The names of merged samples or properties are put together.             *)
LEMMA NamesConcatParts ==
    ASSUME NEW a \in Seq(STRING), NEW c \in Seq(STRING)
    PROVE  /\ Len(a) \in Nat /\ Len(c) \in Nat /\ a \o c \in Seq(STRING) /\ Len(a \o c) = Len(a) + Len(c)
           /\ \A x \in 1..Len(a) : (a \o c)[x] = a[x]
           /\ \A i \in 1..Len(c) : (a \o c)[Len(a) + i] = c[i]
BY AnyConcatParts

(* Two sequences that are put together can be taken apart again.           *)
LEMMA ConcatSplit ==
    ASSUME NEW a \in Seq(Int), NEW b \in Seq(Int), NEW c \in Seq(Int), NEW d \in Seq(Int), Len(a) = Len(b), a \o c = b \o d
    PROVE  a = b /\ c = d
<1> DEFINE x == a \o c
           y == b \o d
<1>1. /\ Len(a) \in Nat /\ Len(c) \in Nat /\ Len(x) = Len(a) + Len(c)
      /\ (\A i \in 1..Len(a) : x[i] = a[i]) /\ \A i \in 1..Len(c) : x[Len(a) + i] = c[i]
    BY ConcatParts
<1>2. /\ Len(b) \in Nat /\ Len(d) \in Nat /\ Len(y) = Len(b) + Len(d)
      /\ (\A i \in 1..Len(b) : y[i] = b[i]) /\ \A i \in 1..Len(d) : y[Len(b) + i] = d[i]
    BY ConcatParts
<1>3. x = y
    OBVIOUS
<1> HIDE DEF x, y
<1>4. Len(c) = Len(d)
    BY <1>1, <1>2, <1>3
<1>5. \A i \in 1..Len(a) : a[i] = b[i]
    BY <1>1, <1>2, <1>3
<1>6. \A i \in 1..Len(c) : c[i] = d[i]
    BY <1>1, <1>2, <1>3, <1>4
<1>7. a = b
    BY <1>5, SeqEqual
<1>8. c = d
    BY <1>4, <1>6, SeqEqual
<1> QED
    BY <1>7, <1>8

(* An entry with a key before it.                                          *)
With(key, e) == key \o e

(* Entries of the same size with a key are equal only when both parts are. *)
LEMMA WithSplit ==
    ASSUME NEW a \in Seq(Int), NEW b \in Seq(Int), NEW c \in Seq(Int), NEW d \in Seq(Int), Len(a) = Len(b), With(a, c) = With(b, d)
    PROVE  a = b /\ c = d
    BY ConcatSplit DEF With

(* The properties of a block with a key before them.                       *)
LEMMA PrefixedLemma ==
    ASSUME NEW key \in Seq(Int), NEW l, ValidLabels(l)
    PROVE  /\ Prefixed(key, l) \in Seq(Seq(Int)) /\ Len(Prefixed(key, l)) = count(l) /\ count(l) \in Nat
           /\ \A q \in 1..count(l) : l.values[q] \in Seq(Int) /\ Prefixed(key, l)[q] = With(key, l.values[q])
           /\ \A q, s \in 1..count(l) : l.values[q] = l.values[s] => q = s
<1> DEFINE f == Prefixed(key, l)
<1>1. /\ count(l) \in Nat /\ \A i \in 1..count(l) : l.values[i] \in Seq(Int)
      /\ \A q, s \in 1..count(l) : l.values[q] = l.values[s] => q = s
    BY LabelsLemma
<1>2. ASSUME NEW i \in 1..count(l) PROVE key \o l.values[i] \in Seq(Int)
    <2>1. PICK v \in Seq(Int) : v = l.values[i]
        BY <1>1
    <2> QED BY <2>1
<1>3. f \in [1..count(l) -> Seq(Int)] /\ \A i \in 1..count(l) : f[i] = key \o l.values[i]
    BY <1>2 DEF Prefixed
<1> HIDE DEF f
<1>4. f \in Seq(Seq(Int)) /\ Len(f) = count(l)
    BY <1>1, <1>3, FunctionIsSeq
<1>5. \A i \in 1..count(l) : f[i] = With(key, l.values[i])
    BY <1>3, Zenon DEF With
<1> QED
    BY <1>1, <1>4, <1>5 DEF f

(* A function on 1..n of sequences, put together.                          *)
LEMMA ConcatOf ==
    ASSUME NEW E, NEW n \in Nat \ {0}, NEW ss, ss \in [1..n -> Seq(E)]
    PROVE  Concat(ss) \in Seq(E) /\ \E start : Placed(Concat(ss), ss, n, start)
<1>1. Len(ss) = n /\ \A m \in 1..n : ss[m] \in Seq(E)
    BY FunctionIsSeq
<1> QED
    BY <1>1, ConcatLemma

(***************************************************************************)
(* Where the elements e[m][q], all of them different, come first in c: in  *)
(* the order of m, then of q.                                              *)
(***************************************************************************)
Arranged(c, e, M, n, place) ==
    /\ \A m \in 1..M : n[m] \in Nat
    /\ \A m \in 1..M : \A q \in 1..n[m] : place[m][q] \in 1..Len(c) /\ c[place[m][q]] = e[m][q]
    /\ \A x \in 1..Len(c) : \E m \in 1..M : \E q \in 1..n[m] : c[x] = e[m][q] /\ place[m][q] <= x
    /\ \A m, l \in 1..M : \A q \in 1..n[m], s \in 1..n[l] :
          /\ m < l \/ (m = l /\ q < s) => place[m][q] < place[l][s]
          /\ e[m][q] = e[l][s] => m = l /\ q = s

(* An IndexSet of such entries lists each of them once, in their order.    *)
LEMMA ArrangedLemma ==
    ASSUME NEW E, NEW c \in Seq(E), NEW e, NEW M \in Nat, NEW n, NEW place, Arranged(c, e, M, n, place)
    PROVE  ListedAs(IndexSet(c), Len(IndexSet(c)), e, M, n)
<1> DEFINE r == IndexSet(c)
<1>1. /\ r \in Seq(E) /\ Len(r) \in Nat /\ IsInjective(r) /\ ToSet(r) = ToSet(c)
      /\ \A a, b \in 1..Len(r), i, l \in 1..Len(c) :
             r[a] = c[i] /\ r[b] = c[l] /\ First(c, i) /\ First(c, l) /\ i < l => a < b
    BY IndexSetLemma
<1> HIDE DEF r
<1>2. ToSet(r) = {r[a] : a \in 1..Len(r)} /\ ToSet(c) = {c[i] : i \in 1..Len(c)} /\ DOMAIN r = 1..Len(r) /\ Len(c) \in Nat
    BY <1>1, SeqLemma
<1>3. ASSUME NEW m \in 1..M, NEW q \in 1..n[m]
      PROVE  First(c, place[m][q])
    <2>1. PICK x \in 1..Len(c) : x = place[m][q] /\ c[x] = e[m][q]
        BY DEF Arranged
    <2> SUFFICES ASSUME NEW h \in 1..(x - 1), c[h] = c[x]
                 PROVE  FALSE
        BY <2>1 DEF First
    <2>2. h \in 1..Len(c) /\ h < x
        BY <1>2
    <2>3. PICK l \in 1..M : \E s \in 1..n[l] : c[h] = e[l][s] /\ place[l][s] <= h
        BY <2>2 DEF Arranged
    <2>4. PICK s \in 1..n[l] : c[h] = e[l][s] /\ place[l][s] <= h
        BY <2>3
    <2>5. e[m][q] = e[l][s]
        BY <2>1, <2>4
    <2>6. m = l /\ q = s
        BY <2>5 DEF Arranged
    <2>7. x <= h
        BY <2>1, <2>4, <2>6
    <2> QED BY <2>2, <2>7
<1>4. ASSUME NEW a \in 1..Len(r), NEW b \in 1..Len(r), r[a] = r[b] PROVE a = b
    BY <1>1, <1>2, <1>4 DEF IsInjective
<1>5. ASSUME NEW a \in 1..Len(r) PROVE \E m \in 1..M : \E q \in 1..n[m] : r[a] = e[m][q]
    <2>1. PICK i \in 1..Len(c) : r[a] = c[i]
        BY <1>1, <1>2
    <2> QED BY <2>1 DEF Arranged
<1>6. ASSUME NEW m \in 1..M, NEW q \in 1..n[m] PROVE \E a \in 1..Len(r) : r[a] = e[m][q]
    <2>1. PICK x \in 1..Len(c) : c[x] = e[m][q]
        BY DEF Arranged
    <2> QED BY <1>1, <1>2, <2>1
<1>7. ASSUME NEW m \in 1..M, NEW l \in 1..M, NEW q \in 1..n[m], NEW s \in 1..n[l], m < l \/ (m = l /\ q < s),
             NEW a \in 1..Len(r), NEW b \in 1..Len(r), r[a] = e[m][q], r[b] = e[l][s]
      PROVE  a < b
    <2>1. PICK x \in 1..Len(c) : x = place[m][q] /\ c[x] = e[m][q]
        BY DEF Arranged
    <2>2. PICK y \in 1..Len(c) : y = place[l][s] /\ c[y] = e[l][s]
        BY DEF Arranged
    <2>3. x < y
        BY <1>7, <2>1, <2>2 DEF Arranged
    <2>4. First(c, x) /\ First(c, y)
        BY <1>3, <2>1, <2>2
    <2> QED BY <1>1, <1>7, <2>1, <2>2, <2>3, <2>4
<1>8. \A m \in 1..M : n[m] \in Nat
    BY DEF Arranged
<1>9. ListedAs(r, Len(r), e, M, n)
    BY <1>4, <1>5, <1>6, <1>7, <1>8 DEF ListedAs
<1> QED
    BY <1>9 DEF r

(***************************************************************************)
(* When the properties are made of the keys of the blocks, those of one    *)
(* block follow each other.                                                *)
(***************************************************************************)
OwnEntries(g) == [k \in 1..Len(g) |-> Prefixed(g[k].key, g[k].block.properties)]
OwnCounts(g) == [k \in 1..Len(g) |-> count(g[k].block.properties)]

(* The key and the properties that a new property is made of.              *)
LEMMA OwnEntry ==
    ASSUME NEW g, NEW n, GroupOK(g, n), NEW k \in 1..Len(g)
    PROVE  /\ OwnEntries(g)[k] \in Seq(Seq(Int)) /\ Len(OwnEntries(g)[k]) = OwnCounts(g)[k] /\ OwnCounts(g)[k] \in Nat
           /\ g[k].key \in Seq(Int) /\ Len(g[k].key) = n
           /\ OwnCounts(g)[k] = count(g[k].block.properties)
           /\ \A q \in 1..OwnCounts(g)[k] :
                 /\ g[k].block.properties.values[q] \in Seq(Int)
                 /\ OwnEntries(g)[k][q] = With(g[k].key, g[k].block.properties.values[q])
           /\ \A q, s \in 1..OwnCounts(g)[k] :
                 g[k].block.properties.values[q] = g[k].block.properties.values[s] => q = s
<1>1. PICK P : P = g[k].block.properties
    OBVIOUS
<1>2. g[k].key \in Seq(Int) /\ Len(g[k].key) = n /\ ValidLabels(P)
    BY <1>1 DEF GroupOK, ValidBlock
<1>3. OwnEntries(g)[k] = Prefixed(g[k].key, P)
    BY <1>1 DEF OwnEntries
<1>4. OwnCounts(g)[k] = count(P)
    BY <1>1 DEF OwnCounts
<1>5. PICK key \in Seq(Int) : key = g[k].key
    BY <1>2
<1>6. /\ Prefixed(key, P) \in Seq(Seq(Int)) /\ Len(Prefixed(key, P)) = count(P) /\ count(P) \in Nat
      /\ \A q \in 1..count(P) : P.values[q] \in Seq(Int) /\ Prefixed(key, P)[q] = With(key, P.values[q])
      /\ \A q, s \in 1..count(P) : P.values[q] = P.values[s] => q = s
    BY <1>2, PrefixedLemma
<1> QED
    BY <1>1, <1>2, <1>3, <1>4, <1>5, <1>6

(* The entry of one property of one block.                                 *)
LEMMA OwnEntryAt ==
    ASSUME NEW g, NEW n, GroupOK(g, n), NEW k \in 1..Len(g), NEW q \in 1..OwnCounts(g)[k]
    PROVE  /\ g[k].key \in Seq(Int) /\ Len(g[k].key) = n
           /\ g[k].block.properties.values[q] \in Seq(Int)
           /\ OwnEntries(g)[k][q] = With(g[k].key, g[k].block.properties.values[q])
    BY OwnEntry

(* The new properties are all different.                                   *)
LEMMA OwnEntriesDiffer ==
    ASSUME NEW g, NEW n, GroupOK(g, n), \A k, m \in 1..Len(g) : g[k].key = g[m].key => k = m,
           NEW k \in 1..Len(g), NEW m \in 1..Len(g), NEW q \in 1..OwnCounts(g)[k], NEW s \in 1..OwnCounts(g)[m],
           OwnEntries(g)[k][q] = OwnEntries(g)[m][s]
    PROVE  k = m /\ q = s
<1>1. PICK a, v : a = g[k].key /\ v = g[k].block.properties.values[q]
    OBVIOUS
<1>2. PICK b, w : b = g[m].key /\ w = g[m].block.properties.values[s]
    OBVIOUS
<1>3. a \in Seq(Int) /\ Len(a) = n /\ v \in Seq(Int) /\ OwnEntries(g)[k][q] = With(a, v)
    <2>1. /\ g[k].key \in Seq(Int) /\ Len(g[k].key) = n
          /\ g[k].block.properties.values[q] \in Seq(Int)
          /\ OwnEntries(g)[k][q] = With(g[k].key, g[k].block.properties.values[q])
        BY OwnEntryAt
    <2> QED BY <1>1, <2>1
<1>4. b \in Seq(Int) /\ Len(b) = n /\ w \in Seq(Int) /\ OwnEntries(g)[m][s] = With(b, w)
    <2>1. /\ g[m].key \in Seq(Int) /\ Len(g[m].key) = n
          /\ g[m].block.properties.values[s] \in Seq(Int)
          /\ OwnEntries(g)[m][s] = With(g[m].key, g[m].block.properties.values[s])
        BY OwnEntryAt
    <2> QED BY <1>2, <2>1
<1>5. With(a, v) = With(b, w) /\ Len(a) = Len(b)
    BY <1>3, <1>4
<1>6. a = b /\ v = w
    BY <1>3, <1>4, <1>5, WithSplit
<1>7. k = m
    BY <1>1, <1>2, <1>6
<1>8. g[k].block.properties.values[q] = g[k].block.properties.values[s]
    BY <1>1, <1>2, <1>6, <1>7
<1>9. \A x, y \in 1..OwnCounts(g)[k] :
          g[k].block.properties.values[x] = g[k].block.properties.values[y] => x = y
    BY OwnEntry
<1> QED
    BY <1>7, <1>8, <1>9

(* The properties made of the keys of the blocks, in the IndexSet.         *)
LEMMA OwnKeysLayout ==
    ASSUME NEW g, NEW n, GroupOK(g, n), \A k, m \in 1..Len(g) : g[k].key = g[m].key => k = m
    PROVE  LET r == IndexSet(Concat(OwnEntries(g)))
           IN  ListedAs(r, Len(r), OwnEntries(g), Len(g), OwnCounts(g))
<1>1. PICK ss, N, M : ss = OwnEntries(g) /\ N = OwnCounts(g) /\ M = Len(g)
    OBVIOUS
<1>2. M \in Nat \ {0} /\ n \in Nat
    BY <1>1 DEF GroupOK
<1>3. ASSUME NEW k \in 1..M
      PROVE  ss[k] \in Seq(Seq(Int)) /\ Len(ss[k]) = N[k] /\ N[k] \in Nat
    <2>1. PICK h \in 1..Len(g) : h = k
        BY <1>1
    <2>2. /\ OwnEntries(g)[h] \in Seq(Seq(Int)) /\ Len(OwnEntries(g)[h]) = OwnCounts(g)[h]
          /\ OwnCounts(g)[h] \in Nat
        BY OwnEntry
    <2> QED BY <1>1, <2>1, <2>2
<1>4. ss \in [1..M -> Seq(Seq(Int))]
    <2>1. ss = [k \in 1..M |-> ss[k]]
        BY <1>1 DEF OwnEntries
    <2> QED BY <1>3, <2>1
<1>5. PICK c : c = Concat(ss)
    OBVIOUS
<1>6. c \in Seq(Seq(Int)) /\ \E start : Placed(c, ss, M, start)
    BY <1>2, <1>4, <1>5, ConcatOf
<1>7. PICK start : Placed(c, ss, M, start)
    BY <1>6
<1>8. /\ Len(c) \in Nat
      /\ \A k \in 1..M : start[k] \in Nat /\ start[k] + N[k] <= Len(c)
      /\ \A k \in 1..M : \A i \in 1..N[k] : c[start[k] + i] = ss[k][i]
      /\ \A k, m \in 1..M : k < m => start[k] + N[k] <= start[m]
      /\ \A x \in 1..Len(c) : \E k \in 1..M : \E i \in 1..N[k] : x = start[k] + i
    <2>1. Len(c) \in Nat
        BY <1>6
    <2>2. \A k \in 1..M : Len(ss[k]) = N[k]
        BY <1>3
    <2>3. \A k \in 1..M : start[k] \in Nat /\ start[k] + N[k] <= Len(c)
        BY <1>7, <2>2 DEF Placed
    <2>4. \A k \in 1..M : \A i \in 1..N[k] : c[start[k] + i] = ss[k][i]
        BY <1>7, <2>2 DEF Placed
    <2>5. \A k, m \in 1..M : k < m => start[k] + N[k] <= start[m]
        BY <1>7, <2>2 DEF Placed
    <2>6. \A x \in 1..Len(c) : \E k \in 1..M : \E i \in 1..N[k] : x = start[k] + i
        <3> SUFFICES ASSUME NEW x \in 1..Len(c) PROVE \E k \in 1..M : \E i \in 1..N[k] : x = start[k] + i
            OBVIOUS
        <3>1. PICK k \in 1..M : \E i \in 1..Len(ss[k]) : x = start[k] + i
            BY <1>7 DEF Placed
        <3> QED BY <2>2, <3>1
    <2> QED BY <2>1, <2>3, <2>4, <2>5, <2>6
<1>9. ASSUME NEW k \in 1..M, NEW q \in 1..N[k], NEW m \in 1..M, NEW s \in 1..N[m], ss[k][q] = ss[m][s]
      PROVE  k = m /\ q = s
    <2>1. PICK h \in 1..Len(g), l \in 1..Len(g) : h = k /\ l = m
        BY <1>1
    <2>2. PICK x \in 1..OwnCounts(g)[h], y \in 1..OwnCounts(g)[l] : x = q /\ y = s
        BY <1>1, <2>1
    <2>3. OwnEntries(g)[h][x] = OwnEntries(g)[l][y]
        BY <1>1, <1>9, <2>1, <2>2
    <2>4. h = l /\ x = y
        BY <2>3, OwnEntriesDiffer
    <2> QED BY <2>1, <2>2, <2>4
<1> DEFINE place == [k \in 1..M |-> [q \in 1..N[k] |-> start[k] + q]]
<1>10. \A k \in 1..M : \A q \in 1..N[k] : place[k][q] = start[k] + q
    OBVIOUS
<1> HIDE DEF place
<1>11. ASSUME NEW k \in 1..M, NEW q \in 1..N[k] PROVE place[k][q] \in 1..Len(c) /\ c[place[k][q]] = ss[k][q]
    <2>1. start[k] \in Nat /\ N[k] \in Nat /\ start[k] + N[k] <= Len(c) /\ q \in Nat
        BY <1>3, <1>8
    <2>2. start[k] + q \in 1..Len(c)
        BY <1>8, <2>1
    <2> QED BY <1>8, <1>10, <2>2
<1>12. ASSUME NEW x \in 1..Len(c) PROVE \E k \in 1..M : \E q \in 1..N[k] : c[x] = ss[k][q] /\ place[k][q] <= x
    <2>1. PICK k \in 1..M : \E q \in 1..N[k] : x = start[k] + q
        BY <1>8
    <2>2. PICK q \in 1..N[k] : x = start[k] + q
        BY <2>1
    <2>3. c[x] = ss[k][q] /\ place[k][q] = x /\ x <= x
        BY <1>8, <1>10, <2>2
    <2> QED BY <2>3
<1>13. ASSUME NEW k \in 1..M, NEW m \in 1..M, NEW q \in 1..N[k], NEW s \in 1..N[m], k < m \/ (k = m /\ q < s)
       PROVE  place[k][q] < place[m][s]
    <2>1. start[k] \in Nat /\ start[m] \in Nat /\ N[k] \in Nat /\ N[m] \in Nat /\ q \in Nat /\ s \in Nat /\ q <= N[k] /\ 1 <= s
        BY <1>3, <1>8
    <2>2. k < m => start[k] + N[k] <= start[m]
        BY <1>8
    <2>3. start[k] + q < start[m] + s
        BY <1>13, <2>1, <2>2
    <2> QED BY <1>10, <2>3
<1>14. \A k \in 1..M : N[k] \in Nat
    BY <1>3
<1>15. Arranged(c, ss, M, N, place)
    BY <1>9, <1>11, <1>12, <1>13, <1>14 DEF Arranged
<1>16. ListedAs(IndexSet(c), Len(IndexSet(c)), ss, M, N)
    BY <1>2, <1>6, <1>15, ArrangedLemma
<1> QED
    BY <1>1, <1>5, <1>16

(***************************************************************************)
(* When they are made of keys that the caller gives, those of one given    *)
(* key follow each other: all the blocks have the same properties.         *)
(***************************************************************************)
GivenEntries(l, P) == [m \in 1..count(l) |-> Prefixed(l.values[m], P)]
GivenCounts(l, P) == [m \in 1..count(l) |-> count(P)]
GivenKeysEntries(g, l) == [m \in 1..count(l) |-> Concat([k \in 1..Len(g) |-> Prefixed(l.values[m], g[k].block.properties)])]

(* The given key and the properties that a new property is made of.        *)
LEMMA GivenEntry ==
    ASSUME NEW l, ValidLabels(l), NEW P, ValidLabels(P), NEW m \in 1..count(l)
    PROVE  /\ GivenEntries(l, P)[m] \in Seq(Seq(Int)) /\ Len(GivenEntries(l, P)[m]) = count(P)
           /\ GivenEntries(l, P)[m] = Prefixed(l.values[m], P)
           /\ l.values[m] \in Seq(Int) /\ Len(l.values[m]) = size(l)
<1>1. PICK key : key = l.values[m]
    OBVIOUS
<1>2. key \in Seq(Int) /\ Len(key) = size(l)
    BY <1>1, LabelsLemma
<1>3. GivenEntries(l, P)[m] = Prefixed(key, P)
    BY <1>1 DEF GivenEntries
<1>4. Prefixed(key, P) \in Seq(Seq(Int)) /\ Len(Prefixed(key, P)) = count(P)
    BY <1>2, PrefixedLemma
<1> QED
    BY <1>1, <1>2, <1>3, <1>4

(* The entry of one property with one given key.                           *)
LEMMA GivenEntryAt ==
    ASSUME NEW l, ValidLabels(l), NEW P, ValidLabels(P), NEW m \in 1..count(l), NEW q \in 1..count(P)
    PROVE  P.values[q] \in Seq(Int) /\ GivenEntries(l, P)[m][q] = With(l.values[m], P.values[q])
<1>1. PICK key \in Seq(Int) : key = l.values[m]
    BY GivenEntry
<1>2. GivenEntries(l, P)[m] = Prefixed(key, P)
    BY <1>1, GivenEntry
<1>3. P.values[q] \in Seq(Int) /\ Prefixed(key, P)[q] = With(key, P.values[q])
    BY PrefixedLemma
<1> QED
    BY <1>1, <1>2, <1>3

(* The new properties are all different.                                   *)
LEMMA GivenEntriesDiffer ==
    ASSUME NEW l, ValidLabels(l), NEW P, ValidLabels(P), NEW k \in 1..count(l), NEW m \in 1..count(l),
           NEW q \in 1..count(P), NEW s \in 1..count(P), GivenEntries(l, P)[k][q] = GivenEntries(l, P)[m][s]
    PROVE  k = m /\ q = s
<1>1. PICK a, v : a = l.values[k] /\ v = P.values[q]
    OBVIOUS
<1>2. PICK b, w : b = l.values[m] /\ w = P.values[s]
    OBVIOUS
<1>3. a \in Seq(Int) /\ b \in Seq(Int) /\ Len(a) = Len(b)
    BY <1>1, <1>2, GivenEntry
<1>4. v \in Seq(Int) /\ w \in Seq(Int)
    BY <1>1, <1>2, GivenEntryAt
<1>5. GivenEntries(l, P)[k][q] = With(a, v)
    <2>1. GivenEntries(l, P)[k][q] = With(l.values[k], P.values[q])
        BY GivenEntryAt
    <2> QED BY <1>1, <2>1
<1>6. GivenEntries(l, P)[m][s] = With(b, w)
    <2>1. GivenEntries(l, P)[m][s] = With(l.values[m], P.values[s])
        BY <1>3, <1>4, GivenEntryAt
    <2> QED BY <1>2, <1>3, <1>4, <2>1
<1>7. a = b /\ v = w
    <2>1. With(a, v) = With(b, w)
        BY <1>5, <1>6
    <2> QED BY <1>3, <1>4, <2>1, WithSplit
<1>8. \A x, y \in 1..count(l) : l.values[x] = l.values[y] => x = y
    BY LabelsLemma
<1>9. \A x, y \in 1..count(P) : P.values[x] = P.values[y] => x = y
    BY LabelsLemma
<1> QED
    BY <1>1, <1>2, <1>7, <1>8, <1>9

(* The properties made of given keys, in the IndexSet.                     *)
LEMMA GivenKeysLayout ==
    ASSUME NEW g, NEW n, GroupOK(g, n), NEW l, ValidLabels(l), ~ is_empty(l), NEW P,
           \A k \in 1..Len(g) : g[k].block.properties = P
    PROVE  LET r == IndexSet(Concat(GivenKeysEntries(g, l)))
           IN  ListedAs(r, Len(r), GivenEntries(l, P), count(l), GivenCounts(l, P))
<1>1. PICK ss, N, M : ss = GivenEntries(l, P) /\ N = count(P) /\ M = count(l)
    OBVIOUS
<1>2. PICK L : L = Len(g) /\ L \in Nat \ {0} /\ 1 \in 1..L
    BY DEF GroupOK
<1>3. ValidLabels(P) /\ N \in Nat
    <2>1. ValidLabels(P)
        BY <1>2 DEF GroupOK, ValidBlock
    <2> QED BY <1>1, <2>1, LabelsLemma
<1>4. M \in Nat \ {0}
    BY <1>1, LabelsLemma DEF is_empty
<1>5. ASSUME NEW m \in 1..M
      PROVE  ss[m] \in Seq(Seq(Int)) /\ Len(ss[m]) = N /\ ss[m] = Prefixed(l.values[m], P)
    <2>1. PICK h \in 1..count(l) : h = m
        BY <1>1
    <2>2. /\ GivenEntries(l, P)[h] \in Seq(Seq(Int)) /\ Len(GivenEntries(l, P)[h]) = count(P)
          /\ GivenEntries(l, P)[h] = Prefixed(l.values[h], P)
        BY <1>3, GivenEntry
    <2> QED BY <1>1, <2>1, <2>2
<1> DEFINE tt(m) == [k \in 1..L |-> ss[m]]
           cc == [m \in 1..M |-> Concat(tt(m))]
<1>6. GivenKeysEntries(g, l) = cc
    <2>1. ASSUME NEW m \in 1..M PROVE [k \in 1..Len(g) |-> Prefixed(l.values[m], g[k].block.properties)] = [k \in 1..L |-> ss[m]]
        BY <1>2, <1>5
    <2> QED BY <1>1, <2>1 DEF GivenKeysEntries
<1>7. ASSUME NEW m \in 1..M PROVE Concat(tt(m)) \in Seq(Seq(Int)) /\ \E in : Placed(Concat(tt(m)), tt(m), L, in)
    <2>1. tt(m) \in [1..L -> Seq(Seq(Int))]
        BY <1>5
    <2> HIDE DEF tt
    <2> QED BY <1>2, <2>1, ConcatOf
<1>8. /\ cc \in [1..M -> Seq(Seq(Int))]
      /\ \A m \in 1..M : \E in : Placed(cc[m], tt(m), L, in)
    BY <1>7
<1> HIDE DEF cc
<1>9. PICK in : \A m \in 1..M : Placed(cc[m], tt(m), L, in[m])
    <2> DEFINE f == [m \in 1..M |-> CHOOSE x : Placed(cc[m], tt(m), L, x)]
    <2>1. ASSUME NEW m \in 1..M PROVE Placed(cc[m], tt(m), L, f[m])
        <3> HIDE DEF tt
        <3>1. f[m] = CHOOSE x : Placed(cc[m], tt(m), L, x)
            OBVIOUS
        <3> HIDE DEF f
        <3> QED BY <1>8, <3>1
    <2> HIDE DEF tt, f
    <2> QED BY <2>1
<1>10. PICK c : c = Concat(cc)
    OBVIOUS
<1>11. c \in Seq(Seq(Int)) /\ \E start : Placed(c, cc, M, start)
    BY <1>4, <1>8, <1>10, ConcatOf
<1>12. PICK start : Placed(c, cc, M, start)
    BY <1>11
<1>13. N \in Nat /\ 1 \in 1..M
    BY <1>4, <1>5
<1>14. ASSUME NEW m \in 1..M
       PROVE  /\ Len(cc[m]) \in Nat
              /\ \A k \in 1..L : in[m][k] \in Nat /\ in[m][k] + N <= Len(cc[m])
              /\ \A k \in 1..L : \A i \in 1..N : cc[m][in[m][k] + i] = ss[m][i]
              /\ \A k \in 1..L : 1 < k => in[m][1] + N <= in[m][k]
              /\ \A x \in 1..Len(cc[m]) : \E k \in 1..L : \E i \in 1..N : x = in[m][k] + i
    <2>1. cc[m] \in Seq(Seq(Int))
        BY <1>8
    <2>2. Len(cc[m]) \in Nat
        BY <2>1
    <2>3. \A k \in 1..L : tt(m)[k] = ss[m] /\ Len(tt(m)[k]) = N
        BY <1>5
    <2>4. Placed(cc[m], tt(m), L, in[m])
        BY <1>9
    <2>5. PICK t, d, p : t = tt(m) /\ d = cc[m] /\ p = in[m]
        OBVIOUS
    <2> HIDE DEF tt
    <2>6. \A k \in 1..L : t[k] = ss[m] /\ Len(t[k]) = N
        BY <2>3, <2>5
    <2>7. Placed(d, t, L, p)
        BY <2>4, <2>5
    <2>8. \A k \in 1..L : p[k] \in Nat /\ p[k] + N <= Len(d)
        BY <2>6, <2>7 DEF Placed
    <2>9. \A k \in 1..L : \A i \in 1..N : d[p[k] + i] = ss[m][i]
        BY <2>6, <2>7 DEF Placed
    <2>10. \A k \in 1..L : 1 < k => p[1] + N <= p[k]
        BY <1>2, <2>6, <2>7 DEF Placed
    <2>11. \A x \in 1..Len(d) : \E k \in 1..L : \E i \in 1..N : x = p[k] + i
        BY <2>6, <2>7 DEF Placed
    <2> QED BY <2>2, <2>5, <2>8, <2>9, <2>10, <2>11
<1>15. /\ Len(c) \in Nat
       /\ \A m \in 1..M : start[m] \in Nat /\ start[m] + Len(cc[m]) <= Len(c)
       /\ \A m \in 1..M : \A i \in 1..Len(cc[m]) : c[start[m] + i] = cc[m][i]
       /\ \A k, m \in 1..M : k < m => start[k] + Len(cc[k]) <= start[m]
       /\ \A x \in 1..Len(c) : \E m \in 1..M : \E i \in 1..Len(cc[m]) : x = start[m] + i
    <2>1. Len(c) \in Nat
        BY <1>11
    <2> QED BY <1>12, <2>1 DEF Placed
<1>16. ASSUME NEW k \in 1..M, NEW q \in 1..N, NEW m \in 1..M, NEW s \in 1..N, ss[k][q] = ss[m][s]
       PROVE  k = m /\ q = s
    <2>1. PICK h \in 1..count(l), i \in 1..count(l) : h = k /\ i = m
        BY <1>1
    <2>2. PICK x \in 1..count(P), y \in 1..count(P) : x = q /\ y = s
        BY <1>1
    <2>3. GivenEntries(l, P)[h][x] = GivenEntries(l, P)[i][y]
        BY <1>1, <1>16, <2>1, <2>2
    <2>4. h = i /\ x = y
        BY <1>3, <2>3, GivenEntriesDiffer
    <2> QED BY <2>1, <2>2, <2>4
<1> DEFINE place == [m \in 1..M |-> [q \in 1..N |-> start[m] + in[m][1] + q]]
<1>17. \A m \in 1..M : \A q \in 1..N : place[m][q] = start[m] + in[m][1] + q
    OBVIOUS
<1> HIDE DEF place, tt
<1>18. ASSUME NEW m \in 1..M, NEW q \in 1..N
       PROVE  place[m][q] \in 1..Len(c) /\ c[place[m][q]] = ss[m][q] /\ place[m][q] <= start[m] + Len(cc[m])
    <2>1. start[m] \in Nat /\ in[m][1] \in Nat /\ in[m][1] + N <= Len(cc[m]) /\ start[m] + Len(cc[m]) <= Len(c) /\ Len(cc[m]) \in Nat
        BY <1>2, <1>14, <1>15
    <2>2. PICK u \in Nat, v \in Nat, w \in Nat : u = start[m] /\ v = in[m][1] /\ w = Len(cc[m])
        BY <2>1
    <2>3. v + N <= w /\ u + w <= Len(c) /\ q \in Nat /\ 1 <= q /\ q <= N
        BY <1>13, <2>1, <2>2
    <2>4. PICK i \in Nat : i = v + q
        BY <2>3
    <2>5. i \in 1..w /\ u + i \in 1..Len(c) /\ u + i <= u + w
        BY <1>13, <1>15, <2>3, <2>4
    <2>6. cc[m][v + q] = ss[m][q]
        BY <1>2, <1>14, <2>2
    <2>7. c[u + i] = cc[m][i]
        BY <1>15, <2>2, <2>5
    <2>8. place[m][q] = u + i
        BY <1>17, <2>2, <2>3, <2>4
    <2> QED BY <2>2, <2>4, <2>5, <2>6, <2>7, <2>8
<1>19. ASSUME NEW x \in 1..Len(c) PROVE \E m \in 1..M : \E q \in 1..N : c[x] = ss[m][q] /\ place[m][q] <= x
    <2>1. PICK m \in 1..M : \E i \in 1..Len(cc[m]) : x = start[m] + i
        BY <1>15
    <2>2. PICK i \in 1..Len(cc[m]) : x = start[m] + i
        BY <2>1
    <2>3. PICK k \in 1..L : \E q \in 1..N : i = in[m][k] + q
        BY <1>14
    <2>4. PICK q \in 1..N : i = in[m][k] + q
        BY <2>3
    <2>5. c[x] = ss[m][q]
        BY <1>14, <1>15, <2>2, <2>4
    <2>6. start[m] \in Nat /\ in[m][1] \in Nat /\ in[m][k] \in Nat /\ (1 < k => in[m][1] + N <= in[m][k])
        BY <1>2, <1>14, <1>15
    <2>7. in[m][1] <= in[m][k]
        <3>1. k = 1 \/ 1 < k
            BY <1>2
        <3> QED BY <1>13, <2>6, <3>1
    <2>8. place[m][q] <= x
        <3>1. PICK u \in Nat, v \in Nat, w \in Nat : u = start[m] /\ v = in[m][1] /\ w = in[m][k]
            BY <2>6
        <3>2. x = u + (w + q) /\ v <= w /\ q \in Nat
            BY <1>13, <2>2, <2>4, <2>7, <3>1
        <3>3. place[m][q] = u + v + q
            BY <1>17, <3>1
        <3> QED BY <3>2, <3>3
    <2> QED BY <2>5, <2>8
<1>20. ASSUME NEW k \in 1..M, NEW m \in 1..M, NEW q \in 1..N, NEW s \in 1..N, k < m \/ (k = m /\ q < s)
       PROVE  place[k][q] < place[m][s]
    <2>1. start[k] \in Nat /\ start[m] \in Nat /\ in[k][1] \in Nat /\ in[m][1] \in Nat /\ Len(cc[k]) \in Nat
        BY <1>2, <1>14, <1>15
    <2>2. CASE k < m
        <3>1. start[k] + Len(cc[k]) <= start[m]
            BY <1>15, <2>2
        <3>2. place[k][q] <= start[k] + Len(cc[k]) /\ place[k][q] \in Int
            BY <1>18
        <3>3. place[m][s] = start[m] + in[m][1] + s
            BY <1>17
        <3> QED BY <2>1, <3>1, <3>2, <3>3
    <2>3. CASE k = m /\ q < s
        BY <1>17, <2>1, <2>3
    <2> QED BY <1>20, <2>2, <2>3
<1>21. PICK NN : NN = GivenCounts(l, P)
    OBVIOUS
<1>22. Arranged(c, ss, M, NN, place)
    <2>1. \A m \in 1..M : NN[m] = N
        BY <1>1, <1>21 DEF GivenCounts
    <2>2. \A m \in 1..M : NN[m] \in Nat
        BY <1>13, <2>1
    <2>3. \A m \in 1..M : \A q \in 1..NN[m] : place[m][q] \in 1..Len(c) /\ c[place[m][q]] = ss[m][q]
        BY <1>18, <2>1
    <2>4. \A x \in 1..Len(c) : \E m \in 1..M : \E q \in 1..NN[m] : c[x] = ss[m][q] /\ place[m][q] <= x
        BY <1>19, <2>1
    <2>5. \A m, k \in 1..M : \A q \in 1..NN[m], s \in 1..NN[k] :
              m < k \/ (m = k /\ q < s) => place[m][q] < place[k][s]
        BY <1>20, <2>1
    <2>6. \A m, k \in 1..M : \A q \in 1..NN[m], s \in 1..NN[k] : ss[m][q] = ss[k][s] => m = k /\ q = s
        BY <1>16, <2>1
    <2> QED BY <2>2, <2>3, <2>4, <2>5, <2>6 DEF Arranged
<1>23. ListedAs(IndexSet(c), Len(IndexSet(c)), ss, M, NN)
    BY <1>4, <1>11, <1>22, ArrangedLemma
<1> QED
    BY <1>1, <1>6, <1>10, <1>21, <1>23

(* Where the columns of one m start.                                       *)
StartsAt(l, e, n, m, f, x) ==
    /\ f \in Entries(l) /\ x \in Nat /\ x = position(l, f) - 1
    /\ \A q \in 1..n[m] : x + q \in 1..count(l) /\ l.values[x + q] = e[m][q]

(* The columns start where the first of their entries is found.            *)
LEMMA StartOf ==
    ASSUME NEW l, l.values \in Seq(Seq(Int)), NEW e, NEW M \in Nat, NEW n, ListedAs(l.values, count(l), e, M, n),
           NEW m \in 1..M, 1 \in 1..n[m], NEW f, f = e[m][1]
    PROVE  \E x : StartsAt(l, e, n, m, f, x)
<1>1. PICK c \in Nat : c = count(l)
    BY DEF count
<1>2. PICK r : r = l.values
    OBVIOUS
<1>3. \E a \in 1..c : r[a] = f
    BY <1>1, <1>2 DEF ListedAs
<1>4. PICK a \in 1..c : a = position(l, f) /\ r[a] = f
    BY <1>1, <1>2, <1>3 DEF position
<1>5. \A q \in 1..n[m] : a + q - 1 \in 1..c /\ r[a + q - 1] = e[m][q]
    <2>1. ListedAs(r, c, e, M, n) /\ r[a] = e[m][1]
        BY <1>1, <1>2, <1>4
    <2>2. InARow(r, c, e, n, m, a)
        BY <2>1, Contiguous
    <2> QED BY <2>2 DEF InARow
<1>6. PICK x \in Nat : x = a - 1 /\ \A q \in 1..n[m] : x + q \in 1..c /\ r[x + q] = e[m][q]
    <2>1. PICK x \in Nat : x = a - 1
        BY <1>4
    <2>2. ASSUME NEW q \in 1..n[m] PROVE x + q \in 1..c /\ r[x + q] = e[m][q]
        <3>1. a + q - 1 \in 1..c /\ r[a + q - 1] = e[m][q] /\ q \in Int
            BY <1>5
        <3>2. x + q = a + q - 1
            BY <2>1, <3>1
        <3> QED BY <3>1, <3>2
    <2> QED BY <2>1, <2>2
<1>7. f \in Entries(l)
    <2>1. ToSet(l.values) = {l.values[y] : y \in 1..Len(l.values)}
        BY SeqLemma
    <2> QED BY <1>1, <1>2, <1>4, <2>1 DEF Entries, count
<1>8. StartsAt(l, e, n, m, f, x)
    BY <1>1, <1>2, <1>4, <1>6, <1>7 DEF StartsAt
<1> QED
    BY <1>8

(* The label of a column of a block in the merged one.                     *)
ColumnOf(b, q) ==
    IF Along("samples") THEN b.block.properties.values[q] ELSE With(b.key, b.block.properties.values[q])

(* Whether the blocks of this key were asked for.                          *)
Wanted(key) == is_empty(call.keys_to_move) \/ key \in Entries(call.keys_to_move)

(***************************************************************************)
(* The columns of a block follow each other in the merged one, with the    *)
(* labels that they must have; only blocks without properties or that were *)
(* not asked for have no place.                                            *)
(***************************************************************************)
StartIsRight(b) ==
    /\ \/ property_start(b) = -1
       \/ /\ property_start(b) \in Nat
          /\ \A q \in 1..count(b.block.properties) :
                /\ property_start(b) + q \in 1..count(new_properties)
                /\ new_properties.values[property_start(b) + q] = ColumnOf(b, q)
    /\ count(b.block.properties) # 0 => (property_start(b) # -1 <=> Wanted(b.key))

(* property_start finds the columns of a block that was asked for.         *)
LEMMA StartsLemma ==
    ASSUME CallInv, ~ Refused, Len(new_blocks) \in 0..(count(splitted_keys) - 1), ~ CanNotMerge,
           new_block.properties = new_properties, NEW k \in 1..Len(group)
    PROVE  StartIsRight(group[k])
<1>1. GroupOK(group, Len(names_to_move)) /\ \A x, y \in 1..Len(group) : group[x].key = group[y].key => x = y
    BY GroupLemma, GroupKeysDiffer
<1>2. PICK g, n : g = group /\ n = Len(names_to_move)
    OBVIOUS
<1>3. GroupOK(g, n) /\ (\A x, y \in 1..Len(g) : g[x].key = g[y].key => x = y) /\ k \in 1..Len(g)
    BY <1>1, <1>2
<1>4. PICK P, c : P = g[k].block.properties /\ c = count(P)
    OBVIOUS
<1>5. ValidLabels(P) /\ c \in Nat /\ g[k].key \in Seq(Int) /\ Len(g[k].key) = n /\ Len(g) \in Nat \ {0} /\ n \in Nat
    <2>1. ValidLabels(P) /\ g[k].key \in Seq(Int) /\ Len(g[k].key) = n /\ Len(g) \in Nat \ {0} /\ n \in Nat
        BY <1>3, <1>4 DEF GroupOK, ValidBlock
    <2> QED BY <1>4, <2>1, LabelsLemma
<1>6. CASE Along("samples")
    <2>1. is_empty(call.keys_to_move)
        BY <1>6 DEF Refused
    <2>2. P = first_block.properties
        BY <1>2, <1>4, <1>6 DEF CanNotMerge
    <2>3. new_properties = P
        BY <1>6, <2>2 DEF new_properties
    <2>4. property_start(group[k]) = 0
        BY <1>6 DEF property_start
    <2>5. \A q \in 1..c : 0 + q \in 1..c /\ ColumnOf(group[k], q) = P.values[q] /\ 0 + q = q
        BY <1>2, <1>4, <1>5, <1>6 DEF ColumnOf
    <2>6. Wanted(group[k].key)
        BY <2>1 DEF Wanted
    <2> QED BY <1>2, <1>4, <2>3, <2>4, <2>5, <2>6 DEF StartIsRight
<1>7. CASE ~ Along("samples") /\ c = 0
    <2>1. property_start(group[k]) = -1
        BY <1>2, <1>4, <1>7 DEF property_start, is_empty
    <2> QED BY <1>2, <1>4, <1>7, <2>1 DEF StartIsRight
<1>8. ASSUME ~ Along("samples"), c # 0
      PROVE  /\ new_properties.values = new_property_values
             /\ property_start(group[k]) = IF With(g[k].key, P.values[1]) \in Entries(new_properties)
                                           THEN position(new_properties, With(g[k].key, P.values[1])) - 1 ELSE -1
             /\ \A q \in 1..c : ColumnOf(group[k], q) = With(g[k].key, P.values[q])
    <2>1. new_properties.values = new_property_values
        BY <1>8 DEF new_properties, Labels
    <2>2. property_start(group[k]) = IF With(g[k].key, P.values[1]) \in Entries(new_properties)
                                     THEN position(new_properties, With(g[k].key, P.values[1])) - 1 ELSE -1
        BY <1>2, <1>4, <1>8, Zenon DEF property_start, is_empty, With
    <2> QED BY <1>2, <1>4, <1>8, <2>1, <2>2 DEF ColumnOf
<1>9. new_properties.values \in Seq(Seq(Int))
    BY PropertiesLemma
<1>10. CASE ~ Along("samples") /\ c # 0 /\ is_empty(call.keys_to_move)
    <2>1. all_property_values = Concat(OwnEntries(g))
        BY <1>2, <1>10 DEF all_property_values, OwnEntries
    <2>2. PICK l : l = new_properties
        OBVIOUS
    <2>3. l.values \in Seq(Seq(Int)) /\ l.values = IndexSet(Concat(OwnEntries(g)))
        BY <1>8, <1>9, <1>10, <2>1, <2>2 DEF new_property_values
    <2>4. ListedAs(l.values, count(l), OwnEntries(g), Len(g), OwnCounts(g))
        BY <1>3, <2>3, OwnKeysLayout DEF count
    <2>5. OwnCounts(g)[k] = c /\ 1 \in 1..OwnCounts(g)[k]
        BY <1>3, <1>4, <1>5, <1>10 DEF OwnCounts
    <2>6. \A q \in 1..c : OwnEntries(g)[k][q] = With(g[k].key, P.values[q])
        BY <1>3, <1>4, <2>5, OwnEntryAt
    <2>7. PICK f, e, N, M : f = With(g[k].key, P.values[1]) /\ e = OwnEntries(g) /\ N = OwnCounts(g) /\ M = Len(g)
        OBVIOUS
    <2>8. f = e[k][1] /\ M \in Nat /\ k \in 1..M /\ ListedAs(l.values, count(l), e, M, N) /\ 1 \in 1..N[k]
        BY <1>3, <1>5, <2>4, <2>5, <2>6, <2>7
    <2>9. PICK x : StartsAt(l, e, N, k, f, x)
        BY <2>3, <2>8, StartOf
    <2>10. \A q \in 1..c : x + q \in 1..count(l) /\ l.values[x + q] = ColumnOf(group[k], q)
        BY <1>8, <1>10, <2>5, <2>6, <2>7, <2>9 DEF StartsAt
    <2>11. property_start(group[k]) = x /\ x \in Nat /\ x # -1
        BY <1>8, <1>10, <2>2, <2>7, <2>9 DEF StartsAt
    <2>12. Wanted(group[k].key)
        BY <1>10 DEF Wanted
    <2> QED BY <1>2, <1>4, <2>2, <2>10, <2>11, <2>12 DEF StartIsRight
<1>11. CASE ~ Along("samples") /\ c # 0 /\ ~ is_empty(call.keys_to_move)
    <2>1. PICK K : K = call.keys_to_move
        OBVIOUS
    <2>2. ValidLabels(K) /\ ~ is_empty(K) /\ Len(names_to_move) = size(K)
        BY <1>11, <2>1 DEF CallInv, names_to_move, size
    <2>3. \A x \in 1..Len(g) : g[x].block.properties = P
        BY <1>2, <1>3, <1>4, <1>11 DEF CanNotMerge
    <2>4. all_property_values = Concat(GivenKeysEntries(g, K))
        BY <1>2, <1>11, <2>1 DEF all_property_values, GivenKeysEntries
    <2>5. PICK l : l = new_properties
        OBVIOUS
    <2>6. l.values \in Seq(Seq(Int)) /\ l.values = IndexSet(Concat(GivenKeysEntries(g, K)))
        BY <1>8, <1>9, <1>11, <2>4, <2>5 DEF new_property_values
    <2>7. ListedAs(l.values, count(l), GivenEntries(K, P), count(K), GivenCounts(K, P))
        BY <1>3, <2>2, <2>3, <2>6, GivenKeysLayout DEF count
    <2>8. count(K) \in Nat /\ \A m \in 1..count(K) : GivenCounts(K, P)[m] = c /\ 1 \in 1..c
        <3>1. count(K) \in Nat
            BY <2>2, LabelsLemma
        <3> QED BY <1>4, <1>5, <1>11, <3>1 DEF GivenCounts
    <2>9. PICK f : f = With(g[k].key, P.values[1])
        OBVIOUS
    <2>10. ASSUME NEW m \in 1..count(K), K.values[m] = g[k].key
           PROVE  StartIsRight(group[k])
        <3>1. \A q \in 1..c : GivenEntries(K, P)[m][q] = With(g[k].key, P.values[q])
            BY <1>4, <1>5, <2>2, <2>10, GivenEntryAt
        <3>2. 1 \in 1..c /\ GivenCounts(K, P)[m] = c
            BY <2>8
        <3>3. GivenEntries(K, P)[m][1] = f
            BY <2>9, <3>1, <3>2
        <3>9. PICK e, N, M : e = GivenEntries(K, P) /\ N = GivenCounts(K, P) /\ M = count(K)
            OBVIOUS
        <3>10. f = e[m][1] /\ M \in Nat /\ m \in 1..M /\ ListedAs(l.values, count(l), e, M, N) /\ 1 \in 1..N[m] /\ N[m] = c
            BY <2>7, <2>8, <3>2, <3>3, <3>9
        <3>5. PICK x : StartsAt(l, e, N, m, f, x)
            BY <2>6, <3>10, StartOf
        <3>6. \A q \in 1..c : x + q \in 1..count(l) /\ l.values[x + q] = ColumnOf(group[k], q)
            BY <1>8, <1>11, <3>1, <3>5, <3>9, <3>10 DEF StartsAt
        <3>7. property_start(group[k]) = x /\ x \in Nat /\ x # -1
            BY <1>8, <1>11, <2>5, <2>9, <3>5 DEF StartsAt
        <3>8. Wanted(group[k].key)
            <4>2. PICK s \in Seq(Seq(Int)) : s = K.values
                BY <2>2 DEF ValidLabels
            <4>1. ToSet(s) = {s[i] : i \in 1..Len(s)}
                BY SeqLemma
            <4> QED BY <1>2, <2>1, <2>10, <4>1, <4>2 DEF Wanted, Entries, count
        <3> QED BY <1>2, <1>4, <2>5, <3>6, <3>7, <3>8 DEF StartIsRight
    <2>11. ASSUME \A m \in 1..count(K) : K.values[m] # g[k].key
           PROVE  StartIsRight(group[k])
        <3>1. f \notin Entries(l)
            <4> SUFFICES ASSUME f \in Entries(l) PROVE FALSE
                OBVIOUS
            <4>1. ToSet(l.values) = {l.values[i] : i \in 1..Len(l.values)}
                BY <2>6, SeqLemma
            <4>2. PICK a \in 1..count(l) : l.values[a] = f
                BY <4>1 DEF Entries, count
            <4>3. PICK m \in 1..count(K) : \E q \in 1..c : f = GivenEntries(K, P)[m][q]
                <5>1. PICK r, e, N, M, C : r = l.values /\ e = GivenEntries(K, P) /\ N = GivenCounts(K, P) /\ M = count(K) /\ C = count(l)
                    OBVIOUS
                <5>2. ListedAs(r, C, e, M, N) /\ a \in 1..C /\ \A m \in 1..M : N[m] = c
                    BY <2>7, <2>8, <5>1
                <5>3. \E m \in 1..M : \E q \in 1..N[m] : r[a] = e[m][q]
                    BY <5>2 DEF ListedAs
                <5>4. PICK m \in 1..M : \E q \in 1..N[m] : r[a] = e[m][q]
                    BY <5>3
                <5> QED BY <4>2, <5>1, <5>2, <5>4
            <4>4. PICK q \in 1..c : f = GivenEntries(K, P)[m][q]
                BY <4>3
            <4>5. P.values[q] \in Seq(Int) /\ f = With(K.values[m], P.values[q])
                BY <1>4, <1>5, <2>2, <4>4, GivenEntryAt
            <4>6. K.values[m] \in Seq(Int) /\ Len(K.values[m]) = n
                BY <1>2, <1>5, <2>2, GivenEntry
            <4>7. P.values[1] \in Seq(Int)
                <5>1. 1 \in 1..count(P)
                    BY <1>4, <1>5, <1>11
                <5> QED BY <1>5, <5>1, LabelsLemma
            <4>8. PICK a_ \in Seq(Int), b_ \in Seq(Int), v \in Seq(Int), w \in Seq(Int) :
                      a_ = g[k].key /\ b_ = K.values[m] /\ v = P.values[1] /\ w = P.values[q]
                BY <1>5, <4>5, <4>6, <4>7
            <4>9. With(a_, v) = With(b_, w) /\ Len(a_) = Len(b_)
                BY <1>5, <2>9, <4>5, <4>6, <4>8
            <4>10. a_ = b_
                BY <4>9, WithSplit
            <4> QED BY <2>11, <4>8, <4>10
        <3>2. property_start(group[k]) = -1
            BY <1>8, <1>11, <2>5, <2>9, <3>1
        <3>3. ~ Wanted(group[k].key)
            <4>2. PICK s \in Seq(Seq(Int)) : s = K.values
                BY <2>2 DEF ValidLabels
            <4>1. ToSet(s) = {s[i] : i \in 1..Len(s)}
                BY SeqLemma
            <4> QED BY <1>2, <1>11, <2>1, <2>11, <4>1, <4>2 DEF Wanted, Entries, count
        <3> QED BY <3>2, <3>3 DEF StartIsRight
    <2> QED BY <2>10, <2>11
<1> QED
    BY <1>6, <1>7, <1>10, <1>11

-----------------------------------------------------------------------------
(* What is moved *)

(* Where a cell of a block goes in the merged one.                         *)
Target(mapping, start, ix) == <<mapping[ix[1]], ix[2], start + ix[3]>>

(***************************************************************************)
(* The cells of the first d of the blocks that have a place in the merged  *)
(* one are there, and there is nothing else but zeros.                     *)
(***************************************************************************)
Transferred(out, ins, maps, starts, d) ==
    /\ \A k \in 1..d : starts[k] # -1 =>
          \A ix \in DOMAIN ins[k] : /\ Target(maps[k], starts[k], ix) \in DOMAIN out
                                    /\ out[Target(maps[k], starts[k], ix)] = ins[k][ix]
    /\ \A at \in DOMAIN out : out[at] # Zero =>
          \E k \in 1..d : starts[k] # -1 /\ \E ix \in DOMAIN ins[k] : at = Target(maps[k], starts[k], ix)

(* No two blocks have a cell that goes to the same place.                  *)
Apart(ins, maps, starts, d) ==
    \A k, l \in 1..d : k # l /\ starts[k] # -1 /\ starts[l] # -1 =>
        \A ix \in DOMAIN ins[k], iy \in DOMAIN ins[l] : Target(maps[k], starts[k], ix) # Target(maps[l], starts[l], iy)

(* A block of N rows and n columns fits in one of R rows and W columns.    *)
Fits(in, map, start, N, n, R, C, W) ==
    /\ N \in Nat /\ n \in Nat /\ R \in Nat /\ C \in Nat /\ W \in Nat
    /\ DOMAIN in = (1..N) \X (1..C) \X (1..n)
    /\ map \in [1..N -> 1..R] /\ Len(map) = N
    /\ \A i, h \in 1..N : map[i] = map[h] => i = h
    /\ start = -1 \/ (start \in Nat /\ \A q \in 1..n : start + q \in 1..W)

(* move_samples_from writes the cells of one block, and no other cell.     *)
Written(new, out, in, map, start) ==
    /\ DOMAIN new = DOMAIN out
    /\ \A ix \in DOMAIN in : Target(map, start, ix) \in DOMAIN out /\ new[Target(map, start, ix)] = in[ix]
    /\ \A at \in DOMAIN out : (\A ix \in DOMAIN in : at # Target(map, start, ix)) => new[at] = out[at]

(* So it does when the block fits.                                         *)
LEMMA MovedCells ==
    ASSUME NEW out, NEW in, NEW map, NEW start \in Nat, NEW N, NEW n, NEW R, NEW C, NEW W,
           Fits(in, map, start, N, n, R, C, W), DOMAIN out = (1..R) \X (1..C) \X (1..W)
    PROVE  Written(move_samples_from(out, in, map, start, n), out, in, map, start)
<1> DEFINE new == move_samples_from(out, in, map, start, n)
           Hit(at) == \E i \in 1..Len(map) : map[i] = at[1] /\ at[3] > start /\ at[3] <= start + n
           From(at) == CHOOSE i \in 1..Len(map) : map[i] = at[1]
<1>1. /\ DOMAIN new = DOMAIN out
      /\ \A at \in DOMAIN out : new[at] = IF Hit(at) THEN in[<<From(at), at[2], at[3] - start>>] ELSE out[at]
    BY DEF move_samples_from
<1> HIDE DEF new
<1>2. /\ N \in Nat /\ n \in Nat /\ R \in Nat /\ C \in Nat /\ W \in Nat
      /\ DOMAIN in = (1..N) \X (1..C) \X (1..n)
      /\ map \in [1..N -> 1..R] /\ Len(map) = N
      /\ \A i, h \in 1..N : map[i] = map[h] => i = h
      /\ \A q \in 1..n : start + q \in 1..W
    BY DEF Fits
<1>3. ASSUME NEW i \in 1..N, NEW c \in 1..C, NEW q \in 1..n
      PROVE  /\ <<map[i], c, start + q>> \in DOMAIN out
             /\ new[<<map[i], c, start + q>>] = in[<<i, c, q>>]
    <2>6. PICK r \in 1..R, z \in 1..W : r = map[i] /\ z = start + q
        BY <1>2
    <2>7. PICK at : at = <<r, c, z>>
        OBVIOUS
    <2>1. at = <<map[i], c, start + q>> /\ at[1] = map[i] /\ at[2] = c /\ at[3] = start + q
        BY <2>6, <2>7
    <2>2. at \in DOMAIN out
        BY <1>2, <2>1
    <2>3. Hit(at)
        BY <1>2, <2>1
    <2>4. From(at) = i
        BY <1>2, <2>1
    <2>5. at[3] - start = q
        BY <2>1
    <2> HIDE DEF Hit, From
    <2> QED BY <1>1, <2>1, <2>2, <2>3, <2>4, <2>5
<1>4. ASSUME NEW ix \in DOMAIN in
      PROVE  Target(map, start, ix) \in DOMAIN out /\ new[Target(map, start, ix)] = in[ix]
    <2>1. ix[1] \in 1..N /\ ix[2] \in 1..C /\ ix[3] \in 1..n /\ ix = <<ix[1], ix[2], ix[3]>>
        BY <1>2
    <2> QED BY <1>3, <2>1 DEF Target
<1>5. ASSUME NEW at \in DOMAIN out, \A ix \in DOMAIN in : at # Target(map, start, ix)
      PROVE  new[at] = out[at]
    <2>1. at[1] \in 1..R /\ at[2] \in 1..C /\ at[3] \in 1..W /\ at = <<at[1], at[2], at[3]>>
        OBVIOUS
    <2>2. ASSUME Hit(at) PROVE FALSE
        <3>1. PICK i \in 1..N : map[i] = at[1] /\ at[3] > start /\ at[3] <= start + n
            BY <1>2, <2>2
        <3>2. at[3] - start \in 1..n
            BY <1>2, <2>1, <3>1
        <3>6. PICK c \in 1..C, q \in 1..n : c = at[2] /\ q = at[3] - start
            BY <2>1, <3>2
        <3>7. PICK ix : ix = <<i, c, q>>
            OBVIOUS
        <3>3. ix \in DOMAIN in /\ ix[1] = i /\ ix[2] = at[2] /\ ix[3] = at[3] - start
            BY <1>2, <3>6, <3>7
        <3>4. start + ix[3] = at[3]
            BY <2>1, <3>3
        <3>5. at = Target(map, start, ix)
            BY <2>1, <3>1, <3>3, <3>4 DEF Target
        <3> QED BY <1>5, <3>3, <3>5
    <2> HIDE DEF Hit, From
    <2> QED BY <1>1, <2>2
<1> QED
    BY <1>1, <1>4, <1>5 DEF new, Written

(* The cells of an array of R rows, and one step of the loop over the      *)
(* blocks.                                                                 *)
Shape(out, R, C, W) == DOMAIN out = (1..R) \X (1..C) \X (1..W)
IsMoved(new, out, in, map, start, n) == new = IF start = -1 THEN out ELSE move_samples_from(out, in, map, start, n)

(* One more block is moved.                                                *)
LEMMA TransferOne ==
    ASSUME NEW out, NEW ins, NEW maps, NEW starts, NEW d \in Nat, NEW k, k = d + 1,
           NEW N, NEW n, NEW R, NEW C, NEW W, Fits(ins[k], maps[k], starts[k], N, n, R, C, W),
           Shape(out, R, C, W), Apart(ins, maps, starts, k), Transferred(out, ins, maps, starts, d),
           NEW new, IsMoved(new, out, ins[k], maps[k], starts[k], n)
    PROVE  Transferred(new, ins, maps, starts, k)
<1>1. CASE starts[k] = -1
    <2>1. new = out
        BY <1>1 DEF IsMoved
    <2>2. \A l \in 1..k : l \in 1..d \/ l = k
        OBVIOUS
    <2>3. \A l \in 1..d : l \in 1..k
        OBVIOUS
    <2> QED BY <1>1, <2>1, <2>2, <2>3 DEF Transferred
<1>2. CASE starts[k] # -1
    <2>1. starts[k] \in Nat
        BY <1>2 DEF Fits
    <2>2. new = move_samples_from(out, ins[k], maps[k], starts[k], n)
        BY <1>2 DEF IsMoved
    <2>3. /\ DOMAIN new = DOMAIN out
          /\ \A ix \in DOMAIN ins[k] : /\ Target(maps[k], starts[k], ix) \in DOMAIN out
                                       /\ new[Target(maps[k], starts[k], ix)] = ins[k][ix]
          /\ \A at \in DOMAIN out : (\A ix \in DOMAIN ins[k] : at # Target(maps[k], starts[k], ix)) => new[at] = out[at]
        <3>1. PICK in, map, start : in = ins[k] /\ map = maps[k] /\ start = starts[k] /\ start \in Nat
            BY <2>1
        <3>2. Written(new, out, in, map, start)
            BY <2>2, <3>1, MovedCells DEF Shape
        <3> QED BY <3>1, <3>2 DEF Written
    <2>4. k \in 1..k /\ (\A l \in 1..k : l = k \/ (l \in 1..d /\ l # k)) /\ \A l \in 1..d : l \in 1..k
        OBVIOUS
    <2>5. ASSUME NEW l \in 1..k, starts[l] # -1, NEW ix \in DOMAIN ins[l]
          PROVE  Target(maps[l], starts[l], ix) \in DOMAIN new /\ new[Target(maps[l], starts[l], ix)] = ins[l][ix]
        <3>1. CASE l = k
            BY <2>3, <3>1
        <3>2. CASE l \in 1..d /\ l # k
            <4>1. PICK at : at = Target(maps[l], starts[l], ix)
                OBVIOUS
            <4>2. at \in DOMAIN out /\ out[at] = ins[l][ix]
                BY <2>5, <3>2, <4>1 DEF Transferred
            <4>3. \A iy \in DOMAIN ins[k] : at # Target(maps[k], starts[k], iy)
                BY <1>2, <2>4, <2>5, <3>2, <4>1 DEF Apart
            <4> QED BY <2>3, <4>1, <4>2, <4>3
        <3> QED BY <2>4, <3>1, <3>2
    <2>6. ASSUME NEW at \in DOMAIN new, new[at] # Zero
          PROVE  \E l \in 1..k : starts[l] # -1 /\ \E ix \in DOMAIN ins[l] : at = Target(maps[l], starts[l], ix)
        <3>1. CASE \E ix \in DOMAIN ins[k] : at = Target(maps[k], starts[k], ix)
            BY <1>2, <2>4, <3>1
        <3>2. CASE \A ix \in DOMAIN ins[k] : at # Target(maps[k], starts[k], ix)
            <4>1. at \in DOMAIN out /\ out[at] # Zero
                BY <2>3, <2>6, <3>2
            <4>2. \E l \in 1..d : starts[l] # -1 /\ \E ix \in DOMAIN ins[l] : at = Target(maps[l], starts[l], ix)
                BY <4>1 DEF Transferred
            <4> QED BY <2>4, <4>2
        <3> QED BY <3>1, <3>2
    <2> QED BY <2>5, <2>6 DEF Transferred
<1> QED
    BY <1>1, <1>2

(***************************************************************************)
(* Where the blocks g are in the merged block b: the labels of their rows  *)
(* and of their columns, with the moved key on one of the two sides.       *)
(***************************************************************************)
RowLabel(g, k, i, op) ==
    IF op = "samples" THEN With(g[k].block.samples.values[i], g[k].key) ELSE g[k].block.samples.values[i]
ColumnLabel(g, k, q, op) ==
    IF op = "samples" THEN g[k].block.properties.values[q] ELSE With(g[k].key, g[k].block.properties.values[q])

(* The rows and the columns of the blocks have their labels in the new one.*)
Aligned(g, n, b, starts, op) ==
    /\ GroupOK(g, n)
    /\ \A k, m \in 1..Len(g) : g[k].key = g[m].key => k = m
    /\ count(b.samples) \in Nat /\ count(b.properties) \in Nat
    /\ \A k \in 1..Len(g) :
          /\ b.mappings[k] \in [1..count(g[k].block.samples) -> 1..count(b.samples)]
          /\ Len(b.mappings[k]) = count(g[k].block.samples)
    /\ \A k \in 1..Len(g) : \A i \in 1..count(g[k].block.samples) :
          b.samples.values[b.mappings[k][i]] = RowLabel(g, k, i, op)
    /\ \A k \in 1..Len(g) :
          starts[k] = -1 \/ (starts[k] \in Nat /\ \A q \in 1..count(g[k].block.properties) :
                                starts[k] + q \in 1..count(b.properties))
    /\ \A k \in 1..Len(g) : \A q \in 1..count(g[k].block.properties) :
          starts[k] # -1 => b.properties.values[starts[k] + q] = ColumnLabel(g, k, q, op)
    /\ DOMAIN b.gradients = DOMAIN g[1].block.gradients
    /\ \A p \in DOMAIN b.gradients : b.gradients[p].samples = merge_gradient_samples(g, p, b.mappings)

(* The sizes of the blocks.                                                *)
LEMMA GroupSizes ==
    ASSUME NEW g, NEW n, GroupOK(g, n), NEW k \in 1..Len(g)
    PROVE  /\ Len(g) \in Nat \ {0} /\ 1 \in 1..Len(g) /\ n \in Nat
           /\ g[k].key \in Seq(Int) /\ Len(g[k].key) = n
           /\ ValidLabels(g[k].block.samples) /\ ValidLabels(g[k].block.properties)
           /\ g[k].block.samples.names = g[1].block.samples.names
           /\ g[k].block.properties.names = g[1].block.properties.names
           /\ count(g[k].block.samples) \in Nat /\ count(g[k].block.properties) \in Nat
           /\ \A i \in 1..count(g[k].block.samples) :
                 /\ g[k].block.samples.values[i] \in Seq(Int)
                 /\ Len(g[k].block.samples.values[i]) = size(g[1].block.samples)
           /\ \A q \in 1..count(g[k].block.properties) :
                 /\ g[k].block.properties.values[q] \in Seq(Int)
                 /\ Len(g[k].block.properties.values[q]) = size(g[1].block.properties)
<1>1. /\ Len(g) \in Nat \ {0} /\ n \in Nat /\ g[k].key \in Seq(Int) /\ Len(g[k].key) = n
      /\ ValidBlock(g[k].block) /\ Names(g[k].block) = Names(g[1].block)
    BY DEF GroupOK
<1>2. 1 \in 1..Len(g)
    BY <1>1
<1>3. ValidLabels(g[k].block.samples) /\ ValidLabels(g[k].block.properties)
    BY <1>1 DEF ValidBlock
<1>4. /\ g[k].block.samples.names = g[1].block.samples.names
      /\ g[k].block.properties.names = g[1].block.properties.names
    BY <1>1 DEF Names
<1>5. PICK S, P : S = g[k].block.samples /\ P = g[k].block.properties
    OBVIOUS
<1>6. /\ count(S) \in Nat /\ \A i \in 1..count(S) : S.values[i] \in Seq(Int) /\ Len(S.values[i]) = size(S)
      /\ count(P) \in Nat /\ \A i \in 1..count(P) : P.values[i] \in Seq(Int) /\ Len(P.values[i]) = size(P)
    BY <1>3, <1>5, LabelsLemma
<1>7. size(S) = size(g[1].block.samples) /\ size(P) = size(g[1].block.properties)
    BY <1>4, <1>5 DEF size
<1> QED
    BY <1>1, <1>2, <1>3, <1>4, <1>5, <1>6, <1>7

(* Rows of different blocks, or of one, that are merged say the same.      *)
LEMMA MergedRows ==
    ASSUME NEW g, NEW n, NEW b, NEW starts, NEW op, Aligned(g, n, b, starts, op), NEW k \in 1..Len(g), NEW l \in 1..Len(g),
           NEW i \in 1..count(g[k].block.samples), NEW h \in 1..count(g[l].block.samples),
           b.mappings[k][i] = b.mappings[l][h]
    PROVE  /\ g[k].block.samples.values[i] = g[l].block.samples.values[h]
           /\ op = "samples" => k = l
           /\ k = l => i = h
<1>1. GroupOK(g, n)
    BY DEF Aligned
<1>2. PICK v, w, K, L : v = g[k].block.samples.values[i] /\ w = g[l].block.samples.values[h] /\ K = g[k].key /\ L = g[l].key
    OBVIOUS
<1>3. v \in Seq(Int) /\ Len(v) = size(g[1].block.samples) /\ K \in Seq(Int)
    BY <1>1, <1>2, GroupSizes
<1>4. w \in Seq(Int) /\ Len(w) = size(g[1].block.samples) /\ L \in Seq(Int)
    BY <1>1, <1>2, GroupSizes
<1>5. RowLabel(g, k, i, op) = RowLabel(g, l, h, op)
    BY DEF Aligned
<1>6. v = w /\ (op = "samples" => K = L)
    <2>1. CASE op = "samples"
        <3>1. With(v, K) = With(w, L)
            BY <1>2, <1>5, <2>1 DEF RowLabel
        <3> QED BY <1>3, <1>4, <3>1, WithSplit
    <2>2. CASE op # "samples"
        BY <1>2, <1>5, <2>2 DEF RowLabel
    <2> QED BY <2>1, <2>2
<1>7. op = "samples" => k = l
    BY <1>2, <1>6 DEF Aligned
<1>8. k = l => i = h
    <2> SUFFICES ASSUME k = l PROVE i = h
        OBVIOUS
    <2>1. PICK S : S = g[k].block.samples
        OBVIOUS
    <2>2. ValidLabels(S)
        BY <1>1, <2>1, GroupSizes
    <2>3. \A x, y \in 1..count(S) : S.values[x] = S.values[y] => x = y
        BY <2>2, LabelsLemma
    <2> QED BY <1>2, <1>6, <2>1, <2>3
<1> QED
    BY <1>2, <1>6, <1>7, <1>8

(* Cells of two blocks that would be merged are of the same block.         *)
LEMMA MergedCells ==
    ASSUME NEW g, NEW n, NEW b, NEW starts, NEW op, Aligned(g, n, b, starts, op), NEW k \in 1..Len(g), NEW l \in 1..Len(g),
           NEW i \in 1..count(g[k].block.samples), NEW h \in 1..count(g[l].block.samples),
           NEW q \in 1..count(g[k].block.properties), NEW s \in 1..count(g[l].block.properties),
           starts[k] # -1, starts[l] # -1,
           b.mappings[k][i] = b.mappings[l][h], starts[k] + q = starts[l] + s
    PROVE  k = l
<1>1. CASE op = "samples"
    BY <1>1, MergedRows
<1>2. CASE op # "samples"
    <2>1. GroupOK(g, n)
        BY DEF Aligned
    <2>2. PICK v, w, K, L : v = g[k].block.properties.values[q] /\ w = g[l].block.properties.values[s] /\ K = g[k].key /\ L = g[l].key
        OBVIOUS
    <2>3. v \in Seq(Int) /\ K \in Seq(Int) /\ Len(K) = n
        BY <2>1, <2>2, GroupSizes
    <2>4. w \in Seq(Int) /\ L \in Seq(Int) /\ Len(L) = n
        BY <2>1, <2>2, GroupSizes
    <2>5. ColumnLabel(g, k, q, op) = ColumnLabel(g, l, s, op)
        <3>1. ColumnLabel(g, k, q, op) = b.properties.values[starts[k] + q]
            BY DEF Aligned
        <3>2. ColumnLabel(g, l, s, op) = b.properties.values[starts[l] + s]
            BY DEF Aligned
        <3> QED BY <3>1, <3>2
    <2>6. With(K, v) = With(L, w)
        BY <1>2, <2>2, <2>5 DEF ColumnLabel
    <2>7. K = L
        BY <2>3, <2>4, <2>6, WithSplit
    <2> QED BY <2>2, <2>7 DEF Aligned
<1> QED
    BY <1>1, <1>2

(* So the values of the blocks go to different cells.                      *)
ValuesOf(g) == [k \in 1..Len(g) |-> g[k].block.values]

(* The values of a block fit in those of the new one.                      *)
LEMMA ValuesFit ==
    ASSUME NEW g, NEW n, NEW b, NEW starts, NEW op, Aligned(g, n, b, starts, op), NEW k \in 1..Len(g),
           g[k].block.components = g[1].block.components
    PROVE  Fits(ValuesOf(g)[k], b.mappings[k], starts[k], count(g[k].block.samples), count(g[k].block.properties),
                count(b.samples), count(g[1].block.components), count(b.properties))
<1>1. GroupOK(g, n)
    BY DEF Aligned
<1>2. count(g[k].block.samples) \in Nat /\ count(g[k].block.properties) \in Nat
    BY <1>1, GroupSizes
<1>3. ValidBlock(g[k].block)
    BY <1>1 DEF GroupOK
<1>4. count(g[k].block.components) \in Nat
    BY <1>3, LabelsLemma DEF ValidBlock
<1>5. DOMAIN ValuesOf(g)[k] = (1..count(g[k].block.samples)) \X (1..count(g[1].block.components)) \X (1..count(g[k].block.properties))
    BY <1>3 DEF ValidBlock, TensorBlock_allowed, IsArray, Cells, ValuesOf
<1>6. \A i, h \in 1..count(g[k].block.samples) : b.mappings[k][i] = b.mappings[k][h] => i = h
    BY MergedRows
<1> QED
    BY <1>2, <1>4, <1>5, <1>6 DEF Fits, Aligned

(* No two cells of the values of a group go to the same place.             *)
LEMMA ValuesApart ==
    ASSUME NEW g, NEW n, NEW b, NEW starts, NEW op, Aligned(g, n, b, starts, op),
           \A k \in 1..Len(g) : g[k].block.components = g[1].block.components
    PROVE  Apart(ValuesOf(g), b.mappings, starts, Len(g))
<1> SUFFICES ASSUME NEW k \in 1..Len(g), NEW l \in 1..Len(g), k # l, starts[k] # -1, starts[l] # -1,
                    NEW ix \in DOMAIN ValuesOf(g)[k], NEW iy \in DOMAIN ValuesOf(g)[l],
                    Target(b.mappings[k], starts[k], ix) = Target(b.mappings[l], starts[l], iy)
             PROVE  FALSE
    BY DEF Apart
<1>1. ix[1] \in 1..count(g[k].block.samples) /\ ix[3] \in 1..count(g[k].block.properties)
    <2>1. Fits(ValuesOf(g)[k], b.mappings[k], starts[k], count(g[k].block.samples), count(g[k].block.properties),
                count(b.samples), count(g[1].block.components), count(b.properties))
        BY ValuesFit
    <2> QED BY <2>1 DEF Fits
<1>2. iy[1] \in 1..count(g[l].block.samples) /\ iy[3] \in 1..count(g[l].block.properties)
    <2>1. Fits(ValuesOf(g)[l], b.mappings[l], starts[l], count(g[l].block.samples), count(g[l].block.properties),
                count(b.samples), count(g[1].block.components), count(b.properties))
        BY ValuesFit
    <2> QED BY <2>1 DEF Fits
<1>3. b.mappings[k][ix[1]] = b.mappings[l][iy[1]] /\ starts[k] + ix[3] = starts[l] + iy[3]
    BY DEF Target
<1> QED
    BY <1>1, <1>2, <1>3, MergedCells

(* The same of the gradients: the rows that their samples have.            *)
GradientsOf(g, p) == [k \in 1..Len(g) |-> g[k].block.gradients[p].values]
GradientRow(g, b, p, k, i) ==
    position(b.gradients[p].samples, translate(g[k].block.gradients[p].samples.values[i], b.mappings[k]))
GradientMaps(g, b, p) ==
    [k \in 1..Len(g) |-> [i \in 1..count(g[k].block.gradients[p].samples) |-> GradientRow(g, b, p, k, i)]]

(* The samples of a gradient are valid, and refer to samples of the block. *)
LEMMA GradientEntry ==
    ASSUME NEW g, NEW n, GroupOK(g, n), NEW p \in DOMAIN g[1].block.gradients, NEW k \in 1..Len(g)
    PROVE  /\ count(g[k].block.gradients[p].samples) \in Nat /\ ValidLabels(g[k].block.gradients[p].samples)
           /\ size(g[1].block.gradients[p].samples) \in Nat /\ size(g[1].block.gradients[p].samples) > 0
           /\ \A i \in 1..count(g[k].block.gradients[p].samples) :
                 /\ g[k].block.gradients[p].samples.values[i] \in Entries(g[k].block.gradients[p].samples)
                 /\ g[k].block.gradients[p].samples.values[i] \in Seq(Int)
                 /\ Len(g[k].block.gradients[p].samples.values[i]) = size(g[1].block.gradients[p].samples)
                 /\ g[k].block.gradients[p].samples.values[i][1] \in 0..(count(g[k].block.samples) - 1)
<1>1. PICK S : S = g[k].block.gradients[p].samples
    OBVIOUS
<1>2. /\ ValidLabels(S) /\ S.names = g[1].block.gradients[p].samples.names /\ size(S) > 0
      /\ \A e \in Entries(S) : e[1] \in 0..(count(g[k].block.samples) - 1)
    BY <1>1, GradientOfGroup
<1>3. count(S) \in Nat /\ size(S) \in Nat /\ \A i \in 1..count(S) : S.values[i] \in Seq(Int) /\ Len(S.values[i]) = size(S)
    BY <1>2, LabelsLemma
<1>4. \A i \in 1..count(S) : S.values[i] \in Entries(S)
    <2>1. PICK s \in Seq(Seq(Int)) : s = S.values
        BY <1>2 DEF ValidLabels
    <2>2. ToSet(s) = {s[i] : i \in 1..Len(s)}
        BY SeqLemma
    <2> QED BY <2>1, <2>2 DEF Entries, count
<1>5. size(S) = size(g[1].block.gradients[p].samples)
    BY <1>2 DEF size
<1> QED
    BY <1>1, <1>2, <1>3, <1>4, <1>5

(* The row of a gradient sample has its translated entry.                  *)
GradientRowIs(r, g, b, p, k, i) ==
    /\ r \in 1..count(b.gradients[p].samples) /\ count(b.gradients[p].samples) \in Nat
    /\ b.gradients[p].samples.values[r] = translate(g[k].block.gradients[p].samples.values[i], b.mappings[k])

(* Each gradient sample has its row in the merged gradient.                *)
LEMMA GradientRows ==
    ASSUME NEW g, NEW n, NEW b, NEW starts, NEW op, Aligned(g, n, b, starts, op), NEW p \in DOMAIN g[1].block.gradients,
           NEW k \in 1..Len(g), NEW i \in 1..count(g[k].block.gradients[p].samples)
    PROVE  GradientRowIs(GradientRow(g, b, p, k, i), g, b, p, k, i)
<1>1. GroupOK(g, n) /\ count(b.samples) \in Nat
    BY DEF Aligned
<1>2. \A m \in 1..Len(g) : b.mappings[m] \in [1..count(g[m].block.samples) -> 1..count(b.samples)]
    BY DEF Aligned
<1>3. PICK maps, C : maps = b.mappings /\ C = count(b.samples)
    OBVIOUS
<1>4. PICK l : l = merge_gradient_samples(g, p, maps)
    OBVIOUS
<1>5. l.values \in Seq(Seq(Int)) /\ Entries(l) = UNION {Translated(g, p, maps, m) : m \in 1..Len(g)}
    <2>1. C \in Nat /\ \A m \in 1..Len(g) : maps[m] \in [1..count(g[m].block.samples) -> 1..C]
        BY <1>1, <1>2, <1>3
    <2> QED BY <1>1, <1>4, <2>1, MergedGradient
<1>6. b.gradients[p].samples = l
    BY <1>3, <1>4 DEF Aligned
<1>7. PICK e, t : e = g[k].block.gradients[p].samples.values[i] /\ t = translate(e, maps[k])
    OBVIOUS
<1>8. e \in Entries(g[k].block.gradients[p].samples)
    BY <1>1, <1>7, GradientEntry
<1>9. t \in Entries(l)
    <2>1. t \in Translated(g, p, maps, k)
        BY <1>7, <1>8 DEF Translated
    <2> QED BY <1>5, <2>1
<1>10. count(l) \in Nat /\ Entries(l) = {l.values[x] : x \in 1..count(l)}
    <2>1. PICK s \in Seq(Seq(Int)) : s = l.values
        BY <1>5
    <2>2. Len(s) \in Nat /\ ToSet(s) = {s[x] : x \in 1..Len(s)}
        BY SeqLemma
    <2> QED BY <2>1, <2>2 DEF Entries, count
<1>11. \E x \in 1..count(l) : l.values[x] = t
    BY <1>9, <1>10
<1>12. GradientRow(g, b, p, k, i) = CHOOSE x \in 1..count(l) : l.values[x] = t
    BY <1>3, <1>6, <1>7 DEF GradientRow, position
<1>13. GradientRow(g, b, p, k, i) \in 1..count(l) /\ l.values[GradientRow(g, b, p, k, i)] = t
    BY <1>11, <1>12
<1> QED
    BY <1>3, <1>6, <1>7, <1>10, <1>13 DEF GradientRowIs

(* The sample of the values that a gradient sample is translated to.       *)
TranslatedTo(t, e, g, b, k) ==
    /\ t \in Seq(Int) /\ Len(t) = Len(e) /\ \A d \in 2..Len(e) : t[d] = e[d]
    /\ e[1] + 1 \in 1..count(g[k].block.samples) /\ b.mappings[k][e[1] + 1] \in 1..count(b.samples)
    /\ t[1] + 1 = b.mappings[k][e[1] + 1]

(* It refers to the row that its sample of the values went to.             *)
LEMMA TranslatedRow ==
    ASSUME NEW g, NEW n, NEW b, NEW starts, NEW op, Aligned(g, n, b, starts, op), NEW p \in DOMAIN g[1].block.gradients,
           NEW k \in 1..Len(g), NEW e, e \in Seq(Int), Len(e) > 0, e[1] \in 0..(count(g[k].block.samples) - 1)
    PROVE  TranslatedTo(translate(e, b.mappings[k]), e, g, b, k)
<1>1. PICK map, N, C : map = b.mappings[k] /\ N = count(g[k].block.samples) /\ C = count(b.samples)
    OBVIOUS
<1>2. N \in Nat /\ C \in Nat /\ map \in [1..N -> 1..C]
    BY <1>1, GroupSizes DEF Aligned
<1>3. PICK t : t = translate(e, map)
    OBVIOUS
<1>4. t \in Seq(Int) /\ Len(t) = Len(e) /\ t[1] = map[e[1] + 1] - 1 /\ \A d \in 2..Len(e) : t[d] = e[d]
    <2>1. e[1] \in 0..(N - 1)
        BY <1>1
    <2> QED BY <1>2, <1>3, <2>1, TranslateLemma
<1>5. e[1] + 1 \in 1..N
    BY <1>1, <1>2
<1>6. map[e[1] + 1] \in 1..C
    BY <1>2, <1>5
<1>7. t[1] + 1 = map[e[1] + 1]
    BY <1>4, <1>6
<1> QED
    BY <1>1, <1>3, <1>4, <1>5, <1>6, <1>7 DEF TranslatedTo

(* Two gradient samples of a block have different rows, and two that share *)
(* a row belong to samples that do.                                        *)
LEMMA MergedGradientRows ==
    ASSUME NEW g, NEW n, NEW b, NEW starts, NEW op, Aligned(g, n, b, starts, op), NEW p \in DOMAIN g[1].block.gradients,
           NEW k \in 1..Len(g), NEW l \in 1..Len(g),
           NEW i \in 1..count(g[k].block.gradients[p].samples), NEW h \in 1..count(g[l].block.gradients[p].samples),
           GradientRow(g, b, p, k, i) = GradientRow(g, b, p, l, h)
    PROVE  /\ \E x \in 1..count(g[k].block.samples), y \in 1..count(g[l].block.samples) : b.mappings[k][x] = b.mappings[l][y]
           /\ k = l => i = h
<1>1. GroupOK(g, n)
    BY DEF Aligned
<1>2. PICK e, f : e = g[k].block.gradients[p].samples.values[i] /\ f = g[l].block.gradients[p].samples.values[h]
    OBVIOUS
<1>3. PICK z \in Nat : z = size(g[1].block.gradients[p].samples) /\ z > 0
    BY <1>1, GradientEntry
<1>4. e \in Seq(Int) /\ Len(e) = z /\ e[1] \in 0..(count(g[k].block.samples) - 1)
    BY <1>1, <1>2, <1>3, GradientEntry
<1>5. f \in Seq(Int) /\ Len(f) = z /\ f[1] \in 0..(count(g[l].block.samples) - 1)
    BY <1>1, <1>2, <1>3, GradientEntry
<1>6. PICK t, u : t = translate(e, b.mappings[k]) /\ u = translate(f, b.mappings[l])
    OBVIOUS
<1>7. t = u
    <2>1. b.gradients[p].samples.values[GradientRow(g, b, p, k, i)] = t
        <3>1. GradientRowIs(GradientRow(g, b, p, k, i), g, b, p, k, i)
            BY GradientRows
        <3> QED BY <1>2, <1>6, <3>1 DEF GradientRowIs
    <2>2. b.gradients[p].samples.values[GradientRow(g, b, p, l, h)] = u
        <3>1. GradientRowIs(GradientRow(g, b, p, l, h), g, b, p, l, h)
            BY GradientRows
        <3> QED BY <1>2, <1>6, <3>1 DEF GradientRowIs
    <2> QED BY <2>1, <2>2
<1>8. /\ e[1] + 1 \in 1..count(g[k].block.samples) /\ t[1] + 1 = b.mappings[k][e[1] + 1]
      /\ \A d \in 2..z : t[d] = e[d]
    <2>1. TranslatedTo(translate(e, b.mappings[k]), e, g, b, k)
        BY <1>3, <1>4, TranslatedRow
    <2> QED BY <1>4, <1>6, <2>1 DEF TranslatedTo
<1>9. /\ f[1] + 1 \in 1..count(g[l].block.samples) /\ u[1] + 1 = b.mappings[l][f[1] + 1]
      /\ \A d \in 2..z : u[d] = f[d]
    <2>1. TranslatedTo(translate(f, b.mappings[l]), f, g, b, l)
        BY <1>3, <1>5, TranslatedRow
    <2> QED BY <1>5, <1>6, <2>1 DEF TranslatedTo
<1>10. b.mappings[k][e[1] + 1] = b.mappings[l][f[1] + 1]
    BY <1>7, <1>8, <1>9
<1>11. k = l => i = h
    <2> SUFFICES ASSUME k = l PROVE i = h
        OBVIOUS
    <2>1. e[1] + 1 = f[1] + 1
        BY <1>8, <1>9, <1>10, MergedRows
    <2>2. e[1] = f[1]
        BY <1>4, <1>5, <2>1
    <2>3. \A d \in 1..z : e[d] = f[d]
        <3>1. \A d \in 1..z : d = 1 \/ d \in 2..z
            BY <1>3
        <3> QED BY <1>7, <1>8, <1>9, <2>2, <3>1
    <2>4. e = f
        BY <1>4, <1>5, <2>3, SeqEqual
    <2>5. PICK S : S = g[k].block.gradients[p].samples
        OBVIOUS
    <2>6. ValidLabels(S)
        BY <1>1, <2>5, GradientEntry
    <2>7. \A x, y \in 1..count(S) : S.values[x] = S.values[y] => x = y
        BY <2>6, LabelsLemma
    <2> QED BY <1>2, <2>4, <2>5, <2>7
<1> QED
    BY <1>8, <1>9, <1>10, <1>11

(* The gradients of a block fit in those of the new one.                   *)
LEMMA GradientsFit ==
    ASSUME NEW g, NEW n, NEW b, NEW starts, NEW op, Aligned(g, n, b, starts, op), NEW p \in DOMAIN g[1].block.gradients,
           NEW k \in 1..Len(g), NEW c, c \in Nat, count(g[k].block.gradients[p].components) = c
    PROVE  Fits(GradientsOf(g, p)[k], GradientMaps(g, b, p)[k], starts[k],
                count(g[k].block.gradients[p].samples), count(g[k].block.properties),
                count(b.gradients[p].samples), c, count(b.properties))
<1>1. GroupOK(g, n)
    BY DEF Aligned
<1>2. PICK S : S = g[k].block.gradients[p].samples
    OBVIOUS
<1>3. count(S) \in Nat /\ count(g[k].block.properties) \in Nat
    BY <1>1, <1>2, GroupSizes, GradientEntry
<1>4. count(b.gradients[p].samples) \in Nat
    <2>1. /\ \A m \in 1..Len(g) : b.mappings[m] \in [1..count(g[m].block.samples) -> 1..count(b.samples)]
          /\ count(b.samples) \in Nat /\ b.gradients[p].samples = merge_gradient_samples(g, p, b.mappings)
        BY DEF Aligned
    <2>2. PICK l : l = merge_gradient_samples(g, p, b.mappings)
        OBVIOUS
    <2>3. l.values \in Seq(Seq(Int))
        BY <1>1, <2>1, <2>2, MergedGradient
    <2> QED BY <2>1, <2>2, <2>3 DEF count
<1>5. DOMAIN GradientsOf(g, p)[k] = (1..count(S)) \X (1..c) \X (1..count(g[k].block.properties))
    <2>1. IsArray(g[k].block.gradients[p], g[k].block.properties)
        BY <1>1, GradientOfGroup
    <2> QED BY <1>2, <2>1 DEF IsArray, Cells, GradientsOf
<1>6. PICK map : map = GradientMaps(g, b, p)[k]
    OBVIOUS
<1>7. map = [i \in 1..count(S) |-> GradientRow(g, b, p, k, i)]
    BY <1>2, <1>6 DEF GradientMaps
<1>8. \A i \in 1..count(S) : GradientRow(g, b, p, k, i) \in 1..count(b.gradients[p].samples)
    <2>1. \A i \in 1..count(S) : GradientRowIs(GradientRow(g, b, p, k, i), g, b, p, k, i)
        BY <1>2, GradientRows
    <2> QED BY <2>1 DEF GradientRowIs
<1>9. map \in [1..count(S) -> 1..count(b.gradients[p].samples)]
    BY <1>7, <1>8
<1>10. Len(map) = count(S)
    BY <1>3, <1>9, FunctionIsSeq
<1>11. \A i, h \in 1..count(S) : map[i] = map[h] => i = h
    BY <1>2, <1>7, MergedGradientRows
<1>12. starts[k] = -1 \/ (starts[k] \in Nat /\ \A q \in 1..count(g[k].block.properties) : starts[k] + q \in 1..count(b.properties))
    BY DEF Aligned
<1>13. count(b.properties) \in Nat
    BY DEF Aligned
<1> QED
    BY <1>2, <1>3, <1>4, <1>5, <1>6, <1>9, <1>10, <1>11, <1>12, <1>13 DEF Fits

(* No two cells of the gradients of a group go to the same place.          *)
LEMMA GradientsApart ==
    ASSUME NEW g, NEW n, NEW b, NEW starts, NEW op, Aligned(g, n, b, starts, op), NEW p \in DOMAIN g[1].block.gradients,
           NEW d \in 1..Len(g)
    PROVE  Apart(GradientsOf(g, p), GradientMaps(g, b, p), starts, d)
<1> SUFFICES ASSUME NEW k \in 1..Len(g), NEW l \in 1..Len(g), k # l, starts[k] # -1, starts[l] # -1,
                    NEW ix \in DOMAIN GradientsOf(g, p)[k], NEW iy \in DOMAIN GradientsOf(g, p)[l],
                    Target(GradientMaps(g, b, p)[k], starts[k], ix) = Target(GradientMaps(g, b, p)[l], starts[l], iy)
             PROVE  FALSE
    <2>1. Len(g) \in Nat
        BY DEF Aligned, GroupOK
    <2>2. \A k \in 1..d : k \in 1..Len(g)
        BY <2>1
    <2> QED BY <2>2 DEF Apart
<1>1. GroupOK(g, n)
    BY DEF Aligned
<1>2. ix[1] \in 1..count(g[k].block.gradients[p].samples) /\ ix[3] \in 1..count(g[k].block.properties)
    <2>1. IsArray(g[k].block.gradients[p], g[k].block.properties)
        BY <1>1, GradientOfGroup
    <2> QED BY <2>1 DEF IsArray, Cells, GradientsOf
<1>3. iy[1] \in 1..count(g[l].block.gradients[p].samples) /\ iy[3] \in 1..count(g[l].block.properties)
    <2>1. IsArray(g[l].block.gradients[p], g[l].block.properties)
        BY <1>1, GradientOfGroup
    <2> QED BY <2>1 DEF IsArray, Cells, GradientsOf
<1>4. GradientRow(g, b, p, k, ix[1]) = GradientRow(g, b, p, l, iy[1]) /\ starts[k] + ix[3] = starts[l] + iy[3]
    <2>1. GradientMaps(g, b, p)[k][ix[1]] = GradientMaps(g, b, p)[l][iy[1]] /\ starts[k] + ix[3] = starts[l] + iy[3]
        BY DEF Target
    <2> QED BY <1>2, <1>3, <2>1 DEF GradientMaps
<1>5. PICK x \in 1..count(g[k].block.samples), y \in 1..count(g[l].block.samples) : b.mappings[k][x] = b.mappings[l][y]
    BY <1>2, <1>3, <1>4, MergedGradientRows
<1> QED
    BY <1>2, <1>3, <1>4, <1>5, MergedCells

-----------------------------------------------------------------------------
(* What the labels say *)

(* What an entry says, by the names of its dimensions.                     *)
NamedOf(names, e) == {<<names[d], e[d]>> : d \in {d \in 1..Len(names) : names[d] # "_"}}

(* The labels only matter by their names.                                  *)
LEMMA NamedIs ==
    ASSUME NEW l, NEW e
    PROVE  Named(l, e) = NamedOf(l.names, e)
BY DEF Named, NamedOf, size

(* There is one dimension.                                                 *)
LEMMA OnlyOne ==
    ASSUME NEW d, d \in 1..1
    PROVE  d = 1
OBVIOUS

(* The only dimension of the keys when all the others are moved says nothing. *)
LEMMA NothingNamed ==
    ASSUME NEW names, NEW e, Len(names) = 1, names[1] = "_"
    PROVE  NamedOf(names, e) = {}
<1>1. \A d \in 1..1 : d = 1
    BY OnlyOne, Zenon
<1>2. {d \in 1..Len(names) : names[d] # "_"} = {}
    <2>1. PICK n : n = Len(names)
        OBVIOUS
    <2>2. \A d \in 1..n : names[d] = "_"
        BY <1>1, <2>1
    <2> QED BY <2>1, <2>2
<1> QED
    BY <1>2, Zenon DEF NamedOf

(* Two entries together say what both say.                                 *)
LEMMA NamedConcat ==
    ASSUME NEW m \in Seq(STRING), NEW n \in Seq(STRING), NEW a \in Seq(Int), NEW b \in Seq(Int), Len(a) = Len(m), Len(b) = Len(n)
    PROVE  NamedOf(m \o n, With(a, b)) = NamedOf(m, a) \cup NamedOf(n, b)
<1>1. PICK c, e : c = m \o n /\ e = With(a, b)
    OBVIOUS
<1>2. /\ Len(m) \in Nat /\ Len(n) \in Nat /\ Len(c) = Len(m) + Len(n)
      /\ \A x \in 1..Len(m) : c[x] = m[x]
      /\ \A x \in 1..Len(n) : c[Len(m) + x] = n[x]
    BY <1>1, NamesConcatParts
<1>3. (\A x \in 1..Len(m) : e[x] = a[x]) /\ \A x \in 1..Len(n) : e[Len(m) + x] = b[x]
    <2>1. /\ \A x \in 1..Len(a) : (a \o b)[x] = a[x]
          /\ \A x \in 1..Len(b) : (a \o b)[Len(a) + x] = b[x]
        BY ConcatParts
    <2>2. e = a \o b
        BY <1>1 DEF With
    <2> QED BY <2>1, <2>2
<1>4. ASSUME NEW x, x \in NamedOf(c, e) PROVE x \in NamedOf(m, a) \/ x \in NamedOf(n, b)
    <2>1. PICK d \in 1..Len(c) : c[d] # "_" /\ x = <<c[d], e[d]>>
        BY <1>4 DEF NamedOf
    <2>2. CASE d <= Len(m)
        <3>1. d \in 1..Len(m)
            BY <1>2, <2>2
        <3>2. c[d] = m[d] /\ e[d] = a[d]
            BY <1>2, <1>3, <3>1
        <3>3. m[d] # "_" /\ x = <<m[d], a[d]>>
            BY <2>1, <3>2
        <3> QED BY <3>1, <3>3 DEF NamedOf
    <2>3. CASE ~ (d <= Len(m))
        <3>1. PICK h \in 1..Len(n) : d = Len(m) + h
            <4>1. d - Len(m) \in 1..Len(n) /\ d = Len(m) + (d - Len(m))
                BY <1>2, <2>3
            <4> QED BY <4>1
        <3>2. n[h] # "_" /\ x = <<n[h], b[h]>>
            BY <1>2, <1>3, <2>1, <3>1
        <3> QED BY <3>2 DEF NamedOf
    <2> QED BY <2>2, <2>3
<1>5. ASSUME NEW x, x \in NamedOf(m, a) PROVE x \in NamedOf(c, e)
    <2>1. PICK d \in 1..Len(m) : m[d] # "_" /\ x = <<m[d], a[d]>>
        BY <1>5 DEF NamedOf
    <2>2. d \in 1..Len(c) /\ c[d] = m[d] /\ e[d] = a[d]
        BY <1>2, <1>3
    <2>3. c[d] # "_" /\ x = <<c[d], e[d]>>
        BY <2>1, <2>2
    <2> QED BY <2>2, <2>3 DEF NamedOf
<1>6. ASSUME NEW x, x \in NamedOf(n, b) PROVE x \in NamedOf(c, e)
    <2>1. PICK d \in 1..Len(n) : n[d] # "_" /\ x = <<n[d], b[d]>>
        BY <1>6 DEF NamedOf
    <2>2. PICK h \in 1..Len(c) : h = Len(m) + d
        BY <1>2
    <2>3. c[h] # "_" /\ x = <<c[h], e[h]>>
        BY <1>2, <1>3, <2>1, <2>2
    <2> QED BY <2>3 DEF NamedOf
<1> QED
    BY <1>1, <1>4, <1>5, <1>6

(* What a part of an entry says.                                           *)
Parts(names, e, s, n) == {<<names[s[y]], e[s[y]]>> : y \in {y \in 1..n : names[s[y]] # "_"}}

(* Some dimensions of an entry say a part of what it says.                 *)
LEMMA NamedPick ==
    ASSUME NEW names, NEW e, NEW s, NEW n \in Nat, Len(s) = n, \A y \in 1..n : s[y] \in 1..Len(names),
           names \in Seq(STRING), e \in Seq(Int), Len(e) = Len(names)
    PROVE  /\ Pick(names, s) \in Seq(STRING) /\ Len(Pick(names, s)) = n
           /\ Pick(e, s) \in Seq(Int) /\ Len(Pick(e, s)) = n
           /\ NamedOf(Pick(names, s), Pick(e, s)) = Parts(names, e, s, n)
<1>1. \A y \in 1..n : s[y] \in 1..Len(e)
    OBVIOUS
<1>2. PICK P, Q : P = Pick(names, s) /\ Q = Pick(e, s)
    OBVIOUS
<1>3. P \in Seq(STRING) /\ Len(P) = n /\ \A y \in 1..n : P[y] = names[s[y]]
    BY <1>2, NamesPickLemma
<1>4. Q \in Seq(Int) /\ Len(Q) = n /\ \A y \in 1..n : Q[y] = e[s[y]]
    BY <1>1, <1>2, PickLemma
<1>5. NamedOf(P, Q) = Parts(names, e, s, n)
    <2>1. NamedOf(P, Q) = {<<P[d], Q[d]>> : d \in {d \in 1..n : P[d] # "_"}}
        BY <1>3 DEF NamedOf
    <2>2. {d \in 1..n : P[d] # "_"} = {y \in 1..n : names[s[y]] # "_"}
        BY <1>3
    <2>3. \A d \in {y \in 1..n : names[s[y]] # "_"} : <<P[d], Q[d]>> = <<names[s[d]], e[s[d]]>>
        BY <1>3, <1>4
    <2>4. \A x : x \in NamedOf(P, Q) <=> \E d \in {y \in 1..n : names[s[y]] # "_"} : x = <<P[d], Q[d]>>
        BY <2>1, <2>2, Zenon
    <2>5. \A x : x \in Parts(names, e, s, n) <=> \E d \in {y \in 1..n : names[s[y]] # "_"} : x = <<names[s[d]], e[s[d]]>>
        BY Zenon DEF Parts
    <2>6. ASSUME NEW x, x \in NamedOf(P, Q) PROVE x \in Parts(names, e, s, n)
        <3>1. PICK d \in {y \in 1..n : names[s[y]] # "_"} : x = <<P[d], Q[d]>>
            BY <2>4, <2>6
        <3> QED BY <2>3, <2>5, <3>1
    <2>7. ASSUME NEW x, x \in Parts(names, e, s, n) PROVE x \in NamedOf(P, Q)
        <3>1. PICK d \in {y \in 1..n : names[s[y]] # "_"} : x = <<names[s[d]], e[s[d]]>>
            BY <2>5, <2>7
        <3> QED BY <2>3, <2>4, <3>1
    <2> QED BY <2>6, <2>7
<1> QED
    BY <1>2, <1>3, <1>4, <1>5

(* A key says what its part that stays and its part that is moved say.     *)
LEMMA KeysSay ==
    ASSUME CallInv, ~ Refused, NEW k \in 1..count(call.keys), NEW n \in 1..count(splitted_keys),
           count(splitted_keys) = 1 \/ Pick(call.keys.values[k], Kept) = splitted_keys.values[n]
    PROVE  Named(call.keys, call.keys.values[k]) =
               Named(splitted_keys, splitted_keys.values[n])
                   \cup NamedOf(names_to_move, Pick(call.keys.values[k], Moved))
<1>1. PICK names, K : names = call.keys.names /\ K = call.keys.values[k]
    OBVIOUS
<1>2. names \in Seq(STRING) /\ K \in Seq(Int) /\ Len(K) = Len(names)
    BY <1>1, LabelsLemma DEF CallInv, size
<1>3. PICK s, c : s = Moved /\ c = Len(names_to_move)
    OBVIOUS
<1>4. PICK t, r : t = Kept /\ r = Len(Kept)
    OBVIOUS
<1>5. /\ c \in Nat /\ r \in Nat /\ Len(s) = c /\ Len(t) = r
      /\ \A y \in 1..r : t[y] \in 1..Len(names)
      /\ \A x \in 1..c : s[x] \in 1..Len(names) /\ names[s[x]] = names_to_move[x]
      /\ \A d \in 1..Len(names) : (\E x \in 1..c : s[x] = d) \/ \E y \in 1..r : t[y] = d
    BY <1>1, <1>3, <1>4, PositionsLemma, CoverLemma DEF size
<1>6. /\ Len(Pick(names, s)) = c
      /\ NamedOf(Pick(names, s), Pick(K, s)) = Parts(names, K, s, c)
    BY <1>2, <1>5, NamedPick
<1>7. NamedOf(Pick(names, t), Pick(K, t)) = Parts(names, K, t, r)
    BY <1>2, <1>5, NamedPick
<1>8. Pick(names, s) = names_to_move
    <2>0. names \in Seq(STRING) /\ c \in Nat /\ Len(s) = c /\ \A x \in 1..c : s[x] \in 1..Len(names)
        BY <1>2, <1>5
    <2>1. Pick(names, s) \in Seq(STRING) /\ Len(Pick(names, s)) = c /\ \A x \in 1..c : Pick(names, s)[x] = names[s[x]]
        BY <2>0, NamesPickLemma
    <2>2. names_to_move \in Seq(STRING)
        BY LabelsLemma DEF CallInv, names_to_move
    <2>3. PICK u, w : u = Pick(names, s) /\ w = names_to_move
        OBVIOUS
    <2>4. u \in Seq(STRING) /\ w \in Seq(STRING) /\ Len(u) = Len(w) /\ \A x \in 1..Len(u) : u[x] = w[x]
        BY <1>3, <1>5, <2>1, <2>2, <2>3
    <2>5. u = w
        BY <2>4, SeqEqual
    <2> QED BY <2>3, <2>5
<1>9. NamedOf(names, K) = Parts(names, K, s, c) \cup Parts(names, K, t, r)
    <2>1. ASSUME NEW x, x \in NamedOf(names, K) PROVE x \in Parts(names, K, s, c) \/ x \in Parts(names, K, t, r)
        <3>1. PICK d \in 1..Len(names) : names[d] # "_" /\ x = <<names[d], K[d]>>
            BY <2>1 DEF NamedOf
        <3>2. CASE \E y \in 1..c : s[y] = d
            BY <3>1, <3>2 DEF Parts
        <3>3. CASE \E y \in 1..r : t[y] = d
            BY <3>1, <3>3 DEF Parts
        <3> QED BY <1>5, <3>2, <3>3
    <2>2. ASSUME NEW x, x \in Parts(names, K, s, c) PROVE x \in NamedOf(names, K)
        BY <1>5, <2>2 DEF NamedOf, Parts
    <2>3. ASSUME NEW x, x \in Parts(names, K, t, r) PROVE x \in NamedOf(names, K)
        BY <1>5, <2>3 DEF NamedOf, Parts
    <2> QED BY <2>1, <2>2, <2>3
<1>10. NamedOf(names, K) = NamedOf(names_to_move, Pick(K, s)) \cup Parts(names, K, t, r)
    BY <1>6, <1>8, <1>9
<1>11. CASE Kept = <<>> /\ splitted_keys = Labels(<<"_">>, << <<0>> >>)
    <2>1. r = 0
        BY <1>4, <1>11
    <2>2. Named(splitted_keys, splitted_keys.values[n]) = {}
        <3>1. PICK u, w : u = splitted_keys.names /\ w = splitted_keys.values[n]
            OBVIOUS
        <3>2. Len(u) = 1 /\ u[1] = "_"
            BY <1>11, <3>1 DEF Labels
        <3>4. NamedOf(u, w) = {}
            BY <3>2, NothingNamed
        <3> QED BY <3>1, <3>4, NamedIs
    <2>3. NamedOf(names, K) = NamedOf(names_to_move, Pick(K, s))
        BY <1>10, <2>1 DEF Parts
    <2> QED BY <1>1, <1>3, <2>2, <2>3, NamedIs
<1>12. CASE /\ splitted_keys.names = Pick(call.keys.names, Kept)
            /\ splitted_keys.values[n] = Pick(call.keys.values[k], Kept)
    <2>1. Named(splitted_keys, splitted_keys.values[n]) = NamedOf(Pick(names, t), Pick(K, t))
        BY <1>1, <1>4, <1>12, NamedIs
    <2>2. NamedOf(names, K) = NamedOf(Pick(names, t), Pick(K, t)) \cup NamedOf(names_to_move, Pick(K, s))
        BY <1>7, <1>10
    <2> QED BY <1>1, <1>3, <2>1, <2>2, NamedIs
<1> QED
    BY <1>11, <1>12, SplittedSays

-----------------------------------------------------------------------------
(* What the cells of an array say *)

(* W[at] is what describes a cell: its labels, and its component.          *)
Told(what, W, values) == {Fact(what, W[at][1], W[at][2], values[at]) : at \in DOMAIN values}
Cell(x, what, W, values, at) ==
    at \in DOMAIN values /\ values[at] # Zero /\ x = Fact(what, W[at][1], W[at][2], values[at])

(* A fact about a number is that of a cell which is not zero.              *)
LEMMA NonZeroTold ==
    ASSUME NEW x, NEW what, NEW W, NEW values
    PROVE  x \in NonZero(Told(what, W, values)) <=> \E at : Cell(x, what, W, values, at)
<1>1. \A at : Fact(what, W[at][1], W[at][2], values[at]).value = values[at]
    BY DEF Fact
<1>2. x \in Told(what, W, values) <=> \E at \in DOMAIN values : x = Fact(what, W[at][1], W[at][2], values[at])
    BY Zenon DEF Told
<1>3. x \in NonZero(Told(what, W, values)) <=> x \in Told(what, W, values) /\ x.value # Zero
    BY Zenon DEF NonZero
<1>4. ASSUME x \in NonZero(Told(what, W, values)) PROVE \E at : Cell(x, what, W, values, at)
    <2>1. PICK at \in DOMAIN values : x = Fact(what, W[at][1], W[at][2], values[at])
        BY <1>2, <1>3, <1>4
    <2>2. x.value = values[at]
        BY <1>1, <2>1
    <2> QED BY <1>3, <1>4, <2>1, <2>2 DEF Cell
<1>5. ASSUME NEW at, Cell(x, what, W, values, at) PROVE x \in NonZero(Told(what, W, values))
    <2>1. at \in DOMAIN values /\ values[at] # Zero /\ x = Fact(what, W[at][1], W[at][2], values[at])
        BY <1>5 DEF Cell
    <2>2. x.value = values[at]
        BY <1>1, <2>1
    <2> QED BY <1>2, <1>3, <2>1, <2>2
<1> QED
    BY <1>4, <1>5

(* An array that the cells of others were moved to says what they said,    *)
(* when the labels of the cells are the same in both places.               *)
SameLabels(W, V, ins, maps, starts, d) ==
    \A k \in 1..d : starts[k] # -1 =>
        \A ix \in DOMAIN ins[k] : W[Target(maps[k], starts[k], ix)] = V[k][ix]

(* The cells that were moved tell what they did.                           *)
LEMMA TransferredFacts ==
    ASSUME NEW what, NEW out, NEW ins, NEW maps, NEW starts, NEW d \in Nat, Transferred(out, ins, maps, starts, d),
           NEW W, NEW V, SameLabels(W, V, ins, maps, starts, d), NEW x
    PROVE  x \in NonZero(Told(what, W, out))
               <=> \E k \in 1..d : starts[k] # -1 /\ x \in NonZero(Told(what, V[k], ins[k]))
<1>1. ASSUME NEW at, Cell(x, what, W, out, at)
      PROVE  \E k \in 1..d : starts[k] # -1 /\ x \in NonZero(Told(what, V[k], ins[k]))
    <2>1. at \in DOMAIN out /\ out[at] # Zero /\ x = Fact(what, W[at][1], W[at][2], out[at])
        BY <1>1 DEF Cell
    <2>2. PICK k \in 1..d : starts[k] # -1 /\ \E ix \in DOMAIN ins[k] : at = Target(maps[k], starts[k], ix)
        BY <2>1 DEF Transferred
    <2>3. PICK ix \in DOMAIN ins[k] : at = Target(maps[k], starts[k], ix)
        BY <2>2
    <2>4. out[at] = ins[k][ix]
        BY <2>2, <2>3 DEF Transferred
    <2>5. W[at] = V[k][ix]
        BY <2>2, <2>3 DEF SameLabels
    <2>6. Cell(x, what, V[k], ins[k], ix)
        BY <2>1, <2>4, <2>5 DEF Cell
    <2> QED BY <2>2, <2>6, NonZeroTold
<1>2. ASSUME NEW k \in 1..d, starts[k] # -1, NEW ix, Cell(x, what, V[k], ins[k], ix)
      PROVE  x \in NonZero(Told(what, W, out))
    <2>1. ix \in DOMAIN ins[k] /\ ins[k][ix] # Zero /\ x = Fact(what, V[k][ix][1], V[k][ix][2], ins[k][ix])
        BY <1>2 DEF Cell
    <2>2. PICK at : at = Target(maps[k], starts[k], ix)
        OBVIOUS
    <2>3. at \in DOMAIN out /\ out[at] = ins[k][ix]
        BY <1>2, <2>1, <2>2 DEF Transferred
    <2>4. W[at] = V[k][ix]
        BY <1>2, <2>1, <2>2 DEF SameLabels
    <2>5. Cell(x, what, W, out, at)
        BY <2>1, <2>3, <2>4 DEF Cell
    <2> QED BY <2>5, NonZeroTold
<1> QED
    BY <1>1, <1>2, NonZeroTold

(* The labels of a row and of a column of a block, with its key.           *)
Labelled(key, b, i, q) ==
    key \cup NamedOf(b.samples.names, b.samples.values[i]) \cup NamedOf(b.properties.names, b.properties.values[q])
Extra(names, e) == {d \in NamedOf(names, e) : d[1] # "sample"}

(* The labels of the cells of the values and of a gradient.                *)
ValueLabels(key, b) ==
    [ix \in DOMAIN b.values |-> <<Labelled(key, b, ix[1], ix[3]), b.components.values[ix[2]]>>]
GradientLabelsOf(key, b, g) ==
    [ix \in DOMAIN g.values |->
        <<Labelled(key, b, g.samples.values[ix[1]][1] + 1, ix[3]) \cup Extra(g.samples.names, g.samples.values[ix[1]]),
          g.components.values[ix[2]]>>]
GradientLabels(key, b, p) == GradientLabelsOf(key, b, b.gradients[p])

(* The facts about the values are told by their cells.                     *)
LEMMA ValueFactsAre ==
    ASSUME NEW key, NEW b
    PROVE  ValueFacts(key, b) = Told("values", ValueLabels(key, b), b.values)
<1> DEFINE W == ValueLabels(key, b)
           f(ix) == Fact("values",
                     key \cup Named(b.samples, b.samples.values[ix[1]])
                         \cup Named(b.properties, b.properties.values[ix[3]]),
                     b.components.values[ix[2]], b.values[ix])
           h(ix) == Fact("values", W[ix][1], W[ix][2], b.values[ix])
<1>1. ASSUME NEW ix \in DOMAIN b.values PROVE f(ix) = h(ix)
    <2>1. W[ix] = <<Labelled(key, b, ix[1], ix[3]), b.components.values[ix[2]]>>
        BY DEF ValueLabels
    <2>2. W[ix][1] = Labelled(key, b, ix[1], ix[3]) /\ W[ix][2] = b.components.values[ix[2]]
        BY <2>1
    <2>3. Labelled(key, b, ix[1], ix[3]) =
              key \cup Named(b.samples, b.samples.values[ix[1]]) \cup Named(b.properties, b.properties.values[ix[3]])
        BY NamedIs DEF Labelled
    <2> QED BY <2>2, <2>3
<1>2. ValueFacts(key, b) = {f(ix) : ix \in DOMAIN b.values}
    BY DEF ValueFacts
<1>3. Told("values", W, b.values) = {h(ix) : ix \in DOMAIN b.values}
    BY DEF Told
<1> HIDE DEF f, h, W
<1>4. Told("values", W, b.values) = ValueFacts(key, b)
    BY <1>1, <1>2, <1>3
<1> QED
    BY <1>4 DEF W

(* So are those about a gradient.                                          *)
LEMMA GradientFactsAre ==
    ASSUME NEW key, NEW b, NEW p
    PROVE  GradientFacts(key, b, p) = Told(p, GradientLabels(key, b, p), b.gradients[p].values)
<1>1. PICK g : g = b.gradients[p]
    OBVIOUS
<1> DEFINE W == GradientLabelsOf(key, b, g)
           extra(i) == {d \in Named(g.samples, g.samples.values[i]) : d[1] # "sample"}
           f(ix) == Fact(p,
              key \cup Named(b.samples, b.samples.values[g.samples.values[ix[1]][1] + 1])
                  \cup extra(ix[1]) \cup Named(b.properties, b.properties.values[ix[3]]),
              g.components.values[ix[2]], g.values[ix])
           h(ix) == Fact(p, W[ix][1], W[ix][2], g.values[ix])
<1>2. ASSUME NEW ix \in DOMAIN g.values PROVE f(ix) = h(ix)
    <2>1. PICK i, q, e : i = g.samples.values[ix[1]][1] + 1 /\ q = ix[3] /\ e = g.samples.values[ix[1]]
        OBVIOUS
    <2>2. W[ix] = <<Labelled(key, b, i, q) \cup Extra(g.samples.names, e), g.components.values[ix[2]]>>
        BY <2>1 DEF GradientLabelsOf
    <2>3. W[ix][1] = Labelled(key, b, i, q) \cup Extra(g.samples.names, e) /\ W[ix][2] = g.components.values[ix[2]]
        BY <2>2
    <2>4. extra(ix[1]) = Extra(g.samples.names, e)
        BY <2>1, NamedIs DEF Extra
    <2>5. Labelled(key, b, i, q) = key \cup Named(b.samples, b.samples.values[i]) \cup Named(b.properties, b.properties.values[q])
        BY NamedIs DEF Labelled
    <2> HIDE DEF extra
    <2>6. key \cup Named(b.samples, b.samples.values[i]) \cup extra(ix[1]) \cup Named(b.properties, b.properties.values[q])
              = W[ix][1]
        BY <2>3, <2>4, <2>5
    <2> QED BY <2>1, <2>3, <2>6
<1>3. GradientFacts(key, b, p) = {f(ix) : ix \in DOMAIN g.values}
    BY <1>1 DEF GradientFacts
<1>4. Told(p, W, g.values) = {h(ix) : ix \in DOMAIN g.values}
    BY DEF Told
<1> HIDE DEF f, h, W
<1>5. Told(p, W, g.values) = GradientFacts(key, b, p)
    BY <1>2, <1>3, <1>4
<1> QED
    BY <1>1, <1>5 DEF W, GradientLabels

(* The names of the dimensions of the merged block.                        *)
NamesOK(g, n, b, moved, op) ==
    /\ moved \in Seq(STRING) /\ Len(moved) = n
    /\ op = "samples" => /\ b.samples.names = g[1].block.samples.names \o moved
                         /\ b.properties.names = g[1].block.properties.names
    /\ op # "samples" => /\ b.samples.names = g[1].block.samples.names
                         /\ b.properties.names = moved \o g[1].block.properties.names

(* A cell keeps its labels when it is moved: the key goes from its block   *)
(* to its row or its column.                                               *)
Stays(key, g, b, starts, moved, k, i, q) ==
    Labelled(key, b, b.mappings[k][i], starts[k] + q)
        = Labelled(key \cup NamedOf(moved, g[k].key), g[k].block, i, q)

(* They do when the blocks are aligned.                                    *)
LEMMA LabelsStay ==
    ASSUME NEW g, NEW n, NEW b, NEW starts, NEW op, Aligned(g, n, b, starts, op),
           NEW moved, NamesOK(g, n, b, moved, op), NEW key, NEW k \in 1..Len(g), starts[k] # -1,
           NEW i \in 1..count(g[k].block.samples), NEW q \in 1..count(g[k].block.properties)
    PROVE  Stays(key, g, b, starts, moved, k, i, q)
<1>1. GroupOK(g, n)
    BY DEF Aligned
<1>2. PICK M, P, K, e, f : /\ M = g[1].block.samples.names /\ P = g[1].block.properties.names /\ K = g[k].key
                           /\ e = g[k].block.samples.values[i] /\ f = g[k].block.properties.values[q]
    OBVIOUS
<1>3. /\ K \in Seq(Int) /\ Len(K) = n /\ e \in Seq(Int) /\ Len(e) = Len(M) /\ f \in Seq(Int) /\ Len(f) = Len(P)
      /\ g[k].block.samples.names = M /\ g[k].block.properties.names = P
    <2>1. /\ g[k].key \in Seq(Int) /\ Len(g[k].key) = n
          /\ g[k].block.samples.names = g[1].block.samples.names
          /\ g[k].block.properties.names = g[1].block.properties.names
          /\ g[k].block.samples.values[i] \in Seq(Int)
          /\ Len(g[k].block.samples.values[i]) = size(g[1].block.samples)
          /\ g[k].block.properties.values[q] \in Seq(Int)
          /\ Len(g[k].block.properties.values[q]) = size(g[1].block.properties)
        BY <1>1, GroupSizes
    <2> QED BY <1>2, <2>1 DEF size
<1>4. M \in Seq(STRING) /\ P \in Seq(STRING)
    <2>1. 1 \in 1..Len(g)
        BY <1>1, GroupSizes
    <2>2. ValidBlock(g[1].block)
        BY <1>1, <2>1 DEF GroupOK
    <2> QED BY <1>2, <2>2 DEF ValidBlock, ValidLabels
<1>5. moved \in Seq(STRING) /\ Len(moved) = n
    BY DEF NamesOK
<1>6. PICK s, t : s = b.samples.values[b.mappings[k][i]] /\ t = b.properties.values[starts[k] + q]
    OBVIOUS
<1>7. s = RowLabel(g, k, i, op) /\ t = ColumnLabel(g, k, q, op)
    BY <1>6 DEF Aligned
<1>8. Labelled(key \cup NamedOf(moved, K), g[k].block, i, q) = key \cup NamedOf(moved, K) \cup NamedOf(M, e) \cup NamedOf(P, f)
    BY <1>2, <1>3 DEF Labelled
<1>9. CASE op = "samples"
    <2>1. s = With(e, K) /\ t = f
        BY <1>2, <1>7, <1>9 DEF RowLabel, ColumnLabel
    <2>2. b.samples.names = M \o moved /\ b.properties.names = P
        BY <1>2, <1>9 DEF NamesOK
    <2>3. NamedOf(M \o moved, With(e, K)) = NamedOf(M, e) \cup NamedOf(moved, K)
        BY <1>3, <1>4, <1>5, NamedConcat
    <2>4. Labelled(key, b, b.mappings[k][i], starts[k] + q) = key \cup NamedOf(M \o moved, With(e, K)) \cup NamedOf(P, f)
        BY <1>6, <2>1, <2>2 DEF Labelled
    <2>5. Labelled(key, b, b.mappings[k][i], starts[k] + q) = Labelled(key \cup NamedOf(moved, K), g[k].block, i, q)
        BY <1>8, <2>3, <2>4
    <2> QED BY <1>2, <2>5 DEF Stays
<1>10. CASE op # "samples"
    <2>1. s = e /\ t = With(K, f)
        BY <1>2, <1>7, <1>10 DEF RowLabel, ColumnLabel
    <2>2. b.samples.names = M /\ b.properties.names = moved \o P
        BY <1>2, <1>10 DEF NamesOK
    <2>3. NamedOf(moved \o P, With(K, f)) = NamedOf(moved, K) \cup NamedOf(P, f)
        BY <1>3, <1>4, <1>5, NamedConcat
    <2>4. Labelled(key, b, b.mappings[k][i], starts[k] + q) = key \cup NamedOf(M, e) \cup NamedOf(moved \o P, With(K, f))
        BY <1>6, <2>1, <2>2 DEF Labelled
    <2>5. Labelled(key, b, b.mappings[k][i], starts[k] + q) = Labelled(key \cup NamedOf(moved, K), g[k].block, i, q)
        BY <1>8, <2>3, <2>4
    <2> QED BY <1>2, <2>5 DEF Stays
<1> QED
    BY <1>9, <1>10

(* What a block of the group says in the new tensor map.                   *)
KeyOf(key, g, moved, k) == key \cup NamedOf(moved, g[k].key)

(* The values of the new block say what those of the blocks did.           *)
LEMMA ValueFactsMoved ==
    ASSUME NEW g, NEW n, NEW b, NEW starts, NEW op, Aligned(g, n, b, starts, op),
           NEW moved, NamesOK(g, n, b, moved, op), NEW key,
           \A k \in 1..Len(g) : g[k].block.components = b.components,
           Transferred(b.values, ValuesOf(g), b.mappings, starts, Len(g)), NEW x
    PROVE  x \in NonZero(ValueFacts(key, b))
               <=> \E k \in 1..Len(g) : starts[k] # -1 /\ x \in NonZero(ValueFacts(KeyOf(key, g, moved, k), g[k].block))
<1> DEFINE V == [k \in 1..Len(g) |-> ValueLabels(KeyOf(key, g, moved, k), g[k].block)]
<1>1. GroupOK(g, n) /\ Len(g) \in Nat
    BY DEF Aligned, GroupOK
<1>2. PICK W : W = ValueLabels(key, b)
    OBVIOUS
<1>3. ASSUME NEW k \in 1..Len(g), starts[k] # -1, NEW ix \in DOMAIN ValuesOf(g)[k]
      PROVE  W[Target(b.mappings[k], starts[k], ix)] = V[k][ix]
    <2>1. /\ ix \in DOMAIN g[k].block.values
          /\ ix[1] \in 1..count(g[k].block.samples) /\ ix[3] \in 1..count(g[k].block.properties)
        <3>1. ValidBlock(g[k].block)
            BY <1>1 DEF GroupOK
        <3> QED BY <3>1 DEF ValidBlock, TensorBlock_allowed, IsArray, Cells, ValuesOf
    <2>2. PICK at : at = <<b.mappings[k][ix[1]], ix[2], starts[k] + ix[3]>>
        OBVIOUS
    <2>3. at = Target(b.mappings[k], starts[k], ix) /\ at[1] = b.mappings[k][ix[1]] /\ at[2] = ix[2] /\ at[3] = starts[k] + ix[3]
        BY <2>2 DEF Target
    <2>4. at \in DOMAIN b.values
        BY <1>3, <2>3 DEF Transferred
    <2>5. W[at] = <<Labelled(key, b, b.mappings[k][ix[1]], starts[k] + ix[3]), b.components.values[ix[2]]>>
        BY <1>2, <2>3, <2>4 DEF ValueLabels
    <2>6. V[k][ix] = <<Labelled(KeyOf(key, g, moved, k), g[k].block, ix[1], ix[3]), b.components.values[ix[2]]>>
        BY <2>1 DEF ValueLabels
    <2>7. Labelled(key, b, b.mappings[k][ix[1]], starts[k] + ix[3]) = Labelled(KeyOf(key, g, moved, k), g[k].block, ix[1], ix[3])
        <3>1. Stays(key, g, b, starts, moved, k, ix[1], ix[3])
            BY <1>3, <2>1, LabelsStay
        <3> QED BY <3>1 DEF Stays, KeyOf
    <2> QED BY <2>3, <2>5, <2>6, <2>7
<1>4. \A k \in 1..Len(g) : V[k] = ValueLabels(KeyOf(key, g, moved, k), g[k].block) /\ ValuesOf(g)[k] = g[k].block.values
    BY DEF ValuesOf
<1> HIDE DEF V
<1>5. x \in NonZero(Told("values", W, b.values))
          <=> \E k \in 1..Len(g) : starts[k] # -1 /\ x \in NonZero(Told("values", V[k], ValuesOf(g)[k]))
    <2>1. SameLabels(W, V, ValuesOf(g), b.mappings, starts, Len(g))
        BY <1>3 DEF SameLabels
    <2>2. PICK d, ins, maps, out : d = Len(g) /\ ins = ValuesOf(g) /\ maps = b.mappings /\ out = b.values
        OBVIOUS
    <2>3. d \in Nat /\ Transferred(out, ins, maps, starts, d) /\ SameLabels(W, V, ins, maps, starts, d)
        BY <1>1, <2>1, <2>2
    <2>4. x \in NonZero(Told("values", W, out))
              <=> \E k \in 1..d : starts[k] # -1 /\ x \in NonZero(Told("values", V[k], ins[k]))
        BY <2>3, TransferredFacts
    <2> QED BY <2>2, <2>4
<1> QED
    BY <1>2, <1>4, <1>5, ValueFactsAre

(* The values that do not refer to a sample are not translated.            *)
LEMMA ExtraStays ==
    ASSUME NEW names, NEW e, NEW t, Len(names) \in Nat, names[1] = "sample", \A d \in 2..Len(names) : t[d] = e[d]
    PROVE  Extra(names, t) = Extra(names, e)
<1>1. ASSUME NEW x, NEW u, NEW v, \A d \in 2..Len(names) : u[d] = v[d], x \in Extra(names, u)
      PROVE  x \in Extra(names, v)
    <2>1. x \in NamedOf(names, u) /\ x[1] # "sample"
        BY <1>1 DEF Extra
    <2>2. PICK d \in 1..Len(names) : names[d] # "_" /\ x = <<names[d], u[d]>>
        BY <2>1 DEF NamedOf
    <2>3. x[1] = names[d]
        BY <2>2
    <2>4. d \in 2..Len(names)
        BY <2>1, <2>3
    <2>5. u[d] = v[d]
        BY <1>1, <2>4
    <2>6. x = <<names[d], v[d]>>
        BY <2>2, <2>5
    <2>7. x \in NamedOf(names, v)
        BY <2>2, <2>6 DEF NamedOf
    <2> QED BY <2>1, <2>7 DEF Extra
<1> QED
    BY <1>1

(* So do its gradients.                                                    *)
LEMMA GradientFactsMoved ==
    ASSUME NEW g, NEW n, NEW b, NEW starts, NEW op, Aligned(g, n, b, starts, op),
           NEW moved, NamesOK(g, n, b, moved, op), NEW key, NEW p \in DOMAIN g[1].block.gradients,
           \A k \in 1..Len(g) : starts[k] # -1 => g[k].block.gradients[p].components = b.gradients[p].components,
           Transferred(b.gradients[p].values, GradientsOf(g, p), GradientMaps(g, b, p), starts, Len(g)), NEW x
    PROVE  x \in NonZero(GradientFacts(key, b, p))
               <=> \E k \in 1..Len(g) :
                      starts[k] # -1 /\ x \in NonZero(GradientFacts(KeyOf(key, g, moved, k), g[k].block, p))
<1> DEFINE V == [k \in 1..Len(g) |-> GradientLabels(KeyOf(key, g, moved, k), g[k].block, p)]
<1>1. GroupOK(g, n) /\ Len(g) \in Nat
    BY DEF Aligned, GroupOK
<1>2. PICK W, G : W = GradientLabels(key, b, p) /\ G = b.gradients[p]
    OBVIOUS
<1>3. ASSUME NEW k \in 1..Len(g), starts[k] # -1, NEW ix \in DOMAIN GradientsOf(g, p)[k]
      PROVE  W[Target(GradientMaps(g, b, p)[k], starts[k], ix)] = V[k][ix]
    <2>1. PICK H : H = g[k].block.gradients[p]
        OBVIOUS
    <2>2. ix \in DOMAIN H.values /\ ix[1] \in 1..count(H.samples) /\ ix[3] \in 1..count(g[k].block.properties)
        <3>1. IsArray(H, g[k].block.properties)
            BY <1>1, <2>1, GradientOfGroup
        <3> QED BY <2>1, <3>1 DEF IsArray, Cells, GradientsOf
    <2>3. PICK e, r : e = H.samples.values[ix[1]] /\ r = GradientRow(g, b, p, k, ix[1])
        OBVIOUS
    <2>4. GradientMaps(g, b, p)[k][ix[1]] = r
        BY <2>1, <2>2, <2>3 DEF GradientMaps
    <2>5. PICK at : at = <<r, ix[2], starts[k] + ix[3]>>
        OBVIOUS
    <2>6. at = Target(GradientMaps(g, b, p)[k], starts[k], ix) /\ at[1] = r /\ at[2] = ix[2] /\ at[3] = starts[k] + ix[3]
        BY <2>4, <2>5 DEF Target
    <2>7. at \in DOMAIN G.values
        BY <1>2, <1>3, <2>6 DEF Transferred
    <2>8. /\ e \in Seq(Int) /\ Len(e) = size(g[1].block.gradients[p].samples) /\ Len(e) > 0
          /\ e[1] \in 0..(count(g[k].block.samples) - 1)
        BY <1>1, <2>1, <2>2, <2>3, GradientEntry
    <2>9. PICK t : t = translate(e, b.mappings[k])
        OBVIOUS
    <2>10. G.samples.values[r] = t
        <3>1. GradientRowIs(r, g, b, p, k, ix[1])
            BY <2>1, <2>2, <2>3, GradientRows
        <3> QED BY <1>2, <2>1, <2>3, <2>9, <3>1 DEF GradientRowIs
    <2>11. TranslatedTo(t, e, g, b, k)
        BY <2>8, <2>9, TranslatedRow
    <2>12. W[at] = <<Labelled(key, b, t[1] + 1, starts[k] + ix[3]) \cup Extra(G.samples.names, t), G.components.values[ix[2]]>>
        BY <1>2, <2>6, <2>7, <2>10 DEF GradientLabels, GradientLabelsOf
    <2>13. V[k][ix] = <<Labelled(KeyOf(key, g, moved, k), g[k].block, e[1] + 1, ix[3]) \cup Extra(H.samples.names, e),
                       H.components.values[ix[2]]>>
        BY <2>1, <2>2, <2>3 DEF GradientLabels, GradientLabelsOf
    <2>14. Labelled(key, b, t[1] + 1, starts[k] + ix[3]) = Labelled(KeyOf(key, g, moved, k), g[k].block, e[1] + 1, ix[3])
        <3>1. PICK i \in 1..count(g[k].block.samples) : i = e[1] + 1
            BY <2>11 DEF TranslatedTo
        <3>2. t[1] + 1 = b.mappings[k][i]
            BY <2>11, <3>1 DEF TranslatedTo
        <3>3. Labelled(key, b, b.mappings[k][i], starts[k] + ix[3]) = Labelled(KeyOf(key, g, moved, k), g[k].block, i, ix[3])
            <4>1. Stays(key, g, b, starts, moved, k, i, ix[3])
                BY <1>3, <2>2, LabelsStay
            <4> QED BY <4>1 DEF Stays, KeyOf
        <3> QED BY <3>1, <3>2, <3>3
    <2>15. G.samples.names = H.samples.names /\ H.samples.names[1] = "sample" /\ Len(H.samples.names) = Len(e)
        <3>1. H.samples.names = g[1].block.gradients[p].samples.names /\ p \in DOMAIN g[k].block.gradients
            BY <1>1, <2>1, GradientOfGroup
        <3>2. G.samples.names = g[1].block.gradients[p].samples.names
            <4>1. /\ \A m \in 1..Len(g) : b.mappings[m] \in [1..count(g[m].block.samples) -> 1..count(b.samples)]
                  /\ count(b.samples) \in Nat /\ G.samples = merge_gradient_samples(g, p, b.mappings)
                BY <1>2 DEF Aligned
            <4>2. PICK l : l = merge_gradient_samples(g, p, b.mappings)
                OBVIOUS
            <4>3. l.names = g[1].block.gradients[p].samples.names
                BY <1>1, <4>1, <4>2, MergedGradient
            <4> QED BY <4>1, <4>2, <4>3
        <3>3. TensorBlock_allowed(g[k].block)
            BY <1>1 DEF GroupOK, ValidBlock
        <3>4. H.samples.names[1] = "sample"
            BY <2>1, <3>1, <3>3 DEF TensorBlock_allowed
        <3> QED BY <2>8, <3>1, <3>2, <3>4 DEF size
    <2>16. Extra(G.samples.names, t) = Extra(H.samples.names, e)
        <3>1. PICK names : names = H.samples.names
            OBVIOUS
        <3>2. Len(e) \in Nat
            BY <2>8, SeqLemma
        <3>3. Len(names) \in Nat /\ names[1] = "sample" /\ \A d \in 2..Len(names) : t[d] = e[d]
            BY <2>11, <2>15, <3>1, <3>2 DEF TranslatedTo
        <3>4. Extra(names, t) = Extra(names, e)
            BY <3>3, ExtraStays
        <3> QED BY <2>15, <3>1, <3>4
    <2>17. G.components = H.components
        BY <1>2, <1>3, <2>1
    <2> QED BY <2>6, <2>12, <2>13, <2>14, <2>16, <2>17
<1>4. \A k \in 1..Len(g) : V[k] = GradientLabels(KeyOf(key, g, moved, k), g[k].block, p) /\ GradientsOf(g, p)[k] = g[k].block.gradients[p].values
    BY DEF GradientsOf
<1> HIDE DEF V
<1>5. x \in NonZero(Told(p, W, G.values))
          <=> \E k \in 1..Len(g) : starts[k] # -1 /\ x \in NonZero(Told(p, V[k], GradientsOf(g, p)[k]))
    <2>0. PICK d \in Nat : d = Len(g)
        BY <1>1
    <2>1. PICK maps, ins, out : maps = GradientMaps(g, b, p) /\ ins = GradientsOf(g, p) /\ out = G.values
        OBVIOUS
    <2>2. Transferred(out, ins, maps, starts, d)
        BY <1>2, <2>0, <2>1
    <2>3. SameLabels(W, V, ins, maps, starts, d)
        BY <1>3, <2>0, <2>1 DEF SameLabels
    <2>4. x \in NonZero(Told(p, W, out)) <=> \E k \in 1..d : starts[k] # -1 /\ x \in NonZero(Told(p, V[k], ins[k]))
        BY <2>2, <2>3, TransferredFacts
    <2> QED BY <2>0, <2>1, <2>4
<1> QED
    BY <1>2, <1>4, <1>5, GradientFactsAre

(* A fact of a block is one of its values or of one of its gradients.      *)
LEMMA BlockFactsAre ==
    ASSUME NEW key, NEW b, NEW x
    PROVE  x \in NonZero(BlockFacts(key, b))
               <=> \/ x \in NonZero(ValueFacts(key, b))
                   \/ \E p \in DOMAIN b.gradients : x \in NonZero(GradientFacts(key, b, p))
BY DEF BlockFacts, NonZero

(***************************************************************************)
(* The merged block says what the blocks that have a place in it said,     *)
(* once all their values and gradients are moved.                          *)
(***************************************************************************)
GradientsMoved(g, b, starts, d) ==
    \A p \in DOMAIN b.gradients :
        /\ \A k \in 1..d : starts[k] # -1 => g[k].block.gradients[p].components = b.gradients[p].components
        /\ Transferred(b.gradients[p].values, GradientsOf(g, p), GradientMaps(g, b, p), starts, d)

(* The new block says what the blocks of its group did.                    *)
LEMMA BlockFactsMoved ==
    ASSUME NEW g, NEW n, NEW b, NEW starts, NEW op, Aligned(g, n, b, starts, op),
           NEW moved, NamesOK(g, n, b, moved, op), NEW key,
           \A k \in 1..Len(g) : g[k].block.components = b.components,
           Transferred(b.values, ValuesOf(g), b.mappings, starts, Len(g)), GradientsMoved(g, b, starts, Len(g)), NEW x
    PROVE  x \in NonZero(BlockFacts(key, b))
               <=> \E k \in 1..Len(g) : starts[k] # -1 /\ x \in NonZero(BlockFacts(KeyOf(key, g, moved, k), g[k].block))
<1>1. GroupOK(g, n) /\ Len(g) \in Nat /\ DOMAIN b.gradients = DOMAIN g[1].block.gradients
    BY DEF Aligned, GroupOK
<1>2. \A k \in 1..Len(g) : DOMAIN g[k].block.gradients = DOMAIN b.gradients
    <2>1. ASSUME NEW k \in 1..Len(g) PROVE DOMAIN g[k].block.gradients = DOMAIN g[1].block.gradients
        <3>1. Names(g[k].block).gradients = Names(g[1].block).gradients
            BY <1>1 DEF GroupOK
        <3>2. DOMAIN Names(g[k].block).gradients = DOMAIN g[k].block.gradients
              /\ DOMAIN Names(g[1].block).gradients = DOMAIN g[1].block.gradients
            BY DEF Names
        <3> QED BY <3>1, <3>2
    <2> QED BY <1>1, <2>1
<1>3. x \in NonZero(ValueFacts(key, b))
          <=> \E k \in 1..Len(g) : starts[k] # -1 /\ x \in NonZero(ValueFacts(KeyOf(key, g, moved, k), g[k].block))
    BY ValueFactsMoved
<1>4. \A p \in DOMAIN b.gradients :
          x \in NonZero(GradientFacts(key, b, p))
              <=> \E k \in 1..Len(g) :
                     starts[k] # -1 /\ x \in NonZero(GradientFacts(KeyOf(key, g, moved, k), g[k].block, p))
    <2> SUFFICES ASSUME NEW p \in DOMAIN b.gradients
                 PROVE  x \in NonZero(GradientFacts(key, b, p))
                            <=> \E k \in 1..Len(g) :
                                   starts[k] # -1 /\ x \in NonZero(GradientFacts(KeyOf(key, g, moved, k), g[k].block, p))
        OBVIOUS
    <2>1. /\ \A k \in 1..Len(g) : starts[k] # -1 => g[k].block.gradients[p].components = b.gradients[p].components
          /\ Transferred(b.gradients[p].values, GradientsOf(g, p), GradientMaps(g, b, p), starts, Len(g))
        BY DEF GradientsMoved
    <2>2. p \in DOMAIN g[1].block.gradients
        BY <1>1
    <2> QED BY <2>1, <2>2, GradientFactsMoved
<1>5. \A k \in 1..Len(g) :
          x \in NonZero(BlockFacts(KeyOf(key, g, moved, k), g[k].block))
              <=> \/ x \in NonZero(ValueFacts(KeyOf(key, g, moved, k), g[k].block))
                  \/ \E p \in DOMAIN b.gradients : x \in NonZero(GradientFacts(KeyOf(key, g, moved, k), g[k].block, p))
    BY <1>2, BlockFactsAre
<1>6. x \in NonZero(BlockFacts(key, b))
          <=> \/ x \in NonZero(ValueFacts(key, b))
              \/ \E p \in DOMAIN b.gradients : x \in NonZero(GradientFacts(key, b, p))
    BY BlockFactsAre
<1> QED
    BY <1>3, <1>4, <1>5, <1>6

(* A block without properties has no number.                               *)
LEMMA NothingToMove ==
    ASSUME NEW b, ValidBlock(b), count(b.properties) = 0, NEW key, NEW x
    PROVE  x \notin NonZero(BlockFacts(key, b))
<1>1. DOMAIN b.values = {}
    BY DEF ValidBlock, TensorBlock_allowed, IsArray, Cells
<1>2. ASSUME NEW p \in DOMAIN b.gradients PROVE DOMAIN b.gradients[p].values = {}
    BY DEF ValidBlock, TensorBlock_allowed, IsArray, Cells
<1>3. x \notin NonZero(ValueFacts(key, b))
    <2>1. ~ \E at : Cell(x, "values", ValueLabels(key, b), b.values, at)
        BY <1>1 DEF Cell
    <2> QED BY <2>1, NonZeroTold, ValueFactsAre
<1>4. ASSUME NEW p \in DOMAIN b.gradients PROVE x \notin NonZero(GradientFacts(key, b, p))
    <2>1. ~ \E at : Cell(x, p, GradientLabels(key, b, p), b.gradients[p].values, at)
        BY <1>2 DEF Cell
    <2> QED BY <2>1, NonZeroTold, GradientFactsAre
<1> QED
    BY <1>3, <1>4, BlockFactsAre

-----------------------------------------------------------------------------
(* The block that is being filled *)

(* Its labels are those that it was allocated with.                        *)
LabelledAs(b, g, names, sort, l) ==
    /\ b.samples = merge_samples(g, names, sort) /\ b.mappings = [k \in 1..Len(g) |-> samples_mapping(g[k], b.samples)]
    /\ b.properties = l /\ b.components = g[1].block.components
    /\ DOMAIN b.gradients = DOMAIN g[1].block.gradients
    /\ \A p \in DOMAIN b.gradients : /\ b.gradients[p].samples = merge_gradient_samples(g, p, b.mappings)
                                     /\ b.gradients[p].components = g[1].block.gradients[p].components

(* Where the columns of the blocks of the group start.                     *)
Starts == [k \in 1..Len(group) |-> property_start(group[k])]

(* The names of the merged samples.                                        *)
RowNames(names, g, n, moved, op) ==
    /\ moved \in Seq(STRING) /\ Len(moved) = n
    /\ op = "samples" => names = g[1].block.samples.names \o moved
    /\ op # "samples" => names = g[1].block.samples.names

(* The row of a sample has its label: the sample, and the moved key when   *)
(* it is moved there.                                                      *)
LEMMA RowLabels ==
    ASSUME NEW g, NEW n, GroupOK(g, n), NEW moved, NEW op, NEW names, RowNames(names, g, n, moved, op),
           NEW k \in 1..Len(g), NEW i \in 1..count(g[k].block.samples)
    PROVE  Full(g[k], AddsKey(g, names))[i] = RowLabel(g, k, i, op)
<1>1. PICK v, K, M : v = g[k].block.samples.values[i] /\ K = g[k].key /\ M = g[1].block.samples.names
    OBVIOUS
<1>2. v \in Seq(Int) /\ K \in Seq(Int) /\ Len(K) = n /\ n \in Nat
    BY <1>1, GroupSizes
<1>3. M \in Seq(STRING)
    <2>1. 1 \in 1..Len(g)
        BY GroupSizes
    <2>2. ValidBlock(g[1].block)
        BY <2>1 DEF GroupOK
    <2> QED BY <1>1, <2>2 DEF ValidBlock, ValidLabels
<1>4. Full(g[k], AddsKey(g, names))[i] = SampleWithKey(v, K, AddsKey(g, names))
    BY <1>1, Zenon DEF Full
<1>5. CASE op # "samples"
    <2>1. names = M
        BY <1>1, <1>5 DEF RowNames
    <2>2. Len(M) \in Nat
        BY <1>3, SeqLemma
    <2>3. ~ AddsKey(g, names)
        BY <1>1, <2>1, <2>2 DEF AddsKey
    <2> QED BY <1>1, <1>4, <1>5, <2>3 DEF SampleWithKey, RowLabel
<1>6. CASE op = "samples"
    <2>1. names = M \o moved /\ moved \in Seq(STRING) /\ Len(moved) = n
        BY <1>1, <1>6 DEF RowNames
    <2>2. Len(M) \in Nat /\ Len(names) = Len(M) + n
        BY <1>3, <2>1, NamesConcatParts
    <2>3. AddsKey(g, names) <=> n > 0
        BY <1>1, <1>2, <2>2 DEF AddsKey
    <2>4. RowLabel(g, k, i, op) = With(v, K)
        BY <1>1, <1>6 DEF RowLabel
    <2>5. CASE n > 0
        BY <1>4, <2>3, <2>4, <2>5 DEF SampleWithKey, With
    <2>6. CASE n = 0
        <3>1. PICK w : w = v \o K
            OBVIOUS
        <3>2. w \in Seq(Int) /\ Len(v) \in Nat /\ Len(w) = Len(v) + Len(K) /\ \A x \in 1..Len(v) : w[x] = v[x]
            BY <1>2, <3>1, ConcatParts
        <3>3. Len(w) = Len(v)
            BY <1>2, <2>6, <3>2
        <3>4. w = v
            BY <1>2, <3>2, <3>3, SeqEqual
        <3> QED BY <1>2, <1>4, <2>3, <2>4, <2>6, <3>1, <3>4 DEF SampleWithKey, With
    <2> QED BY <1>2, <2>5, <2>6
<1> QED
    BY <1>5, <1>6

(* The blocks of a group are where the mappings and the starts say.        *)
LEMMA GroupIsAligned ==
    ASSUME CallInv, call.sort_samples \in BOOLEAN, ~ Refused, Len(new_blocks) \in 0..(count(splitted_keys) - 1), ~ CanNotMerge,
           LabelledAs(new_block, group, new_sample_names, call.sort_samples, new_properties)
    PROVE  /\ Aligned(group, Len(names_to_move), new_block, Starts, call.op)
           /\ NamesOK(group, Len(names_to_move), new_block, names_to_move, call.op)
<1>1. PICK g, n, b, op, names, moved, starts :
          /\ g = group /\ n = Len(names_to_move) /\ b = new_block /\ op = call.op
          /\ names = new_sample_names /\ moved = names_to_move /\ starts = Starts
    OBVIOUS
<1>2. GroupOK(g, n) /\ \A k, m \in 1..Len(g) : g[k].key = g[m].key => k = m
    BY <1>1, GroupLemma, GroupKeysDiffer
<1>3. moved \in Seq(STRING) /\ Len(moved) = n
    BY <1>1, LabelsLemma DEF CallInv, names_to_move
<1>4. /\ op = "samples" => names = g[1].block.samples.names \o moved
      /\ op # "samples" => names = g[1].block.samples.names
    BY <1>1 DEF new_sample_names, Along, first_block
<1>5. /\ b.samples = merge_samples(g, names, call.sort_samples) /\ b.samples.names = names
      /\ b.samples.values \in Seq(Seq(Int))
      /\ \A k \in 1..Len(g) :
            /\ samples_mapping(g[k], b.samples) \in [1..count(g[k].block.samples) -> 1..count(b.samples)]
            /\ Len(samples_mapping(g[k], b.samples)) = count(g[k].block.samples)
            /\ \A i \in 1..count(g[k].block.samples) :
                  b.samples.values[samples_mapping(g[k], b.samples)[i]] = Full(g[k], AddsKey(g, names))[i]
    <2>1. b.samples = merge_samples(g, names, call.sort_samples)
        BY <1>1 DEF LabelledAs
    <2>2. PICK l : l = merge_samples(g, names, call.sort_samples)
        OBVIOUS
    <2>3. /\ l.names = names /\ l.values \in Seq(Seq(Int))
          /\ \A k \in 1..Len(g) :
                /\ samples_mapping(g[k], l) \in [1..count(g[k].block.samples) -> 1..count(l)]
                /\ Len(samples_mapping(g[k], l)) = count(g[k].block.samples)
                /\ \A i \in 1..count(g[k].block.samples) :
                      l.values[samples_mapping(g[k], l)[i]] = Full(g[k], AddsKey(g, names))[i]
        BY <1>2, <2>2, RowsLemma
    <2> QED BY <2>1, <2>2, <2>3
<1>6. \A k \in 1..Len(g) : b.mappings[k] = samples_mapping(g[k], b.samples)
    BY <1>1 DEF LabelledAs
<1>7. b.properties = new_properties /\ count(b.samples) \in Nat /\ count(b.properties) \in Nat
    <2>1. b.properties = new_properties
        BY <1>1 DEF LabelledAs
    <2>2. b.properties.values \in Seq(Seq(Int))
        BY <2>1, PropertiesLemma
    <2> QED BY <1>5, <2>1, <2>2, SeqLemma DEF count
<1>8. \A k \in 1..Len(g) : \A i \in 1..count(g[k].block.samples) : b.samples.values[b.mappings[k][i]] = RowLabel(g, k, i, op)
    <2> SUFFICES ASSUME NEW k \in 1..Len(g), NEW i \in 1..count(g[k].block.samples)
                 PROVE  b.samples.values[b.mappings[k][i]] = RowLabel(g, k, i, op)
        OBVIOUS
    <2>0. RowNames(names, g, n, moved, op)
        BY <1>3, <1>4 DEF RowNames
    <2>1. Full(g[k], AddsKey(g, names))[i] = RowLabel(g, k, i, op)
        BY <1>2, <2>0, RowLabels
    <2> QED BY <1>5, <1>6, <2>1
<1>9. ASSUME NEW k \in 1..Len(g)
      PROVE  /\ starts[k] = -1 \/ (starts[k] \in Nat /\ \A q \in 1..count(g[k].block.properties) : starts[k] + q \in 1..count(b.properties))
             /\ \A q \in 1..count(g[k].block.properties) :
                    starts[k] # -1 => b.properties.values[starts[k] + q] = ColumnLabel(g, k, q, op)
    <2>1. StartIsRight(g[k])
        BY <1>1, <1>7, <1>9, StartsLemma
    <2>2. starts[k] = property_start(g[k])
        BY <1>1 DEF Starts
    <2>3. \A q \in 1..count(g[k].block.properties) : ColumnOf(g[k], q) = ColumnLabel(g, k, q, op)
        BY <1>1 DEF ColumnOf, ColumnLabel, Along
    <2> QED BY <1>7, <2>1, <2>2, <2>3 DEF StartIsRight
<1>10. /\ DOMAIN b.gradients = DOMAIN g[1].block.gradients
       /\ \A p \in DOMAIN b.gradients : b.gradients[p].samples = merge_gradient_samples(g, p, b.mappings)
    BY <1>1 DEF LabelledAs
<1>11. Aligned(g, n, b, starts, op)
    BY <1>2, <1>5, <1>6, <1>7, <1>8, <1>9, <1>10 DEF Aligned
<1>12. NamesOK(g, n, b, moved, op)
    <2>1. op = "samples" => b.properties.names = g[1].block.properties.names
        BY <1>1, <1>7 DEF new_properties, Along, first_block
    <2>2. op # "samples" => b.properties.names = moved \o g[1].block.properties.names
        BY <1>1, <1>7 DEF new_properties, Along, first_block, Labels
    <2> QED BY <1>3, <1>4, <1>5, <2>1, <2>2 DEF NamesOK
<1> QED
    BY <1>1, <1>11, <1>12

(***************************************************************************)
(* What a finished block must say: what the blocks of its group said, of   *)
(* those that were asked for.                                              *)
(***************************************************************************)
Belongs(k, n) == count(splitted_keys) = 1 \/ Pick(call.keys.values[k], Kept) = splitted_keys.values[n]

Says(n, b) ==
    NonZero(BlockFacts(Named(splitted_keys, splitted_keys.values[n]), b))
        = NonZero(FactsOf(call.keys, call.blocks, {k \in Requested : Belongs(k, n)}))

(* The facts about some blocks are those of one of them.                   *)
LEMMA FactsOfAre ==
    ASSUME NEW keys, NEW blocks, NEW S, NEW x
    PROVE  x \in NonZero(FactsOf(keys, blocks, S))
               <=> \E k \in S : x \in NonZero(BlockFacts(Named(keys, keys.values[k]), blocks[k]))
BY DEF FactsOf, NonZero

(* What the finished blocks must say.                                      *)
FinishedSaid == \A n \in 1..Len(new_blocks) : Says(n, new_blocks[n])

(***************************************************************************)
(* What is known while the blocks of a group are moved: those before j     *)
(* have their numbers in the block that is being filled, and it has no     *)
(* other number. Nothing is said of the gradients once the components of   *)
(* one were not those of the new block, which only a debug_assert! checks. *)
(***************************************************************************)
FInv ==
    /\ MInv
    /\ Filling => /\ ~ CanNotMerge /\ j \in 1..Len(group)
                  /\ LabelledAs(new_block, group, new_sample_names, call.sort_samples, new_properties)
    /\ pc = "values" => /\ Transferred(new_block.values, ValuesOf(group), new_block.mappings, Starts, j - 1)
                        /\ assertion => GradientsMoved(group, new_block, Starts, 0)
    /\ pc = "gradients" => /\ Transferred(new_block.values, ValuesOf(group), new_block.mappings, Starts, Len(group))
                           /\ assertion => GradientsMoved(group, new_block, Starts, j - 1)
    /\ pc = "finish" => /\ Transferred(new_block.values, ValuesOf(group), new_block.mappings, Starts, Len(group))
                        /\ assertion => GradientsMoved(group, new_block, Starts, Len(group))
    /\ assertion => FinishedSaid

(* The facts about a group while its blocks are moved.                     *)
LEMMA FillingLemma ==
    ASSUME FInv, Filling
    PROVE  /\ Aligned(group, Len(names_to_move), new_block, Starts, call.op)
           /\ NamesOK(group, Len(names_to_move), new_block, names_to_move, call.op)
           /\ \A k \in 1..Len(group) : /\ group[k].block.components = new_block.components
                                       /\ group[k].block.components = group[1].block.components
                                       /\ StartIsRight(group[k]) /\ Starts[k] = property_start(group[k])
           /\ DOMAIN new_block.values =
                  (1..count(new_block.samples)) \X (1..count(group[1].block.components)) \X (1..count(new_block.properties))
           /\ \A p \in DOMAIN new_block.gradients :
                  DOMAIN new_block.gradients[p].values =
                      (1..count(new_block.gradients[p].samples)) \X (1..count(new_block.gradients[p].components))
                          \X (1..count(new_block.properties))
<1>1. /\ CallInv /\ call.sort_samples \in BOOLEAN /\ ~ Refused /\ Len(new_blocks) \in 0..(count(splitted_keys) - 1)
      /\ ~ CanNotMerge /\ LabelledAs(new_block, group, new_sample_names, call.sort_samples, new_properties)
      /\ BlockOK(new_block)
    BY DEF FInv, MInv, Filling
<1>2. new_block.properties = new_properties /\ new_block.components = group[1].block.components
    BY <1>1 DEF LabelledAs
<1>3. \A k \in 1..Len(group) : group[k].block.components = group[1].block.components
    BY <1>1 DEF CanNotMerge, first_block
<1>4. \A k \in 1..Len(group) : StartIsRight(group[k])
    BY <1>1, <1>2, StartsLemma
<1>5. \A k \in 1..Len(group) : Starts[k] = property_start(group[k])
    BY DEF Starts
<1>6. /\ DOMAIN new_block.values =
             (1..count(new_block.samples)) \X (1..count(group[1].block.components)) \X (1..count(new_block.properties))
      /\ \A p \in DOMAIN new_block.gradients :
             DOMAIN new_block.gradients[p].values =
                 (1..count(new_block.gradients[p].samples)) \X (1..count(new_block.gradients[p].components))
                     \X (1..count(new_block.properties))
    BY <1>1, <1>2 DEF BlockOK, IsArray, Cells
<1> QED
    BY <1>1, <1>2, <1>3, <1>4, <1>5, <1>6, GroupIsAligned

(* A block of the group says the same with its key, if it was asked for.   *)
LEMMA MemberSays ==
    ASSUME FInv, Filling, NEW m \in 1..Len(group), NEW n, n = Len(new_blocks) + 1, NEW k, k = Matching[m], NEW x
    PROVE  /\ k \in 1..count(call.keys) /\ Belongs(k, n)
           /\ Starts[m] # -1 /\ x \in NonZero(BlockFacts(KeyOf(Named(splitted_keys, splitted_keys.values[n]), group, names_to_move, m),
                                                        group[m].block))
                  <=> k \in Requested /\ x \in NonZero(BlockFacts(Named(call.keys, call.keys.values[k]), call.blocks[k]))
<1>1. CallInv /\ ~ Refused /\ Len(new_blocks) \in 0..(count(splitted_keys) - 1) /\ count(splitted_keys) \in Nat
    BY SplittedLemma DEF FInv, MInv, Filling
<1>2. /\ GroupOK(group, Len(names_to_move)) /\ Matching \in Seq(1..count(call.keys)) /\ Len(group) = Len(Matching)
      /\ group[m].block = call.blocks[k] /\ group[m].key = Pick(call.keys.values[k], Moved)
      /\ k \in 1..count(call.keys) => Belongs(k, n)
    BY <1>1, GroupLemma DEF Belongs
<1>3. k \in 1..count(call.keys) /\ Belongs(k, n)
    BY <1>2, SeqLemma
<1>4. n \in 1..count(splitted_keys)
    BY <1>1
<1>5. KeyOf(Named(splitted_keys, splitted_keys.values[n]), group, names_to_move, m) = Named(call.keys, call.keys.values[k])
    <2>1. Named(call.keys, call.keys.values[k]) =
              Named(splitted_keys, splitted_keys.values[n]) \cup NamedOf(names_to_move, Pick(call.keys.values[k], Moved))
        BY <1>1, <1>3, <1>4, KeysSay DEF Belongs
    <2> QED BY <1>2, <2>1 DEF KeyOf
<1>6. k \in Requested <=> Wanted(group[m].key)
    BY <1>2, <1>3 DEF Requested, Wanted, Moved
<1>7. StartIsRight(group[m]) /\ Starts[m] = property_start(group[m])
    BY FillingLemma
<1>8. CASE count(group[m].block.properties) = 0
    <2>1. ValidBlock(group[m].block)
        BY <1>2 DEF GroupOK
    <2> QED BY <1>2, <1>3, <1>8, <2>1, NothingToMove
<1>9. CASE count(group[m].block.properties) # 0
    <2>1. Starts[m] # -1 <=> k \in Requested
        BY <1>6, <1>7, <1>9 DEF StartIsRight
    <2> QED BY <1>2, <1>3, <1>5, <2>1
<1> QED
    BY <1>8, <1>9

(* The block that is finished says what it must.                           *)
LEMMA FinishedSays ==
    ASSUME FInv, pc = "finish", assertion
    PROVE  Says(Len(new_blocks) + 1, new_block)
<1>1. Filling
    BY DEF Filling
<1>2. /\ CallInv /\ ~ Refused /\ Len(new_blocks) \in 0..(count(splitted_keys) - 1)
      /\ Transferred(new_block.values, ValuesOf(group), new_block.mappings, Starts, Len(group))
      /\ GradientsMoved(group, new_block, Starts, Len(group))
    BY <1>1 DEF FInv, MInv, Filling
<1>3. PICK n, key : n = Len(new_blocks) + 1 /\ key = Named(splitted_keys, splitted_keys.values[n])
    OBVIOUS
<1>4. PICK S : S = {k \in Requested : Belongs(k, n)}
    OBVIOUS
<1>5. \A k \in S : k \in 1..count(call.keys) /\ k \in Requested /\ Belongs(k, n)
    BY <1>4 DEF Requested
<1>6. ASSUME NEW x
      PROVE  x \in NonZero(BlockFacts(key, new_block)) <=> x \in NonZero(FactsOf(call.keys, call.blocks, S))
    <2> DEFINE F(k) == x \in NonZero(BlockFacts(Named(call.keys, call.keys.values[k]), call.blocks[k]))
               G(m) == Starts[m] # -1 /\ x \in NonZero(BlockFacts(KeyOf(key, group, names_to_move, m), group[m].block))
    <2>1. x \in NonZero(BlockFacts(key, new_block)) <=> \E m \in 1..Len(group) : G(m)
        BY <1>1, <1>2, FillingLemma, BlockFactsMoved
    <2>2. x \in NonZero(FactsOf(call.keys, call.blocks, S)) <=> \E k \in S : F(k)
        BY FactsOfAre
    <2>3. ASSUME NEW m \in 1..Len(group)
          PROVE  /\ Matching[m] \in 1..count(call.keys) /\ Belongs(Matching[m], n)
                 /\ G(m) <=> Matching[m] \in Requested /\ F(Matching[m])
        <3>1. PICK k : k = Matching[m]
            OBVIOUS
        <3> QED BY <1>1, <1>3, <3>1, MemberSays
    <2> HIDE DEF F, G
    <2>4. ASSUME NEW m \in 1..Len(group), G(m) PROVE \E k \in S : F(k)
        <3>1. Matching[m] \in S /\ F(Matching[m])
            BY <1>4, <2>3, <2>4
        <3> QED BY <3>1
    <2>5. ASSUME NEW k \in S, F(k) PROVE \E m \in 1..Len(group) : G(m)
        <3>1. k \in 1..count(call.keys) /\ k \in Requested /\ Belongs(k, n)
            BY <1>5
        <3>2. PICK m \in 1..Len(group) : Matching[m] = k
            BY <1>2, <1>3, <3>1, GroupLemma DEF Belongs
        <3> QED BY <2>3, <2>5, <3>1, <3>2
    <2> QED BY <2>1, <2>2, <2>4, <2>5
<1> QED
    BY <1>3, <1>4, <1>6 DEF Says

-----------------------------------------------------------------------------
(* The steps *)

(* Nothing is in a block that is only allocated.                           *)
LEMMA NothingTransferred ==
    ASSUME NEW out, NEW ins, NEW maps, NEW starts, \A at \in DOMAIN out : out[at] = Zero
    PROVE  Transferred(out, ins, maps, starts, 0)
<1>1. \A k \in 1..0 : FALSE
    OBVIOUS
<1> QED
    BY <1>1 DEF Transferred

(* A block that has no place in the new one is skipped.                    *)
LEMMA SkipOne ==
    ASSUME NEW out, NEW ins, NEW maps, NEW starts, NEW d \in Nat, NEW k, k = d + 1, starts[k] = -1,
           Transferred(out, ins, maps, starts, d)
    PROVE  Transferred(out, ins, maps, starts, k)
<1>1. \A m \in 1..k : m \in 1..d \/ m = k
    OBVIOUS
<1>2. \A m \in 1..d : m \in 1..k
    OBVIOUS
<1>3. \A m \in 1..k : starts[m] # -1 =>
          \A ix \in DOMAIN ins[m] : /\ Target(maps[m], starts[m], ix) \in DOMAIN out
                                    /\ out[Target(maps[m], starts[m], ix)] = ins[m][ix]
    BY <1>1 DEF Transferred
<1>4. \A at \in DOMAIN out : out[at] # Zero =>
          \E m \in 1..k : starts[m] # -1 /\ \E ix \in DOMAIN ins[m] : at = Target(maps[m], starts[m], ix)
    BY <1>2 DEF Transferred
<1> QED
    BY <1>3, <1>4 DEF Transferred

(* The first of blocks that are apart are apart.                           *)
LEMMA FewerApart ==
    ASSUME NEW ins, NEW maps, NEW starts, NEW d \in Nat, Apart(ins, maps, starts, d), NEW k \in 1..d
    PROVE  Apart(ins, maps, starts, k)
<1>1. \A m \in 1..k : m \in 1..d
    OBVIOUS
<1> QED
    BY <1>1 DEF Apart

(* What depends on the call only, or on the call and the finished blocks.  *)
LEMMA LabelsAreConstant ==
    ASSUME UNCHANGED call
    PROVE  /\ names_to_move' = names_to_move /\ Requested' = Requested
           /\ \A n, b : Says(n, b)' <=> Says(n, b)
<1>1. names_to_move' = names_to_move
    BY DEF names_to_move
<1>2. splitted_keys' = splitted_keys
    BY CallIsConstant
<1>3. Requested' = Requested
    BY <1>1 DEF Requested
<1>4. Kept' = Kept
    BY <1>1 DEF Kept
<1>5. ASSUME NEW n PROVE {k \in Requested : Belongs(k, n)}' = {k \in Requested : Belongs(k, n)}
    BY <1>2, <1>3, <1>4 DEF Belongs
<1>6. ASSUME NEW n, NEW b PROVE Says(n, b)' <=> Says(n, b)
    <2>1. PICK S : S = {k \in Requested : Belongs(k, n)}
        OBVIOUS
    <2>2. S = {k \in Requested : Belongs(k, n)}'
        BY <1>5, <2>1
    <2>3. Says(n, b) <=> NonZero(BlockFacts(Named(splitted_keys, splitted_keys.values[n]), b))
                             = NonZero(FactsOf(call.keys, call.blocks, S))
        BY <2>1 DEF Says
    <2>4. Says(n, b)' <=> (NonZero(BlockFacts(Named(splitted_keys, splitted_keys.values[n]), b))
                              = NonZero(FactsOf(call.keys, call.blocks, S)))'
        BY <2>2 DEF Says
    <2> QED BY <1>2, <2>3, <2>4
<1> QED
    BY <1>1, <1>3, <1>6

(* A group is the same while its blocks are moved.                         *)
LEMMA GroupIsConstant ==
    ASSUME UNCHANGED <<call, new_blocks>>
    PROVE  /\ group' = group /\ CanNotMerge' = CanNotMerge /\ new_properties' = new_properties
           /\ new_sample_names' = new_sample_names
           /\ new_block'.properties = new_block.properties => Starts' = Starts
<1>1. group' = group /\ names_to_move' = names_to_move
    BY CallIsConstant DEF names_to_move
<1>2. first_block' = first_block
    BY <1>1 DEF first_block
<1>3. \A op : Along(op)' <=> Along(op)
    BY DEF Along
<1>4. CanNotMerge' = CanNotMerge
    BY <1>1, <1>2, <1>3 DEF CanNotMerge
<1>5. all_property_values' = all_property_values
    BY <1>1 DEF all_property_values
<1>6. new_properties' = new_properties
    BY <1>1, <1>2, <1>3, <1>5 DEF new_properties, new_property_values
<1>7. new_sample_names' = new_sample_names
    BY <1>1, <1>2, <1>3 DEF new_sample_names
<1>8. ASSUME new_block'.properties = new_block.properties PROVE Starts' = Starts
    <2>1. \A b : property_start(b)' = property_start(b)
        BY <1>3, <1>8 DEF property_start
    <2>2. Starts = [k \in 1..Len(group) |-> property_start(group[k])]
        BY DEF Starts
    <2>3. PICK g : g = group
        OBVIOUS
    <2>4. Starts' = [k \in 1..Len(g) |-> property_start(g[k])']
        BY <1>1, <2>3 DEF Starts
    <2> QED BY <2>1, <2>2, <2>3, <2>4
<1> QED
    BY <1>1, <1>4, <1>6, <1>7, <1>8

(* A block is moved that has the labels of the new block.                  *)
LEMMA SameGradientMaps ==
    ASSUME NEW g, NEW b, NEW c, NEW p, c.mappings = b.mappings, c.gradients[p].samples = b.gradients[p].samples
    PROVE  GradientMaps(g, c, p) = GradientMaps(g, b, p)
BY DEF GradientMaps, GradientRow

(* Other arrays, the same labels.                                          *)
SameBut(c, b) ==
    /\ c.samples = b.samples /\ c.mappings = b.mappings /\ c.properties = b.properties /\ c.components = b.components
    /\ DOMAIN c.gradients = DOMAIN b.gradients
    /\ \A p \in DOMAIN b.gradients : /\ c.gradients[p].samples = b.gradients[p].samples
                                     /\ c.gradients[p].components = b.gradients[p].components

(* Arrays may change in a block that is labelled.                          *)
LEMMA LabelsOfArrays ==
    ASSUME NEW b, NEW c, SameBut(c, b), NEW g, NEW names, NEW sort, NEW l, LabelledAs(b, g, names, sort, l)
    PROVE  LabelledAs(c, g, names, sort, l)
BY DEF SameBut, LabelledAs

(* What has to be known to move one more block.                            *)
OneMore(new, out, ins, maps, starts, d, k, N, n, R, C, W) ==
    /\ d \in Nat /\ k = d + 1
    /\ Fits(ins[k], maps[k], starts[k], N, n, R, C, W) /\ Shape(out, R, C, W)
    /\ Apart(ins, maps, starts, k) /\ Transferred(out, ins, maps, starts, d)
    /\ IsMoved(new, out, ins[k], maps[k], starts[k], n)

(* One more block is moved, with all that has to be known in one place.    *)
LEMMA OneMoreIsMoved ==
    ASSUME NEW new, NEW out, NEW ins, NEW maps, NEW starts, NEW d, NEW k, NEW N, NEW n, NEW R, NEW C, NEW W,
           OneMore(new, out, ins, maps, starts, d, k, N, n, R, C, W)
    PROVE  Transferred(new, ins, maps, starts, k)
<1>1. /\ d \in Nat /\ k = d + 1
      /\ Fits(ins[k], maps[k], starts[k], N, n, R, C, W) /\ Shape(out, R, C, W)
      /\ Apart(ins, maps, starts, k) /\ Transferred(out, ins, maps, starts, d)
      /\ IsMoved(new, out, ins[k], maps[k], starts[k], n)
    BY DEF OneMore
<1> QED
    BY <1>1, TransferOne, Zenon

(* The values of the next block.                                           *)
LEMMA NextValues ==
    ASSUME FInv, pc = "values", NEW new,
           new = MoveFrom(new_block.values, group[j].block.values, new_block.mappings[j], group[j])
    PROVE  Transferred(new, ValuesOf(group), new_block.mappings, Starts, j)
<1>1. Filling
    BY DEF Filling
<1>2. PICK g, b, starts, n, op : g = group /\ b = new_block /\ starts = Starts /\ n = Len(names_to_move) /\ op = call.op
    OBVIOUS
<1>3. /\ Aligned(g, n, b, starts, op) /\ j \in 1..Len(g) /\ Transferred(b.values, ValuesOf(g), b.mappings, starts, j - 1)
      /\ \A k \in 1..Len(g) : g[k].block.components = g[1].block.components
      /\ starts[j] = property_start(g[j])
      /\ DOMAIN b.values = (1..count(b.samples)) \X (1..count(g[1].block.components)) \X (1..count(b.properties))
    BY <1>1, <1>2, FillingLemma DEF FInv
<1>4. Len(g) \in Nat /\ j - 1 \in Nat /\ j = (j - 1) + 1
    BY <1>3 DEF Aligned, GroupOK
<1>5. PICK ins, maps, out, d : ins = ValuesOf(g) /\ maps = b.mappings /\ out = b.values /\ d = j - 1
    OBVIOUS
<1>6. Fits(ins[j], maps[j], starts[j], count(g[j].block.samples), count(g[j].block.properties),
           count(b.samples), count(g[1].block.components), count(b.properties))
    BY <1>3, <1>5, ValuesFit
<1>7. Apart(ins, maps, starts, j)
    BY <1>3, <1>4, <1>5, ValuesApart, FewerApart
<1>8. IsMoved(new, out, ins[j], maps[j], starts[j], count(g[j].block.properties))
    <2>1. ins[j] = g[j].block.values
        BY <1>3, <1>5 DEF ValuesOf
    <2> QED BY <1>2, <1>3, <1>5, <2>1 DEF MoveFrom, IsMoved
<1>9. Transferred(out, ins, maps, starts, d) /\ d \in Nat /\ j = d + 1
      /\ Shape(out, count(b.samples), count(g[1].block.components), count(b.properties))
    BY <1>3, <1>4, <1>5 DEF Shape
<1>10. Transferred(new, ins, maps, starts, j)
    <2>1. PICK k, N, q, R, C, W : /\ k = j /\ N = count(g[j].block.samples) /\ q = count(g[j].block.properties)
                                  /\ R = count(b.samples) /\ C = count(g[1].block.components) /\ W = count(b.properties)
        OBVIOUS
    <2>2. OneMore(new, out, ins, maps, starts, d, k, N, q, R, C, W)
        BY <1>6, <1>7, <1>8, <1>9, <2>1 DEF OneMore
    <2>3. Transferred(new, ins, maps, starts, k)
        BY <2>2, OneMoreIsMoved
    <2> QED BY <2>1, <2>3
<1> QED
    BY <1>2, <1>5, <1>10

(* The gradients of the next block.                                        *)
LEMMA NextGradients ==
    ASSUME FInv, pc = "gradients", NEW p \in DOMAIN new_block.gradients, NEW new,
           new = MoveFrom(new_block.gradients[p].values, group[j].block.gradients[p].values, gradient_mapping(p), group[j]),
           property_start(group[j]) # -1 => group[j].block.gradients[p].components = new_block.gradients[p].components,
           Transferred(new_block.gradients[p].values, GradientsOf(group, p), GradientMaps(group, new_block, p), Starts, j - 1)
    PROVE  Transferred(new, GradientsOf(group, p), GradientMaps(group, new_block, p), Starts, j)
<1>1. Filling
    BY DEF Filling
<1>2. PICK g, b, starts, n, op : g = group /\ b = new_block /\ starts = Starts /\ n = Len(names_to_move) /\ op = call.op
    OBVIOUS
<1>3. /\ Aligned(g, n, b, starts, op) /\ j \in 1..Len(g)
      /\ starts[j] = property_start(g[j])
      /\ DOMAIN b.gradients[p].values =
             (1..count(b.gradients[p].samples)) \X (1..count(b.gradients[p].components)) \X (1..count(b.properties))
    BY <1>1, <1>2, FillingLemma DEF FInv
<1>4. Len(g) \in Nat /\ j - 1 \in Nat /\ j = (j - 1) + 1 /\ p \in DOMAIN g[1].block.gradients /\ GroupOK(g, n)
    <2>1. GroupOK(g, n) /\ p \in DOMAIN g[1].block.gradients
        BY <1>2, <1>3 DEF Aligned
    <2>2. Len(g) \in Nat
        BY <2>1 DEF GroupOK
    <2> QED BY <1>3, <2>1, <2>2
<1>5. PICK ins, maps, out, d :
          ins = GradientsOf(g, p) /\ maps = GradientMaps(g, b, p) /\ out = b.gradients[p].values /\ d = j - 1
    OBVIOUS
<1>6. Transferred(out, ins, maps, starts, d) /\ d \in Nat /\ j = d + 1
      /\ Shape(out, count(b.gradients[p].samples), count(b.gradients[p].components), count(b.properties))
    BY <1>2, <1>3, <1>4, <1>5 DEF Shape
<1>7. ins[j] = g[j].block.gradients[p].values /\ maps[j] = gradient_mapping(p)
    <2>1. ins[j] = g[j].block.gradients[p].values
        BY <1>3, <1>5 DEF GradientsOf
    <2>2. maps[j] = [i \in 1..count(g[j].block.gradients[p].samples) |-> GradientRow(g, b, p, j, i)]
        BY <1>3, <1>5 DEF GradientMaps
    <2> QED BY <1>2, <2>1, <2>2 DEF gradient_mapping, GradientRow
<1>8. IsMoved(new, out, ins[j], maps[j], starts[j], count(g[j].block.properties))
    BY <1>2, <1>3, <1>5, <1>7 DEF MoveFrom, IsMoved
<1>9. CASE starts[j] = -1
    <2>1. new = out
        BY <1>8, <1>9 DEF IsMoved
    <2>2. Transferred(new, ins, maps, starts, j)
        BY <1>6, <1>9, <2>1, SkipOne
    <2> QED BY <1>2, <1>5, <2>2
<1>10. CASE starts[j] # -1
    <2>1. PICK c : c = count(b.gradients[p].components)
        OBVIOUS
    <2>2. c \in Nat /\ count(g[j].block.gradients[p].components) = c
        <3>1. g[j].block.gradients[p].components = b.gradients[p].components
            BY <1>2, <1>3, <1>10
        <3>2. ValidLabels(g[j].block.gradients[p].components)
            BY <1>3, <1>4, GradientOfGroup
        <3> QED BY <2>1, <3>1, <3>2, LabelsLemma
    <2>3. Fits(ins[j], maps[j], starts[j], count(g[j].block.gradients[p].samples), count(g[j].block.properties),
               count(b.gradients[p].samples), c, count(b.properties))
        BY <1>3, <1>4, <1>5, <2>2, GradientsFit
    <2>4. Apart(ins, maps, starts, j)
        BY <1>3, <1>4, <1>5, GradientsApart
    <2>5. Shape(out, count(b.gradients[p].samples), c, count(b.properties))
        BY <1>6, <2>1
    <2>6. Transferred(new, ins, maps, starts, j)
        <3>1. PICK k, N, q, R, W : /\ k = j /\ N = count(g[j].block.gradients[p].samples) /\ q = count(g[j].block.properties)
                                   /\ R = count(b.gradients[p].samples) /\ W = count(b.properties)
            OBVIOUS
        <3>2. OneMore(new, out, ins, maps, starts, d, k, N, q, R, c, W)
            BY <1>6, <1>8, <2>3, <2>4, <2>5, <3>1 DEF OneMore
        <3>3. Transferred(new, ins, maps, starts, k)
            BY <3>2, OneMoreIsMoved
        <3> QED BY <3>1, <3>3
    <2> QED BY <1>2, <1>5, <2>6
<1> QED
    BY <1>9, <1>10

(* A finished block stays what it is.                                      *)
LEMMA FinishedStays ==
    ASSUME UNCHANGED call
    PROVE  FinishedSaid' <=> \A n \in 1..Len(new_blocks') : Says(n, new_blocks'[n])
<1>1. \A n, b : Says(n, b)' <=> Says(n, b)
    BY LabelsAreConstant
<1>2. PICK f : f = new_blocks'
    OBVIOUS
<1>3. FinishedSaid' <=> \A n \in 1..Len(f) : Says(n, f[n])'
    BY <1>2 DEF FinishedSaid, Says
<1> QED
    BY <1>1, <1>2, <1>3

(* Nothing is finished before the call starts.                             *)
LEMMA InitFilled == Init => FInv
<1> SUFFICES ASSUME Init PROVE FInv
    OBVIOUS
<1>1. pc = "start" /\ Len(new_blocks) = 0 /\ MInv
    BY InitInv DEF Init
<1> QED
    BY <1>1 DEF FInv, FinishedSaid, Filling

(* The call is refused, or there is a first group.                         *)
LEMMA StartFilled == FInv /\ Start => FInv'
<1> SUFFICES ASSUME FInv, Start PROVE FInv'
    OBVIOUS
<1>1. UNCHANGED <<call, new_blocks, assertion>> /\ pc' \in {"error", "group"}
    BY DEF Start, Fail
<1>2. MInv'
    BY StartInv DEF FInv
<1>3. FinishedSaid => FinishedSaid'
    BY <1>1, FinishedStays DEF FinishedSaid
<1> QED
    BY <1>1, <1>2, <1>3 DEF FInv, Filling

(* The block of a group is allocated, with its labels and no number.       *)
LEMMA StartGroupFilled == FInv /\ StartGroup => FInv'
<1> SUFFICES ASSUME FInv, StartGroup PROVE FInv'
    OBVIOUS
<1>1. /\ pc = "group" /\ ~ Refused /\ CallInv /\ call.sort_samples \in BOOLEAN
      /\ UNCHANGED <<call, new_blocks, assertion>> /\ Len(new_blocks) \in 0..(count(splitted_keys) - 1)
    BY DEF FInv, MInv, StartGroup, Fail
<1>2. MInv'
    BY StartGroupInv DEF FInv
<1>3. FinishedSaid => FinishedSaid'
    BY <1>1, FinishedStays DEF FinishedSaid
<1>4. CASE pc' \in {"error", "panic"}
    BY <1>1, <1>2, <1>3, <1>4 DEF FInv, Filling
<1>5. CASE /\ pc' = "values" /\ j' = 1 /\ ~ CanNotMerge
           /\ new_block' = NewBlock(group, new_sample_names, call.sort_samples, new_properties)
    <2>1. /\ group' = group /\ CanNotMerge' = CanNotMerge /\ new_properties' = new_properties
          /\ new_sample_names' = new_sample_names
        BY <1>1, GroupIsConstant
    <2>2. PICK g, names, l, b : g = group /\ names = new_sample_names /\ l = new_properties
                                /\ b = NewBlock(g, names, call.sort_samples, l)
        OBVIOUS
    <2>3. /\ b.samples = merge_samples(g, names, call.sort_samples)
          /\ b.mappings = [k \in 1..Len(g) |-> samples_mapping(g[k], b.samples)]
          /\ b.properties = l /\ b.components = g[1].block.components
          /\ b.values = Array(b.samples, g[1].block.components, l, Zero)
          /\ DOMAIN b.gradients = DOMAIN g[1].block.gradients
        BY <2>2 DEF NewBlock
    <2>4. ASSUME NEW p \in DOMAIN b.gradients
          PROVE  /\ b.gradients[p].samples = merge_gradient_samples(g, p, b.mappings)
                 /\ b.gradients[p].components = g[1].block.gradients[p].components
                 /\ b.gradients[p].values = Array(b.gradients[p].samples, g[1].block.gradients[p].components, l, Zero)
        BY <2>2 DEF NewBlock
    <2>5. LabelledAs(b, g, names, call.sort_samples, l)
        BY <2>3, <2>4 DEF LabelledAs
    <2>6. \A at \in DOMAIN b.values : b.values[at] = Zero
        BY <2>3 DEF Array
    <2>7. \A p \in DOMAIN b.gradients : \A at \in DOMAIN b.gradients[p].values : b.gradients[p].values[at] = Zero
        BY <2>4 DEF Array
    <2>8. PICK starts : starts = Starts'
        OBVIOUS
    <2>9. Transferred(b.values, ValuesOf(g), b.mappings, starts, 0) /\ GradientsMoved(g, b, starts, 0)
        <3>1. Transferred(b.values, ValuesOf(g), b.mappings, starts, 0)
            BY <2>6, NothingTransferred
        <3>2. \A p \in DOMAIN b.gradients :
                  Transferred(b.gradients[p].values, GradientsOf(g, p), GradientMaps(g, b, p), starts, 0)
            BY <2>7, NothingTransferred
        <3>3. \A k \in 1..0 : FALSE
            OBVIOUS
        <3> QED BY <3>1, <3>2, <3>3 DEF GradientsMoved
    <2>10. new_block' = b
        BY <1>5, <2>2
    <2>11. 1 \in 1..Len(group)
        BY <1>1, GroupLemma DEF GroupOK
    <2>12. Filling' /\ j' \in 1..Len(group') /\ j' - 1 = 0
        BY <1>5, <2>1, <2>11 DEF Filling
    <2>13. LabelledAs(new_block', group', new_sample_names', call'.sort_samples, new_properties')
        BY <1>1, <2>1, <2>2, <2>5, <2>10
    <2>14. /\ Transferred(new_block'.values, ValuesOf(group'), new_block'.mappings, Starts', j' - 1)
           /\ GradientsMoved(group', new_block', Starts', 0)
        BY <2>1, <2>2, <2>8, <2>9, <2>10, <2>12
    <2> QED BY <1>1, <1>2, <1>3, <1>5, <2>1, <2>12, <2>13, <2>14 DEF FInv
<1>6. \/ pc' \in {"error", "panic"}
      \/ /\ pc' = "values" /\ j' = 1 /\ ~ CanNotMerge
         /\ new_block' = NewBlock(group, new_sample_names, call.sort_samples, new_properties)
    BY Zenon DEF StartGroup, Fail, NewBlock, first_block
<1> QED
    BY <1>4, <1>5, <1>6

(* The values of one more block are in the new one.                        *)
LEMMA MoveValuesFilled == FInv /\ MoveValues => FInv'
<1> SUFFICES ASSUME FInv, MoveValues PROVE FInv'
    OBVIOUS
<1> DEFINE v == MoveFrom(new_block.values, group[j].block.values, new_block.mappings[j], group[j])
<1>1. /\ pc = "values" /\ UNCHANGED <<call, new_blocks, assertion>>
      /\ new_block' = [new_block EXCEPT !.values = v]
      /\ IF j = Len(group) THEN j' = 1 /\ pc' = "gradients" ELSE j' = j + 1 /\ pc' = "values"
    BY DEF MoveValues
<1>2. Filling /\ MInv'
    BY <1>1, MoveValuesInv DEF FInv, Filling
<1>3. FinishedSaid => FinishedSaid'
    BY <1>1, FinishedStays DEF FinishedSaid
<1>4. PICK g, b, c, new, starts : g = group /\ b = new_block /\ c = new_block' /\ new = v /\ starts = Starts
    OBVIOUS
<1>5. /\ ~ CanNotMerge /\ j \in 1..Len(g) /\ BlockFields(b)
      /\ LabelledAs(b, g, new_sample_names, call.sort_samples, new_properties)
      /\ assertion => GradientsMoved(g, b, starts, 0)
    BY <1>1, <1>2, <1>4 DEF FInv, MInv
<1>6. Transferred(new, ValuesOf(g), b.mappings, starts, j)
    BY <1>1, <1>4, NextValues
<1>7. c.values = new /\ c.gradients = b.gradients /\ SameBut(c, b)
    <2>1. c = [b EXCEPT !.values = new]
        BY <1>1, <1>4
    <2>2. b = [samples |-> b.samples, mappings |-> b.mappings, components |-> b.components,
               properties |-> b.properties, values |-> b.values, gradients |-> b.gradients]
        BY <1>5 DEF BlockFields
    <2>3. c = [samples |-> b.samples, mappings |-> b.mappings, components |-> b.components,
               properties |-> b.properties, values |-> new, gradients |-> b.gradients]
        BY <2>1, <2>2
    <2> QED BY <2>3 DEF SameBut
<1> HIDE DEF v
<1>8. /\ group' = g /\ CanNotMerge' = CanNotMerge /\ new_properties' = new_properties
      /\ new_sample_names' = new_sample_names /\ Starts' = starts
    <2>1. new_block'.properties = new_block.properties
        BY <1>4, <1>7 DEF SameBut
    <2> QED BY <1>1, <1>4, <2>1, GroupIsConstant
<1>9. LabelledAs(c, g, new_sample_names, call.sort_samples, new_properties)
    BY <1>5, <1>7, LabelsOfArrays
<1>10. GradientsMoved(g, b, starts, 0) => GradientsMoved(g, c, starts, 0)
    <2>1. \A p \in DOMAIN b.gradients : GradientMaps(g, c, p) = GradientMaps(g, b, p)
        BY <1>7, SameGradientMaps DEF SameBut
    <2> QED BY <1>7, <2>1 DEF GradientsMoved
<1>11. Transferred(c.values, ValuesOf(g), c.mappings, starts, j)
    BY <1>6, <1>7 DEF SameBut
<1>12. LabelledAs(new_block', group', new_sample_names', call'.sort_samples, new_properties') /\ ~ CanNotMerge'
    BY <1>1, <1>4, <1>5, <1>8, <1>9
<1>13. Len(g) \in Nat
    BY <1>2, <1>4, FillingLemma DEF Aligned, GroupOK
<1>14. CASE j = Len(group)
    <2>1. j' = 1 /\ pc' = "gradients" /\ j' \in 1..Len(group') /\ j' - 1 = 0 /\ Filling'
        BY <1>1, <1>4, <1>5, <1>8, <1>13, <1>14 DEF Filling
    <2>2. /\ Transferred(new_block'.values, ValuesOf(group'), new_block'.mappings, Starts', Len(group'))
          /\ assertion' => GradientsMoved(group', new_block', Starts', j' - 1)
        BY <1>1, <1>4, <1>5, <1>8, <1>10, <1>11, <1>14, <2>1
    <2> QED BY <1>1, <1>2, <1>3, <1>12, <2>1, <2>2 DEF FInv
<1>15. CASE j # Len(group)
    <2>1. j' = j + 1 /\ pc' = "values" /\ j' \in 1..Len(group') /\ j' - 1 = j /\ Filling'
        BY <1>1, <1>4, <1>5, <1>8, <1>13, <1>15 DEF Filling
    <2>2. /\ Transferred(new_block'.values, ValuesOf(group'), new_block'.mappings, Starts', j' - 1)
          /\ assertion' => GradientsMoved(group', new_block', Starts', 0)
        BY <1>1, <1>4, <1>5, <1>8, <1>10, <1>11, <2>1
    <2> QED BY <1>1, <1>2, <1>3, <1>12, <2>1, <2>2 DEF FInv
<1> QED
    BY <1>14, <1>15

(* So are its gradients, as long as their components are those of the new  *)
(* block.                                                                  *)
LEMMA MoveGradientsFilled == FInv /\ MoveGradients => FInv'
<1> SUFFICES ASSUME FInv, MoveGradients PROVE FInv'
    OBVIOUS
<1> DEFINE F(p) == MoveFrom(new_block.gradients[p].values, group[j].block.gradients[p].values, gradient_mapping(p), group[j])
           Same(p) == property_start(group[j]) # -1 =>
                          group[j].block.gradients[p].components = new_block.gradients[p].components
<1>1. /\ pc = "gradients" /\ UNCHANGED <<call, new_blocks>>
      /\ new_block' = [new_block EXCEPT !.gradients = [p \in DOMAIN new_block.gradients |->
             [new_block.gradients[p] EXCEPT !.values = F(p)]]]
      /\ assertion' = (assertion /\ \A p \in DOMAIN new_block.gradients : Same(p))
      /\ IF j = Len(group) THEN j' = 1 /\ pc' = "finish" ELSE j' = j + 1 /\ pc' = "gradients"
    BY DEF MoveGradients
<1>2. Filling /\ MInv'
    BY <1>1, MoveGradientsInv DEF FInv, Filling
<1>3. FinishedSaid => FinishedSaid'
    BY <1>1, FinishedStays DEF FinishedSaid
<1>4. PICK g, b, c, starts : g = group /\ b = new_block /\ c = new_block' /\ starts = Starts
    OBVIOUS
<1>5. /\ ~ CanNotMerge /\ j \in 1..Len(g) /\ BlockFields(b)
      /\ LabelledAs(b, g, new_sample_names, call.sort_samples, new_properties)
      /\ Transferred(b.values, ValuesOf(g), b.mappings, starts, Len(g))
      /\ assertion => GradientsMoved(g, b, starts, j - 1)
      /\ assertion => FinishedSaid
    BY <1>1, <1>2, <1>4 DEF FInv, MInv
<1>6. Len(g) \in Nat /\ starts[j] = property_start(g[j])
    BY <1>2, <1>4, <1>5, FillingLemma DEF Aligned, GroupOK
<1>7. assertion' => assertion /\ \A p \in DOMAIN b.gradients : Same(p)
    BY <1>1, <1>4
<1>8. ASSUME assertion', NEW p \in DOMAIN b.gradients
      PROVE  Transferred(F(p), GradientsOf(g, p), GradientMaps(g, b, p), starts, j)
    <2>1. GradientsMoved(g, b, starts, j - 1) /\ Same(p)
        BY <1>5, <1>7, <1>8
    <2>2. Transferred(new_block.gradients[p].values, GradientsOf(group, p), GradientMaps(group, new_block, p), Starts, j - 1)
        BY <1>4, <1>8, <2>1 DEF GradientsMoved
    <2>3. p \in DOMAIN new_block.gradients
        BY <1>4
    <2> QED BY <1>1, <1>4, <2>1, <2>2, <2>3, NextGradients
<1>9. ASSUME assertion', NEW p \in DOMAIN b.gradients
      PROVE  \A k \in 1..j : starts[k] # -1 => g[k].block.gradients[p].components = b.gradients[p].components
    <2>1. GradientsMoved(g, b, starts, j - 1) /\ Same(p)
        BY <1>5, <1>7, <1>9
    <2>2. \A k \in 1..j : k \in 1..(j - 1) \/ k = j
        BY <1>5
    <2> QED BY <1>4, <1>6, <2>1, <2>2 DEF GradientsMoved
<1> HIDE DEF F, Same
<1>10. PICK G : G = [p \in DOMAIN b.gradients |-> [b.gradients[p] EXCEPT !.values = F(p)]]
    OBVIOUS
<1>11. c.values = b.values /\ c.gradients = G /\ c.samples = b.samples /\ c.mappings = b.mappings
       /\ c.properties = b.properties /\ c.components = b.components
    <2>1. c = [b EXCEPT !.gradients = G]
        BY <1>1, <1>4, <1>10
    <2>2. b = [samples |-> b.samples, mappings |-> b.mappings, components |-> b.components,
               properties |-> b.properties, values |-> b.values, gradients |-> b.gradients]
        BY <1>5 DEF BlockFields
    <2>3. c = [samples |-> b.samples, mappings |-> b.mappings, components |-> b.components,
               properties |-> b.properties, values |-> b.values, gradients |-> G]
        BY <2>1, <2>2
    <2> QED BY <2>3
<1>12. DOMAIN c.gradients = DOMAIN b.gradients
    BY <1>10, <1>11
<1>13. ASSUME NEW p \in DOMAIN b.gradients
       PROVE  /\ c.gradients[p].samples = b.gradients[p].samples
              /\ c.gradients[p].components = b.gradients[p].components
              /\ c.gradients[p].values = F(p)
    <2>1. PICK q : q = b.gradients[p]
        OBVIOUS
    <2>2. q = [samples |-> q.samples, components |-> q.components, nested |-> q.nested, values |-> q.values]
        BY <1>5, <2>1 DEF BlockFields
    <2>3. c.gradients[p] = [q EXCEPT !.values = F(p)]
        BY <1>10, <1>11, <2>1
    <2>4. c.gradients[p] = [samples |-> q.samples, components |-> q.components, nested |-> q.nested, values |-> F(p)]
        BY <2>2, <2>3
    <2> QED BY <2>1, <2>4
<1>14. SameBut(c, b)
    BY <1>11, <1>12, <1>13 DEF SameBut
<1>15. assertion' => GradientsMoved(g, c, starts, j)
    <2>1. \A p \in DOMAIN b.gradients : GradientMaps(g, c, p) = GradientMaps(g, b, p)
        BY <1>14, SameGradientMaps DEF SameBut
    <2>2. ASSUME assertion', NEW p \in DOMAIN c.gradients
          PROVE  /\ \A k \in 1..j : starts[k] # -1 => g[k].block.gradients[p].components = c.gradients[p].components
                 /\ Transferred(c.gradients[p].values, GradientsOf(g, p), GradientMaps(g, c, p), starts, j)
        <3>1. p \in DOMAIN b.gradients
            BY <1>12
        <3>2. Transferred(F(p), GradientsOf(g, p), GradientMaps(g, b, p), starts, j)
            BY <1>8, <2>2, <3>1
        <3>3. \A k \in 1..j : starts[k] # -1 => g[k].block.gradients[p].components = b.gradients[p].components
            BY <1>9, <2>2, <3>1
        <3> QED BY <1>13, <2>1, <3>1, <3>2, <3>3
    <2> QED BY <2>2 DEF GradientsMoved
<1>16. /\ group' = g /\ CanNotMerge' = CanNotMerge /\ new_properties' = new_properties
       /\ new_sample_names' = new_sample_names /\ Starts' = starts
    <2>1. new_block'.properties = new_block.properties
        BY <1>4, <1>11
    <2> QED BY <1>1, <1>4, <2>1, GroupIsConstant
<1>17. LabelledAs(new_block', group', new_sample_names', call'.sort_samples, new_properties') /\ ~ CanNotMerge'
    <2>1. LabelledAs(c, g, new_sample_names, call.sort_samples, new_properties)
        BY <1>5, <1>14, LabelsOfArrays
    <2> QED BY <1>1, <1>4, <1>5, <1>16, <2>1
<1>18. Transferred(new_block'.values, ValuesOf(group'), new_block'.mappings, Starts', Len(group'))
    BY <1>4, <1>5, <1>11, <1>16
<1>19. assertion' => FinishedSaid'
    BY <1>3, <1>5, <1>7
<1>20. CASE j = Len(group)
    <2>1. j' = 1 /\ pc' = "finish" /\ j' \in 1..Len(group') /\ Filling'
        BY <1>1, <1>4, <1>5, <1>6, <1>16, <1>20 DEF Filling
    <2>2. assertion' => GradientsMoved(group', new_block', Starts', Len(group'))
        BY <1>4, <1>15, <1>16, <1>20
    <2> QED BY <1>2, <1>17, <1>18, <1>19, <2>1, <2>2 DEF FInv
<1>21. CASE j # Len(group)
    <2>1. j' = j + 1 /\ pc' = "gradients" /\ j' \in 1..Len(group') /\ j' - 1 = j /\ Filling'
        BY <1>1, <1>4, <1>5, <1>6, <1>16, <1>21 DEF Filling
    <2>2. assertion' => GradientsMoved(group', new_block', Starts', j' - 1)
        BY <1>4, <1>15, <1>16, <2>1
    <2> QED BY <1>2, <1>17, <1>18, <1>19, <2>1, <2>2 DEF FInv
<1> QED
    BY <1>20, <1>21

(* The finished block says what it must.                                   *)
LEMMA FinishGroupFilled == FInv /\ FinishGroup => FInv'
<1> SUFFICES ASSUME FInv, FinishGroup PROVE FInv'
    OBVIOUS
<1>1. /\ pc = "finish" /\ UNCHANGED <<call, assertion>> /\ new_blocks' = Append(new_blocks, new_block)
      /\ pc' \in {"group", "done"}
    BY DEF FinishGroup
<1>2. MInv' /\ IsSeq(new_blocks)
    BY FinishGroupInv DEF FInv, MInv
<1>3. /\ Len(new_blocks) \in Nat /\ Len(new_blocks') = Len(new_blocks) + 1
      /\ new_blocks'[Len(new_blocks) + 1] = new_block
      /\ \A n \in 1..Len(new_blocks) : new_blocks'[n] = new_blocks[n]
    BY <1>1, <1>2, AppendLemma
<1>4. ASSUME assertion PROVE FinishedSaid'
    <2>1. FinishedSaid
        BY <1>4 DEF FInv
    <2>2. Says(Len(new_blocks) + 1, new_block)
        BY <1>1, <1>4, FinishedSays
    <2>3. PICK f, m : f = new_blocks' /\ m = Len(new_blocks)
        OBVIOUS
    <2>4. ASSUME NEW n \in 1..Len(f) PROVE Says(n, f[n])
        <3>1. CASE n = m + 1
            <4>1. f[n] = new_block
                BY <1>3, <2>3, <3>1
            <4> QED BY <2>2, <2>3, <3>1, <4>1
        <3>2. CASE n # m + 1
            <4>1. n \in 1..m
                BY <1>3, <2>3, <3>2
            <4>2. f[n] = new_blocks[n] /\ Says(n, new_blocks[n])
                BY <1>3, <2>1, <2>3, <4>1 DEF FinishedSaid
            <4> QED BY <4>2
        <3> QED BY <3>1, <3>2
    <2> QED BY <1>1, <2>3, <2>4, FinishedStays
<1> QED
    BY <1>1, <1>2, <1>4 DEF FInv, Filling

(* Every step keeps the invariant.                                         *)
LEMMA NextFilled == FInv /\ [Next]_vars => FInv'
<1> SUFFICES ASSUME FInv, [Next]_vars PROVE FInv'
    OBVIOUS
<1>1. CASE UNCHANGED vars
    <2>1. UNCHANGED <<call, pc, new_blocks, j, new_block, assertion>>
        BY <1>1 DEF vars
    <2>2. MInv'
        BY NextInv DEF FInv
    <2>3. FinishedSaid => FinishedSaid'
        BY <2>1, FinishedStays DEF FinishedSaid
    <2>4. /\ group' = group /\ CanNotMerge' = CanNotMerge /\ new_properties' = new_properties
          /\ new_sample_names' = new_sample_names /\ Starts' = Starts
        BY <2>1, GroupIsConstant
    <2> QED BY <2>1, <2>2, <2>3, <2>4 DEF FInv, Filling
<1>2. CASE Next /\ ~ UNCHANGED vars
    BY <1>2, StartFilled, StartGroupFilled, MoveValuesFilled, MoveGradientsFilled, FinishGroupFilled DEF Next, Done
<1> QED
    BY <1>1, <1>2

(* When all the groups are merged their blocks say what they must.         *)
LEMMA DoneSays == FInv /\ assertion => MeaningIsKept
<1> SUFFICES ASSUME FInv, assertion, pc = "done"
             PROVE  NonZero(Facts(splitted_keys, new_blocks)) = NonZero(FactsOf(call.keys, call.blocks, Requested))
    BY DEF MeaningIsKept
<1>1. /\ CallInv /\ ~ Refused /\ Len(new_blocks) = count(splitted_keys) /\ FinishedSaid
    BY DEF FInv, MInv
<1>2. PICK N, S : N = 1..count(splitted_keys) /\ S = Requested
    OBVIOUS
<1>3. \A k \in S : k \in 1..count(call.keys)
    BY <1>2 DEF Requested
<1>4. ASSUME NEW x
      PROVE  x \in NonZero(Facts(splitted_keys, new_blocks)) <=> x \in NonZero(FactsOf(call.keys, call.blocks, S))
    <2> DEFINE F(k) == x \in NonZero(BlockFacts(Named(call.keys, call.keys.values[k]), call.blocks[k]))
               G(n) == x \in NonZero(BlockFacts(Named(splitted_keys, splitted_keys.values[n]), new_blocks[n]))
    <2>1. x \in NonZero(Facts(splitted_keys, new_blocks)) <=> \E n \in N : G(n)
        BY <1>2, FactsOfAre DEF Facts
    <2>2. x \in NonZero(FactsOf(call.keys, call.blocks, S)) <=> \E k \in S : F(k)
        BY FactsOfAre
    <2>3. ASSUME NEW n \in N PROVE G(n) <=> \E k \in S : Belongs(k, n) /\ F(k)
        <3>1. PICK T : T = {k \in S : Belongs(k, n)}
            OBVIOUS
        <3>2. Says(n, new_blocks[n])
            BY <1>1, <1>2 DEF FinishedSaid
        <3>3. G(n) <=> x \in NonZero(FactsOf(call.keys, call.blocks, T))
            BY <1>2, <3>1, <3>2 DEF Says
        <3>4. x \in NonZero(FactsOf(call.keys, call.blocks, T)) <=> \E k \in T : F(k)
            BY FactsOfAre
        <3> HIDE DEF F, G
        <3> QED BY <3>1, <3>3, <3>4
    <2>4. ASSUME NEW k \in S PROVE \E n \in N : Belongs(k, n)
        <3>1. CASE count(splitted_keys) = 1
            BY <1>2, <3>1 DEF Belongs
        <3>2. CASE count(splitted_keys) # 1
            BY <1>1, <1>2, <1>3, <3>2, SplittedLemma DEF Belongs
        <3> QED BY <3>1, <3>2
    <2> HIDE DEF F, G
    <2> QED BY <2>1, <2>2, <2>3, <2>4
<1>5. \A x : x \in NonZero(Facts(splitted_keys, new_blocks)) <=> x \in NonZero(FactsOf(call.keys, call.blocks, S))
    BY <1>4
<1>6. NonZero(Facts(splitted_keys, new_blocks)) = NonZero(FactsOf(call.keys, call.blocks, S))
    BY <1>5, Zenon DEF NonZero
<1> QED BY <1>2, <1>6

(***************************************************************************)
(* The blocks of the tensor map agree on the components of their           *)
(* gradients. TensorMap::new checks this for the values only; merging      *)
(* blocks relies on it with the debug_assert! of its loop.                 *)
(***************************************************************************)
GradientsAgree ==
    \A k, m \in 1..Len(call.blocks) : \A p \in DOMAIN call.blocks[k].gradients :
        call.blocks[m].gradients[p].components = call.blocks[k].gradients[p].components

(* The debug_assert! holds for such tensor maps.                           *)
LEMMA AssertionLemma ==
    ASSUME FInv, GradientsAgree, MoveGradients, assertion
    PROVE  assertion'
<1>1. /\ Filling
      /\ assertion' = (assertion /\ \A p \in DOMAIN new_block.gradients :
             property_start(group[j]) # -1 =>
                 group[j].block.gradients[p].components = new_block.gradients[p].components)
    BY DEF MoveGradients, Filling
<1>2. /\ CallInv /\ ~ Refused /\ Len(new_blocks) \in 0..(count(splitted_keys) - 1) /\ j \in 1..Len(group)
      /\ DOMAIN new_block.gradients = DOMAIN group[1].block.gradients
      /\ \A p \in DOMAIN new_block.gradients :
             new_block.gradients[p].components = group[1].block.gradients[p].components
    <2>1. /\ j \in 1..Len(group)
          /\ LabelledAs(new_block, group, new_sample_names, call.sort_samples, new_properties)
        BY <1>1 DEF FInv
    <2>2. CallInv /\ ~ Refused /\ Len(new_blocks) \in 0..(count(splitted_keys) - 1)
        BY <1>1 DEF FInv, MInv, Filling
    <2> QED BY <2>1, <2>2 DEF LabelledAs
<1>3. /\ GroupOK(group, Len(names_to_move)) /\ Matching \in Seq(1..count(call.keys)) /\ Len(group) = Len(Matching)
      /\ \A m \in 1..Len(group) : group[m].block = call.blocks[Matching[m]]
      /\ Len(call.blocks) = count(call.keys)
    BY <1>2, GroupLemma, SplittedLemma
<1>4. 1 \in 1..Len(group) /\ \A m \in 1..Len(group) : Matching[m] \in 1..Len(call.blocks)
    BY <1>3, SeqLemma DEF GroupOK
<1>5. PICK k, m \in 1..Len(call.blocks) : k = Matching[1] /\ m = Matching[j]
    BY <1>2, <1>4
<1>6. group[1].block = call.blocks[k] /\ group[j].block = call.blocks[m]
    BY <1>2, <1>3, <1>4, <1>5
<1>7. ASSUME NEW p \in DOMAIN new_block.gradients
      PROVE  group[j].block.gradients[p].components = new_block.gradients[p].components
    <2>1. new_block.gradients[p].components = call.blocks[k].gradients[p].components
        BY <1>2, <1>6, <1>7
    <2>2. p \in DOMAIN call.blocks[k].gradients
        BY <1>2, <1>6, <1>7
    <2>3. call.blocks[m].gradients[p].components = call.blocks[k].gradients[p].components
        BY <1>5, <2>2 DEF GradientsAgree
    <2> QED BY <1>6, <2>1, <2>3
<1> QED
    BY <1>1, <1>7

(***************************************************************************)
(* Merging blocks loses no number, adds none, and leaves each with all the *)
(* labels it had, whatever the tensor map and the request are: the blocks  *)
(* that keys_to_properties and keys_to_samples return say what the blocks  *)
(* of the requested keys said, as long as the debug_assert! of the loop,   *)
(* the only check of the components of the gradients, has not failed.      *)
(***************************************************************************)
THEOREM MovedBlocksKeepMeaning == Spec => [](assertion => MeaningIsKept)
BY InitFilled, NextFilled, DoneSays, PTL DEF Spec

(***************************************************************************)
(* Nor does merging lose or change a number when the blocks given to       *)
(* keys_to_properties or keys_to_samples agree on the components of their  *)
(* gradients: then the debug_assert! holds, and MeaningIsKept with it.     *)
(***************************************************************************)
THEOREM AgreeingBlocksKeepMeaning == Spec => [](GradientsAgree => MeaningIsKept)
<1> DEFINE Holds == FInv /\ (GradientsAgree => assertion)
<1>1. Init => Holds
    BY InitFilled DEF Init
<1>2. Holds /\ [Next]_vars => Holds'
    <2> SUFFICES ASSUME Holds, [Next]_vars PROVE Holds'
        OBVIOUS
    <2>1. FInv'
        BY NextFilled
    <2>2. UNCHANGED call
        BY DEF Next, Start, StartGroup, MoveValues, MoveGradients, FinishGroup, Done, Fail, vars
    <2>3. GradientsAgree' <=> GradientsAgree
        BY <2>2 DEF GradientsAgree
    <2>4. UNCHANGED assertion \/ MoveGradients
        BY DEF Next, Start, StartGroup, MoveValues, FinishGroup, Done, Fail, vars
    <2>5. GradientsAgree /\ MoveGradients => assertion'
        BY AssertionLemma
    <2> QED BY <2>1, <2>3, <2>4, <2>5
<1>3. Holds => (GradientsAgree => MeaningIsKept)
    BY DoneSays
<1> QED
    BY <1>1, <1>2, <1>3, PTL DEF Spec
=============================================================================
