------------------------ MODULE LabelsHandlesProofs -------------------------
(***************************************************************************)
(* Proof that the counts of Labels and of their tensors keep alive what    *)
(* somebody holds, and nothing else, for any number of threads, labels,    *)
(* tensors and holders, and any interleaving.                              *)
(*                                                                         *)
(* A count is the number of places that refer to the labels or the tensor. *)
(* Every kind of place is counted on its own, and a step of a thread       *)
(* touches at most one place of each kind.                                 *)
(***************************************************************************)
EXTENDS LabelsHandles, FiniteSetTheorems, SequenceTheorems, TLAPS

ArcItem == [what : {"arc"}, id : Arcs]
TensorItem == [what : {"tensor"}, id : Tensors]
Item == ArcItem \cup TensorItem
Holder == [arc : Arcs \cup {NULL}, tensor : Tensors]
Job == [pc : {"idle", "create", "set", "ask", "copy", "done"}, arc : Arcs \cup {NULL},
        ptr : Tensors \cup {NULL}, tensor : Tensors \cup {NULL}, device : Devices \cup {NULL},
        dest : Holders \cup {NULL}]
Arc == [strong : Nat, data : Tensors \cup {NULL}, values : Values \cup {NULL}]
Data == [uses : Nat, device : Devices \cup {NULL}, values : Values \cup {NULL}, blob : Arcs \cup {NULL}]

(* A thread has at most two things to release. *)
Tasks == {<<>>} \cup {<<i>> : i \in Item} \cup {<<i, j>> : i \in Item, j \in Item}

HandlesTypeOK ==
    /\ arcs \in [Arcs -> Arc] /\ tensors \in [Tensors -> Data]
    /\ holders \in [Holders -> Holder \cup {NULL}]
    /\ slots \in [Slots -> Arcs \cup {NULL}]
    /\ job \in [Workers -> Job]
    /\ work \in [Workers -> Tasks]

-----------------------------------------------------------------------------
(* The places that refer to labels a, or to the tensor x. What a thread    *)
(* has to release is numbered from the last one to the first.              *)

First(t, i) == Len(work[t]) # 0 /\ work[t][Len(work[t])] = i
Second(t, i) == Len(work[t]) = 2 /\ work[t][1] = i

ArcInHolder(h, a) == h \in Holders /\ holders[h] # NULL /\ holders[h].arc = a
ArcInSlot(s, a) == s \in Slots /\ slots[s] = a
ArcInTensor(x, a) == x \in Tensors /\ tensors[x].blob = a
ArcInJob(t, a) == t \in Workers /\ job[t].pc \in {"set", "ask", "copy", "done"} /\ job[t].arc = a
ArcFirst(t, a) == t \in Workers /\ First(t, [what |-> "arc", id |-> a])
ArcSecond(t, a) == t \in Workers /\ Second(t, [what |-> "arc", id |-> a])

TensorInHolder(h, x) == h \in Holders /\ holders[h] # NULL /\ holders[h].tensor = x
TensorInArc(a, x) == a \in Arcs /\ arcs[a].data = x
TensorInJob(t, x) == t \in Workers /\ job[t].pc \in {"create", "set", "done"} /\ job[t].tensor = x
TensorFirst(t, x) == t \in Workers /\ First(t, [what |-> "tensor", id |-> x])
TensorSecond(t, x) == t \in Workers /\ Second(t, [what |-> "tensor", id |-> x])

(* The number of places. *)
ArcCount(a) ==
    Cardinality({h \in Holders : ArcInHolder(h, a)}) + Cardinality({s \in Slots : ArcInSlot(s, a)})
    + Cardinality({x \in Tensors : ArcInTensor(x, a)}) + Cardinality({t \in Workers : ArcInJob(t, a)})
    + Cardinality({t \in Workers : ArcFirst(t, a)}) + Cardinality({t \in Workers : ArcSecond(t, a)})
TensorCount(x) ==
    Cardinality({h \in Holders : TensorInHolder(h, x)}) + Cardinality({a \in Arcs : TensorInArc(a, x)})
    + Cardinality({t \in Workers : TensorInJob(t, x)})
    + Cardinality({t \in Workers : TensorFirst(t, x)}) + Cardinality({t \in Workers : TensorSecond(t, x)})

CountsInv ==
    /\ \A a \in Arcs : arcs[a].strong = ArcCount(a) /\ (arcs[a].strong = 0 => arcs[a] = FreeArc)
    /\ \A x \in Tensors : tensors[x].uses = TensorCount(x) /\ (tensors[x].uses = 0 => tensors[x] = FreeTensor)

(* The holder that a thread is making is of no one else. *)
DestInv ==
    \A t \in Workers : IF job[t].pc = "idle" THEN job[t] = NoJob
                       ELSE /\ job[t].dest \in Holders /\ holders[job[t].dest] = NULL
                            /\ \A u \in Workers : u # t => job[u].dest # job[t].dest

(* User data is set while only the thread that made the labels has them.   *)
Only(t, a) ==
    /\ \A h \in Holders : ~ArcInHolder(h, a)
    /\ \A s \in Slots : ~ArcInSlot(s, a)
    /\ \A x \in Tensors : ~ArcInTensor(x, a)
    /\ \A u \in Workers : (u # t => ~ArcInJob(u, a)) /\ ~ArcFirst(u, a) /\ ~ArcSecond(u, a)
Setting(t) == job[t].pc = "set" => arcs[job[t].arc].data = NULL /\ Only(t, job[t].arc)

(* What a thread has in hand while it makes a holder. *)
InHand(t) ==
    /\ job[t].pc \in {"set", "ask", "copy", "done"} => job[t].arc \in Arcs
    /\ job[t].pc \in {"create", "set", "done"} => job[t].tensor \in Tensors
    /\ job[t].pc = "copy" => job[t].ptr = arcs[job[t].arc].data
    /\ job[t].pc # "copy" => job[t].ptr = NULL

(* The tensor agrees with the labels. *)
Agree(a, x) == tensors[x].values = arcs[a].values /\ tensors[x].device = DeviceOf(a)
Ready(t) ==
    /\ job[t].pc = "set" => tensors[job[t].tensor].values = arcs[job[t].arc].values
    /\ job[t].pc = "done" => Agree(job[t].arc, job[t].tensor)

JobsInv == \A t \in Workers : Setting(t) /\ InHand(t) /\ Ready(t)

(* User data has the entries of the labels, and labels whose memory is     *)
(* shared have none.                                                       *)
DataInv ==
    /\ \A a \in Arcs : arcs[a].data # NULL => tensors[arcs[a].data].values = arcs[a].values
    /\ \A x \in Tensors : tensors[x].blob # NULL => arcs[tensors[x].blob].data = NULL

(* Holders agree with their labels. *)
HolderAgrees(h) ==
    h \in Holders /\ holders[h] # NULL /\ holders[h].arc # NULL =>
        Agree(holders[h].arc, holders[h].tensor)

HandlesInv ==
    /\ HandlesTypeOK /\ CountsInv /\ DestInv /\ JobsInv /\ DataInv
    /\ \A h \in Holders : HolderAgrees(h)

-----------------------------------------------------------------------------
(* Counting *)

One(p) == IF p THEN 1 ELSE 0

(* A set of places where only k can be put in or taken out. *)
LEMMA CountStep ==
    ASSUME NEW S, IsFiniteSet(S), NEW R \in SUBSET S, NEW Q \in SUBSET S, NEW k,
           \A e \in S : e # k => (e \in R <=> e \in Q)
    PROVE  /\ Cardinality(R) \in Nat /\ Cardinality(Q) \in Nat
           /\ Cardinality(Q) = Cardinality(R) + One(k \in Q) - One(k \in R)
<1>1. IsFiniteSet(R) /\ IsFiniteSet(Q)
    BY FS_Subset
<1>2. Cardinality(R) \in Nat /\ Cardinality(Q) \in Nat
    BY <1>1, FS_CardinalityType
<1>3. CASE k \in R /\ k \in Q
    <2>1. R = Q
        BY <1>3
    <2> QED
        BY <1>2, <1>3, <2>1 DEF One
<1>4. CASE k \notin R /\ k \notin Q
    <2>1. R = Q
        BY <1>4
    <2> QED
        BY <1>2, <1>4, <2>1 DEF One
<1>5. CASE k \in R /\ k \notin Q
    <2>1. R = Q \cup {k}
        BY <1>5
    <2>2. Cardinality(R) = Cardinality(Q) + 1
        BY <1>1, <1>5, <2>1, FS_AddElement
    <2> QED
        BY <1>2, <1>5, <2>2 DEF One
<1>6. CASE k \notin R /\ k \in Q
    <2>1. Q = R \cup {k}
        BY <1>6
    <2>2. Cardinality(Q) = Cardinality(R) + 1
        BY <1>1, <1>6, <2>1, FS_AddElement
    <2> QED
        BY <1>2, <1>6, <2>2 DEF One
<1> QED
    BY <1>3, <1>4, <1>5, <1>6

(* A place that refers to something is counted. *)
LEMMA CountPositive ==
    ASSUME NEW S, IsFiniteSet(S), NEW R \in SUBSET S
    PROVE  Cardinality(R) \in Nat /\ (R # {} => Cardinality(R) > 0) /\ (R = {} => Cardinality(R) = 0)
<1>1. IsFiniteSet(R)
    BY FS_Subset
<1> QED
    BY <1>1, FS_CardinalityType, FS_EmptySet

(* A step of t touches at most the holder h, the slot s, the tensor x and  *)
(* the labels a.                                                           *)
Touched(t, h, s, x, a) ==
    /\ \A k \in Holders : k # h => holders'[k] = holders[k]
    /\ \A k \in Slots : k # s => slots'[k] = slots[k]
    /\ \A k \in Tensors : k # x => tensors'[k] = tensors[k]
    /\ \A k \in Arcs : k # a => arcs'[k] = arcs[k]
    /\ \A u \in Workers : u # t => job'[u] = job[u] /\ work'[u] = work[u]

(* The number of those that refer to b, or to y. *)
ArcLocal(t, h, s, x, b) ==
    One(ArcInHolder(h, b)) + One(ArcInSlot(s, b)) + One(ArcInTensor(x, b))
    + One(ArcInJob(t, b)) + One(ArcFirst(t, b)) + One(ArcSecond(t, b))
TensorLocal(t, h, a, y) ==
    One(TensorInHolder(h, y)) + One(TensorInArc(a, y)) + One(TensorInJob(t, y))
    + One(TensorFirst(t, y)) + One(TensorSecond(t, y))

LEMMA ArcCountStep ==
    ASSUME NEW t, NEW h, NEW s, NEW x, NEW a, Touched(t, h, s, x, a), NEW b
    PROVE  ArcCount(b)' = ArcCount(b) + ArcLocal(t, h, s, x, b)' - ArcLocal(t, h, s, x, b)
<1> USE HandlesAssumption
<1> DEFINE H == {k \in Holders : ArcInHolder(k, b)}
           S == {k \in Slots : ArcInSlot(k, b)}
           X == {k \in Tensors : ArcInTensor(k, b)}
           J == {k \in Workers : ArcInJob(k, b)}
           F == {k \in Workers : ArcFirst(k, b)}
           G == {k \in Workers : ArcSecond(k, b)}
<1>1. /\ Cardinality(H) \in Nat /\ Cardinality(H') \in Nat
      /\ Cardinality(H') = Cardinality(H) + One(h \in H') - One(h \in H)
    <2>1. \A k \in Holders : k # h => (k \in H <=> k \in H')
        BY DEF Touched, ArcInHolder
    <2>2. H \in SUBSET Holders /\ H' \in SUBSET Holders
        OBVIOUS
    <2> HIDE DEF H
    <2> QED
        BY <2>1, <2>2, CountStep
<1>2. /\ Cardinality(S) \in Nat /\ Cardinality(S') \in Nat
      /\ Cardinality(S') = Cardinality(S) + One(s \in S') - One(s \in S)
    <2>1. \A k \in Slots : k # s => (k \in S <=> k \in S')
        BY DEF Touched, ArcInSlot
    <2>2. S \in SUBSET Slots /\ S' \in SUBSET Slots
        OBVIOUS
    <2> HIDE DEF S
    <2> QED
        BY <2>1, <2>2, CountStep
<1>3. /\ Cardinality(X) \in Nat /\ Cardinality(X') \in Nat
      /\ Cardinality(X') = Cardinality(X) + One(x \in X') - One(x \in X)
    <2>1. \A k \in Tensors : k # x => (k \in X <=> k \in X')
        BY DEF Touched, ArcInTensor
    <2>2. X \in SUBSET Tensors /\ X' \in SUBSET Tensors
        OBVIOUS
    <2> HIDE DEF X
    <2> QED
        BY <2>1, <2>2, CountStep
<1>4. /\ Cardinality(J) \in Nat /\ Cardinality(J') \in Nat
      /\ Cardinality(J') = Cardinality(J) + One(t \in J') - One(t \in J)
    <2>1. \A k \in Workers : k # t => (k \in J <=> k \in J')
        BY DEF Touched, ArcInJob
    <2>2. J \in SUBSET Workers /\ J' \in SUBSET Workers
        OBVIOUS
    <2> HIDE DEF J
    <2> QED
        BY <2>1, <2>2, CountStep
<1>5. /\ Cardinality(F) \in Nat /\ Cardinality(F') \in Nat
      /\ Cardinality(F') = Cardinality(F) + One(t \in F') - One(t \in F)
    <2>1. \A k \in Workers : k # t => (k \in F <=> k \in F')
        BY DEF Touched, ArcFirst, First
    <2>2. F \in SUBSET Workers /\ F' \in SUBSET Workers
        OBVIOUS
    <2> HIDE DEF F
    <2> QED
        BY <2>1, <2>2, CountStep
<1>6. /\ Cardinality(G) \in Nat /\ Cardinality(G') \in Nat
      /\ Cardinality(G') = Cardinality(G) + One(t \in G') - One(t \in G)
    <2>1. \A k \in Workers : k # t => (k \in G <=> k \in G')
        BY DEF Touched, ArcSecond, Second
    <2>2. G \in SUBSET Workers /\ G' \in SUBSET Workers
        OBVIOUS
    <2> HIDE DEF G
    <2> QED
        BY <2>1, <2>2, CountStep
<1>7. ArcLocal(t, h, s, x, b) = One(h \in H) + One(s \in S) + One(x \in X) + One(t \in J)
                                + One(t \in F) + One(t \in G)
    <2>1. (h \in H <=> ArcInHolder(h, b)) /\ (s \in S <=> ArcInSlot(s, b)) /\ (x \in X <=> ArcInTensor(x, b))
        BY DEF ArcInHolder, ArcInSlot, ArcInTensor
    <2>2. (t \in J <=> ArcInJob(t, b)) /\ (t \in F <=> ArcFirst(t, b)) /\ (t \in G <=> ArcSecond(t, b))
        BY DEF ArcInJob, ArcFirst, ArcSecond
    <2> HIDE DEF H, S, X, J, F, G
    <2> QED
        BY <2>1, <2>2 DEF ArcLocal, One
<1>8. ArcLocal(t, h, s, x, b)' = One(h \in H') + One(s \in S') + One(x \in X') + One(t \in J')
                                 + One(t \in F') + One(t \in G')
    <2>1. (h \in H' <=> ArcInHolder(h, b)') /\ (s \in S' <=> ArcInSlot(s, b)') /\ (x \in X' <=> ArcInTensor(x, b)')
        BY DEF ArcInHolder, ArcInSlot, ArcInTensor
    <2>2. (t \in J' <=> ArcInJob(t, b)') /\ (t \in F' <=> ArcFirst(t, b)') /\ (t \in G' <=> ArcSecond(t, b)')
        BY DEF ArcInJob, ArcFirst, ArcSecond
    <2> HIDE DEF H, S, X, J, F, G
    <2> QED
        BY <2>1, <2>2 DEF ArcLocal, One
<1>9. /\ ArcCount(b) = Cardinality(H) + Cardinality(S) + Cardinality(X) + Cardinality(J)
                       + Cardinality(F) + Cardinality(G)
      /\ ArcCount(b)' = Cardinality(H') + Cardinality(S') + Cardinality(X') + Cardinality(J')
                        + Cardinality(F') + Cardinality(G')
    BY Zenon DEF ArcCount
<1> HIDE DEF H, S, X, J, F, G
<1> QED
    BY <1>1, <1>2, <1>3, <1>4, <1>5, <1>6, <1>7, <1>8, <1>9 DEF One

LEMMA TensorCountStep ==
    ASSUME NEW t, NEW h, NEW s, NEW x, NEW a, Touched(t, h, s, x, a), NEW y
    PROVE  TensorCount(y)' = TensorCount(y) + TensorLocal(t, h, a, y)' - TensorLocal(t, h, a, y)
<1> USE HandlesAssumption
<1> DEFINE H == {k \in Holders : TensorInHolder(k, y)}
           A == {k \in Arcs : TensorInArc(k, y)}
           J == {k \in Workers : TensorInJob(k, y)}
           F == {k \in Workers : TensorFirst(k, y)}
           G == {k \in Workers : TensorSecond(k, y)}
<1>1. /\ Cardinality(H) \in Nat /\ Cardinality(H') \in Nat
      /\ Cardinality(H') = Cardinality(H) + One(h \in H') - One(h \in H)
    <2>1. \A k \in Holders : k # h => (k \in H <=> k \in H')
        BY DEF Touched, TensorInHolder
    <2>2. H \in SUBSET Holders /\ H' \in SUBSET Holders
        OBVIOUS
    <2> HIDE DEF H
    <2> QED
        BY <2>1, <2>2, CountStep
<1>2. /\ Cardinality(A) \in Nat /\ Cardinality(A') \in Nat
      /\ Cardinality(A') = Cardinality(A) + One(a \in A') - One(a \in A)
    <2>1. \A k \in Arcs : k # a => (k \in A <=> k \in A')
        BY DEF Touched, TensorInArc
    <2>2. A \in SUBSET Arcs /\ A' \in SUBSET Arcs
        OBVIOUS
    <2> HIDE DEF A
    <2> QED
        BY <2>1, <2>2, CountStep
<1>4. /\ Cardinality(J) \in Nat /\ Cardinality(J') \in Nat
      /\ Cardinality(J') = Cardinality(J) + One(t \in J') - One(t \in J)
    <2>1. \A k \in Workers : k # t => (k \in J <=> k \in J')
        BY DEF Touched, TensorInJob
    <2>2. J \in SUBSET Workers /\ J' \in SUBSET Workers
        OBVIOUS
    <2> HIDE DEF J
    <2> QED
        BY <2>1, <2>2, CountStep
<1>5. /\ Cardinality(F) \in Nat /\ Cardinality(F') \in Nat
      /\ Cardinality(F') = Cardinality(F) + One(t \in F') - One(t \in F)
    <2>1. \A k \in Workers : k # t => (k \in F <=> k \in F')
        BY DEF Touched, TensorFirst, First
    <2>2. F \in SUBSET Workers /\ F' \in SUBSET Workers
        OBVIOUS
    <2> HIDE DEF F
    <2> QED
        BY <2>1, <2>2, CountStep
<1>6. /\ Cardinality(G) \in Nat /\ Cardinality(G') \in Nat
      /\ Cardinality(G') = Cardinality(G) + One(t \in G') - One(t \in G)
    <2>1. \A k \in Workers : k # t => (k \in G <=> k \in G')
        BY DEF Touched, TensorSecond, Second
    <2>2. G \in SUBSET Workers /\ G' \in SUBSET Workers
        OBVIOUS
    <2> HIDE DEF G
    <2> QED
        BY <2>1, <2>2, CountStep
<1>7. TensorLocal(t, h, a, y) = One(h \in H) + One(a \in A) + One(t \in J) + One(t \in F) + One(t \in G)
    <2>1. (h \in H <=> TensorInHolder(h, y)) /\ (a \in A <=> TensorInArc(a, y))
        BY DEF TensorInHolder, TensorInArc
    <2>2. (t \in J <=> TensorInJob(t, y)) /\ (t \in F <=> TensorFirst(t, y)) /\ (t \in G <=> TensorSecond(t, y))
        BY DEF TensorInJob, TensorFirst, TensorSecond
    <2> HIDE DEF H, A, J, F, G
    <2> QED
        BY <2>1, <2>2 DEF TensorLocal, One
<1>8. TensorLocal(t, h, a, y)' = One(h \in H') + One(a \in A') + One(t \in J') + One(t \in F') + One(t \in G')
    <2>1. (h \in H' <=> TensorInHolder(h, y)') /\ (a \in A' <=> TensorInArc(a, y)')
        BY DEF TensorInHolder, TensorInArc
    <2>2. (t \in J' <=> TensorInJob(t, y)') /\ (t \in F' <=> TensorFirst(t, y)') /\ (t \in G' <=> TensorSecond(t, y)')
        BY DEF TensorInJob, TensorFirst, TensorSecond
    <2> HIDE DEF H, A, J, F, G
    <2> QED
        BY <2>1, <2>2 DEF TensorLocal, One
<1>9. /\ TensorCount(y) = Cardinality(H) + Cardinality(A) + Cardinality(J) + Cardinality(F) + Cardinality(G)
      /\ TensorCount(y)' = Cardinality(H') + Cardinality(A') + Cardinality(J') + Cardinality(F') + Cardinality(G')
    BY Zenon DEF TensorCount
<1> HIDE DEF H, A, J, F, G
<1> QED
    BY <1>1, <1>2, <1>4, <1>5, <1>6, <1>7, <1>8, <1>9 DEF One

-----------------------------------------------------------------------------
(* What is referred to is counted. *)

ArcsCounted ==
    \A a, k : /\ ArcCount(a) \in Nat
              /\ \/ ArcInHolder(k, a) \/ ArcInSlot(k, a) \/ ArcInTensor(k, a)
                 \/ ArcInJob(k, a) \/ ArcFirst(k, a) \/ ArcSecond(k, a)
                 => ArcCount(a) > 0
TensorsCounted ==
    \A x, k : /\ TensorCount(x) \in Nat
              /\ \/ TensorInHolder(k, x) \/ TensorInArc(k, x) \/ TensorInJob(k, x)
                 \/ TensorFirst(k, x) \/ TensorSecond(k, x)
                 => TensorCount(x) > 0

LEMMA ArcsAreCounted == ArcsCounted
<1> SUFFICES ASSUME NEW a, NEW k
             PROVE  /\ ArcCount(a) \in Nat
                    /\ \/ ArcInHolder(k, a) \/ ArcInSlot(k, a) \/ ArcInTensor(k, a)
                       \/ ArcInJob(k, a) \/ ArcFirst(k, a) \/ ArcSecond(k, a)
                       => ArcCount(a) > 0
    BY DEF ArcsCounted
<1> USE HandlesAssumption
<1> DEFINE H == {e \in Holders : ArcInHolder(e, a)}
           S == {e \in Slots : ArcInSlot(e, a)}
           X == {e \in Tensors : ArcInTensor(e, a)}
           J == {e \in Workers : ArcInJob(e, a)}
           F == {e \in Workers : ArcFirst(e, a)}
           G == {e \in Workers : ArcSecond(e, a)}
<1>1. Cardinality(H) \in Nat /\ (H # {} => Cardinality(H) > 0)
    BY CountPositive
<1>2. Cardinality(S) \in Nat /\ (S # {} => Cardinality(S) > 0)
    BY CountPositive
<1>3. Cardinality(X) \in Nat /\ (X # {} => Cardinality(X) > 0)
    BY CountPositive
<1>4. Cardinality(J) \in Nat /\ (J # {} => Cardinality(J) > 0)
    BY CountPositive
<1>5. Cardinality(F) \in Nat /\ (F # {} => Cardinality(F) > 0)
    BY CountPositive
<1>6. Cardinality(G) \in Nat /\ (G # {} => Cardinality(G) > 0)
    BY CountPositive
<1>7. /\ ArcInHolder(k, a) => H # {}
      /\ ArcInSlot(k, a) => S # {}
      /\ ArcInTensor(k, a) => X # {}
      /\ ArcInJob(k, a) => J # {}
      /\ ArcFirst(k, a) => F # {}
      /\ ArcSecond(k, a) => G # {}
    BY DEF ArcInHolder, ArcInSlot, ArcInTensor, ArcInJob, ArcFirst, ArcSecond
<1>8. ArcCount(a) = Cardinality(H) + Cardinality(S) + Cardinality(X) + Cardinality(J)
                    + Cardinality(F) + Cardinality(G)
    BY DEF ArcCount
<1> HIDE DEF H, S, X, J, F, G
<1>9. \A h, s, x, j, f, g \in Nat :
          /\ h + s + x + j + f + g \in Nat
          /\ (h > 0 \/ s > 0 \/ x > 0 \/ j > 0 \/ f > 0 \/ g > 0) => h + s + x + j + f + g > 0
    OBVIOUS
<1>10. /\ ArcCount(a) \in Nat
       /\ \/ Cardinality(H) > 0 \/ Cardinality(S) > 0 \/ Cardinality(X) > 0
          \/ Cardinality(J) > 0 \/ Cardinality(F) > 0 \/ Cardinality(G) > 0
          => ArcCount(a) > 0
    BY <1>1, <1>2, <1>3, <1>4, <1>5, <1>6, <1>8, <1>9
<1> QED
    BY <1>1, <1>2, <1>3, <1>4, <1>5, <1>6, <1>7, <1>10

LEMMA TensorsAreCounted == TensorsCounted
<1> SUFFICES ASSUME NEW x, NEW k
             PROVE  /\ TensorCount(x) \in Nat
                    /\ \/ TensorInHolder(k, x) \/ TensorInArc(k, x) \/ TensorInJob(k, x)
                       \/ TensorFirst(k, x) \/ TensorSecond(k, x)
                       => TensorCount(x) > 0
    BY DEF TensorsCounted
<1> USE HandlesAssumption
<1> DEFINE H == {e \in Holders : TensorInHolder(e, x)}
           A == {e \in Arcs : TensorInArc(e, x)}
           J == {e \in Workers : TensorInJob(e, x)}
           F == {e \in Workers : TensorFirst(e, x)}
           G == {e \in Workers : TensorSecond(e, x)}
<1>1. Cardinality(H) \in Nat /\ (H # {} => Cardinality(H) > 0)
    BY CountPositive
<1>2. Cardinality(A) \in Nat /\ (A # {} => Cardinality(A) > 0)
    BY CountPositive
<1>4. Cardinality(J) \in Nat /\ (J # {} => Cardinality(J) > 0)
    BY CountPositive
<1>5. Cardinality(F) \in Nat /\ (F # {} => Cardinality(F) > 0)
    BY CountPositive
<1>6. Cardinality(G) \in Nat /\ (G # {} => Cardinality(G) > 0)
    BY CountPositive
<1>7. /\ TensorInHolder(k, x) => H # {}
      /\ TensorInArc(k, x) => A # {}
      /\ TensorInJob(k, x) => J # {}
      /\ TensorFirst(k, x) => F # {}
      /\ TensorSecond(k, x) => G # {}
    BY DEF TensorInHolder, TensorInArc, TensorInJob, TensorFirst, TensorSecond
<1>8. TensorCount(x) = Cardinality(H) + Cardinality(A) + Cardinality(J) + Cardinality(F) + Cardinality(G)
    BY DEF TensorCount
<1> HIDE DEF H, A, J, F, G
<1> QED
    BY <1>1, <1>2, <1>4, <1>5, <1>6, <1>7, <1>8

(* In particular it is in use. *)
InUse ==
    /\ \A a \in Arcs : \A k :
          \/ ArcInHolder(k, a) \/ ArcInSlot(k, a) \/ ArcInTensor(k, a)
          \/ ArcInJob(k, a) \/ ArcFirst(k, a) \/ ArcSecond(k, a)
          => arcs[a].strong # 0
    /\ \A x \in Tensors : \A k :
          \/ TensorInHolder(k, x) \/ TensorInArc(k, x) \/ TensorInJob(k, x)
          \/ TensorFirst(k, x) \/ TensorSecond(k, x)
          => tensors[x].uses # 0

LEMMA CountedIsInUse == CountsInv => InUse
<1> SUFFICES ASSUME CountsInv PROVE InUse
    OBVIOUS
<1>1. ASSUME NEW a \in Arcs, NEW k, \/ ArcInHolder(k, a) \/ ArcInSlot(k, a) \/ ArcInTensor(k, a)
                                   \/ ArcInJob(k, a) \/ ArcFirst(k, a) \/ ArcSecond(k, a)
      PROVE  arcs[a].strong # 0
    <2>1. arcs[a].strong = ArcCount(a)
        BY DEF CountsInv
    <2>2. ArcCount(a) > 0 /\ ArcCount(a) \in Nat
        BY <1>1, ArcsAreCounted DEF ArcsCounted
    <2> QED
        BY <2>1, <2>2
<1>2. ASSUME NEW x \in Tensors, NEW k, \/ TensorInHolder(k, x) \/ TensorInArc(k, x) \/ TensorInJob(k, x)
                                      \/ TensorFirst(k, x) \/ TensorSecond(k, x)
      PROVE  tensors[x].uses # 0
    <2>1. tensors[x].uses = TensorCount(x)
        BY DEF CountsInv
    <2>2. TensorCount(x) > 0 /\ TensorCount(x) \in Nat
        BY <1>2, TensorsAreCounted DEF TensorsCounted
    <2> QED
        BY <2>1, <2>2
<1> QED
    BY <1>1, <1>2 DEF InUse

LEMMA CountedIsInUsePrime == CountsInv' => InUse'
BY CountedIsInUse, PTL

-----------------------------------------------------------------------------
(* What a step must do *)

(* The counts change as much as the number of references. *)
Balanced(t, h, s, x, a) ==
    /\ \A b \in Arcs : arcs'[b].strong = arcs[b].strong + ArcLocal(t, h, s, x, b)' - ArcLocal(t, h, s, x, b)
    /\ \A y \in Tensors : tensors'[y].uses = tensors[y].uses + TensorLocal(t, h, a, y)' - TensorLocal(t, h, a, y)

(* What stays in use keeps its content, except that user data is set, and  *)
(* what is not used any more is freed. New labels have no user data, and a *)
(* new tensor shares the memory of labels only if they have none either.   *)
StableArcs(t) ==
    \A b \in Arcs :
        /\ arcs[b].strong # 0 /\ arcs'[b].strong # 0 =>
              /\ arcs'[b].values = arcs[b].values
              /\ arcs'[b].data = arcs[b].data \/ (job[t].pc = "set" /\ job[t].arc = b)
        /\ arcs[b].strong = 0 => arcs'[b].data = NULL
        /\ arcs'[b].strong = 0 => arcs'[b] = FreeArc
        /\ job[t].pc = "set" /\ job[t].arc = b => arcs'[b].data = NULL \/ arcs'[b].data = job[t].tensor
StableTensors(t) ==
    \A y \in Tensors :
        /\ tensors[y].uses # 0 /\ tensors'[y].uses # 0 =>
              /\ tensors'[y].values = tensors[y].values /\ tensors'[y].device = tensors[y].device
              /\ tensors'[y].blob = tensors[y].blob
        /\ tensors[y].uses = 0 =>
              \/ tensors'[y].blob = NULL
              \/ job[t].pc = "copy" /\ job[t].ptr = NULL /\ tensors'[y].blob = job[t].arc
        /\ tensors'[y].uses = 0 => tensors'[y] = FreeTensor

(* A reference is to new labels, or made from one that t can use. *)
Source(t, b) ==
    \/ arcs[b].strong = 0
    \/ \E k \in Holders : ArcInHolder(k, b)
    \/ \E k \in Slots : ArcInSlot(k, b)
    \/ \E k \in Tensors : ArcInTensor(k, b)
    \/ ArcInJob(t, b) \/ ArcFirst(t, b) \/ ArcSecond(t, b)
Sourced(t, h, s, x) ==
    \A b \in Arcs :
        \/ ArcInHolder(h, b)' \/ ArcInSlot(s, b)' \/ ArcInTensor(x, b)'
        \/ ArcInJob(t, b)' \/ ArcFirst(t, b)' \/ ArcSecond(t, b)'
        => Source(t, b)

LEMMA CountsKept ==
    ASSUME CountsInv, NEW t, NEW h, NEW s, NEW x, NEW a, Touched(t, h, s, x, a),
           Balanced(t, h, s, x, a), StableArcs(t), StableTensors(t)
    PROVE  CountsInv'
<1>1. ASSUME NEW b \in Arcs PROVE arcs'[b].strong = ArcCount(b)'
    <2>1. arcs[b].strong = ArcCount(b)
        BY DEF CountsInv
    <2>2. ArcCount(b)' = ArcCount(b) + ArcLocal(t, h, s, x, b)' - ArcLocal(t, h, s, x, b)
        BY ArcCountStep
    <2> QED
        BY <2>1, <2>2 DEF Balanced
<1>2. ASSUME NEW y \in Tensors PROVE tensors'[y].uses = TensorCount(y)'
    <2>1. tensors[y].uses = TensorCount(y)
        BY DEF CountsInv
    <2>2. TensorCount(y)' = TensorCount(y) + TensorLocal(t, h, a, y)' - TensorLocal(t, h, a, y)
        BY TensorCountStep
    <2> QED
        BY <2>1, <2>2 DEF Balanced
<1>3. \A b \in Arcs : arcs'[b].strong = 0 => (arcs[b] = FreeArc)'
    BY DEF StableArcs, FreeArc
<1>4. \A y \in Tensors : tensors'[y].uses = 0 => (tensors[y] = FreeTensor)'
    BY DEF StableTensors, FreeTensor
<1> QED
    BY <1>1, <1>2, <1>3, <1>4 DEF CountsInv

(* Labels and a tensor that agree, and stay in use, still agree. *)
LEMMA AgreeKept ==
    ASSUME HandlesTypeOK, InUse, InUse', NEW t, StableArcs(t), StableTensors(t),
           NEW b \in Arcs, NEW y \in Tensors, Agree(b, y),
           ~(job[t].pc = "set" /\ job[t].arc = b),
           arcs[b].strong # 0, arcs'[b].strong # 0, tensors[y].uses # 0, tensors'[y].uses # 0
    PROVE  Agree(b, y)'
<1>1. arcs'[b].values = arcs[b].values /\ arcs'[b].data = arcs[b].data
    BY DEF StableArcs
<1>2. tensors'[y].values = tensors[y].values /\ tensors'[y].device = tensors[y].device
    BY DEF StableTensors
<1>3. ASSUME arcs[b].data # NULL PROVE tensors'[arcs[b].data].device = tensors[arcs[b].data].device
    <2>1. PICK d : d = arcs[b].data
        OBVIOUS
    <2>2. d \in Tensors
        BY <1>3, <2>1 DEF HandlesTypeOK, Arc
    <2>3. TensorInArc(b, d) /\ TensorInArc(b, d)'
        BY <1>1, <2>1 DEF TensorInArc
    <2>4. tensors[d].uses # 0 /\ tensors'[d].uses # 0
        BY <2>2, <2>3 DEF InUse
    <2> QED
        BY <2>1, <2>2, <2>4 DEF StableTensors
<1> QED
    BY <1>1, <1>2, <1>3 DEF Agree, DeviceOf

(* The holders that the step does not touch. *)
LEMMA HoldersKept ==
    ASSUME HandlesInv, CountsInv', NEW t \in Workers, NEW h, NEW s, NEW x, NEW a, Touched(t, h, s, x, a),
           StableArcs(t), StableTensors(t), NEW k \in Holders, k # h
    PROVE  HolderAgrees(k)'
<1>1. holders'[k] = holders[k]
    BY DEF Touched
<1> SUFFICES ASSUME holders[k] # NULL, holders[k].arc # NULL PROVE HolderAgrees(k)'
    BY <1>1 DEF HolderAgrees
<1>2. PICK b, y : b = holders[k].arc /\ y = holders[k].tensor
    OBVIOUS
<1>3. b \in Arcs /\ y \in Tensors
    BY <1>2 DEF HandlesInv, HandlesTypeOK, Holder
<1>4. Agree(b, y)
    BY <1>2 DEF HandlesInv, HolderAgrees
<1>5. ArcInHolder(k, b) /\ ArcInHolder(k, b)' /\ TensorInHolder(k, y) /\ TensorInHolder(k, y)'
    BY <1>1, <1>2 DEF ArcInHolder, TensorInHolder
<1>6. InUse /\ InUse'
    BY CountedIsInUse, CountedIsInUsePrime DEF HandlesInv
<1>7. arcs[b].strong # 0 /\ arcs'[b].strong # 0 /\ tensors[y].uses # 0 /\ tensors'[y].uses # 0
    BY <1>3, <1>5, <1>6 DEF InUse
<1>8. ~(job[t].pc = "set" /\ job[t].arc = b)
    BY <1>5 DEF HandlesInv, JobsInv, Setting, Only
<1>9. Agree(b, y)'
    BY <1>3, <1>4, <1>6, <1>7, <1>8, AgreeKept DEF HandlesInv
<1> QED
    BY <1>1, <1>2, <1>9 DEF HolderAgrees

(* The threads that do not take the step. *)
LEMMA ThreadsKept ==
    ASSUME HandlesInv, CountsInv', NEW t \in Workers, NEW h, NEW s, NEW x, NEW a, Touched(t, h, s, x, a),
           StableArcs(t), StableTensors(t), Sourced(t, h, s, x), NEW u \in Workers, u # t
    PROVE  (Setting(u) /\ InHand(u) /\ Ready(u))'
<1>1. job'[u] = job[u] /\ work'[u] = work[u]
    BY DEF Touched
<1>2. InUse /\ InUse'
    BY CountedIsInUse, CountedIsInUsePrime DEF HandlesInv
<1>3. Setting(u) /\ InHand(u) /\ Ready(u) /\ Setting(t)
    BY DEF HandlesInv, JobsInv
<1>4. PICK b, y : b = job[u].arc /\ y = job[u].tensor
    OBVIOUS
<1>5. ASSUME job[u].pc \in {"set", "ask", "copy", "done"}
      PROVE  /\ b \in Arcs /\ ArcInJob(u, b) /\ arcs[b].strong # 0 /\ arcs'[b].strong # 0
             /\ ~(job[t].pc = "set" /\ job[t].arc = b)
             /\ arcs'[b].values = arcs[b].values /\ arcs'[b].data = arcs[b].data
    <2>1. b \in Arcs
        BY <1>3, <1>4, <1>5 DEF InHand
    <2>2. ArcInJob(u, b) /\ ArcInJob(u, b)'
        BY <1>1, <1>4, <1>5 DEF ArcInJob
    <2>3. arcs[b].strong # 0 /\ arcs'[b].strong # 0
        BY <1>2, <2>1, <2>2 DEF InUse
    <2>4. ~(job[t].pc = "set" /\ job[t].arc = b)
        BY <1>3, <2>2 DEF Setting, Only
    <2> QED
        BY <2>1, <2>2, <2>3, <2>4 DEF StableArcs
<1>6. ASSUME job[u].pc \in {"create", "set", "done"}
      PROVE  y \in Tensors /\ tensors[y].uses # 0 /\ tensors'[y].uses # 0 /\ tensors'[y].values = tensors[y].values
    <2>1. y \in Tensors
        BY <1>3, <1>4, <1>6 DEF InHand
    <2>2. TensorInJob(u, y) /\ TensorInJob(u, y)'
        BY <1>1, <1>4, <1>6 DEF TensorInJob
    <2>3. tensors[y].uses # 0 /\ tensors'[y].uses # 0
        BY <1>2, <2>1, <2>2 DEF InUse
    <2> QED
        BY <2>1, <2>3 DEF StableTensors
<1>7. InHand(u)'
    BY <1>1, <1>3, <1>4, <1>5 DEF InHand
<1>8. Ready(u)'
    <2>1. ASSUME job[u].pc = "set" PROVE tensors'[y].values = arcs'[b].values
        BY <1>3, <1>4, <1>5, <1>6, <2>1 DEF Ready
    <2>2. ASSUME job[u].pc = "done" PROVE Agree(b, y)'
        <3>1. Agree(b, y)
            BY <1>3, <1>4, <2>2 DEF Ready
        <3> QED
            BY <1>2, <1>5, <1>6, <2>2, <3>1, AgreeKept DEF HandlesInv
    <2> QED
        BY <1>1, <1>4, <2>1, <2>2 DEF Ready
<1>9. Setting(u)'
    <2> SUFFICES ASSUME job[u].pc = "set" PROVE arcs'[b].data = NULL /\ Only(u, b)'
        BY <1>1, <1>4 DEF Setting
    <2>1. Only(u, b) /\ arcs[b].data = NULL
        BY <1>3, <1>4 DEF Setting
    <2>2. b \in Arcs /\ arcs[b].strong # 0 /\ arcs'[b].data = NULL
        BY <1>5, <2>1
    <2>3. ~Source(t, b)
        BY <2>1, <2>2 DEF Source, Only
    <2>4. /\ ~ArcInHolder(h, b)' /\ ~ArcInSlot(s, b)' /\ ~ArcInTensor(x, b)'
          /\ ~ArcInJob(t, b)' /\ ~ArcFirst(t, b)' /\ ~ArcSecond(t, b)'
        BY <2>2, <2>3 DEF Sourced
    <2>5. \A k \in Holders : ~ArcInHolder(k, b)'
        BY <2>1, <2>4 DEF Touched, Only, ArcInHolder
    <2>6. \A k \in Slots : ~ArcInSlot(k, b)'
        BY <2>1, <2>4 DEF Touched, Only, ArcInSlot
    <2>7. \A k \in Tensors : ~ArcInTensor(k, b)'
        BY <2>1, <2>4 DEF Touched, Only, ArcInTensor
    <2>8. \A v \in Workers : v # u => ~ArcInJob(v, b)'
        BY <2>1, <2>4 DEF Touched, Only, ArcInJob
    <2>9. \A v \in Workers : ~ArcFirst(v, b)' /\ ~ArcSecond(v, b)'
        BY <2>1, <2>4 DEF Touched, Only, ArcFirst, First, ArcSecond, Second
    <2> QED
        BY <2>2, <2>5, <2>6, <2>7, <2>8, <2>9 DEF Only
<1> QED
    BY <1>7, <1>8, <1>9

LEMMA DataKept ==
    ASSUME HandlesInv, HandlesTypeOK', CountsInv', NEW t \in Workers, StableArcs(t), StableTensors(t)
    PROVE  DataInv'
<1>1. InUse /\ InUse'
    BY CountedIsInUse, CountedIsInUsePrime DEF HandlesInv
<1>2. Setting(t) /\ InHand(t) /\ Ready(t) /\ DataInv
    BY DEF HandlesInv, JobsInv
<1>3. ASSUME NEW b \in Arcs, arcs'[b].data # NULL
      PROVE  tensors'[arcs'[b].data].values = arcs'[b].values
    <2>1. arcs[b].strong # 0 /\ arcs'[b].strong # 0
        BY <1>3 DEF StableArcs, FreeArc
    <2>2. PICK d : d = arcs'[b].data
        OBVIOUS
    <2>3. d \in Tensors
        BY <1>3, <2>2 DEF HandlesTypeOK, Arc
    <2>4. tensors'[d].uses # 0
        <3>1. TensorInArc(b, d)'
            BY <2>2 DEF TensorInArc
        <3> QED
            BY <1>1, <2>3, <3>1 DEF InUse
    <2>5. arcs'[b].values = arcs[b].values
        BY <2>1 DEF StableArcs
    <2>6. tensors[d].uses # 0 /\ tensors[d].values = arcs[b].values
        <3>1. CASE arcs[b].data = d
            <4>1. TensorInArc(b, d)
                BY <3>1 DEF TensorInArc
            <4> QED
                BY <1>1, <1>2, <1>3, <2>2, <2>3, <3>1, <4>1 DEF InUse, DataInv
        <3>2. CASE arcs[b].data # d
            <4>1. job[t].pc = "set" /\ job[t].arc = b
                BY <2>1, <2>2, <3>2 DEF StableArcs
            <4>2. d = job[t].tensor
                BY <1>3, <2>2, <4>1 DEF StableArcs
            <4>3. TensorInJob(t, d)
                BY <4>1, <4>2 DEF TensorInJob
            <4> QED
                BY <1>1, <1>2, <2>3, <4>1, <4>2, <4>3 DEF InUse, Ready
        <3> QED
            BY <3>1, <3>2
    <2> QED
        BY <2>2, <2>3, <2>4, <2>5, <2>6 DEF StableTensors
<1>4. ASSUME NEW y \in Tensors, tensors'[y].blob # NULL
      PROVE  arcs'[tensors'[y].blob].data = NULL
    <2>1. tensors'[y].uses # 0
        BY <1>4 DEF StableTensors, FreeTensor
    <2>2. PICK c : c = tensors'[y].blob
        OBVIOUS
    <2>3. c \in Arcs
        BY <1>4, <2>2 DEF HandlesTypeOK, Data
    <2>4. arcs'[c].strong # 0
        <3>1. ArcInTensor(y, c)'
            BY <2>2 DEF ArcInTensor
        <3> QED
            BY <1>1, <2>3, <3>1 DEF InUse
    <2>5. CASE tensors[y].uses = 0
        <3>1. job[t].pc = "copy" /\ job[t].ptr = NULL /\ c = job[t].arc
            BY <1>4, <2>2, <2>5 DEF StableTensors
        <3>2. ArcInJob(t, c) /\ arcs[c].data = NULL
            BY <1>2, <3>1 DEF ArcInJob, InHand
        <3>3. arcs[c].strong # 0
            BY <1>1, <2>3, <3>2 DEF InUse
        <3> QED
            BY <2>2, <2>3, <2>4, <3>1, <3>2, <3>3 DEF StableArcs
    <2>6. CASE tensors[y].uses # 0
        <3>1. tensors[y].blob = c
            BY <2>1, <2>2, <2>6 DEF StableTensors
        <3>2. ArcInTensor(y, c) /\ arcs[c].data = NULL
            BY <1>2, <1>4, <2>2, <3>1 DEF ArcInTensor, DataInv
        <3>3. arcs[c].strong # 0
            BY <1>1, <2>3, <3>2 DEF InUse
        <3>4. ~(job[t].pc = "set" /\ job[t].arc = c)
            BY <1>2, <3>2 DEF Setting, Only
        <3> QED
            BY <2>2, <2>3, <2>4, <3>2, <3>3, <3>4 DEF StableArcs
    <2> QED
        BY <2>5, <2>6
<1> QED
    BY <1>3, <1>4 DEF DataInv

(***************************************************************************)
(* A step of t that does all this, and leaves t and the holder h as they   *)
(* must be, keeps the invariant.                                           *)
(***************************************************************************)
LEMMA StepKeepsInv ==
    ASSUME HandlesInv, NEW t \in Workers, NEW h, NEW s, NEW x, NEW a, HandlesTypeOK', DestInv',
           Touched(t, h, s, x, a), Balanced(t, h, s, x, a), StableArcs(t), StableTensors(t),
           Sourced(t, h, s, x), Setting(t)', InHand(t)', Ready(t)', HolderAgrees(h)'
    PROVE  HandlesInv'
<1>1. CountsInv'
    BY CountsKept DEF HandlesInv
<1>2. DataInv'
    BY <1>1, DataKept
<1>3. ASSUME NEW u \in Workers PROVE (Setting(u) /\ InHand(u) /\ Ready(u))'
    BY <1>1, ThreadsKept
<1>4. ASSUME NEW k \in Holders PROVE HolderAgrees(k)'
    BY <1>1, HoldersKept
<1>5. JobsInv'
    BY <1>3 DEF JobsInv
<1> QED
    BY <1>1, <1>2, <1>4, <1>5 DEF HandlesInv

LEMMA InitHandlesInv == HandlesInit => HandlesInv
<1> SUFFICES ASSUME HandlesInit PROVE HandlesInv
    OBVIOUS
<1> USE HandlesAssumption
<1>0. FreeArc \in Arc /\ FreeTensor \in Data /\ NoJob \in Job
    BY DEF FreeArc, Arc, FreeTensor, Data, NoJob, Job
<1>1. HandlesTypeOK
    BY <1>0 DEF HandlesInit, HandlesTypeOK, Tasks
<1>2. ASSUME NEW a \in Arcs PROVE arcs[a] = FreeArc /\ arcs[a].strong = 0 /\ ArcCount(a) = 0
    <2>1. a # NULL
        OBVIOUS
    <2>2. arcs[a] = FreeArc /\ arcs[a].strong = 0
        BY DEF HandlesInit, FreeArc
    <2>3. \A k \in Holders : ~ArcInHolder(k, a)
        BY DEF HandlesInit, ArcInHolder
    <2>4. \A k \in Slots : ~ArcInSlot(k, a)
        BY <2>1 DEF HandlesInit, ArcInSlot
    <2>5. \A k \in Tensors : ~ArcInTensor(k, a)
        BY <2>1 DEF HandlesInit, ArcInTensor, FreeTensor
    <2>6. \A k \in Workers : ~ArcInJob(k, a) /\ ~ArcFirst(k, a) /\ ~ArcSecond(k, a)
        BY DEF HandlesInit, ArcInJob, NoJob, ArcFirst, First, ArcSecond, Second
    <2>7. /\ {k \in Holders : ArcInHolder(k, a)} = {} /\ {k \in Slots : ArcInSlot(k, a)} = {}
          /\ {k \in Tensors : ArcInTensor(k, a)} = {} /\ {k \in Workers : ArcInJob(k, a)} = {}
          /\ {k \in Workers : ArcFirst(k, a)} = {} /\ {k \in Workers : ArcSecond(k, a)} = {}
        BY <2>3, <2>4, <2>5, <2>6
    <2>8. ArcCount(a) = 0
        BY <2>7, FS_EmptySet DEF ArcCount
    <2> QED
        BY <2>2, <2>8
<1>3. ASSUME NEW x \in Tensors PROVE tensors[x] = FreeTensor /\ tensors[x].uses = 0 /\ TensorCount(x) = 0
    <2>1. x # NULL
        OBVIOUS
    <2>2. tensors[x] = FreeTensor /\ tensors[x].uses = 0
        BY DEF HandlesInit, FreeTensor
    <2>3. \A k \in Holders : ~TensorInHolder(k, x)
        BY DEF HandlesInit, TensorInHolder
    <2>4. \A k \in Arcs : ~TensorInArc(k, x)
        BY <2>1 DEF HandlesInit, TensorInArc, FreeArc
    <2>5. \A k \in Workers : ~TensorInJob(k, x) /\ ~TensorFirst(k, x) /\ ~TensorSecond(k, x)
        BY DEF HandlesInit, TensorInJob, NoJob, TensorFirst, First, TensorSecond, Second
    <2>6. /\ {k \in Holders : TensorInHolder(k, x)} = {} /\ {k \in Arcs : TensorInArc(k, x)} = {}
          /\ {k \in Workers : TensorInJob(k, x)} = {}
          /\ {k \in Workers : TensorFirst(k, x)} = {} /\ {k \in Workers : TensorSecond(k, x)} = {}
        BY <2>3, <2>4, <2>5
    <2>7. TensorCount(x) = 0
        BY <2>6, FS_EmptySet DEF TensorCount
    <2> QED
        BY <2>2, <2>7
<1>4. CountsInv
    BY <1>2, <1>3 DEF CountsInv
<1>5. DestInv /\ JobsInv
    BY DEF HandlesInit, DestInv, NoJob, JobsInv, Setting, InHand, Ready
<1>6. DataInv /\ \A h \in Holders : HolderAgrees(h)
    BY <1>2, <1>3 DEF HandlesInit, DataInv, FreeArc, FreeTensor, HolderAgrees
<1> QED
    BY <1>1, <1>4, <1>5, <1>6 DEF HandlesInv

(* What the invariant says. *)
LEMMA HandlesInvSafe == HandlesInv => HandlesAreSafe
<1> SUFFICES ASSUME HandlesInv PROVE HandlesAreSafe
    OBVIOUS
<1>1. InUse /\ HandlesTypeOK /\ CountsInv /\ DataInv
    BY CountedIsInUse DEF HandlesInv
<1>2. (\A a \in Arcs : arcs[a].strong # 0 => arcs[a] # FreeArc) /\ (\A x \in Tensors : tensors[x].uses # 0 => tensors[x] # FreeTensor)
    BY DEF FreeArc, FreeTensor
<1>3. NothingDangles
    <2>1. ASSUME NEW h \in UsedHolders
          PROVE  tensors[holders[h].tensor] # FreeTensor /\ (holders[h].arc # NULL => arcs[holders[h].arc] # FreeArc)
        <3>1. PICK b, y : b = holders[h].arc /\ y = holders[h].tensor
            OBVIOUS
        <3>2. h \in Holders /\ holders[h] # NULL /\ y \in Tensors /\ b \in Arcs \cup {NULL}
            BY <1>1, <3>1 DEF UsedHolders, HandlesTypeOK, Holder
        <3>3. ArcInHolder(h, b) /\ TensorInHolder(h, y)
            BY <3>1, <3>2 DEF ArcInHolder, TensorInHolder
        <3> QED
            BY <1>1, <1>2, <3>1, <3>2, <3>3 DEF InUse
    <2>2. ASSUME NEW s \in Slots, slots[s] # NULL PROVE arcs[slots[s]] # FreeArc
        <3>1. slots[s] \in Arcs /\ ArcInSlot(s, slots[s])
            BY <1>1, <2>2 DEF HandlesTypeOK, ArcInSlot
        <3> QED
            BY <1>1, <1>2, <3>1 DEF InUse
    <2>3. ASSUME NEW a \in Arcs, arcs[a].data # NULL PROVE tensors[arcs[a].data] # FreeTensor
        <3>1. arcs[a].data \in Tensors /\ TensorInArc(a, arcs[a].data)
            BY <1>1, <2>3 DEF HandlesTypeOK, Arc, TensorInArc
        <3> QED
            BY <1>1, <1>2, <3>1 DEF InUse
    <2>4. ASSUME NEW x \in Tensors, tensors[x].blob # NULL PROVE arcs[tensors[x].blob] # FreeArc
        <3>1. tensors[x].blob \in Arcs /\ ArcInTensor(x, tensors[x].blob)
            BY <1>1, <2>4 DEF HandlesTypeOK, Data, ArcInTensor
        <3> QED
            BY <1>1, <1>2, <3>1 DEF InUse
    <2>5. ASSUME NEW t \in Workers, job[t].ptr # NULL
          PROVE  tensors[job[t].ptr] # FreeTensor /\ arcs[job[t].arc].data = job[t].ptr
        <3>1. job[t].arc \in Arcs /\ arcs[job[t].arc].data = job[t].ptr
            BY <2>5 DEF HandlesInv, JobsInv, InHand
        <3> QED
            BY <2>3, <2>5, <3>1
    <2> QED
        BY <2>1, <2>2, <2>3, <2>4, <2>5 DEF NothingDangles, Dangling
<1>4. HoldersAgree
    BY DEF HandlesInv, HolderAgrees, HoldersAgree, OwnedHolders, UsedHolders, Agree
<1>5. NothingIsLeaked
    <2> SUFFICES ASSUME UsedHolders = {}, \A s \in Slots : slots[s] = NULL, \A t \in Workers : CanStart(t)
                 PROVE  UnusedArcs = Arcs /\ UnusedTensors = Tensors
        BY DEF NothingIsLeaked
    <2>1. ASSUME NEW a \in Arcs
          PROVE  /\ \A k \in Holders : ~ArcInHolder(k, a)
                 /\ \A k \in Slots : ~ArcInSlot(k, a)
                 /\ \A k \in Workers : ~ArcInJob(k, a) /\ ~ArcFirst(k, a) /\ ~ArcSecond(k, a)
        <3>1. \A k \in Holders : ~ArcInHolder(k, a)
            BY DEF UsedHolders, ArcInHolder
        <3>2. \A k \in Slots : ~ArcInSlot(k, a)
            BY HandlesAssumption DEF ArcInSlot
        <3>3. \A k \in Workers : ~ArcInJob(k, a) /\ ~ArcFirst(k, a) /\ ~ArcSecond(k, a)
            BY DEF CanStart, NoJob, ArcInJob, ArcFirst, First, ArcSecond, Second
        <3> QED
            BY <3>1, <3>2, <3>3
    <2>2. ASSUME NEW x \in Tensors
          PROVE  /\ \A k \in Holders : ~TensorInHolder(k, x)
                 /\ \A k \in Workers : ~TensorInJob(k, x) /\ ~TensorFirst(k, x) /\ ~TensorSecond(k, x)
        <3>1. \A k \in Holders : ~TensorInHolder(k, x)
            BY DEF UsedHolders, TensorInHolder
        <3>2. \A k \in Workers : ~TensorInJob(k, x) /\ ~TensorFirst(k, x) /\ ~TensorSecond(k, x)
            BY DEF CanStart, NoJob, TensorInJob, TensorFirst, First, TensorSecond, Second
        <3> QED
            BY <3>1, <3>2
    <2>3. ASSUME NEW a \in Arcs, \A x \in Tensors : ~ArcInTensor(x, a) PROVE arcs[a] = FreeArc
        <3>1. /\ {k \in Holders : ArcInHolder(k, a)} = {} /\ {k \in Slots : ArcInSlot(k, a)} = {}
              /\ {k \in Tensors : ArcInTensor(k, a)} = {} /\ {k \in Workers : ArcInJob(k, a)} = {}
              /\ {k \in Workers : ArcFirst(k, a)} = {} /\ {k \in Workers : ArcSecond(k, a)} = {}
            BY <2>1, <2>3
        <3>2. ArcCount(a) = 0
            BY <3>1, FS_EmptySet DEF ArcCount
        <3> QED
            BY <1>1, <3>2 DEF CountsInv
    <2>4. ASSUME NEW x \in Tensors, \A a \in Arcs : ~TensorInArc(a, x) PROVE tensors[x] = FreeTensor
        <3>1. /\ {k \in Holders : TensorInHolder(k, x)} = {} /\ {k \in Arcs : TensorInArc(k, x)} = {}
              /\ {k \in Workers : TensorInJob(k, x)} = {}
              /\ {k \in Workers : TensorFirst(k, x)} = {} /\ {k \in Workers : TensorSecond(k, x)} = {}
            BY <2>2, <2>4
        <3>2. TensorCount(x) = 0
            BY <3>1, FS_EmptySet DEF TensorCount
        <3> QED
            BY <1>1, <3>2 DEF CountsInv
    <2>5. \A a \in Arcs : arcs[a].data # NULL => arcs[a] = FreeArc
        BY <1>1, <2>3, HandlesAssumption DEF DataInv, ArcInTensor
    <2>6. \A x \in Tensors : tensors[x] = FreeTensor
        BY <2>4, <2>5, HandlesAssumption DEF TensorInArc, FreeArc
    <2>7. \A a \in Arcs : arcs[a] = FreeArc
        BY <2>3, <2>6, HandlesAssumption DEF ArcInTensor, FreeTensor
    <2> QED
        BY <2>6, <2>7 DEF UnusedArcs, UnusedTensors
<1> QED
    BY <1>3, <1>4, <1>5 DEF HandlesAreSafe

-----------------------------------------------------------------------------
(* One more reference to labels c, or to a tensor z, which may be new. If  *)
(* it is NULL there is none.                                               *)

ArcAdded(t, c) ==
    /\ arcs' \in [Arcs -> Arc] /\ StableArcs(t)
    /\ \A b \in Arcs : /\ arcs'[b].strong = arcs[b].strong + One(b = c)
                       /\ arcs'[b].data = arcs[b].data
                       /\ b # c => arcs'[b] = arcs[b]
TensorAdded(t, z) ==
    /\ tensors' \in [Tensors -> Data] /\ StableTensors(t)
    /\ \A y \in Tensors : /\ tensors'[y].uses = tensors[y].uses + One(y = z)
                          /\ tensors'[y].blob = tensors[y].blob
                          /\ y # z => tensors'[y] = tensors[y]

(* The types of arcs and tensors, one by one. *)
LEMMA Types ==
    ASSUME HandlesInv
    PROVE  /\ \A b \in Arcs : /\ arcs[b] \in Arc /\ arcs[b].strong \in Nat
                              /\ arcs[b].data \in Tensors \cup {NULL} /\ arcs[b].values \in Values \cup {NULL}
                              /\ arcs[b].strong = 0 => arcs[b] = FreeArc /\ arcs[b].data = NULL
           /\ \A y \in Tensors : /\ tensors[y] \in Data /\ tensors[y].uses \in Nat
                                 /\ tensors[y].device \in Devices \cup {NULL} /\ tensors[y].values \in Values \cup {NULL}
                                 /\ tensors[y].blob \in Arcs \cup {NULL}
                                 /\ tensors[y].uses = 0 => tensors[y] = FreeTensor /\ tensors[y].blob = NULL
<1>1. HandlesTypeOK /\ CountsInv
    BY DEF HandlesInv
<1>2. \A b \in Arcs : arcs[b] \in Arc
    BY <1>1 DEF HandlesTypeOK
<1>3. \A y \in Tensors : tensors[y] \in Data
    BY <1>1 DEF HandlesTypeOK
<1>4. \A b \in Arcs : arcs[b].strong = 0 => arcs[b] = FreeArc /\ arcs[b].data = NULL
    BY <1>1 DEF CountsInv, FreeArc
<1>5. \A y \in Tensors : tensors[y].uses = 0 => tensors[y] = FreeTensor /\ tensors[y].blob = NULL
    BY <1>1 DEF CountsInv, FreeTensor
<1> QED
    BY <1>2, <1>3, <1>4, <1>5 DEF Arc, Data

LEMMA NoArcAdded ==
    ASSUME HandlesInv, NEW t \in Workers, arcs' = arcs
    PROVE  ArcAdded(t, NULL)
<1>1. Setting(t)
    BY DEF HandlesInv, JobsInv
<1>2. StableArcs(t)
    BY <1>1, Types DEF StableArcs, Setting
<1> QED
    BY <1>2, Types, HandlesAssumption DEF ArcAdded, One, HandlesInv, HandlesTypeOK

LEMMA ArcCloned ==
    ASSUME HandlesInv, NEW t \in Workers, NEW c \in Arcs, arcs[c].strong # 0, arcs' = Cloned(c)
    PROVE  ArcAdded(t, c)
<1>1. Setting(t)
    BY DEF HandlesInv, JobsInv
<1>2. arcs' = [arcs EXCEPT ![c].strong = arcs[c].strong + 1] /\ arcs \in [Arcs -> Arc]
    BY DEF Cloned, HandlesInv, HandlesTypeOK
<1>3. \A b \in Arcs : b # c => arcs'[b] = arcs[b]
    BY <1>2
<1>4. /\ arcs'[c] \in Arc /\ arcs'[c].strong = arcs[c].strong + 1 /\ arcs'[c].data = arcs[c].data
      /\ arcs'[c].values = arcs[c].values
    BY <1>2 DEF Arc
<1>5. arcs[c].strong \in Nat /\ arcs'[c].strong # 0
    BY <1>4, Types
<1>6. arcs' \in [Arcs -> Arc]
    BY <1>2, <1>4
<1>7. StableArcs(t)
    BY <1>1, <1>3, <1>4, <1>5, Types DEF StableArcs, Setting
<1>8. \A b \in Arcs : arcs'[b].strong = arcs[b].strong + One(b = c)
    BY <1>3, <1>4, Types DEF One
<1> QED
    BY <1>3, <1>4, <1>6, <1>7, <1>8 DEF ArcAdded

LEMMA ArcIsNew ==
    ASSUME HandlesInv, NEW t \in Workers, NEW a \in UnusedArcs, NEW v \in Values \cup {NULL}, NewArc(a, v)
    PROVE  ArcAdded(t, a) /\ a \in Arcs /\ arcs[a].strong = 0 /\ arcs'[a].values = v
<1>1. Setting(t) /\ InHand(t) /\ InUse
    BY CountedIsInUse DEF HandlesInv, JobsInv
<1>2. a \in Arcs /\ arcs[a] = FreeArc /\ arcs[a].strong = 0 /\ arcs[a].data = NULL
    BY DEF UnusedArcs, FreeArc
<1>3. arcs' = [arcs EXCEPT ![a] = [strong |-> 1, data |-> NULL, values |-> v]] /\ arcs \in [Arcs -> Arc]
    BY DEF NewArc, HandlesInv, HandlesTypeOK
<1>4. \A b \in Arcs : b # a => arcs'[b] = arcs[b]
    BY <1>3
<1>5. arcs'[a] = [strong |-> 1, data |-> NULL, values |-> v]
    BY <1>2, <1>3
<1>6. arcs'[a] \in Arc /\ arcs'[a].strong = 1 /\ arcs'[a].data = NULL /\ arcs'[a].values = v
    BY <1>5 DEF Arc
<1>7. arcs' \in [Arcs -> Arc]
    BY <1>3, <1>6
<1>8. StableArcs(t)
    BY <1>1, <1>2, <1>4, <1>6, Types DEF StableArcs, Setting
<1>9. \A b \in Arcs : arcs'[b].strong = arcs[b].strong + One(b = a)
    BY <1>2, <1>4, <1>6, Types DEF One
<1> QED
    BY <1>2, <1>4, <1>6, <1>7, <1>8, <1>9 DEF ArcAdded

LEMMA NoTensorAdded ==
    ASSUME HandlesInv, NEW t \in Workers, tensors' = tensors
    PROVE  TensorAdded(t, NULL)
<1>1. StableTensors(t)
    BY Types DEF StableTensors
<1> QED
    BY <1>1, Types, HandlesAssumption DEF TensorAdded, One, HandlesInv, HandlesTypeOK

LEMMA TensorIsShared ==
    ASSUME HandlesInv, NEW t \in Workers, NEW z \in Tensors, tensors[z].uses # 0, tensors' = Shared(z)
    PROVE  /\ TensorAdded(t, z)
           /\ tensors'[z].values = tensors[z].values /\ tensors'[z].device = tensors[z].device
<1>1. tensors' = [tensors EXCEPT ![z].uses = tensors[z].uses + 1] /\ tensors \in [Tensors -> Data]
    BY DEF Shared, HandlesInv, HandlesTypeOK
<1>2. \A y \in Tensors : y # z => tensors'[y] = tensors[y]
    BY <1>1
<1>3. /\ tensors'[z] \in Data /\ tensors'[z].uses = tensors[z].uses + 1 /\ tensors'[z].blob = tensors[z].blob
      /\ tensors'[z].values = tensors[z].values /\ tensors'[z].device = tensors[z].device
    BY <1>1 DEF Data
<1>4. tensors[z].uses \in Nat /\ tensors'[z].uses # 0
    BY <1>3, Types
<1>5. tensors' \in [Tensors -> Data]
    BY <1>1, <1>3
<1>6. StableTensors(t)
    BY <1>2, <1>3, <1>4, Types DEF StableTensors
<1>7. \A y \in Tensors : tensors'[y].uses = tensors[y].uses + One(y = z)
    BY <1>2, <1>3, Types DEF One
<1> QED
    BY <1>2, <1>3, <1>5, <1>6, <1>7 DEF TensorAdded

LEMMA TensorIsNew ==
    ASSUME HandlesInv, NEW t \in Workers, NEW z \in UnusedTensors, NEW d \in Devices \cup {NULL},
           NEW v \in Values \cup {NULL}, NewTensor(z, d, v, NULL)
    PROVE  /\ TensorAdded(t, z) /\ z \in Tensors /\ tensors[z].uses = 0
           /\ tensors'[z].values = v /\ tensors'[z].device = d
<1>1. z \in Tensors /\ tensors[z] = FreeTensor /\ tensors[z].uses = 0 /\ tensors[z].blob = NULL
    BY DEF UnusedTensors, FreeTensor
<1>2. /\ tensors' = [tensors EXCEPT ![z] = [uses |-> 1, device |-> d, values |-> v, blob |-> NULL]]
      /\ tensors \in [Tensors -> Data]
    BY DEF NewTensor, HandlesInv, HandlesTypeOK
<1>3. \A y \in Tensors : y # z => tensors'[y] = tensors[y]
    BY <1>2
<1>4. tensors'[z] = [uses |-> 1, device |-> d, values |-> v, blob |-> NULL]
    BY <1>1, <1>2
<1>5. /\ tensors'[z] \in Data /\ tensors'[z].uses = 1 /\ tensors'[z].blob = NULL
      /\ tensors'[z].values = v /\ tensors'[z].device = d
    BY <1>4 DEF Data
<1>6. tensors' \in [Tensors -> Data]
    BY <1>2, <1>5
<1>7. StableTensors(t)
    BY <1>1, <1>3, <1>5, Types DEF StableTensors
<1>8. \A y \in Tensors : tensors'[y].uses = tensors[y].uses + One(y = z)
    BY <1>1, <1>3, <1>5, Types DEF One
<1> QED
    BY <1>1, <1>3, <1>5, <1>6, <1>7, <1>8 DEF TensorAdded

-----------------------------------------------------------------------------
(* The references of a thread, and of nothing *)

(* A thread that has nothing to release. *)
LEMMA NoWork ==
    ASSUME NEW t
    PROVE  /\ work[t] = <<>> => \A b : /\ ~ArcFirst(t, b) /\ ~ArcSecond(t, b)
                                       /\ ~TensorFirst(t, b) /\ ~TensorSecond(t, b)
           /\ work'[t] = <<>> => \A b : /\ ~ArcFirst(t, b)' /\ ~ArcSecond(t, b)'
                                        /\ ~TensorFirst(t, b)' /\ ~TensorSecond(t, b)'
BY DEF ArcFirst, ArcSecond, TensorFirst, TensorSecond, First, Second

(* NULL is not a holder or a slot. *)
LEMMA NoPlace ==
    \A b : /\ ~ArcInHolder(NULL, b) /\ ~TensorInHolder(NULL, b) /\ ~ArcInSlot(NULL, b)
           /\ ~ArcInHolder(NULL, b)' /\ ~TensorInHolder(NULL, b)' /\ ~ArcInSlot(NULL, b)'
BY HandlesAssumption DEF ArcInHolder, TensorInHolder, ArcInSlot

(* What does not change. *)
LEMMA SamePlace ==
    ASSUME NEW t \in Workers, NEW c, NEW z, ArcAdded(t, c), TensorAdded(t, z)
    PROVE  /\ \A b : ArcInTensor(z, b)' <=> ArcInTensor(z, b)
           /\ \A y : TensorInArc(c, y)' <=> TensorInArc(c, y)
BY DEF ArcAdded, TensorAdded, ArcInTensor, TensorInArc

(* The references of the step are those that were added. *)
LEMMA BalancedAdd ==
    ASSUME HandlesInv, NEW t \in Workers, NEW h, NEW s, NEW c, NEW z, ArcAdded(t, c), TensorAdded(t, z),
           \A b \in Arcs : One(b = c) = ArcLocal(t, h, s, z, b)' - ArcLocal(t, h, s, z, b),
           \A y \in Tensors : One(y = z) = TensorLocal(t, h, c, y)' - TensorLocal(t, h, c, y)
    PROVE  Balanced(t, h, s, z, c)
<1>1. ASSUME NEW b \in Arcs
      PROVE  arcs'[b].strong = arcs[b].strong + ArcLocal(t, h, s, z, b)' - ArcLocal(t, h, s, z, b)
    <2>1. arcs'[b].strong = arcs[b].strong + One(b = c) /\ arcs[b].strong \in Nat
        BY Types DEF ArcAdded
    <2>2. ArcLocal(t, h, s, z, b)' \in Int /\ ArcLocal(t, h, s, z, b) \in Int
        BY DEF ArcLocal, One
    <2>3. One(b = c) = ArcLocal(t, h, s, z, b)' - ArcLocal(t, h, s, z, b)
        OBVIOUS
    <2> QED
        BY <2>1, <2>2, <2>3
<1>2. ASSUME NEW y \in Tensors
      PROVE  tensors'[y].uses = tensors[y].uses + TensorLocal(t, h, c, y)' - TensorLocal(t, h, c, y)
    <2>1. tensors'[y].uses = tensors[y].uses + One(y = z) /\ tensors[y].uses \in Nat
        BY Types DEF TensorAdded
    <2>2. TensorLocal(t, h, c, y)' \in Int /\ TensorLocal(t, h, c, y) \in Int
        BY DEF TensorLocal, One
    <2>3. One(y = z) = TensorLocal(t, h, c, y)' - TensorLocal(t, h, c, y)
        OBVIOUS
    <2> QED
        BY <2>1, <2>2, <2>3
<1> QED
    BY <1>1, <1>2 DEF Balanced

(***************************************************************************)
(* A call that starts to make a holder: from a tensor, whose use is new,   *)
(* or from labels, with a new reference.                                   *)
(***************************************************************************)
LEMMA StartStep ==
    ASSUME HandlesInv, NEW t \in Workers, CanStart(t), NEW c \in Arcs \cup {NULL}, NEW z \in Tensors \cup {NULL},
           ArcAdded(t, c), TensorAdded(t, z), UNCHANGED <<holders, slots, work>>,
           NEW dest \in UnusedHolders, NEW pc, NEW arc \in Arcs \cup {NULL},
           NEW tensor \in Tensors \cup {NULL}, NEW device \in Devices \cup {NULL},
           Start(t, dest, pc, arc, tensor, device),
           \/ pc = "create" /\ c = NULL /\ z \in Tensors /\ tensor = z
           \/ pc = "ask" /\ z = NULL /\ c \in Arcs /\ arc = c /\ Source(t, c)
    PROVE  HandlesInv'
<1> USE HandlesAssumption
<1>1. /\ job[t] = NoJob /\ work[t] = <<>> /\ job[t].pc = "idle" /\ work'[t] = <<>>
      /\ HandlesTypeOK /\ DestInv
    BY DEF CanStart, NoJob, HandlesInv
<1>2. /\ job'[t] = [pc |-> pc, arc |-> arc, ptr |-> NULL, tensor |-> tensor, device |-> device, dest |-> dest]
      /\ \A u \in Workers : u # t => job'[u] = job[u]
      /\ job' = [job EXCEPT ![t] = job'[t]] /\ job \in [Workers -> Job]
    BY <1>1 DEF Start, HandlesTypeOK
<1>3. dest \in Holders /\ holders[dest] = NULL /\ \A u \in Workers : job[u].dest # dest
    BY DEF UnusedHolders
<1>4. /\ job'[t].pc = pc /\ job'[t].arc = arc /\ job'[t].ptr = NULL /\ job'[t].tensor = tensor
      /\ job'[t].dest = dest /\ job'[t] \in Job
    BY <1>2, <1>3 DEF Job
<1>5. HandlesTypeOK'
    <2>1. job' \in [Workers -> Job]
        BY <1>2, <1>4
    <2> QED
        BY <1>1, <2>1 DEF HandlesTypeOK, ArcAdded, TensorAdded
<1>6. DestInv'
    <2>1. ASSUME NEW u \in Workers, u # t, job'[u].pc = "idle" PROVE job'[u] = NoJob
        BY <1>1, <1>2, <2>1 DEF DestInv
    <2>2. ASSUME NEW u \in Workers, u # t, job'[u].pc # "idle"
          PROVE  /\ job'[u].dest \in Holders /\ holders'[job'[u].dest] = NULL
                 /\ \A v \in Workers : v # u => job'[v].dest # job'[u].dest
        BY <1>1, <1>2, <1>3, <1>4, <2>2 DEF DestInv
    <2>3. /\ job'[t].dest \in Holders /\ holders'[job'[t].dest] = NULL /\ job'[t].pc # "idle"
          /\ \A v \in Workers : v # t => job'[v].dest # job'[t].dest
        BY <1>2, <1>3, <1>4
    <2> QED
        BY <2>1, <2>2, <2>3 DEF DestInv, NoJob
<1>7. Touched(t, NULL, NULL, z, c)
    BY <1>2 DEF Touched, ArcAdded, TensorAdded
<1>8. /\ \A b : ~ArcInJob(t, b) /\ ~TensorInJob(t, b)
      /\ \A b : ArcInJob(t, b)' <=> (pc = "ask" /\ b = c)
      /\ \A b : TensorInJob(t, b)' <=> (pc = "create" /\ b = z)
    BY <1>1, <1>4 DEF ArcInJob, TensorInJob
<1>9. Balanced(t, NULL, NULL, z, c)
    <2>1. ASSUME NEW b \in Arcs
          PROVE  One(b = c) = ArcLocal(t, NULL, NULL, z, b)' - ArcLocal(t, NULL, NULL, z, b)
        <3>1. ArcLocal(t, NULL, NULL, z, b) = One(ArcInTensor(z, b))
            BY <1>1, <1>8, NoWork, NoPlace DEF ArcLocal, One
        <3>2. ArcLocal(t, NULL, NULL, z, b)' = One(ArcInTensor(z, b)) + One(b = c)
            BY <1>1, <1>8, NoWork, NoPlace, SamePlace DEF ArcLocal, One
        <3> QED
            BY <3>1, <3>2 DEF One
    <2>2. ASSUME NEW y \in Tensors
          PROVE  One(y = z) = TensorLocal(t, NULL, c, y)' - TensorLocal(t, NULL, c, y)
        <3>1. TensorLocal(t, NULL, c, y) = One(TensorInArc(c, y))
            BY <1>1, <1>8, NoWork, NoPlace DEF TensorLocal, One
        <3>2. TensorLocal(t, NULL, c, y)' = One(TensorInArc(c, y)) + One(y = z)
            BY <1>1, <1>8, NoWork, NoPlace, SamePlace DEF TensorLocal, One
        <3> QED
            BY <3>1, <3>2 DEF One
    <2> QED
        BY <2>1, <2>2, BalancedAdd
<1>10. Sourced(t, NULL, NULL, z)
    <2>1. ASSUME NEW b \in Arcs, ArcInTensor(z, b)' PROVE Source(t, b)
        <3>1. ArcInTensor(z, b) /\ z \in Tensors
            BY <2>1, SamePlace DEF ArcInTensor
        <3> QED
            BY <3>1 DEF Source
    <2> QED
        BY <1>1, <1>8, <2>1, NoWork, NoPlace DEF Sourced
<1>11. Setting(t)' /\ InHand(t)' /\ Ready(t)'
    BY <1>4 DEF Setting, InHand, Ready
<1>12. HolderAgrees(NULL)'
    BY DEF HolderAgrees
<1> QED
    BY <1>5, <1>6, <1>7, <1>9, <1>10, <1>11, <1>12, StepKeepsInv DEF ArcAdded, TensorAdded

(* The calls of LabelsHolder that make labels from a tensor *)
LEMMA NewLabelsStep ==
    ASSUME HandlesInv, NEW t \in Workers, NewLabels(t)
    PROVE  HandlesInv'
<1>1. PICK h \in UnusedHolders, device \in Devices, v \in Values, x \in UnusedTensors :
          NewTensor(x, device, v, NULL) /\ Start(t, h, "create", NULL, x, NULL)
    BY DEF NewLabels
<1>2. CanStart(t) /\ arcs' = arcs /\ UNCHANGED <<holders, slots, work>>
    BY DEF NewLabels
<1>3. TensorAdded(t, x) /\ x \in Tensors
    BY <1>1, TensorIsNew
<1>4. ArcAdded(t, NULL)
    BY <1>2, NoArcAdded
<1> QED
    BY <1>1, <1>2, <1>3, <1>4, StartStep

LEMMA RenameStep ==
    ASSUME HandlesInv, NEW t \in Workers, rename(t)
    PROVE  HandlesInv'
<1>1. PICK h \in UnusedHolders, from \in UsedHolders :
          /\ tensors' = Shared(holders[from].tensor)
          /\ Start(t, h, "create", holders[from].arc, holders[from].tensor, NULL)
    BY DEF rename
<1>2. CanStart(t) /\ arcs' = arcs /\ UNCHANGED <<holders, slots, work>>
    BY DEF rename
<1>3. PICK c, z : c = holders[from].arc /\ z = holders[from].tensor
    OBVIOUS
<1>4. z \in Tensors /\ c \in Arcs \cup {NULL} /\ TensorInHolder(from, z)
    BY <1>3 DEF UsedHolders, HandlesInv, HandlesTypeOK, Holder, TensorInHolder
<1>5. tensors[z].uses # 0
    BY <1>4, CountedIsInUse DEF HandlesInv, InUse
<1>6. TensorAdded(t, z)
    BY <1>1, <1>3, <1>4, <1>5, TensorIsShared
<1>7. ArcAdded(t, NULL)
    BY <1>2, NoArcAdded
<1> QED
    BY <1>1, <1>2, <1>3, <1>4, <1>6, <1>7, StartStep

LEMMA ToOtherStep ==
    ASSUME HandlesInv, NEW t \in Workers, to_other(t)
    PROVE  HandlesInv'
<1>1. PICK h \in UnusedHolders, from \in OwnedHolders, device \in Devices, x \in UnusedTensors :
          /\ NewTensor(x, device, tensors[holders[from].tensor].values, NULL)
          /\ Start(t, h, "create", holders[from].arc, x, NULL)
    BY DEF to_other
<1>2. CanStart(t) /\ arcs' = arcs /\ UNCHANGED <<holders, slots, work>>
    BY DEF to_other
<1>3. PICK c, v : c = holders[from].arc /\ v = tensors[holders[from].tensor].values
    OBVIOUS
<1>4. c \in Arcs \cup {NULL} /\ holders[from].tensor \in Tensors
    BY <1>3 DEF OwnedHolders, UsedHolders, HandlesInv, HandlesTypeOK, Holder
<1>5. v \in Values \cup {NULL}
    BY <1>3, <1>4, Types
<1>6. TensorAdded(t, x) /\ x \in Tensors
    BY <1>1, <1>3, <1>5, TensorIsNew
<1>7. ArcAdded(t, NULL)
    BY <1>2, NoArcAdded
<1> QED
    BY <1>1, <1>2, <1>3, <1>4, <1>6, <1>7, StartStep

(* The calls of LabelsHolder that take labels from Rust *)
LEMMA LabelsStep ==
    ASSUME HandlesInv, NEW t \in Workers, labels(t)
    PROVE  HandlesInv'
<1>1. PICK h \in UnusedHolders, s \in Slots :
          slots[s] # NULL /\ arcs' = Cloned(slots[s]) /\ Start(t, h, "ask", slots[s], NULL, NULL)
    BY DEF labels
<1>2. CanStart(t) /\ tensors' = tensors /\ UNCHANGED <<holders, slots, work>>
    BY DEF labels
<1>3. PICK c : c = slots[s]
    OBVIOUS
<1>4. c \in Arcs /\ ArcInSlot(s, c)
    BY <1>1, <1>3 DEF HandlesInv, HandlesTypeOK, ArcInSlot
<1>5. arcs[c].strong # 0 /\ Source(t, c)
    BY <1>4, CountedIsInUse DEF HandlesInv, InUse, Source
<1>6. ArcAdded(t, c)
    BY <1>1, <1>3, <1>4, <1>5, ArcCloned
<1>7. TensorAdded(t, NULL)
    BY <1>2, NoTensorAdded
<1> QED
    BY <1>1, <1>2, <1>3, <1>4, <1>5, <1>6, <1>7, StartStep

LEMMA SetUnionStep ==
    ASSUME HandlesInv, NEW t \in Workers, set_union(t)
    PROVE  HandlesInv'
<1>1. PICK h \in UnusedHolders, one \in OwnedHolders, other \in OwnedHolders, a \in UnusedArcs, v \in Values :
          NewArc(a, v) /\ Start(t, h, "ask", a, NULL, tensors[holders[one].tensor].device)
    BY DEF set_union
<1>2. CanStart(t) /\ tensors' = tensors /\ UNCHANGED <<holders, slots, work>>
    BY DEF set_union
<1>3. PICK device : device = tensors[holders[one].tensor].device
    OBVIOUS
<1>4. holders[one].tensor \in Tensors
    BY DEF OwnedHolders, UsedHolders, HandlesInv, HandlesTypeOK, Holder
<1>5. device \in Devices \cup {NULL}
    BY <1>3, <1>4, Types
<1>6. ArcAdded(t, a) /\ a \in Arcs /\ arcs[a].strong = 0
    BY <1>1, ArcIsNew
<1>7. Source(t, a)
    BY <1>6 DEF Source
<1>8. TensorAdded(t, NULL)
    BY <1>2, NoTensorAdded
<1> QED
    BY <1>1, <1>2, <1>3, <1>5, <1>6, <1>7, <1>8, StartStep

-----------------------------------------------------------------------------
(* A call that makes a holder at once. *)
LEMMA HolderStep ==
    ASSUME HandlesInv, NEW t \in Workers, CanStart(t), NEW c \in Arcs \cup {NULL}, NEW z \in Tensors,
           ArcAdded(t, c), TensorAdded(t, z), UNCHANGED <<slots, job, work>>,
           NEW h \in UnusedHolders, holders' = [holders EXCEPT ![h] = [arc |-> c, tensor |-> z]],
           c # NULL => Source(t, c) /\ Agree(c, z)'
    PROVE  HandlesInv'
<1> USE HandlesAssumption
<1>1. /\ job[t] = NoJob /\ work[t] = <<>> /\ job[t].pc = "idle" /\ work'[t] = <<>>
      /\ HandlesTypeOK /\ DestInv
    BY DEF CanStart, NoJob, HandlesInv
<1>2. h \in Holders /\ holders[h] = NULL /\ \A u \in Workers : job[u].dest # h
    BY DEF UnusedHolders
<1>3. [arc |-> c, tensor |-> z] \in Holder /\ [arc |-> c, tensor |-> z] # NULL
    BY DEF Holder
<1>4. /\ holders'[h] = [arc |-> c, tensor |-> z] /\ holders'[h] # NULL
      /\ holders'[h].arc = c /\ holders'[h].tensor = z
      /\ \A k \in Holders : k # h => holders'[k] = holders[k]
    BY <1>1, <1>2, <1>3 DEF HandlesTypeOK
<1>5. HandlesTypeOK'
    <2>1. holders' \in [Holders -> Holder \cup {NULL}]
        <3>1. holders \in [Holders -> Holder \cup {NULL}]
            BY <1>1 DEF HandlesTypeOK
        <3>2. holders'[h] \in Holder /\ holders' = [holders EXCEPT ![h] = holders'[h]]
            BY <1>3, <1>4
        <3> QED
            BY <3>1, <3>2
    <2> QED
        BY <1>1, <2>1 DEF HandlesTypeOK, ArcAdded, TensorAdded
<1>6. DestInv'
    BY <1>1, <1>2, <1>4 DEF DestInv, NoJob
<1>7. Touched(t, h, NULL, z, c)
    BY <1>4 DEF Touched, ArcAdded, TensorAdded
<1>8. /\ \A b : ~ArcInJob(t, b) /\ ~TensorInJob(t, b) /\ ~ArcInJob(t, b)' /\ ~TensorInJob(t, b)'
      /\ \A b : ~ArcInHolder(h, b) /\ ~TensorInHolder(h, b)
      /\ \A b : (ArcInHolder(h, b)' <=> b = c) /\ (TensorInHolder(h, b)' <=> b = z)
    BY <1>1, <1>2, <1>4 DEF ArcInJob, TensorInJob, ArcInHolder, TensorInHolder
<1>9. Balanced(t, h, NULL, z, c)
    <2>1. ASSUME NEW b \in Arcs
          PROVE  One(b = c) = ArcLocal(t, h, NULL, z, b)' - ArcLocal(t, h, NULL, z, b)
        <3>1. ArcLocal(t, h, NULL, z, b) = One(ArcInTensor(z, b))
            BY <1>1, <1>8, NoWork, NoPlace DEF ArcLocal, One
        <3>2. ArcLocal(t, h, NULL, z, b)' = One(ArcInTensor(z, b)) + One(b = c)
            BY <1>1, <1>8, NoWork, NoPlace, SamePlace DEF ArcLocal, One
        <3> QED
            BY <3>1, <3>2 DEF One
    <2>2. ASSUME NEW y \in Tensors
          PROVE  One(y = z) = TensorLocal(t, h, c, y)' - TensorLocal(t, h, c, y)
        <3>1. TensorLocal(t, h, c, y) = One(TensorInArc(c, y))
            BY <1>1, <1>8, NoWork, NoPlace DEF TensorLocal, One
        <3>2. TensorLocal(t, h, c, y)' = One(TensorInArc(c, y)) + One(y = z)
            BY <1>1, <1>8, NoWork, NoPlace, SamePlace DEF TensorLocal, One
        <3> QED
            BY <3>1, <3>2 DEF One
    <2> QED
        BY <2>1, <2>2, BalancedAdd
<1>10. Sourced(t, h, NULL, z)
    <2>1. ASSUME NEW b \in Arcs, ArcInTensor(z, b)' PROVE Source(t, b)
        <3>1. ArcInTensor(z, b)
            BY <2>1, SamePlace
        <3> QED
            BY <3>1 DEF Source
    <2> QED
        BY <1>1, <1>8, <2>1, NoWork, NoPlace DEF Sourced
<1>11. Setting(t)' /\ InHand(t)' /\ Ready(t)'
    BY <1>1 DEF Setting, InHand, Ready, NoJob
<1>12. HolderAgrees(h)'
    BY <1>4 DEF HolderAgrees
<1> QED
    BY <1>5, <1>6, <1>7, <1>9, <1>10, <1>11, <1>12, StepKeepsInv DEF ArcAdded, TensorAdded

LEMMA ViewOfLabelsStep ==
    ASSUME HandlesInv, NEW t \in Workers, view(t)
    PROVE  HandlesInv'
<1>1. PICK h \in UnusedHolders, from \in UsedHolders, x \in UnusedTensors :
          /\ NewTensor(x, tensors[holders[from].tensor].device, tensors[holders[from].tensor].values, NULL)
          /\ holders' = [holders EXCEPT ![h] = [arc |-> NULL, tensor |-> x]]
    BY DEF view
<1>2. CanStart(t) /\ arcs' = arcs /\ UNCHANGED <<slots, job, work>>
    BY DEF view
<1>3. PICK d, v : d = tensors[holders[from].tensor].device /\ v = tensors[holders[from].tensor].values
    OBVIOUS
<1>4. holders[from].tensor \in Tensors
    BY DEF UsedHolders, HandlesInv, HandlesTypeOK, Holder
<1>5. d \in Devices \cup {NULL} /\ v \in Values \cup {NULL}
    BY <1>3, <1>4, Types
<1>6. TensorAdded(t, x) /\ x \in Tensors
    BY <1>1, <1>3, <1>5, TensorIsNew
<1>7. ArcAdded(t, NULL)
    BY <1>2, NoArcAdded
<1> QED
    BY <1>1, <1>2, <1>6, <1>7, HolderStep

LEMMA ToSameStep ==
    ASSUME HandlesInv, NEW t \in Workers, to_same(t)
    PROVE  HandlesInv'
<1>1. PICK h \in UnusedHolders, from \in UsedHolders :
          /\ holders' = [holders EXCEPT ![h] = holders[from]]
          /\ tensors' = Shared(holders[from].tensor)
          /\ arcs' = IF holders[from].arc = NULL THEN arcs ELSE Cloned(holders[from].arc)
    BY DEF to_same
<1>2. CanStart(t) /\ UNCHANGED <<slots, job, work>>
    BY DEF to_same
<1>3. PICK c, z : c = holders[from].arc /\ z = holders[from].tensor
    OBVIOUS
<1>4. z \in Tensors /\ c \in Arcs \cup {NULL} /\ holders[from] = [arc |-> c, tensor |-> z]
    BY <1>3 DEF UsedHolders, HandlesInv, HandlesTypeOK, Holder
<1>5. from \in Holders /\ TensorInHolder(from, z) /\ ArcInHolder(from, c)
    BY <1>3 DEF UsedHolders, TensorInHolder, ArcInHolder
<1>6. InUse
    BY CountedIsInUse DEF HandlesInv
<1>7. tensors[z].uses # 0 /\ (c # NULL => arcs[c].strong # 0)
    BY <1>4, <1>5, <1>6 DEF InUse
<1>8. /\ TensorAdded(t, z) /\ tensors'[z].values = tensors[z].values
      /\ tensors'[z].device = tensors[z].device
    BY <1>1, <1>3, <1>4, <1>7, TensorIsShared
<1>9. ArcAdded(t, c)
    <2>1. CASE c = NULL
        BY <1>1, <1>3, <2>1, NoArcAdded
    <2>2. CASE c # NULL
        BY <1>1, <1>3, <1>4, <1>7, <2>2, ArcCloned
    <2> QED
        BY <2>1, <2>2
<1>10. ASSUME c # NULL PROVE Source(t, c) /\ Agree(c, z)'
    <2>1. Source(t, c)
        BY <1>5 DEF Source
    <2>2. c \in Arcs /\ Agree(c, z)
        BY <1>3, <1>4, <1>5, <1>10 DEF HandlesInv, HolderAgrees, UsedHolders
    <2>3. arcs'[c].values = arcs[c].values /\ arcs'[c].data = arcs[c].data
        <3>1. arcs' = Cloned(c)
            BY <1>1, <1>3, <1>10
        <3> QED
            BY <2>2, <3>1 DEF Cloned, HandlesInv, HandlesTypeOK, Arc
    <2>4. \A y \in Tensors : tensors'[y].device = tensors[y].device
        BY <1>8 DEF TensorAdded
    <2>5. arcs[c].data \in Tensors \cup {NULL}
        BY <2>2, Types
    <2> QED
        BY <1>8, <2>1, <2>2, <2>3, <2>4, <2>5 DEF Agree, DeviceOf
<1> QED
    BY <1>1, <1>2, <1>4, <1>8, <1>9, <1>10, HolderStep

-----------------------------------------------------------------------------
(* Labels are put in a block or a tensor map. *)
LEMMA SlotStep ==
    ASSUME HandlesInv, NEW t \in Workers, CanStart(t), NEW c \in Arcs, ArcAdded(t, c), Source(t, c),
           NEW s \in Slots, slots[s] = NULL, slots' = [slots EXCEPT ![s] = c],
           UNCHANGED <<tensors, holders, job, work>>
    PROVE  HandlesInv'
<1> USE HandlesAssumption
<1>1. /\ job[t] = NoJob /\ work[t] = <<>> /\ job[t].pc = "idle" /\ work'[t] = <<>>
      /\ HandlesTypeOK /\ DestInv
    BY DEF CanStart, NoJob, HandlesInv
<1>2. TensorAdded(t, NULL)
    BY NoTensorAdded
<1>3. slots'[s] = c /\ \A k \in Slots : k # s => slots'[k] = slots[k]
    BY <1>1 DEF HandlesTypeOK
<1>4. HandlesTypeOK'
    <2>1. slots' \in [Slots -> Arcs \cup {NULL}]
        BY <1>1 DEF HandlesTypeOK
    <2> QED
        BY <1>1, <2>1 DEF HandlesTypeOK, ArcAdded
<1>5. DestInv'
    BY <1>1 DEF DestInv, NoJob
<1>6. Touched(t, NULL, s, NULL, c)
    BY <1>3 DEF Touched, ArcAdded
<1>7. /\ \A b : ~ArcInJob(t, b) /\ ~TensorInJob(t, b) /\ ~ArcInJob(t, b)' /\ ~TensorInJob(t, b)'
      /\ \A b \in Arcs : ~ArcInSlot(s, b)
      /\ \A b : ArcInSlot(s, b)' <=> b = c
      /\ \A b : ~ArcInTensor(NULL, b) /\ ~ArcInTensor(NULL, b)'
    BY <1>1, <1>3 DEF ArcInJob, TensorInJob, ArcInSlot, ArcInTensor
<1>8. Balanced(t, NULL, s, NULL, c)
    <2>1. ASSUME NEW b \in Arcs
          PROVE  One(b = c) = ArcLocal(t, NULL, s, NULL, b)' - ArcLocal(t, NULL, s, NULL, b)
        BY <1>1, <1>7, NoWork, NoPlace DEF ArcLocal, One
    <2>2. ASSUME NEW y \in Tensors
          PROVE  One(y = NULL) = TensorLocal(t, NULL, c, y)' - TensorLocal(t, NULL, c, y)
        <3>1. TensorLocal(t, NULL, c, y)' = TensorLocal(t, NULL, c, y) /\ TensorLocal(t, NULL, c, y) \in Int
            BY <1>1, <1>2, <1>7, NoWork, NoPlace, SamePlace DEF TensorLocal, One
        <3> QED
            BY <3>1 DEF One
    <2> QED
        BY <1>2, <2>1, <2>2, BalancedAdd
<1>9. Sourced(t, NULL, s, NULL)
    BY <1>1, <1>7, NoWork, NoPlace DEF Sourced
<1>10. Setting(t)' /\ InHand(t)' /\ Ready(t)'
    BY <1>1 DEF Setting, InHand, Ready, NoJob
<1>11. HolderAgrees(NULL)'
    BY DEF HolderAgrees
<1> QED
    BY <1>2, <1>4, <1>5, <1>6, <1>8, <1>9, <1>10, <1>11, StepKeepsInv DEF ArcAdded, TensorAdded

LEMMA StoreStep ==
    ASSUME HandlesInv, NEW t \in Workers, Store(t)
    PROVE  HandlesInv'
<1>1. PICK s \in Slots, h \in OwnedHolders :
          /\ slots[s] = NULL /\ slots' = [slots EXCEPT ![s] = holders[h].arc]
          /\ arcs' = Cloned(holders[h].arc)
    BY DEF Store
<1>2. CanStart(t) /\ UNCHANGED <<tensors, holders, job, work>>
    BY DEF Store
<1>3. PICK c : c = holders[h].arc
    OBVIOUS
<1>4. h \in Holders /\ c \in Arcs /\ ArcInHolder(h, c)
    BY <1>3 DEF OwnedHolders, UsedHolders, HandlesInv, HandlesTypeOK, Holder, ArcInHolder
<1>5. arcs[c].strong # 0 /\ Source(t, c)
    BY <1>4, CountedIsInUse DEF HandlesInv, InUse, Source
<1>6. ArcAdded(t, c)
    BY <1>1, <1>3, <1>4, <1>5, ArcCloned
<1> QED
    BY <1>1, <1>2, <1>3, <1>4, <1>5, <1>6, SlotStep

LEMMA CoreStep ==
    ASSUME HandlesInv, NEW t \in Workers, Core(t)
    PROVE  HandlesInv'
<1>1. PICK s \in Slots, a \in UnusedArcs, v \in Values :
          slots[s] = NULL /\ NewArc(a, v) /\ slots' = [slots EXCEPT ![s] = a]
    BY DEF Core
<1>2. CanStart(t) /\ UNCHANGED <<tensors, holders, job, work>>
    BY DEF Core
<1>3. ArcAdded(t, a) /\ a \in Arcs /\ arcs[a].strong = 0
    BY <1>1, ArcIsNew
<1>4. Source(t, a)
    BY <1>3 DEF Source
<1> QED
    BY <1>1, <1>2, <1>3, <1>4, SlotStep

-----------------------------------------------------------------------------
(* The constructors *)

(* A thread that goes on, or ends, keeps out of the way of other threads. *)
LEMMA DestStep ==
    ASSUME DestInv, NEW t \in Workers, \A u \in Workers : u # t => job'[u] = job[u],
           \A u \in Workers : u # t /\ job[u].pc # "idle" => holders'[job[u].dest] = NULL,
           \/ job'[t] = NoJob
           \/ /\ job[t].pc # "idle" /\ job'[t].pc # "idle" /\ job'[t].dest = job[t].dest
              /\ holders'[job[t].dest] = NULL
    PROVE  DestInv'
<1>1. NoJob.dest = NULL /\ NULL \notin Holders /\ NoJob.pc = "idle"
    BY HandlesAssumption DEF NoJob
<1>2. ASSUME NEW u \in Workers, u # t, job[u].pc # "idle"
      PROVE  /\ job[u].dest \in Holders /\ holders'[job[u].dest] = NULL
             /\ \A v \in Workers : v # u => job'[v].dest # job[u].dest
    <2>1. job[u].dest \in Holders /\ \A v \in Workers : v # u => job[v].dest # job[u].dest
        BY <1>2 DEF DestInv
    <2>2. job'[t].dest # job[u].dest
        BY <1>1, <1>2, <2>1
    <2> QED
        BY <1>2, <2>1, <2>2
<1>3. ASSUME NEW u \in Workers, u # t, job[u].pc = "idle" PROVE job[u] = NoJob
    BY <1>3 DEF DestInv
<1>4. ASSUME job'[t] # NoJob
      PROVE  /\ job'[t].pc # "idle" /\ job'[t].dest \in Holders /\ holders'[job'[t].dest] = NULL
             /\ \A v \in Workers : v # t => job'[v].dest # job'[t].dest
    <2>1. job[t].dest \in Holders /\ \A v \in Workers : v # t => job[v].dest # job[t].dest
        BY <1>4 DEF DestInv
    <2> QED
        BY <1>4, <2>1
<1>5. ASSUME NEW u \in Workers
      PROVE  IF job'[u].pc = "idle" THEN job'[u] = NoJob
             ELSE /\ job'[u].dest \in Holders /\ holders'[job'[u].dest] = NULL
                  /\ \A v \in Workers : v # u => job'[v].dest # job'[u].dest
    <2>1. CASE u = t
        BY <1>1, <1>4, <2>1
    <2>2. CASE u # t
        BY <1>2, <1>3, <2>2
    <2> QED
        BY <2>1, <2>2
<1>6. NoJob' = NoJob
    BY DEF NoJob
<1> QED
    BY <1>5, <1>6 DEF DestInv

(* A step of a constructor that does nothing but to get references. *)
JobGets(t, c, z) ==
    /\ \A b \in Arcs : One(b = c) = One(ArcInJob(t, b)') - One(ArcInJob(t, b))
    /\ \A y \in Tensors : One(y = z) = One(TensorInJob(t, y)') - One(TensorInJob(t, y))
    /\ \A b \in Arcs : ArcInJob(t, b)' => Source(t, b)

LEMMA JobStep ==
    ASSUME HandlesInv, NEW t \in Workers, work[t] = <<>>, NEW c, NEW z, ArcAdded(t, c), TensorAdded(t, z),
           UNCHANGED <<holders, slots, work>>,
           NEW k \in Job, job' = [job EXCEPT ![t] = k],
           job[t].pc # "idle", k.pc # "idle", k.dest = job[t].dest,
           JobGets(t, c, z), Setting(t)', InHand(t)', Ready(t)'
    PROVE  HandlesInv'
<1> USE HandlesAssumption
<1>1. work'[t] = <<>> /\ HandlesTypeOK /\ DestInv
    BY DEF HandlesInv
<1>2. job'[t] = k /\ \A u \in Workers : u # t => job'[u] = job[u]
    BY <1>1 DEF HandlesTypeOK
<1>3. HandlesTypeOK'
    <2>1. job' \in [Workers -> Job]
        BY <1>1 DEF HandlesTypeOK
    <2> QED
        BY <1>1, <2>1 DEF HandlesTypeOK, ArcAdded, TensorAdded
<1>4. \A u \in Workers : job[u].pc # "idle" => holders'[job[u].dest] = NULL
    BY <1>1 DEF DestInv
<1>5. DestInv'
    BY <1>1, <1>2, <1>4, DestStep
<1>6. Touched(t, NULL, NULL, z, c)
    BY <1>2 DEF Touched, ArcAdded, TensorAdded
<1>7. Balanced(t, NULL, NULL, z, c)
    <2>1. ASSUME NEW b \in Arcs
          PROVE  One(b = c) = ArcLocal(t, NULL, NULL, z, b)' - ArcLocal(t, NULL, NULL, z, b)
        <3>1. ArcLocal(t, NULL, NULL, z, b) = One(ArcInTensor(z, b)) + One(ArcInJob(t, b))
            BY <1>1, NoWork, NoPlace DEF ArcLocal, One
        <3>2. ArcLocal(t, NULL, NULL, z, b)' = One(ArcInTensor(z, b)) + One(ArcInJob(t, b)')
            BY <1>1, NoWork, NoPlace, SamePlace DEF ArcLocal, One
        <3>3. One(b = c) = One(ArcInJob(t, b)') - One(ArcInJob(t, b))
            BY DEF JobGets
        <3> QED
            BY <3>1, <3>2, <3>3 DEF One
    <2>2. ASSUME NEW y \in Tensors
          PROVE  One(y = z) = TensorLocal(t, NULL, c, y)' - TensorLocal(t, NULL, c, y)
        <3>1. TensorLocal(t, NULL, c, y) = One(TensorInArc(c, y)) + One(TensorInJob(t, y))
            BY <1>1, NoWork, NoPlace DEF TensorLocal, One
        <3>2. TensorLocal(t, NULL, c, y)' = One(TensorInArc(c, y)) + One(TensorInJob(t, y)')
            BY <1>1, NoWork, NoPlace, SamePlace DEF TensorLocal, One
        <3>3. One(y = z) = One(TensorInJob(t, y)') - One(TensorInJob(t, y))
            BY DEF JobGets
        <3> QED
            BY <3>1, <3>2, <3>3 DEF One
    <2> QED
        BY <2>1, <2>2, BalancedAdd
<1>8. Sourced(t, NULL, NULL, z)
    <2>1. ASSUME NEW b \in Arcs, ArcInTensor(z, b)' PROVE Source(t, b)
        <3>1. ArcInTensor(z, b) /\ z \in Tensors
            BY <2>1, SamePlace DEF ArcInTensor
        <3> QED
            BY <3>1 DEF Source
    <2> QED
        BY <1>1, <2>1, NoWork, NoPlace DEF Sourced, JobGets
<1>9. HolderAgrees(NULL)'
    BY DEF HolderAgrees
<1> QED
    BY <1>3, <1>5, <1>6, <1>7, <1>8, <1>9, StepKeepsInv DEF ArcAdded, TensorAdded

(* mts_labels_create: nobody else has the new labels. *)
LEMMA CreateStep ==
    ASSUME HandlesInv, NEW t \in Workers, create(t)
    PROVE  HandlesInv'
<1> USE HandlesAssumption
<1>1. PICK a \in UnusedArcs : /\ NewArc(a, tensors[job[t].tensor].values)
                              /\ job' = [job EXCEPT ![t].pc = "set", ![t].arc = a]
    BY DEF create
<1>2. job[t].pc = "create" /\ work[t] = <<>> /\ tensors' = tensors /\ UNCHANGED <<holders, slots, work>>
    BY DEF create
<1>3. PICK z, v : z = job[t].tensor /\ v = tensors[z].values
    OBVIOUS
<1>4. /\ HandlesTypeOK /\ InHand(t) /\ InUse /\ job \in [Workers -> Job]
    BY CountedIsInUse DEF HandlesInv, HandlesTypeOK, JobsInv
<1>5. z \in Tensors /\ job[t].ptr = NULL
    BY <1>2, <1>3, <1>4 DEF InHand
<1>6. v \in Values \cup {NULL}
    BY <1>3, <1>5, Types
<1>7. ArcAdded(t, a) /\ a \in Arcs /\ arcs[a].strong = 0 /\ arcs'[a].values = v
    BY <1>1, <1>3, <1>6, ArcIsNew
<1>8. TensorAdded(t, NULL)
    BY <1>2, NoTensorAdded
<1>9. PICK j, k : j = job[t] /\ k = [j EXCEPT !.pc = "set", !.arc = a]
    OBVIOUS
<1>10. /\ j \in Job /\ job' = [job EXCEPT ![t] = k] /\ job'[t] = k
       /\ \A u \in Workers : u # t => job'[u] = job[u]
    BY <1>1, <1>4, <1>9
<1>18. k.pc = "set" /\ k.arc = a /\ k.tensor = z /\ k.ptr = NULL /\ k.dest = job[t].dest /\ k \in Job
    BY <1>3, <1>5, <1>7, <1>9, <1>10 DEF Job
<1>11. /\ \A b : ~ArcInJob(t, b) /\ (ArcInJob(t, b)' <=> b = a)
       /\ \A y : TensorInJob(t, y)' <=> TensorInJob(t, y)
    BY <1>2, <1>3, <1>10, <1>18 DEF ArcInJob, TensorInJob
<1>12. JobGets(t, a, NULL)
    BY <1>7, <1>11 DEF JobGets, One, Source
<1>15. Only(t, a)'
    <2>1. \A h \in Holders : ~ArcInHolder(h, a)'
        BY <1>2, <1>4, <1>7 DEF ArcInHolder, InUse
    <2>2. \A s \in Slots : ~ArcInSlot(s, a)'
        BY <1>2, <1>4, <1>7 DEF ArcInSlot, InUse
    <2>3. \A x \in Tensors : ~ArcInTensor(x, a)'
        BY <1>2, <1>4, <1>7 DEF ArcInTensor, InUse
    <2>4. \A u \in Workers : u # t => ~ArcInJob(u, a)'
        BY <1>4, <1>7, <1>10 DEF ArcInJob, InUse
    <2>5. \A u \in Workers : ~ArcFirst(u, a)' /\ ~ArcSecond(u, a)'
        BY <1>2, <1>4, <1>7 DEF ArcFirst, ArcSecond, First, Second, InUse
    <2> QED
        BY <2>1, <2>2, <2>3, <2>4, <2>5 DEF Only
<1>16. arcs'[a].data = NULL
    BY <1>7, Types DEF ArcAdded
<1>17. Setting(t)' /\ InHand(t)' /\ Ready(t)'
    BY <1>2, <1>3, <1>5, <1>7, <1>10, <1>15, <1>16, <1>18 DEF Setting, InHand, Ready
<1> QED
    BY <1>2, <1>7, <1>8, <1>10, <1>12, <1>17, <1>18, JobStep

(* user_data: the pointer is that of labels which the thread keeps. *)
LEMMA UserDataStep ==
    ASSUME HandlesInv, NEW t \in Workers, user_data(t)
    PROVE  HandlesInv'
<1> USE HandlesAssumption
<1>1. /\ job[t].pc = "ask" /\ work[t] = <<>> /\ UNCHANGED <<arcs, tensors, holders, slots, work>>
      /\ job' = [job EXCEPT ![t].pc = "copy", ![t].ptr = arcs[job[t].arc].data]
    BY DEF user_data
<1>2. PICK a, p : a = job[t].arc /\ p = arcs[a].data
    OBVIOUS
<1>3. InHand(t) /\ job \in [Workers -> Job]
    BY DEF HandlesInv, HandlesTypeOK, JobsInv
<1>4. a \in Arcs
    BY <1>1, <1>2, <1>3 DEF InHand
<1>5. p \in Tensors \cup {NULL}
    BY <1>2, <1>4, Types
<1>6. PICK j, k : j = job[t] /\ k = [j EXCEPT !.pc = "copy", !.ptr = p]
    OBVIOUS
<1>14. j \in Job /\ job' = [job EXCEPT ![t] = k] /\ job'[t] = k
    BY <1>1, <1>2, <1>3, <1>6
<1>7. k.pc = "copy" /\ k.arc = a /\ k.ptr = p /\ k.dest = job[t].dest /\ k \in Job
    BY <1>2, <1>5, <1>6, <1>14 DEF Job
<1>8. ArcAdded(t, NULL) /\ TensorAdded(t, NULL)
    BY <1>1, NoArcAdded, NoTensorAdded
<1>9. /\ \A b : ArcInJob(t, b)' <=> ArcInJob(t, b)
      /\ \A y : ~TensorInJob(t, y)' /\ ~TensorInJob(t, y)
    BY <1>1, <1>2, <1>7, <1>14 DEF ArcInJob, TensorInJob
<1>10. JobGets(t, NULL, NULL)
    BY <1>9 DEF JobGets, One, Source
<1>13. Setting(t)' /\ InHand(t)' /\ Ready(t)'
    BY <1>1, <1>2, <1>4, <1>7, <1>14 DEF Setting, InHand, Ready
<1> QED
    BY <1>1, <1>7, <1>8, <1>10, <1>13, <1>14, JobStep

(* The user data is copied: it is still the one of the labels. *)
LEMMA CopyDataStep ==
    ASSUME HandlesInv, NEW t \in Workers, copy_data(t)
    PROVE  HandlesInv'
<1> USE HandlesAssumption
<1>1. /\ job[t].pc = "copy" /\ job[t].ptr # NULL /\ work[t] = <<>> /\ UNCHANGED <<arcs, holders, slots, work>>
      /\ tensors' = Shared(job[t].ptr)
      /\ job' = [job EXCEPT ![t].pc = "done", ![t].tensor = job[t].ptr, ![t].ptr = NULL]
    BY DEF copy_data
<1>2. PICK a, p : a = job[t].arc /\ p = job[t].ptr
    OBVIOUS
<1>3. InHand(t) /\ job \in [Workers -> Job] /\ InUse /\ DataInv
    BY CountedIsInUse DEF HandlesInv, HandlesTypeOK, JobsInv
<1>4. a \in Arcs /\ arcs[a].data = p /\ p # NULL
    BY <1>1, <1>2, <1>3 DEF InHand
<1>5. p \in Tensors
    BY <1>4, Types
<1>6. tensors[p].uses # 0 /\ tensors[p].values = arcs[a].values
    BY <1>3, <1>4, <1>5 DEF InUse, TensorInArc, DataInv
<1>7. TensorAdded(t, p) /\ tensors'[p].values = tensors[p].values /\ ArcAdded(t, NULL)
    BY <1>1, <1>2, <1>5, <1>6, TensorIsShared, NoArcAdded
<1>8. PICK j, k : j = job[t] /\ k = [j EXCEPT !.pc = "done", !.tensor = p, !.ptr = NULL]
    OBVIOUS
<1>16. j \in Job /\ job' = [job EXCEPT ![t] = k] /\ job'[t] = k
    BY <1>1, <1>2, <1>3, <1>8
<1>9. k.pc = "done" /\ k.arc = a /\ k.ptr = NULL /\ k.tensor = p /\ k.dest = job[t].dest /\ k \in Job
    BY <1>2, <1>5, <1>8, <1>16 DEF Job
<1>10. /\ \A b : ArcInJob(t, b)' <=> ArcInJob(t, b)
       /\ \A y : ~TensorInJob(t, y) /\ (TensorInJob(t, y)' <=> y = p)
    BY <1>1, <1>2, <1>9, <1>16 DEF ArcInJob, TensorInJob
<1>11. JobGets(t, NULL, p)
    BY <1>10 DEF JobGets, One, Source
<1>14. Agree(a, p)'
    BY <1>1, <1>4, <1>6, <1>7 DEF Agree, DeviceOf
<1>15. Setting(t)' /\ InHand(t)' /\ Ready(t)'
    BY <1>4, <1>5, <1>9, <1>14, <1>16 DEF Setting, InHand, Ready
<1> QED
    BY <1>1, <1>7, <1>9, <1>11, <1>15, <1>16, JobStep

(* set_user_data: the labels had none, and nobody else has them. *)
LEMMA SetUserDataStep ==
    ASSUME HandlesInv, NEW t \in Workers, set_user_data(t)
    PROVE  HandlesInv'
<1> USE HandlesAssumption
<1>1. /\ job[t].pc = "set" /\ work[t] = <<>> /\ UNCHANGED <<holders, slots>>
      /\ arcs' = [arcs EXCEPT ![job[t].arc].data = job[t].tensor]
      /\ tensors' = Shared(job[t].tensor)
      /\ work' = [work EXCEPT ![t] = Boxed(job[t].arc)]
      /\ job' = [job EXCEPT ![t].pc = "done"]
    BY DEF set_user_data
<1>2. PICK a, z : a = job[t].arc /\ z = job[t].tensor
    OBVIOUS
<1>3. /\ InHand(t) /\ Setting(t) /\ Ready(t) /\ HandlesTypeOK /\ DestInv /\ InUse
      /\ job \in [Workers -> Job] /\ arcs \in [Arcs -> Arc]
    BY CountedIsInUse DEF HandlesInv, HandlesTypeOK, JobsInv
<1>4. a \in Arcs /\ z \in Tensors /\ job[t].ptr = NULL /\ arcs[a].data = NULL /\ tensors[z].values = arcs[a].values
    BY <1>1, <1>2, <1>3 DEF InHand, Setting, Ready
<1>5. ArcInJob(t, a) /\ TensorInJob(t, z)
    BY <1>1, <1>2 DEF ArcInJob, TensorInJob
<1>6. arcs[a].strong # 0 /\ tensors[z].uses # 0
    BY <1>3, <1>4, <1>5 DEF InUse
<1>7. /\ TensorAdded(t, z) /\ tensors'[z].values = tensors[z].values
      /\ tensors'[z].device = tensors[z].device
    BY <1>1, <1>2, <1>4, <1>6, TensorIsShared
<1>8. work' = work
    <2>1. Boxed(job[t].arc) = work[t]
        BY <1>1, <1>2, <1>4 DEF Boxed
    <2> QED
        BY <1>1, <1>3, <2>1 DEF HandlesTypeOK
<1>9. /\ arcs' = [arcs EXCEPT ![a] = [arcs[a] EXCEPT !.data = z]]
      /\ \A b \in Arcs : b # a => arcs'[b] = arcs[b]
    BY <1>1, <1>2, <1>3
<1>10. arcs'[a] \in Arc /\ arcs'[a].strong = arcs[a].strong /\ arcs'[a].values = arcs[a].values /\ arcs'[a].data = z
    BY <1>3, <1>4, <1>9 DEF Arc
<1>11. PICK j, k : j = job[t] /\ k = [j EXCEPT !.pc = "done"]
    OBVIOUS
<1>12. /\ j \in Job /\ job' = [job EXCEPT ![t] = k] /\ job'[t] = k
       /\ \A u \in Workers : u # t => job'[u] = job[u]
    BY <1>1, <1>3, <1>11
<1>13. /\ k.pc = "done" /\ k.arc = a /\ k.ptr = NULL /\ k.tensor = z
       /\ k.dest = job[t].dest /\ k \in Job
    BY <1>2, <1>4, <1>11, <1>12 DEF Job
<1>14. HandlesTypeOK'
    <2>1. arcs' \in [Arcs -> Arc]
        BY <1>3, <1>9, <1>10
    <2>2. job' \in [Workers -> Job]
        BY <1>3, <1>12, <1>13
    <2> QED
        BY <1>1, <1>3, <1>7, <1>8, <2>1, <2>2 DEF HandlesTypeOK, TensorAdded
<1>15. DestInv'
    <2>1. \A u \in Workers : job[u].pc # "idle" => holders'[job[u].dest] = NULL
        BY <1>1, <1>3 DEF DestInv
    <2> QED
        BY <1>1, <1>3, <1>12, <1>13, <2>1, DestStep
<1>16. Touched(t, NULL, NULL, z, a)
    BY <1>1, <1>7, <1>8, <1>9, <1>12 DEF Touched, TensorAdded
<1>17. /\ \A b : ArcInJob(t, b)' <=> ArcInJob(t, b)
       /\ \A y : TensorInJob(t, y)' <=> TensorInJob(t, y)
       /\ \A b : ArcInTensor(z, b)' <=> ArcInTensor(z, b)
       /\ \A y \in Tensors : ~TensorInArc(a, y)
       /\ \A y : TensorInArc(a, y)' <=> y = z
    <2>1. \A b : (ArcInJob(t, b)' <=> ArcInJob(t, b)) /\ (TensorInJob(t, b)' <=> TensorInJob(t, b))
        BY <1>1, <1>2, <1>12, <1>13 DEF ArcInJob, TensorInJob
    <2>2. \A b : ArcInTensor(z, b)' <=> ArcInTensor(z, b)
        BY <1>7 DEF ArcInTensor, TensorAdded
    <2>3. (\A y \in Tensors : ~TensorInArc(a, y)) /\ \A y : TensorInArc(a, y)' <=> y = z
        BY <1>4, <1>10 DEF TensorInArc
    <2> QED
        BY <2>1, <2>2, <2>3
<1>18. work[t] = <<>> /\ work'[t] = <<>>
    BY <1>1, <1>8
<1>19. Balanced(t, NULL, NULL, z, a)
    <2>1. ASSUME NEW b \in Arcs
          PROVE  arcs'[b].strong = arcs[b].strong + ArcLocal(t, NULL, NULL, z, b)' - ArcLocal(t, NULL, NULL, z, b)
        <3>1. ArcLocal(t, NULL, NULL, z, b)' = ArcLocal(t, NULL, NULL, z, b) /\ ArcLocal(t, NULL, NULL, z, b) \in Int
            BY <1>17, <1>18, NoWork, NoPlace DEF ArcLocal, One
        <3>2. arcs'[b].strong = arcs[b].strong /\ arcs[b].strong \in Nat
            BY <1>9, <1>10, Types
        <3> QED
            BY <3>1, <3>2
    <2>2. ASSUME NEW y \in Tensors
          PROVE  tensors'[y].uses = tensors[y].uses + TensorLocal(t, NULL, a, y)' - TensorLocal(t, NULL, a, y)
        <3>1. TensorLocal(t, NULL, a, y)' = TensorLocal(t, NULL, a, y) + One(y = z)
              /\ TensorLocal(t, NULL, a, y) \in Int /\ One(y = z) \in Int
            BY <1>17, <1>18, NoWork, NoPlace DEF TensorLocal, One
        <3>2. tensors'[y].uses = tensors[y].uses + One(y = z) /\ tensors[y].uses \in Nat
            BY <1>7, Types DEF TensorAdded
        <3> QED
            BY <3>1, <3>2
    <2> QED
        BY <2>1, <2>2 DEF Balanced
<1>20. StableArcs(t)
    BY <1>1, <1>2, <1>6, <1>9, <1>10, Types DEF StableArcs
<1>21. Sourced(t, NULL, NULL, z)
    BY <1>4, <1>17, <1>18, NoWork, NoPlace DEF Sourced, Source
<1>22. Agree(a, z)'
    BY <1>4, <1>7, <1>10 DEF Agree, DeviceOf
<1>23. Setting(t)' /\ InHand(t)' /\ Ready(t)'
    BY <1>4, <1>12, <1>13, <1>22 DEF Setting, InHand, Ready
<1>24. HolderAgrees(NULL)'
    BY DEF HolderAgrees
<1> QED
    BY <1>7, <1>14, <1>15, <1>16, <1>19, <1>20, <1>21, <1>23, <1>24, StepKeepsInv DEF TensorAdded

(* from_blob: the new tensor keeps the labels. *)
LEMMA FromBlobStep ==
    ASSUME HandlesInv, NEW t \in Workers, from_blob(t)
    PROVE  HandlesInv'
<1> USE HandlesAssumption
<1>1. /\ job[t].pc = "copy" /\ job[t].ptr = NULL /\ work[t] = <<>> /\ UNCHANGED <<holders, slots, work>>
      /\ arcs' = Cloned(job[t].arc)
    BY DEF from_blob
<1>2. PICK a, v : a = job[t].arc /\ v = arcs[a].values
    OBVIOUS
<1>3. PICK x \in UnusedTensors :
          /\ NewTensor(x, CPU, v, a)
          /\ job' = [job EXCEPT ![t].pc = "done", ![t].tensor = x]
    BY <1>2 DEF from_blob
<1>4. /\ InHand(t) /\ HandlesTypeOK /\ DestInv /\ InUse
      /\ job \in [Workers -> Job] /\ arcs \in [Arcs -> Arc] /\ tensors \in [Tensors -> Data]
    BY CountedIsInUse DEF HandlesInv, HandlesTypeOK, JobsInv
<1>5. a \in Arcs /\ arcs[a].data = NULL
    BY <1>1, <1>2, <1>4 DEF InHand
<1>6. ArcInJob(t, a) /\ arcs[a].strong # 0 /\ v \in Values \cup {NULL}
    <2>1. ArcInJob(t, a)
        BY <1>1, <1>2 DEF ArcInJob
    <2> QED
        BY <1>2, <1>4, <1>5, <2>1, Types DEF InUse
<1>7. ArcAdded(t, a)
    BY <1>1, <1>2, <1>5, <1>6, ArcCloned
<1>8. x \in Tensors /\ tensors[x] = FreeTensor /\ tensors[x].uses = 0 /\ tensors[x].blob = NULL
    BY DEF UnusedTensors, FreeTensor
<1>9. PICK new : new = [uses |-> 1, device |-> CPU, values |-> v, blob |-> a]
    OBVIOUS
<1>10. /\ tensors' = [tensors EXCEPT ![x] = new] /\ tensors'[x] = new
       /\ \A y \in Tensors : y # x => tensors'[y] = tensors[y]
    BY <1>3, <1>4, <1>8, <1>9 DEF NewTensor
<1>11. new \in Data /\ new.uses = 1 /\ new.device = CPU /\ new.values = v /\ new.blob = a
    BY <1>5, <1>6, <1>9 DEF Data
<1>12. PICK j, k : j = job[t] /\ k = [j EXCEPT !.pc = "done", !.tensor = x]
    OBVIOUS
<1>13. /\ j \in Job /\ job' = [job EXCEPT ![t] = k] /\ job'[t] = k
       /\ \A u \in Workers : u # t => job'[u] = job[u]
    BY <1>3, <1>4, <1>12
<1>14. /\ k.pc = "done" /\ k.arc = a /\ k.ptr = NULL /\ k.tensor = x
       /\ k.dest = job[t].dest /\ k \in Job
    BY <1>1, <1>2, <1>8, <1>12, <1>13 DEF Job
<1>15. HandlesTypeOK'
    <2>1. tensors' \in [Tensors -> Data]
        BY <1>4, <1>10, <1>11
    <2>2. job' \in [Workers -> Job]
        BY <1>4, <1>13, <1>14
    <2> QED
        BY <1>1, <1>4, <1>7, <2>1, <2>2 DEF HandlesTypeOK, ArcAdded
<1>16. DestInv'
    <2>1. \A u \in Workers : job[u].pc # "idle" => holders'[job[u].dest] = NULL
        BY <1>1, <1>4 DEF DestInv
    <2> QED
        BY <1>1, <1>4, <1>13, <1>14, <2>1, DestStep
<1>17. Touched(t, NULL, NULL, x, a)
    BY <1>1, <1>7, <1>10, <1>13 DEF Touched, ArcAdded
<1>18. /\ \A b : ArcInJob(t, b)' <=> ArcInJob(t, b)
       /\ \A y : ~TensorInJob(t, y) /\ (TensorInJob(t, y)' <=> y = x)
       /\ \A b \in Arcs : ~ArcInTensor(x, b)
       /\ \A b : ArcInTensor(x, b)' <=> b = a
       /\ \A y : TensorInArc(a, y)' <=> TensorInArc(a, y)
    <2>1. \A b : (ArcInJob(t, b)' <=> ArcInJob(t, b)) /\ ~TensorInJob(t, b) /\ (TensorInJob(t, b)' <=> b = x)
        BY <1>1, <1>2, <1>13, <1>14 DEF ArcInJob, TensorInJob
    <2>2. (\A b \in Arcs : ~ArcInTensor(x, b)) /\ \A b : ArcInTensor(x, b)' <=> b = a
        BY <1>8, <1>10, <1>11 DEF ArcInTensor
    <2>3. \A y : TensorInArc(a, y)' <=> TensorInArc(a, y)
        BY <1>7 DEF TensorInArc, ArcAdded
    <2> QED
        BY <2>1, <2>2, <2>3
<1>19. work[t] = <<>> /\ work'[t] = <<>>
    BY <1>1
<1>20. Balanced(t, NULL, NULL, x, a)
    <2>1. ASSUME NEW b \in Arcs
          PROVE  arcs'[b].strong = arcs[b].strong + ArcLocal(t, NULL, NULL, x, b)' - ArcLocal(t, NULL, NULL, x, b)
        <3>1. /\ ArcLocal(t, NULL, NULL, x, b)' = ArcLocal(t, NULL, NULL, x, b) + One(b = a)
              /\ ArcLocal(t, NULL, NULL, x, b) \in Int /\ One(b = a) \in Int
            BY <1>18, <1>19, NoWork, NoPlace DEF ArcLocal, One
        <3>2. arcs'[b].strong = arcs[b].strong + One(b = a) /\ arcs[b].strong \in Nat
            BY <1>7, Types DEF ArcAdded
        <3> QED
            BY <3>1, <3>2
    <2>2. ASSUME NEW y \in Tensors
          PROVE  tensors'[y].uses = tensors[y].uses + TensorLocal(t, NULL, a, y)' - TensorLocal(t, NULL, a, y)
        <3>1. /\ TensorLocal(t, NULL, a, y)' = TensorLocal(t, NULL, a, y) + One(y = x)
              /\ TensorLocal(t, NULL, a, y) \in Int /\ One(y = x) \in Int
            BY <1>18, <1>19, NoWork, NoPlace DEF TensorLocal, One
        <3>2. tensors'[y].uses = tensors[y].uses + One(y = x) /\ tensors[y].uses \in Nat
            BY <1>8, <1>10, <1>11, Types DEF One
        <3> QED
            BY <3>1, <3>2
    <2> QED
        BY <2>1, <2>2 DEF Balanced
<1>21. StableTensors(t)
    BY <1>1, <1>2, <1>8, <1>10, <1>11, Types DEF StableTensors
<1>22. Sourced(t, NULL, NULL, x)
    BY <1>6, <1>18, <1>19, NoWork, NoPlace DEF Sourced, Source
<1>23. Agree(a, x)'
    <2>1. arcs'[a].values = v /\ arcs'[a].data = NULL
        BY <1>1, <1>2, <1>4, <1>5 DEF Cloned, Arc
    <2> QED
        BY <1>10, <1>11, <2>1 DEF Agree, DeviceOf
<1>24. Setting(t)' /\ InHand(t)' /\ Ready(t)'
    BY <1>5, <1>8, <1>13, <1>14, <1>23 DEF Setting, InHand, Ready
<1>25. HolderAgrees(NULL)'
    BY DEF HolderAgrees
<1> QED
    BY <1>7, <1>15, <1>16, <1>17, <1>20, <1>21, <1>22, <1>24, <1>25, StepKeepsInv DEF ArcAdded

-----------------------------------------------------------------------------
(* What is moved from one place to another *)

LEMMA Joined ==
    ASSUME NEW i, NEW j
    PROVE  <<>> \o <<i>> = <<i>> /\ <<i>> \o <<j>> = <<i, j>> /\ <<i>> \o <<>> = <<i>>
<1>1. <<i>> \in Seq({i, j}) /\ <<j>> \in Seq({i, j}) /\ <<i, j>> \in Seq({i, j})
    OBVIOUS
<1>2. PICK s : s = <<i>> \o <<j>>
    OBVIOUS
<1>3. /\ Len(<<i>>) = 1 /\ Len(<<j>>) = 1 /\ Len(<<i, j>>) = 2
      /\ <<i>>[1] = i /\ <<j>>[1] = j /\ <<i, j>>[1] = i /\ <<i, j>>[2] = j
    OBVIOUS
<1>4. s \in Seq({i, j}) /\ Len(s) = 2 /\ s[1] = i /\ s[2] = j
    BY <1>1, <1>2, <1>3, ConcatProperties
<1>5. \A k \in 1 .. Len(s) : s[k] = <<i, j>>[k]
    BY <1>3, <1>4
<1>6. s = <<i, j>>
    BY <1>1, <1>3, <1>4, <1>5, SeqEqual
<1> QED
    BY <1>1, <1>2, <1>6, ConcatEmptySeq

ArcOf(a) == [what |-> "arc", id |-> a]
TensorOf(x) == [what |-> "tensor", id |-> x]

LEMMA ItemsDiffer ==
    \A b, c : (ArcOf(b) = ArcOf(c) <=> b = c) /\ (TensorOf(b) = TensorOf(c) <=> b = c) /\ ArcOf(b) # TensorOf(c)
BY DEF ArcOf, TensorOf

LEMMA ItemTypes ==
    /\ \A b \in Arcs : ArcOf(b) \in Item
    /\ \A y \in Tensors : TensorOf(y) \in Item
    /\ \A i \in Item : \/ i.what = "arc" /\ i.id \in Arcs /\ i = ArcOf(i.id)
                       \/ i.what = "tensor" /\ i.id \in Tensors /\ i = TensorOf(i.id)
BY DEF ArcOf, TensorOf, Item, ArcItem, TensorItem

(* What a thread has to release. *)
WorkIs ==
    \A t \in Workers : \A b :
        /\ \A i : work[t] = <<i>> =>
              /\ ArcFirst(t, b) <=> i = ArcOf(b)
              /\ TensorFirst(t, b) <=> i = TensorOf(b)
              /\ ~ArcSecond(t, b) /\ ~TensorSecond(t, b)
        /\ \A i, j : work[t] = <<i, j>> =>
              /\ ArcFirst(t, b) <=> j = ArcOf(b)
              /\ TensorFirst(t, b) <=> j = TensorOf(b)
              /\ ArcSecond(t, b) <=> i = ArcOf(b)
              /\ TensorSecond(t, b) <=> i = TensorOf(b)

LEMMA WorkIsSo == WorkIs
<1> SUFFICES ASSUME NEW t \in Workers, NEW b, NEW i, NEW j
             PROVE  /\ work[t] = <<i>> =>
                          /\ ArcFirst(t, b) <=> i = ArcOf(b)
                          /\ TensorFirst(t, b) <=> i = TensorOf(b)
                          /\ ~ArcSecond(t, b) /\ ~TensorSecond(t, b)
                    /\ work[t] = <<i, j>> =>
                          /\ ArcFirst(t, b) <=> j = ArcOf(b)
                          /\ TensorFirst(t, b) <=> j = TensorOf(b)
                          /\ ArcSecond(t, b) <=> i = ArcOf(b)
                          /\ TensorSecond(t, b) <=> i = TensorOf(b)
    BY DEF WorkIs
<1>1. /\ ArcFirst(t, b) <=> First(t, ArcOf(b))
      /\ TensorFirst(t, b) <=> First(t, TensorOf(b))
      /\ ArcSecond(t, b) <=> Second(t, ArcOf(b))
      /\ TensorSecond(t, b) <=> Second(t, TensorOf(b))
    BY DEF ArcFirst, TensorFirst, ArcSecond, TensorSecond, ArcOf, TensorOf
<1>2. ASSUME work[t] = <<i>>, NEW e PROVE (First(t, e) <=> i = e) /\ ~Second(t, e)
    BY <1>2 DEF First, Second
<1>3. ASSUME work[t] = <<i, j>>, NEW e PROVE (First(t, e) <=> j = e) /\ (Second(t, e) <=> i = e)
    BY <1>3 DEF First, Second
<1> QED
    BY <1>1, <1>2, <1>3

LEMMA WorkIsSoPrime == WorkIs'
BY WorkIsSo, PTL

(* A step that moves references, and may make a tensor. *)
LEMMA MoveStep ==
    ASSUME HandlesInv, NEW t \in Workers, NEW h, NEW s, NEW z, arcs' = arcs, TensorAdded(t, z),
           HandlesTypeOK', DestInv', Touched(t, h, s, z, NULL),
           \A b \in Arcs : ArcLocal(t, h, s, z, b)' = ArcLocal(t, h, s, z, b),
           \A y \in Tensors : One(y = z) = TensorLocal(t, h, NULL, y)' - TensorLocal(t, h, NULL, y),
           Setting(t)', InHand(t)', Ready(t)', HolderAgrees(h)'
    PROVE  HandlesInv'
<1>1. ArcAdded(t, NULL)
    BY NoArcAdded
<1>2. ASSUME NEW b \in Arcs PROVE One(b = NULL) = ArcLocal(t, h, s, z, b)' - ArcLocal(t, h, s, z, b)
    <2>1. ArcLocal(t, h, s, z, b)' = ArcLocal(t, h, s, z, b) /\ ArcLocal(t, h, s, z, b) \in Int
        BY DEF ArcLocal, One
    <2> QED
        BY <2>1, HandlesAssumption DEF One
<1>3. Balanced(t, h, s, z, NULL)
    BY <1>1, <1>2, BalancedAdd
<1>4. Sourced(t, h, s, z)
    <2>1. ASSUME NEW b \in Arcs,
                 \/ ArcInHolder(h, b)' \/ ArcInSlot(s, b)' \/ ArcInTensor(z, b)'
                 \/ ArcInJob(t, b)' \/ ArcFirst(t, b)' \/ ArcSecond(t, b)'
          PROVE  Source(t, b)
        <3>1. ArcLocal(t, h, s, z, b)' # 0
            BY <2>1 DEF ArcLocal, One
        <3>2. ArcLocal(t, h, s, z, b) # 0
            BY <3>1
        <3>3. \/ ArcInHolder(h, b) \/ ArcInSlot(s, b) \/ ArcInTensor(z, b)
              \/ ArcInJob(t, b) \/ ArcFirst(t, b) \/ ArcSecond(t, b)
            BY <3>2 DEF ArcLocal, One
        <3>4. (ArcInHolder(h, b) => h \in Holders) /\ (ArcInSlot(s, b) => s \in Slots) /\ (ArcInTensor(z, b) => z \in Tensors)
            BY DEF ArcInHolder, ArcInSlot, ArcInTensor
        <3> QED
            BY <3>3, <3>4 DEF Source
    <2> QED
        BY <2>1 DEF Sourced
<1> QED
    BY <1>1, <1>3, <1>4, StepKeepsInv DEF ArcAdded, TensorAdded

(* The tensor is let go when the labels are refused. *)
LEMMA CreateFailsStep ==
    ASSUME HandlesInv, NEW t \in Workers, create_fails(t)
    PROVE  HandlesInv'
<1> USE HandlesAssumption
<1>1. /\ job[t].pc = "create" /\ work[t] = <<>> /\ UNCHANGED <<arcs, tensors, holders, slots>>
      /\ job' = [job EXCEPT ![t] = NoJob]
      /\ work' = [work EXCEPT ![t] = <<TensorOf(job[t].tensor)>>]
    BY DEF create_fails, TensorOf
<1>2. PICK z : z = job[t].tensor
    OBVIOUS
<1>3. InHand(t) /\ HandlesTypeOK /\ DestInv
    BY DEF HandlesInv, JobsInv
<1>4. z \in Tensors
    BY <1>1, <1>2, <1>3 DEF InHand
<1>5. /\ job'[t] = NoJob /\ work'[t] = <<TensorOf(z)>> /\ job'[t].pc = "idle"
      /\ \A u \in Workers : u # t => job'[u] = job[u] /\ work'[u] = work[u]
    BY <1>1, <1>2, <1>3 DEF HandlesTypeOK, NoJob
<1>6. HandlesTypeOK'
    <2>1. NoJob \in Job
        BY DEF Job, NoJob
    <2>2. job' \in [Workers -> Job]
        BY <1>1, <1>3, <2>1 DEF HandlesTypeOK
    <2>3. TensorOf(z) \in Item
        BY <1>4, ItemTypes
    <2>4. <<TensorOf(z)>> \in Tasks
        BY <2>3 DEF Tasks
    <2>5. work' \in [Workers -> Tasks]
        BY <1>1, <1>2, <1>3, <2>4 DEF HandlesTypeOK
    <2> QED
        BY <1>1, <1>3, <2>2, <2>5 DEF HandlesTypeOK
<1>7. DestInv'
    <2>1. \A u \in Workers : job[u].pc # "idle" => holders'[job[u].dest] = NULL
        BY <1>1, <1>3 DEF DestInv
    <2> QED
        BY <1>3, <1>5, <2>1, DestStep
<1>8. TensorAdded(t, NULL)
    BY <1>1, NoTensorAdded
<1>9. Touched(t, NULL, NULL, NULL, NULL)
    BY <1>1, <1>5 DEF Touched
<1>10. /\ \A b : ~ArcInJob(t, b) /\ ~ArcInJob(t, b)' /\ ~TensorInJob(t, b)' /\ (TensorInJob(t, b) <=> b = z)
       /\ \A b : ~ArcInTensor(NULL, b) /\ ~ArcInTensor(NULL, b)' /\ ~TensorInArc(NULL, b) /\ ~TensorInArc(NULL, b)'
    BY <1>1, <1>2, <1>5 DEF ArcInJob, TensorInJob, ArcInTensor, TensorInArc
<1>11. \A b : ~ArcFirst(t, b)' /\ ~ArcSecond(t, b)' /\ ~TensorSecond(t, b)' /\ (TensorFirst(t, b)' <=> b = z)
    BY <1>5, WorkIsSoPrime, ItemsDiffer DEF WorkIs
<1>12. \A b \in Arcs : ArcLocal(t, NULL, NULL, NULL, b)' = ArcLocal(t, NULL, NULL, NULL, b)
    BY <1>1, <1>10, <1>11, NoWork, NoPlace DEF ArcLocal, One
<1>13. \A y \in Tensors : One(y = NULL) = TensorLocal(t, NULL, NULL, y)' - TensorLocal(t, NULL, NULL, y)
    BY <1>1, <1>10, <1>11, NoWork, NoPlace DEF TensorLocal, One
<1>14. Setting(t)' /\ InHand(t)' /\ Ready(t)'
    BY <1>5 DEF Setting, InHand, Ready, NoJob
<1>15. HolderAgrees(NULL)'
    BY DEF HolderAgrees
<1> QED
    BY <1>1, <1>6, <1>7, <1>8, <1>9, <1>12, <1>13, <1>14, <1>15, MoveStep

(* A thread that is not doing anything lets go of something. *)
Moves(t, h, s) ==
    /\ \A b \in Arcs : ArcLocal(t, h, s, NULL, b)' = ArcLocal(t, h, s, NULL, b)
    /\ \A y \in Tensors : TensorLocal(t, h, NULL, y)' = TensorLocal(t, h, NULL, y)

LEMMA DropStep ==
    ASSUME HandlesInv, NEW t \in Workers, CanStart(t), UNCHANGED <<arcs, tensors, job>>,
           NEW w \in Tasks,
           work' = [work EXCEPT ![t] = w], NEW h, NEW s,
           holders' = holders \/ (h \in Holders /\ holders' = [holders EXCEPT ![h] = NULL]),
           slots' = slots \/ (s \in Slots /\ slots' = [slots EXCEPT ![s] = NULL]),
           Moves(t, h, s)
    PROVE  HandlesInv'
<1> USE HandlesAssumption
<1>1. job[t] = NoJob /\ work[t] = <<>> /\ job[t].pc = "idle" /\ HandlesTypeOK /\ DestInv
    BY DEF CanStart, NoJob, HandlesInv
<1>2. \A u \in Workers : u # t => work'[u] = work[u]
    BY <1>1 DEF HandlesTypeOK
<1>3. /\ holders' \in [Holders -> Holder \cup {NULL}]
      /\ \A k \in Holders : (k # h => holders'[k] = holders[k]) /\ (holders[k] = NULL => holders'[k] = NULL)
      /\ h \in Holders => holders'[h] = holders[h] \/ holders'[h] = NULL
    <2>1. holders \in [Holders -> Holder \cup {NULL}]
        BY <1>1 DEF HandlesTypeOK
    <2>2. CASE holders' = holders
        BY <2>1, <2>2
    <2>3. CASE h \in Holders /\ holders' = [holders EXCEPT ![h] = NULL]
        BY <2>1, <2>3
    <2> QED
        BY <2>2, <2>3
<1>4. slots' \in [Slots -> Arcs \cup {NULL}] /\ \A k \in Slots : k # s => slots'[k] = slots[k]
    BY <1>1 DEF HandlesTypeOK
<1>5. HandlesTypeOK'
    <2>1. work' \in [Workers -> Tasks]
        BY <1>1 DEF HandlesTypeOK
    <2> QED
        BY <1>1, <1>3, <1>4, <2>1 DEF HandlesTypeOK
<1>6. DestInv'
    BY <1>1, <1>3 DEF DestInv, NoJob
<1>7. TensorAdded(t, NULL)
    BY NoTensorAdded
<1>8. Touched(t, h, s, NULL, NULL)
    BY <1>2, <1>3, <1>4 DEF Touched
<1>9. ASSUME NEW y \in Tensors PROVE One(y = NULL) = TensorLocal(t, h, NULL, y)' - TensorLocal(t, h, NULL, y)
    <2>1. TensorLocal(t, h, NULL, y)' = TensorLocal(t, h, NULL, y)
        BY DEF Moves
    <2>2. TensorLocal(t, h, NULL, y) \in Int
        BY DEF TensorLocal, One
    <2> QED
        BY <2>1, <2>2 DEF One
<1>12. \A b \in Arcs : ArcLocal(t, h, s, NULL, b)' = ArcLocal(t, h, s, NULL, b)
    BY DEF Moves
<1>10. Setting(t)' /\ InHand(t)' /\ Ready(t)'
    BY <1>1 DEF Setting, InHand, Ready, NoJob
<1>11. HolderAgrees(h)'
    <2>1. \A k \in Holders : HolderAgrees(k)
        BY DEF HandlesInv
    <2> QED
        BY <1>3, <2>1 DEF HolderAgrees, Agree, DeviceOf
<1> QED
    BY <1>5, <1>6, <1>7, <1>8, <1>9, <1>10, <1>11, <1>12, MoveStep

(* A block is freed. *)
LEMMA DropSlotStep ==
    ASSUME HandlesInv, NEW t \in Workers, DropSlot(t)
    PROVE  HandlesInv'
<1> USE HandlesAssumption
<1>1. PICK s \in Slots : /\ slots[s] # NULL /\ slots' = [slots EXCEPT ![s] = NULL]
                         /\ work' = [work EXCEPT ![t] = <<ArcOf(slots[s])>>]
    BY DEF DropSlot, ArcOf
<1>2. CanStart(t) /\ UNCHANGED <<arcs, tensors, holders, job>>
    BY DEF DropSlot
<1>3. job[t] = NoJob /\ work[t] = <<>> /\ job[t].pc = "idle" /\ job'[t].pc = "idle" /\ HandlesTypeOK
    BY <1>2 DEF CanStart, NoJob, HandlesInv
<1>4. PICK c : c = slots[s]
    OBVIOUS
<1>5. c \in Arcs /\ slots'[s] = NULL /\ work'[t] = <<ArcOf(c)>> /\ ArcOf(c) \in Item
    BY <1>1, <1>3, <1>4, ItemTypes DEF HandlesTypeOK
<1>6. /\ \A b : ~ArcInJob(t, b) /\ ~ArcInJob(t, b)' /\ ~TensorInJob(t, b)' /\ ~TensorInJob(t, b)
      /\ \A b : ~ArcInTensor(NULL, b) /\ ~ArcInTensor(NULL, b)' /\ ~TensorInArc(NULL, b) /\ ~TensorInArc(NULL, b)'
      /\ \A b \in Arcs : ~ArcInSlot(s, b)' /\ (ArcInSlot(s, b) <=> b = c)
    BY <1>3, <1>4, <1>5 DEF ArcInJob, TensorInJob, ArcInTensor, TensorInArc, ArcInSlot
<1>7. \A b : ~TensorFirst(t, b)' /\ ~ArcSecond(t, b)' /\ ~TensorSecond(t, b)' /\ (ArcFirst(t, b)' <=> b = c)
    BY <1>5, WorkIsSoPrime, ItemsDiffer DEF WorkIs
<1>8. \A b \in Arcs : ArcLocal(t, NULL, s, NULL, b)' = ArcLocal(t, NULL, s, NULL, b)
    BY <1>3, <1>6, <1>7, NoWork, NoPlace DEF ArcLocal, One
<1>9. \A y \in Tensors : TensorLocal(t, NULL, NULL, y)' = TensorLocal(t, NULL, NULL, y)
    BY <1>3, <1>6, <1>7, NoWork, NoPlace DEF TensorLocal, One
<1>10. PICK w : w = <<ArcOf(c)>>
    OBVIOUS
<1>11. w \in Tasks
    BY <1>5, <1>10 DEF Tasks
<1>12. work' = [work EXCEPT ![t] = w] /\ UNCHANGED <<arcs, tensors, job>> /\ Moves(t, NULL, s)
    BY <1>1, <1>2, <1>4, <1>8, <1>9, <1>10 DEF Moves
<1> QED
    BY <1>1, <1>2, <1>11, <1>12, DropStep

(* A LabelsHolder is destroyed. *)
LEMMA DropHolderStep ==
    ASSUME HandlesInv, NEW t \in Workers, DropHolder(t)
    PROVE  HandlesInv'
<1> USE HandlesAssumption
<1>1. PICK h \in UsedHolders :
          /\ holders' = [holders EXCEPT ![h] = NULL]
          /\ work' = [work EXCEPT ![t] =
                (IF holders[h].arc = NULL THEN <<>> ELSE <<[what |-> "arc", id |-> holders[h].arc]>>)
                \o <<[what |-> "tensor", id |-> holders[h].tensor]>>]
    BY DEF DropHolder
<1>2. CanStart(t) /\ UNCHANGED <<arcs, tensors, slots, job>>
    BY DEF DropHolder
<1>3. job[t] = NoJob /\ work[t] = <<>> /\ job[t].pc = "idle" /\ job'[t].pc = "idle" /\ HandlesTypeOK
    BY <1>2 DEF CanStart, NoJob, HandlesInv
<1>4. PICK c, z : c = holders[h].arc /\ z = holders[h].tensor
    OBVIOUS
<1>5. h \in Holders /\ holders[h] # NULL /\ z \in Tensors /\ c \in Arcs \cup {NULL} /\ holders'[h] = NULL
    BY <1>1, <1>3, <1>4 DEF UsedHolders, HandlesTypeOK, Holder
<1>6. PICK w : w = IF c = NULL THEN <<TensorOf(z)>> ELSE <<ArcOf(c), TensorOf(z)>>
    OBVIOUS
<1>7. work' = [work EXCEPT ![t] = w] /\ work'[t] = w
    <2>1. <<>> \o <<TensorOf(z)>> = <<TensorOf(z)>> /\ <<ArcOf(c)>> \o <<TensorOf(z)>> = <<ArcOf(c), TensorOf(z)>>
        BY Joined
    <2>2. w = (IF c = NULL THEN <<>> ELSE <<ArcOf(c)>>) \o <<TensorOf(z)>>
        BY <1>6, <2>1
    <2> QED
        BY <1>1, <1>3, <1>4, <2>2 DEF HandlesTypeOK, ArcOf, TensorOf
<1>8. w \in Tasks
    <2>1. TensorOf(z) \in Item /\ (c # NULL => ArcOf(c) \in Item)
        BY <1>5, ItemTypes
    <2>2. <<TensorOf(z)>> \in {<<i>> : i \in Item}
        BY <2>1
    <2>3. c # NULL => <<ArcOf(c), TensorOf(z)>> \in {<<i, j>> : i \in Item, j \in Item}
        BY <2>1
    <2> QED
        BY <1>6, <2>2, <2>3 DEF Tasks
<1>9. /\ \A b : ~ArcInJob(t, b) /\ ~ArcInJob(t, b)' /\ ~TensorInJob(t, b)' /\ ~TensorInJob(t, b)
      /\ \A b : ~ArcInTensor(NULL, b) /\ ~ArcInTensor(NULL, b)' /\ ~TensorInArc(NULL, b) /\ ~TensorInArc(NULL, b)'
      /\ \A b : ~ArcInHolder(h, b)' /\ ~TensorInHolder(h, b)' /\ (ArcInHolder(h, b) <=> b = c) /\ (TensorInHolder(h, b) <=> b = z)
    BY <1>3, <1>4, <1>5 DEF ArcInJob, TensorInJob, ArcInTensor, TensorInArc, ArcInHolder, TensorInHolder
<1>10. \A b : /\ ~ArcFirst(t, b)' /\ ~TensorSecond(t, b)'
              /\ (TensorFirst(t, b)' <=> b = z) /\ (ArcSecond(t, b)' <=> c # NULL /\ b = c)
    <2>1. CASE c = NULL
        BY <1>6, <1>7, <2>1, WorkIsSoPrime, ItemsDiffer DEF WorkIs
    <2>2. CASE c # NULL
        BY <1>6, <1>7, <2>2, WorkIsSoPrime, ItemsDiffer DEF WorkIs
    <2> QED
        BY <2>1, <2>2
<1>11. \A b \in Arcs : ArcLocal(t, h, NULL, NULL, b)' = ArcLocal(t, h, NULL, NULL, b)
    BY <1>3, <1>9, <1>10, NoWork, NoPlace DEF ArcLocal, One
<1>12. \A y \in Tensors : TensorLocal(t, h, NULL, y)' = TensorLocal(t, h, NULL, y)
    BY <1>3, <1>9, <1>10, NoWork, NoPlace DEF TensorLocal, One
<1>13. UNCHANGED <<arcs, tensors, job>> /\ Moves(t, h, NULL)
    BY <1>2, <1>11, <1>12 DEF Moves
<1> QED
    BY <1>1, <1>2, <1>5, <1>7, <1>8, <1>13, DropStep

(* The holder is ready. *)
LEMMA ReturnStep ==
    ASSUME HandlesInv, NEW t \in Workers, return(t)
    PROVE  HandlesInv'
<1> USE HandlesAssumption
<1>1. PICK a, z, h : a = job[t].arc /\ z = job[t].tensor /\ h = job[t].dest
    OBVIOUS
<1>2. /\ job[t].pc = "done" /\ work[t] = <<>> /\ UNCHANGED <<arcs, tensors, slots, work>>
      /\ holders' = [holders EXCEPT ![h] = [arc |-> a, tensor |-> z]]
      /\ job' = [job EXCEPT ![t] = NoJob]
    BY <1>1 DEF return
<1>3. InHand(t) /\ Ready(t) /\ HandlesTypeOK /\ DestInv /\ holders \in [Holders -> Holder \cup {NULL}]
    BY DEF HandlesInv, JobsInv, HandlesTypeOK
<1>4. a \in Arcs /\ z \in Tensors /\ Agree(a, z)
    BY <1>1, <1>2, <1>3 DEF InHand, Ready
<1>5. h \in Holders /\ holders[h] = NULL /\ \A u \in Workers : u # t => job[u].dest # h
    BY <1>1, <1>2, <1>3 DEF DestInv
<1>6. PICK new : new = [arc |-> a, tensor |-> z]
    OBVIOUS
<1>7. new \in Holder /\ new # NULL /\ new.arc = a /\ new.tensor = z
    BY <1>4, <1>6 DEF Holder
<1>8. holders' = [holders EXCEPT ![h] = new] /\ holders'[h] = new /\ \A k \in Holders : k # h => holders'[k] = holders[k]
    BY <1>2, <1>3, <1>5, <1>6
<1>9. job'[t] = NoJob /\ job'[t].pc = "idle" /\ \A u \in Workers : u # t => job'[u] = job[u]
    BY <1>2, <1>3 DEF HandlesTypeOK, NoJob
<1>10. HandlesTypeOK'
    <2>1. NoJob \in Job
        BY DEF Job, NoJob
    <2>2. job' \in [Workers -> Job]
        BY <1>2, <1>3, <2>1 DEF HandlesTypeOK
    <2>3. holders' \in [Holders -> Holder \cup {NULL}]
        BY <1>3, <1>7, <1>8
    <2> QED
        BY <1>2, <1>3, <2>2, <2>3 DEF HandlesTypeOK
<1>11. DestInv'
    <2>1. \A u \in Workers : u # t /\ job[u].pc # "idle" => holders'[job[u].dest] = NULL
        BY <1>3, <1>5, <1>8 DEF DestInv
    <2> QED
        BY <1>3, <1>9, <2>1, DestStep
<1>12. TensorAdded(t, NULL)
    BY <1>2, NoTensorAdded
<1>13. Touched(t, h, NULL, NULL, NULL)
    BY <1>2, <1>8, <1>9 DEF Touched
<1>14. /\ \A b : ~ArcInJob(t, b)' /\ ~TensorInJob(t, b)' /\ (ArcInJob(t, b) <=> b = a) /\ (TensorInJob(t, b) <=> b = z)
       /\ \A b : ~ArcInTensor(NULL, b) /\ ~ArcInTensor(NULL, b)' /\ ~TensorInArc(NULL, b) /\ ~TensorInArc(NULL, b)'
       /\ \A b : ~ArcInHolder(h, b) /\ ~TensorInHolder(h, b)
       /\ \A b : (ArcInHolder(h, b)' <=> b = a) /\ (TensorInHolder(h, b)' <=> b = z)
    <2>1. \A b : ~ArcInJob(t, b)' /\ ~TensorInJob(t, b)' /\ (ArcInJob(t, b) <=> b = a) /\ (TensorInJob(t, b) <=> b = z)
        BY <1>1, <1>2, <1>9 DEF ArcInJob, TensorInJob
    <2>2. \A b : ~ArcInTensor(NULL, b) /\ ~ArcInTensor(NULL, b)' /\ ~TensorInArc(NULL, b) /\ ~TensorInArc(NULL, b)'
        BY DEF ArcInTensor, TensorInArc
    <2>3. \A b : /\ ~ArcInHolder(h, b) /\ ~TensorInHolder(h, b)
                 /\ (ArcInHolder(h, b)' <=> b = a) /\ (TensorInHolder(h, b)' <=> b = z)
        BY <1>5, <1>7, <1>8 DEF ArcInHolder, TensorInHolder
    <2> QED
        BY <2>1, <2>2, <2>3
<1>15. work'[t] = <<>>
    BY <1>2
<1>16. \A b \in Arcs : ArcLocal(t, h, NULL, NULL, b)' = ArcLocal(t, h, NULL, NULL, b)
    BY <1>2, <1>14, <1>15, NoWork, NoPlace DEF ArcLocal, One
<1>17. \A y \in Tensors : One(y = NULL) = TensorLocal(t, h, NULL, y)' - TensorLocal(t, h, NULL, y)
    BY <1>2, <1>14, <1>15, NoWork, NoPlace DEF TensorLocal, One
<1>18. Setting(t)' /\ InHand(t)' /\ Ready(t)'
    BY <1>9 DEF Setting, InHand, Ready, NoJob
<1>19. HolderAgrees(h)'
    BY <1>2, <1>4, <1>7, <1>8 DEF HolderAgrees, Agree, DeviceOf
<1> QED
    BY <1>2, <1>10, <1>11, <1>12, <1>13, <1>16, <1>17, <1>18, <1>19, MoveStep

(* The result of a union goes to another device. *)
LEMMA ReturnToStep ==
    ASSUME HandlesInv, NEW t \in Workers, return_to(t)
    PROVE  HandlesInv'
<1> USE HandlesAssumption
<1>1. PICK a, z, h, d, v : /\ a = job[t].arc /\ z = job[t].tensor /\ h = job[t].dest
                           /\ d = job[t].device /\ v = tensors[z].values
    OBVIOUS
<1>2. /\ job[t].pc = "done" /\ work[t] = <<>> /\ UNCHANGED <<arcs, holders, slots>>
      /\ work' = [work EXCEPT ![t] = <<ArcOf(a), TensorOf(z)>>]
    BY <1>1 DEF return_to, ArcOf, TensorOf
<1>3. PICK x \in UnusedTensors : NewTensor(x, d, v, NULL) /\ Start(t, h, "create", a, x, NULL)
    BY <1>1 DEF return_to
<1>4. InHand(t) /\ HandlesTypeOK /\ DestInv /\ job \in [Workers -> Job]
    BY DEF HandlesInv, JobsInv, HandlesTypeOK
<1>5. a \in Arcs /\ z \in Tensors
    BY <1>1, <1>2, <1>4 DEF InHand
<1>6. d \in Devices \cup {NULL} /\ v \in Values \cup {NULL}
    BY <1>1, <1>4, <1>5, Types DEF Job
<1>7. TensorAdded(t, x) /\ x \in Tensors
    BY <1>3, <1>6, TensorIsNew
<1>8. h \in Holders /\ holders[h] = NULL /\ \A u \in Workers : u # t => job[u].dest # h
    BY <1>1, <1>2, <1>4 DEF DestInv
<1>9. PICK k : k = [pc |-> "create", arc |-> a, ptr |-> NULL, tensor |-> x, device |-> NULL, dest |-> h]
    OBVIOUS
<1>10. job' = [job EXCEPT ![t] = k] /\ job'[t] = k /\ \A u \in Workers : u # t => job'[u] = job[u]
    BY <1>3, <1>4, <1>9 DEF Start
<1>11. k \in Job /\ k.pc = "create" /\ k.arc = a /\ k.ptr = NULL /\ k.tensor = x /\ k.dest = h
    BY <1>5, <1>7, <1>8, <1>9 DEF Job
<1>12. work'[t] = <<ArcOf(a), TensorOf(z)>> /\ \A u \in Workers : u # t => work'[u] = work[u]
    BY <1>2, <1>4 DEF HandlesTypeOK
<1>13. HandlesTypeOK'
    <2>1. job' \in [Workers -> Job]
        BY <1>4, <1>10, <1>11
    <2>2. ArcOf(a) \in Item /\ TensorOf(z) \in Item
        BY <1>5, ItemTypes
    <2>3. <<ArcOf(a), TensorOf(z)>> \in Tasks
        BY <2>2 DEF Tasks
    <2>4. work' \in [Workers -> Tasks]
        BY <1>2, <1>4, <2>3 DEF HandlesTypeOK
    <2> QED
        BY <1>2, <1>4, <1>7, <2>1, <2>4 DEF HandlesTypeOK, TensorAdded
<1>14. DestInv'
    <2>1. \A u \in Workers : job[u].pc # "idle" => holders'[job[u].dest] = NULL
        BY <1>2, <1>4 DEF DestInv
    <2> QED
        BY <1>1, <1>2, <1>4, <1>10, <1>11, <2>1, DestStep
<1>15. Touched(t, NULL, NULL, x, NULL)
    BY <1>2, <1>7, <1>10, <1>12 DEF Touched, TensorAdded
<1>16. /\ \A b : ~ArcInJob(t, b)' /\ (ArcInJob(t, b) <=> b = a)
       /\ \A b : (TensorInJob(t, b) <=> b = z) /\ (TensorInJob(t, b)' <=> b = x)
       /\ \A b : ~TensorInArc(NULL, b) /\ ~TensorInArc(NULL, b)'
       /\ \A b : ArcInTensor(x, b)' <=> ArcInTensor(x, b)
    <2>1. \A b : /\ ~ArcInJob(t, b)' /\ (ArcInJob(t, b) <=> b = a)
                 /\ (TensorInJob(t, b) <=> b = z) /\ (TensorInJob(t, b)' <=> b = x)
        BY <1>1, <1>2, <1>10, <1>11 DEF ArcInJob, TensorInJob
    <2>2. \A b : ~TensorInArc(NULL, b) /\ ~TensorInArc(NULL, b)'
        BY DEF TensorInArc
    <2>3. \A b : ArcInTensor(x, b)' <=> ArcInTensor(x, b)
        BY <1>7 DEF ArcInTensor, TensorAdded
    <2> QED
        BY <2>1, <2>2, <2>3
<1>17. \A b : ~ArcFirst(t, b)' /\ ~TensorSecond(t, b)' /\ (TensorFirst(t, b)' <=> b = z) /\ (ArcSecond(t, b)' <=> b = a)
    BY <1>12, WorkIsSoPrime, ItemsDiffer DEF WorkIs
<1>18. \A b \in Arcs : ArcLocal(t, NULL, NULL, x, b)' = ArcLocal(t, NULL, NULL, x, b)
    BY <1>2, <1>16, <1>17, NoWork, NoPlace DEF ArcLocal, One
<1>19. \A y \in Tensors : One(y = x) = TensorLocal(t, NULL, NULL, y)' - TensorLocal(t, NULL, NULL, y)
    BY <1>2, <1>16, <1>17, NoWork, NoPlace DEF TensorLocal, One
<1>20. Setting(t)' /\ InHand(t)' /\ Ready(t)'
    BY <1>7, <1>10, <1>11 DEF Setting, InHand, Ready
<1>21. HolderAgrees(NULL)'
    BY DEF HolderAgrees
<1> QED
    BY <1>2, <1>7, <1>13, <1>14, <1>15, <1>18, <1>19, <1>20, <1>21, MoveStep

-----------------------------------------------------------------------------
(* What is released *)

(* The first thing i to release is replaced by f, which is nothing or one  *)
(* other thing.                                                            *)
Popped(t, i, f) ==
    \A b : /\ One(ArcFirst(t, b)') + One(ArcSecond(t, b)')
              = One(ArcFirst(t, b)) + One(ArcSecond(t, b)) - One(i = ArcOf(b)) + One(f = <<ArcOf(b)>>)
           /\ One(TensorFirst(t, b)') + One(TensorSecond(t, b)')
              = One(TensorFirst(t, b)) + One(TensorSecond(t, b)) - One(i = TensorOf(b)) + One(f = <<TensorOf(b)>>)
           /\ ArcFirst(t, b)' \/ ArcSecond(t, b)' => ArcFirst(t, b) \/ ArcSecond(t, b) \/ f = <<ArcOf(b)>>
           /\ i = ArcOf(b) => ArcFirst(t, b) \/ ArcSecond(t, b)
           /\ i = TensorOf(b) => TensorFirst(t, b) \/ TensorSecond(t, b)

LEMMA PopWork ==
    ASSUME HandlesTypeOK, NEW t \in Workers, work[t] # <<>>, NEW f \in {<<>>} \cup {<<e>> : e \in Item},
           work' = [work EXCEPT ![t] = f \o Tail(work[t])]
    PROVE  Head(work[t]) \in Item /\ f \o Tail(work[t]) \in Tasks /\ Popped(t, Head(work[t]), f)
<1>1. work[t] \in Tasks /\ work'[t] = f \o Tail(work[t])
    BY DEF HandlesTypeOK
<1>2. \A e, k : <<e>> = <<k>> <=> e = k
    OBVIOUS
<1>3. \A e : <<e>> # <<>>
    OBVIOUS
<1>4. ASSUME NEW i \in Item, work[t] = <<i>>
      PROVE  Head(work[t]) \in Item /\ f \o Tail(work[t]) \in Tasks /\ Popped(t, Head(work[t]), f)
    <2>1. Head(work[t]) = i /\ Tail(work[t]) = <<>>
        BY <1>4
    <2>2. CASE f = <<>>
        <3>1. f \o Tail(work[t]) = <<>>
            BY <2>1, <2>2
        <3>2. f \o Tail(work[t]) \in Tasks
            BY <3>1 DEF Tasks
        <3>3. work'[t] = <<>>
            BY <1>1, <3>1
        <3>4. \A b : ~ArcFirst(t, b)' /\ ~ArcSecond(t, b)' /\ ~TensorFirst(t, b)' /\ ~TensorSecond(t, b)'
            BY <3>3, NoWork
        <3>5. \A b : /\ ArcFirst(t, b) <=> i = ArcOf(b)
                     /\ TensorFirst(t, b) <=> i = TensorOf(b)
                     /\ ~ArcSecond(t, b) /\ ~TensorSecond(t, b)
            BY <1>4, WorkIsSo DEF WorkIs
        <3>6. Popped(t, i, f)
            BY <1>3, <2>2, <3>4, <3>5 DEF Popped, One
        <3> QED
            BY <1>4, <2>1, <3>2, <3>6
    <2>3. ASSUME NEW e \in Item, f = <<e>>
          PROVE  Head(work[t]) \in Item /\ f \o Tail(work[t]) \in Tasks /\ Popped(t, Head(work[t]), f)
        <3>1. f \o Tail(work[t]) = <<e>>
            BY <2>1, <2>3, Joined
        <3>2. f \o Tail(work[t]) \in Tasks
            BY <3>1 DEF Tasks
        <3>3. work'[t] = <<e>>
            BY <1>1, <3>1
        <3>4. \A b : /\ ArcFirst(t, b)' <=> e = ArcOf(b)
                     /\ TensorFirst(t, b)' <=> e = TensorOf(b)
                     /\ ~ArcSecond(t, b)' /\ ~TensorSecond(t, b)'
            BY <3>3, WorkIsSoPrime DEF WorkIs
        <3>5. \A b : /\ ArcFirst(t, b) <=> i = ArcOf(b)
                     /\ TensorFirst(t, b) <=> i = TensorOf(b)
                     /\ ~ArcSecond(t, b) /\ ~TensorSecond(t, b)
            BY <1>4, WorkIsSo DEF WorkIs
        <3>6. \A b : (f = <<ArcOf(b)>> <=> e = ArcOf(b)) /\ (f = <<TensorOf(b)>> <=> e = TensorOf(b))
            BY <1>2, <2>3
        <3>7. Popped(t, i, f)
            BY <3>4, <3>5, <3>6 DEF Popped, One
        <3> QED
            BY <1>4, <2>1, <3>2, <3>7
    <2> QED
        BY <2>2, <2>3
<1>5. ASSUME NEW i \in Item, NEW j \in Item, work[t] = <<i, j>>
      PROVE  Head(work[t]) \in Item /\ f \o Tail(work[t]) \in Tasks /\ Popped(t, Head(work[t]), f)
    <2>1. Head(work[t]) = i /\ Tail(work[t]) = <<j>>
        BY <1>5
    <2>4. \A b : /\ ArcFirst(t, b) <=> j = ArcOf(b)
                 /\ TensorFirst(t, b) <=> j = TensorOf(b)
                 /\ ArcSecond(t, b) <=> i = ArcOf(b)
                 /\ TensorSecond(t, b) <=> i = TensorOf(b)
        BY <1>5, WorkIsSo DEF WorkIs
    <2>2. CASE f = <<>>
        <3>1. f \o Tail(work[t]) = <<j>>
            BY <2>1, <2>2, Joined
        <3>2. f \o Tail(work[t]) \in Tasks
            BY <3>1 DEF Tasks
        <3>3. work'[t] = <<j>>
            BY <1>1, <3>1
        <3>4. \A b : /\ ArcFirst(t, b)' <=> j = ArcOf(b)
                     /\ TensorFirst(t, b)' <=> j = TensorOf(b)
                     /\ ~ArcSecond(t, b)' /\ ~TensorSecond(t, b)'
            BY <3>3, WorkIsSoPrime DEF WorkIs
        <3>6. Popped(t, i, f)
            BY <1>3, <2>2, <2>4, <3>4 DEF Popped, One
        <3> QED
            BY <1>5, <2>1, <3>2, <3>6
    <2>3. ASSUME NEW e \in Item, f = <<e>>
          PROVE  Head(work[t]) \in Item /\ f \o Tail(work[t]) \in Tasks /\ Popped(t, Head(work[t]), f)
        <3>1. f \o Tail(work[t]) = <<e, j>>
            BY <2>1, <2>3, Joined
        <3>2. f \o Tail(work[t]) \in Tasks
            BY <3>1 DEF Tasks
        <3>3. work'[t] = <<e, j>>
            BY <1>1, <3>1
        <3>4. \A b : /\ ArcFirst(t, b)' <=> j = ArcOf(b)
                     /\ TensorFirst(t, b)' <=> j = TensorOf(b)
                     /\ ArcSecond(t, b)' <=> e = ArcOf(b)
                     /\ TensorSecond(t, b)' <=> e = TensorOf(b)
            BY <3>3, WorkIsSoPrime DEF WorkIs
        <3>6. \A b : (f = <<ArcOf(b)>> <=> e = ArcOf(b)) /\ (f = <<TensorOf(b)>> <=> e = TensorOf(b))
            BY <1>2, <2>3
        <3>7. Popped(t, i, f)
            BY <2>4, <3>4, <3>6 DEF Popped, One
        <3> QED
            BY <1>5, <2>1, <3>2, <3>7
    <2> QED
        BY <2>2, <2>3
<1> QED
    BY <1>1, <1>4, <1>5 DEF Tasks

(* A thread releases things after it made a holder, or before it makes     *)
(* another one.                                                            *)
Busy(t) == work[t] # <<>> => job[t].pc \in {"idle", "create"}

LEMMA ReleaseStep ==
    ASSUME HandlesInv, NEW t \in Workers, job[t].pc \in {"idle", "create"}, UNCHANGED <<holders, slots, job>>,
           NEW w \in Tasks, work' = [work EXCEPT ![t] = w], NEW x, NEW a,
           arcs' \in [Arcs -> Arc], tensors' \in [Tensors -> Data],
           \A k \in Tensors : k # x => tensors'[k] = tensors[k],
           \A k \in Arcs : k # a => arcs'[k] = arcs[k],
           Balanced(t, NULL, NULL, x, a), StableArcs(t), StableTensors(t), Sourced(t, NULL, NULL, x)
    PROVE  HandlesInv'
<1>1. HandlesTypeOK /\ DestInv /\ InHand(t)
    BY DEF HandlesInv, JobsInv
<1>2. \A u \in Workers : u # t => work'[u] = work[u]
    BY <1>1 DEF HandlesTypeOK
<1>3. HandlesTypeOK'
    <2>1. work' \in [Workers -> Tasks]
        BY <1>1 DEF HandlesTypeOK
    <2> QED
        BY <1>1, <2>1 DEF HandlesTypeOK
<1>4. DestInv'
    BY <1>1 DEF DestInv, NoJob
<1>5. Touched(t, NULL, NULL, x, a)
    BY <1>2 DEF Touched
<1>6. Setting(t)' /\ InHand(t)' /\ Ready(t)'
    BY <1>1 DEF Setting, InHand, Ready
<1>7. HolderAgrees(NULL)'
    BY HandlesAssumption DEF HolderAgrees
<1> QED
    BY <1>3, <1>4, <1>5, <1>6, <1>7, StepKeepsInv

(* mts_labels_free: the last reference gives up the user data. *)
LEMMA LabelsFreeStep ==
    ASSUME HandlesInv, NEW t \in Workers, Busy(t), mts_labels_free(t)
    PROVE  HandlesInv'
<1> USE HandlesAssumption
<1>1. PICK a, f : /\ a = Head(work[t]).id
                  /\ f = IF arcs[a].strong = 1 THEN Boxed(a) ELSE <<>>
    OBVIOUS
<1>2. /\ work[t] # <<>> /\ Head(work[t]).what = "arc" /\ UNCHANGED <<tensors, holders, slots, job>>
      /\ arcs' = IF arcs[a].strong = 1 THEN [arcs EXCEPT ![a] = FreeArc] ELSE [arcs EXCEPT ![a].strong = @ - 1]
      /\ work' = [work EXCEPT ![t] = f \o Tail(work[t])]
    BY <1>1 DEF mts_labels_free
<1>3. HandlesTypeOK /\ InUse /\ arcs \in [Arcs -> Arc] /\ job[t].pc \in {"idle", "create"}
    BY <1>2, CountedIsInUse DEF HandlesInv, HandlesTypeOK, Busy
<1>4. Head(work[t]) \in Item
    <2>1. work[t] \in Tasks
        BY <1>3 DEF HandlesTypeOK
    <2> QED
        BY <1>2, <2>1 DEF Tasks
<1>5. a \in Arcs /\ Head(work[t]) = ArcOf(a)
    BY <1>1, <1>2, <1>4, ItemTypes
<1>6. PICK p : p = arcs[a].data
    OBVIOUS
<1>7. p \in Tensors \cup {NULL} /\ arcs[a].strong \in Nat
    BY <1>5, <1>6, Types
<1>8. f = IF arcs[a].strong = 1 /\ p # NULL THEN <<TensorOf(p)>> ELSE <<>>
    BY <1>1, <1>6 DEF Boxed, TensorOf
<1>9. f \in {<<>>} \cup {<<e>> : e \in Item}
    <2>1. p # NULL => TensorOf(p) \in Item
        BY <1>7, ItemTypes
    <2> QED
        BY <1>8, <2>1
<1>10. f \o Tail(work[t]) \in Tasks /\ Popped(t, ArcOf(a), f)
    BY <1>2, <1>3, <1>5, <1>9, PopWork
<1>11. /\ \A b : ~(f = <<ArcOf(b)>>)
       /\ \A y \in Tensors : f = <<TensorOf(y)>> <=> arcs[a].strong = 1 /\ y = p
    <2>1. \A e, k : (<<e>> = <<k>> <=> e = k) /\ <<e>> # <<>>
        OBVIOUS
    <2> QED
        BY <1>8, <2>1, ItemsDiffer
<1>12. arcs[a].strong # 0
    <2>1. ArcFirst(t, a) \/ ArcSecond(t, a)
        BY <1>10 DEF Popped
    <2> QED
        BY <1>3, <1>5, <2>1 DEF InUse
<1>13. \A b \in Arcs : b # a => arcs'[b] = arcs[b]
    BY <1>2, <1>3
<1>14. /\ arcs[a].strong = 1 => arcs'[a] = FreeArc /\ arcs'[a].strong = 0 /\ arcs'[a].data = NULL
       /\ arcs[a].strong # 1 => /\ arcs'[a].strong = arcs[a].strong - 1
                                /\ arcs'[a].data = p /\ arcs'[a].values = arcs[a].values
       /\ arcs'[a] \in Arc
    <2>1. CASE arcs[a].strong = 1
        <3>1. arcs'[a] = FreeArc
            BY <1>2, <1>3, <1>5, <2>1
        <3> QED
            BY <2>1, <3>1 DEF FreeArc, Arc
    <2>2. CASE arcs[a].strong # 1
        <3>1. PICK n : n = arcs[a].strong - 1
            OBVIOUS
        <3>2. n \in Nat
            BY <1>7, <1>12, <3>1
        <3>3. arcs'[a] = [arcs[a] EXCEPT !.strong = n]
            BY <1>2, <1>3, <1>5, <2>2, <3>1
        <3> QED
            BY <1>3, <1>5, <1>6, <2>2, <3>1, <3>2, <3>3 DEF Arc
    <2> QED
        BY <2>1, <2>2
<1>15. arcs' \in [Arcs -> Arc]
    <2>1. arcs' = [arcs EXCEPT ![a] = arcs'[a]]
        BY <1>2, <1>3, <1>5
    <2> QED
        BY <1>3, <1>14, <2>1
<1>16. StableArcs(t)
    BY <1>3, <1>6, <1>7, <1>12, <1>13, <1>14, Types DEF StableArcs
<1>17. StableTensors(t)
    BY <1>2, NoTensorAdded DEF TensorAdded
<1>18. /\ \A b : (ArcInJob(t, b)' <=> ArcInJob(t, b)) /\ (TensorInJob(t, b)' <=> TensorInJob(t, b))
       /\ \A b : ~ArcInTensor(NULL, b) /\ ~ArcInTensor(NULL, b)'
    BY <1>2 DEF ArcInJob, TensorInJob, ArcInTensor
<1>19. \A y \in Tensors : /\ TensorInArc(a, y) <=> y = p
                          /\ TensorInArc(a, y)' <=> arcs[a].strong # 1 /\ y = p
    BY <1>5, <1>6, <1>14 DEF TensorInArc
<1>20. Balanced(t, NULL, NULL, NULL, a)
    <2>1. ASSUME NEW b \in Arcs
          PROVE  arcs'[b].strong = arcs[b].strong + ArcLocal(t, NULL, NULL, NULL, b)' - ArcLocal(t, NULL, NULL, NULL, b)
        <3>1. /\ ArcLocal(t, NULL, NULL, NULL, b)' = One(ArcInJob(t, b)) + (One(ArcFirst(t, b)') + One(ArcSecond(t, b)'))
              /\ ArcLocal(t, NULL, NULL, NULL, b) = One(ArcInJob(t, b)) + (One(ArcFirst(t, b)) + One(ArcSecond(t, b)))
            BY <1>18, NoPlace DEF ArcLocal, One
        <3>2. One(ArcFirst(t, b)') + One(ArcSecond(t, b)') = One(ArcFirst(t, b)) + One(ArcSecond(t, b)) - One(b = a)
            BY <1>10, <1>11, ItemsDiffer DEF Popped, One
        <3>3. arcs'[b].strong = arcs[b].strong - One(b = a) /\ arcs[b].strong \in Nat
            BY <1>13, <1>14, Types DEF One
        <3> QED
            BY <3>1, <3>2, <3>3 DEF One
    <2>2. ASSUME NEW y \in Tensors
          PROVE  tensors'[y].uses = tensors[y].uses + TensorLocal(t, NULL, a, y)' - TensorLocal(t, NULL, a, y)
        <3>1. /\ TensorLocal(t, NULL, a, y)' = One(TensorInArc(a, y)') + One(TensorInJob(t, y))
                                               + (One(TensorFirst(t, y)') + One(TensorSecond(t, y)'))
              /\ TensorLocal(t, NULL, a, y) = One(TensorInArc(a, y)) + One(TensorInJob(t, y))
                                              + (One(TensorFirst(t, y)) + One(TensorSecond(t, y)))
            BY <1>18, NoPlace DEF TensorLocal, One
        <3>2. One(TensorFirst(t, y)') + One(TensorSecond(t, y)')
              = One(TensorFirst(t, y)) + One(TensorSecond(t, y)) + One(arcs[a].strong = 1 /\ y = p)
            BY <1>10, <1>11, ItemsDiffer DEF Popped, One
        <3>3. One(TensorInArc(a, y)') + One(arcs[a].strong = 1 /\ y = p) = One(TensorInArc(a, y))
            BY <1>19 DEF One
        <3>4. tensors'[y].uses = tensors[y].uses /\ tensors[y].uses \in Nat
            BY <1>2, Types
        <3> QED
            BY <3>1, <3>2, <3>3, <3>4 DEF One
    <2> QED
        BY <2>1, <2>2 DEF Balanced
<1>21. Sourced(t, NULL, NULL, NULL)
    <2>1. \A b : ArcFirst(t, b)' \/ ArcSecond(t, b)' => ArcFirst(t, b) \/ ArcSecond(t, b)
        BY <1>10, <1>11 DEF Popped
    <2> QED
        BY <1>18, <2>1, NoPlace DEF Sourced, Source
<1>22. tensors' \in [Tensors -> Data] /\ UNCHANGED <<holders, slots, job>> /\ \A k \in Tensors : tensors'[k] = tensors[k]
    BY <1>2, <1>3 DEF HandlesTypeOK
<1> QED
    BY <1>2, <1>3, <1>10, <1>13, <1>15, <1>16, <1>17, <1>20, <1>21, <1>22, ReleaseStep

(* The last use of a tensor gives up the labels it keeps. *)
LEMMA FreeTensorStep ==
    ASSUME HandlesInv, NEW t \in Workers, Busy(t), free_tensor(t)
    PROVE  HandlesInv'
<1> USE HandlesAssumption
<1>1. PICK x, p, f : /\ x = Head(work[t]).id /\ p = tensors[x].blob
                     /\ f = IF tensors[x].uses = 1 /\ p # NULL THEN <<ArcOf(p)>> ELSE <<>>
    OBVIOUS
<1>2. /\ work[t] # <<>> /\ Head(work[t]).what = "tensor" /\ UNCHANGED <<arcs, holders, slots, job>>
      /\ tensors' = IF tensors[x].uses = 1 THEN [tensors EXCEPT ![x] = FreeTensor] ELSE [tensors EXCEPT ![x].uses = @ - 1]
      /\ work' = [work EXCEPT ![t] = f \o Tail(work[t])]
    BY <1>1 DEF free_tensor, ArcOf
<1>3. HandlesTypeOK /\ InUse /\ tensors \in [Tensors -> Data] /\ job[t].pc \in {"idle", "create"}
    BY <1>2, CountedIsInUse DEF HandlesInv, HandlesTypeOK, Busy
<1>4. Head(work[t]) \in Item
    <2>1. work[t] \in Tasks
        BY <1>3 DEF HandlesTypeOK
    <2> QED
        BY <1>2, <2>1 DEF Tasks
<1>5. x \in Tensors /\ Head(work[t]) = TensorOf(x)
    BY <1>1, <1>2, <1>4, ItemTypes
<1>7. p \in Arcs \cup {NULL} /\ tensors[x].uses \in Nat
    BY <1>1, <1>5, Types
<1>9. f \in {<<>>} \cup {<<e>> : e \in Item}
    <2>1. p # NULL => ArcOf(p) \in Item
        BY <1>7, ItemTypes
    <2> QED
        BY <1>1, <2>1
<1>10. f \o Tail(work[t]) \in Tasks /\ Popped(t, TensorOf(x), f)
    BY <1>2, <1>3, <1>5, <1>9, PopWork
<1>11. /\ \A y : ~(f = <<TensorOf(y)>>)
       /\ \A b \in Arcs : f = <<ArcOf(b)>> <=> tensors[x].uses = 1 /\ b = p
    <2>1. \A e, k : (<<e>> = <<k>> <=> e = k) /\ <<e>> # <<>>
        OBVIOUS
    <2> QED
        BY <1>1, <2>1, ItemsDiffer
<1>12. tensors[x].uses # 0
    <2>1. TensorFirst(t, x) \/ TensorSecond(t, x)
        BY <1>10 DEF Popped
    <2> QED
        BY <1>3, <1>5, <2>1 DEF InUse
<1>13. \A y \in Tensors : y # x => tensors'[y] = tensors[y]
    BY <1>2, <1>3
<1>14. /\ tensors[x].uses = 1 => tensors'[x] = FreeTensor /\ tensors'[x].uses = 0 /\ tensors'[x].blob = NULL
       /\ tensors[x].uses # 1 => /\ tensors'[x].uses = tensors[x].uses - 1 /\ tensors'[x].blob = p
                                 /\ tensors'[x].values = tensors[x].values /\ tensors'[x].device = tensors[x].device
       /\ tensors'[x] \in Data
    <2>1. CASE tensors[x].uses = 1
        <3>1. tensors'[x] = FreeTensor
            BY <1>2, <1>3, <1>5, <2>1
        <3> QED
            BY <2>1, <3>1 DEF FreeTensor, Data
    <2>2. CASE tensors[x].uses # 1
        <3>1. PICK n : n = tensors[x].uses - 1
            OBVIOUS
        <3>2. n \in Nat
            BY <1>7, <1>12, <3>1
        <3>3. tensors'[x] = [tensors[x] EXCEPT !.uses = n]
            BY <1>2, <1>3, <1>5, <2>2, <3>1
        <3> QED
            BY <1>1, <1>3, <1>5, <2>2, <3>1, <3>2, <3>3 DEF Data
    <2> QED
        BY <2>1, <2>2
<1>15. tensors' \in [Tensors -> Data]
    <2>1. tensors' = [tensors EXCEPT ![x] = tensors'[x]]
        BY <1>2, <1>3, <1>5
    <2> QED
        BY <1>3, <1>14, <2>1
<1>16. StableTensors(t)
    BY <1>1, <1>3, <1>7, <1>12, <1>13, <1>14, Types DEF StableTensors
<1>17. StableArcs(t)
    BY <1>2, NoArcAdded DEF ArcAdded
<1>18. /\ \A b : (ArcInJob(t, b)' <=> ArcInJob(t, b)) /\ (TensorInJob(t, b)' <=> TensorInJob(t, b))
       /\ \A b : ~TensorInArc(NULL, b) /\ ~TensorInArc(NULL, b)'
    BY <1>2 DEF ArcInJob, TensorInJob, TensorInArc
<1>19. \A b \in Arcs : /\ ArcInTensor(x, b) <=> b = p
                       /\ ArcInTensor(x, b)' <=> tensors[x].uses # 1 /\ b = p
    BY <1>1, <1>5, <1>14 DEF ArcInTensor
<1>20. Balanced(t, NULL, NULL, x, NULL)
    <2>1. ASSUME NEW b \in Arcs
          PROVE  arcs'[b].strong = arcs[b].strong + ArcLocal(t, NULL, NULL, x, b)' - ArcLocal(t, NULL, NULL, x, b)
        <3>1. /\ ArcLocal(t, NULL, NULL, x, b)' = One(ArcInTensor(x, b)') + One(ArcInJob(t, b))
                                                  + (One(ArcFirst(t, b)') + One(ArcSecond(t, b)'))
              /\ ArcLocal(t, NULL, NULL, x, b) = One(ArcInTensor(x, b)) + One(ArcInJob(t, b))
                                                 + (One(ArcFirst(t, b)) + One(ArcSecond(t, b)))
            BY <1>18, NoPlace DEF ArcLocal, One
        <3>2. One(ArcFirst(t, b)') + One(ArcSecond(t, b)')
              = One(ArcFirst(t, b)) + One(ArcSecond(t, b)) + One(tensors[x].uses = 1 /\ b = p)
            BY <1>10, <1>11, ItemsDiffer DEF Popped, One
        <3>3. One(ArcInTensor(x, b)') + One(tensors[x].uses = 1 /\ b = p) = One(ArcInTensor(x, b))
            BY <1>19 DEF One
        <3>4. arcs'[b].strong = arcs[b].strong /\ arcs[b].strong \in Nat
            BY <1>2, Types
        <3> QED
            BY <3>1, <3>2, <3>3, <3>4 DEF One
    <2>2. ASSUME NEW y \in Tensors
          PROVE  tensors'[y].uses = tensors[y].uses + TensorLocal(t, NULL, NULL, y)' - TensorLocal(t, NULL, NULL, y)
        <3>1. /\ TensorLocal(t, NULL, NULL, y)' = One(TensorInJob(t, y)) + (One(TensorFirst(t, y)') + One(TensorSecond(t, y)'))
              /\ TensorLocal(t, NULL, NULL, y) = One(TensorInJob(t, y)) + (One(TensorFirst(t, y)) + One(TensorSecond(t, y)))
            BY <1>18, NoPlace DEF TensorLocal, One
        <3>2. One(TensorFirst(t, y)') + One(TensorSecond(t, y)')
              = One(TensorFirst(t, y)) + One(TensorSecond(t, y)) - One(y = x)
            BY <1>10, <1>11, ItemsDiffer DEF Popped, One
        <3>3. tensors'[y].uses = tensors[y].uses - One(y = x) /\ tensors[y].uses \in Nat
            BY <1>13, <1>14, Types DEF One
        <3> QED
            BY <3>1, <3>2, <3>3 DEF One
    <2> QED
        BY <2>1, <2>2 DEF Balanced
<1>21. Sourced(t, NULL, NULL, x)
    <2>1. \A b : ArcFirst(t, b)' \/ ArcSecond(t, b)' => ArcFirst(t, b) \/ ArcSecond(t, b) \/ f = <<ArcOf(b)>>
        BY <1>10 DEF Popped
    <2> QED
        BY <1>5, <1>11, <1>18, <1>19, <2>1, NoPlace DEF Sourced, Source
<1>22. arcs' \in [Arcs -> Arc] /\ UNCHANGED <<holders, slots, job>> /\ \A k \in Arcs : k # NULL => arcs'[k] = arcs[k]
    <2>1. arcs \in [Arcs -> Arc]
        BY <1>3 DEF HandlesTypeOK
    <2> QED
        BY <1>2, <2>1
<1>23. PICK w \in Tasks : work' = [work EXCEPT ![t] = w]
    BY <1>2, <1>10
<1> QED
    BY <1>3, <1>13, <1>15, <1>16, <1>17, <1>20, <1>21, <1>22, <1>23, ReleaseStep

-----------------------------------------------------------------------------
BusyInv == \A t \in Workers : Busy(t)

LEMMA BusyKept ==
    ASSUME HandlesInv, BusyInv, NEW t \in Workers,
           \/ CallHolder(t) \/ Construct(t) \/ LetGo(t) \/ Store(t) \/ Core(t) \/ DropSlot(t) \/ DropHolder(t)
    PROVE  BusyInv'
<1>1. job \in [Workers -> Job] /\ work \in [Workers -> Tasks] /\ Setting(t)
    BY DEF HandlesInv, HandlesTypeOK, JobsInv
<1>2. ASSUME \A u \in Workers : u # t => job'[u] = job[u] /\ work'[u] = work[u], Busy(t)' PROVE BusyInv'
    BY <1>2 DEF BusyInv, Busy
<1>3. ASSUME work' = work, work[t] = <<>>, \A u \in Workers : u # t => job'[u] = job[u] PROVE BusyInv'
    BY <1>2, <1>3 DEF Busy
<1>4. CASE CallHolder(t)
    <2>1. CanStart(t) /\ work' = work
        BY <1>4 DEF CallHolder, NewLabels, rename, view, to_same, to_other, labels, set_union
    <2>2. \A u \in Workers : u # t => job'[u] = job[u]
        BY <1>1, <1>4 DEF CallHolder, NewLabels, rename, view, to_same, to_other, labels, set_union, Start
    <2> QED
        BY <1>3, <2>1, <2>2 DEF CanStart
<1>5. CASE create(t) \/ user_data(t) \/ copy_data(t) \/ from_blob(t) \/ return(t)
    <2>1. work[t] = <<>> /\ work' = work
        BY <1>5 DEF create, user_data, copy_data, from_blob, return
    <2>2. \A u \in Workers : u # t => job'[u] = job[u]
        BY <1>1, <1>5 DEF create, user_data, copy_data, from_blob, return
    <2> QED
        BY <1>3, <2>1, <2>2
<1>6. CASE create_fails(t)
    <2>1. job'[t].pc = "idle" /\ \A u \in Workers : u # t => job'[u] = job[u] /\ work'[u] = work[u]
        BY <1>1, <1>6 DEF create_fails, NoJob
    <2> QED
        BY <1>2, <2>1 DEF Busy
<1>7. CASE set_user_data(t)
    <2>1. Boxed(job[t].arc) = <<>>
        BY <1>1, <1>7 DEF set_user_data, Setting, Boxed
    <2>2. work'[t] = <<>> /\ \A u \in Workers : u # t => job'[u] = job[u] /\ work'[u] = work[u]
        BY <1>1, <1>7, <2>1 DEF set_user_data
    <2> QED
        BY <1>2, <2>2 DEF Busy
<1>8. CASE return_to(t)
    <2>1. job'[t].pc = "create" /\ \A u \in Workers : u # t => job'[u] = job[u] /\ work'[u] = work[u]
        BY <1>1, <1>8 DEF return_to, Start
    <2> QED
        BY <1>2, <2>1 DEF Busy
<1>9. CASE LetGo(t)
    <2>1. job' = job /\ work[t] # <<>> /\ \A u \in Workers : u # t => work'[u] = work[u]
        BY <1>1, <1>9 DEF LetGo, mts_labels_free, free_tensor
    <2> QED
        BY <1>2, <2>1 DEF Busy, BusyInv
<1>10. CASE Store(t) \/ Core(t)
    <2>1. work[t] = <<>> /\ work' = work /\ job' = job
        BY <1>10 DEF Store, Core, CanStart
    <2> QED
        BY <1>3, <2>1
<1>11. CASE DropSlot(t) \/ DropHolder(t)
    <2>1. job[t] = NoJob /\ job' = job
        BY <1>11 DEF DropSlot, DropHolder, CanStart
    <2>2. \E w : work' = [work EXCEPT ![t] = w]
        BY <1>11 DEF DropSlot, DropHolder
    <2>3. \A u \in Workers : u # t => work'[u] = work[u]
        BY <1>1, <2>2
    <2>4. job'[t].pc = "idle"
        BY <2>1 DEF NoJob
    <2> QED
        BY <1>2, <2>1, <2>3, <2>4 DEF Busy
<1> QED
    BY <1>4, <1>5, <1>6, <1>7, <1>8, <1>9, <1>10, <1>11 DEF Construct

LEMMA NextHandlesInv == HandlesInv /\ BusyInv /\ [HandlesNext]_handlesVars => (HandlesInv /\ BusyInv)'
<1> SUFFICES ASSUME HandlesInv, BusyInv, [HandlesNext]_handlesVars PROVE (HandlesInv /\ BusyInv)'
    OBVIOUS
<1>1. ASSUME NEW t \in Workers,
             \/ CallHolder(t) \/ Construct(t) \/ LetGo(t) \/ Store(t) \/ Core(t) \/ DropSlot(t) \/ DropHolder(t)
      PROVE  (HandlesInv /\ BusyInv)'
    <2>1. BusyInv' /\ Busy(t)
        BY <1>1, BusyKept DEF BusyInv
    <2>2. CASE CallHolder(t)
        BY <2>1, <2>2, NewLabelsStep, RenameStep, ViewOfLabelsStep, ToSameStep, ToOtherStep, LabelsStep, SetUnionStep
        DEF CallHolder
    <2>3. CASE Construct(t)
        BY <2>1, <2>3, CreateStep, CreateFailsStep, SetUserDataStep, UserDataStep, CopyDataStep, FromBlobStep,
           ReturnStep, ReturnToStep
        DEF Construct
    <2>4. CASE LetGo(t)
        BY <2>1, <2>4, LabelsFreeStep, FreeTensorStep DEF LetGo
    <2>5. CASE Store(t) \/ Core(t) \/ DropSlot(t) \/ DropHolder(t)
        BY <2>1, <2>5, StoreStep, CoreStep, DropSlotStep, DropHolderStep
    <2> QED
        BY <1>1, <2>2, <2>3, <2>4, <2>5
<1>2. CASE UNCHANGED handlesVars
    <2>1. (HandlesInv /\ BusyInv)' <=> (HandlesInv /\ BusyInv)
        BY <1>2
        DEF handlesVars, HandlesInv, HandlesTypeOK, CountsInv, ArcCount, TensorCount, DestInv, NoJob, JobsInv, Setting, Only,
            InHand, Ready, DataInv, HolderAgrees, Agree, DeviceOf, BusyInv, Busy, FreeArc, FreeTensor, ArcInHolder, ArcInSlot,
            ArcInTensor, ArcInJob, ArcFirst, ArcSecond, TensorInHolder, TensorInArc, TensorInJob, TensorFirst, TensorSecond,
            First, Second
    <2> QED
        BY <2>1
<1> QED
    BY <1>1, <1>2 DEF HandlesNext

(***************************************************************************)
(* Whatever threads do with labels, their holders and the blocks that have *)
(* them, in any order: nothing that was freed is used (the tensor that     *)
(* mts_labels_user_data returned is still the user data when it is copied, *)
(* after the lock was released), the tensor of a LabelsHolder has the      *)
(* entries and the device of its labels, and what nobody holds was freed   *)
(* (mts_labels_free, the deleters of labels.cpp).                          *)
(***************************************************************************)
THEOREM HandlesAreAlwaysSafe == HandlesSpec => []HandlesAreSafe
<1>1. HandlesInit => HandlesInv /\ BusyInv
    BY InitHandlesInv DEF HandlesInit, BusyInv, Busy
<1>2. HandlesInv /\ BusyInv /\ [HandlesNext]_handlesVars => (HandlesInv /\ BusyInv)'
    BY NextHandlesInv
<1>3. HandlesInv => HandlesAreSafe
    BY HandlesInvSafe
<1> QED
    BY <1>1, <1>2, <1>3, PTL DEF HandlesSpec
=============================================================================
