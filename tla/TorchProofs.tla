---------------------------- MODULE TorchProofs ----------------------------
(***************************************************************************)
(* Proofs about metatensor-torch.                                          *)
(*                                                                         *)
(* SystemsAgree holds for any number of Systems, types, devices, options   *)
(* and names of data: first what the operations return is examined, then   *)
(* their results are assigned to handles. UnitsAreRight holds for any      *)
(* module with children, units, outputs and Systems: the invariant has one *)
(* part for each stage of the constructor and of a call.                   *)
(* TorchBlocksAreWhole holds for any number of blocks and tensor maps,     *)
(* with gradients of any depth: what each operation returns is whole.      *)
(* Neighbors lists have every pair once, or from both ends, with its       *)
(* distance, and their gradients are right, for any number of atoms and    *)
(* pairs, any shifts and any coordinates.                                  *)
(***************************************************************************)
EXTENDS System, AtomisticModel, TorchBlocks, NeighborLists, FiniteSetTheorems, SequenceTheorems, TLAPS

Lists == [dtype : DTypes, device : Devices, wellformed : BOOLEAN, scale : Int]
Data == [dtype : DTypes, device : Devices, filled : BOOLEAN]
ListsOfOptions == UNION {[S -> Lists] : S \in SUBSET Options}
DataOfNames == UNION {[S -> Data] : S \in SUBSET DataNames}
Systems == [dtype : DTypes, device : Devices, scale : Int, cell : SUBSET Axes, pbc : SUBSET Axes,
            neighbors : ListsOfOptions, data : DataOfNames]

(* What add_neighbor_list and add_data checked of everything they stored.  *)
DataAgree(s) ==
    /\ \A o \in DOMAIN s.neighbors : On(s.neighbors[o], s) /\ s.neighbors[o].wellformed
    /\ \A n \in DOMAIN s.data :
          n \notin InvalidNames /\ s.data[n].device = s.device /\ scalar_type(s.data[n]) = s.dtype

IsGood(s) == s \in Systems /\ DataAgree(s)

(* A System is not the absence of one.                                     *)
LEMMA SystemsExist == ASSUME NEW s \in Systems PROVE s # NoSystem
<1>1. "dtype" \in DOMAIN s
  BY DEF Systems
<1>2. "dtype" \notin DOMAIN NoSystem
  BY DEF NoSystem
<1> QED
  BY <1>1, <1>2

LEMMA NoListsAreEmpty ==
  /\ DOMAIN NoLists = {}
  /\ NoLists \in ListsOfOptions /\ NoLists \in DataOfNames
<1>1. DOMAIN NoLists = {} /\ NoLists \in [{} -> Lists] /\ NoLists \in [{} -> Data]
  BY DEF NoLists
<1> QED
  BY <1>1 DEF ListsOfOptions, DataOfNames

(* The constructor checks what it is given, and stores that.               *)
LEMMA HolderIsGood ==
  ASSUME NEW tensor_ \in Tensors, NEW cell_ \in Tensors, NEW axes \in SUBSET Axes, NEW pbc \in SUBSET Axes,
         NEW s, s = SystemHolder(tensor_, cell_, axes, pbc), s # NoSystem
  PROVE  /\ IsGood(s) /\ Agree(s.device, s.cell, s.pbc)
         /\ s.cell = axes /\ s.pbc = pbc /\ s.dtype = tensor_.dtype /\ s.device = tensor_.device
         /\ s.neighbors = NoLists /\ s.data = NoLists
<1> DEFINE r == [dtype |-> tensor_.dtype, device |-> tensor_.device, scale |-> 0,
                 cell |-> axes, pbc |-> pbc, neighbors |-> NoLists, data |-> NoLists]
<1>1. s = r /\ Agree(tensor_.device, axes, pbc)
  BY DEF SystemHolder
<1>2. tensor_.dtype \in DTypes /\ tensor_.device \in Devices
  BY DEF Tensors
<1>3. r \in Systems
  BY <1>2, NoListsAreEmpty DEF Systems
<1>4. DataAgree(r)
  BY NoListsAreEmpty DEF DataAgree
<1> QED
  BY <1>1, <1>3, <1>4 DEF IsGood

(* The setters change the cell or the periodicity, and nothing else.       *)
LEMMA SetCellIsGood ==
  ASSUME NEW s, IsGood(s), NEW t \in Tensors, NEW axes \in SUBSET Axes, set_cell(s, t, axes) # NoSystem
  PROVE  IsGood(set_cell(s, t, axes))
<1> DEFINE r == [s EXCEPT !.cell = axes]
<1>1. set_cell(s, t, axes) = r
  BY DEF set_cell
<1>2. r \in Systems /\ r.neighbors = s.neighbors /\ r.data = s.data /\ r.dtype = s.dtype /\ r.device = s.device
  BY DEF IsGood, Systems
<1> QED
  BY <1>1, <1>2 DEF IsGood, DataAgree, On

LEMMA SetPbcIsGood ==
  ASSUME NEW s, IsGood(s), NEW t \in Tensors, NEW pbc \in SUBSET Axes, set_pbc(s, t, pbc) # NoSystem
  PROVE  /\ IsGood(set_pbc(s, t, pbc))
         /\ Agree(set_pbc(s, t, pbc).device, set_pbc(s, t, pbc).cell, set_pbc(s, t, pbc).pbc)
<1> DEFINE r == [s EXCEPT !.pbc = pbc]
<1>1. set_pbc(s, t, pbc) = r /\ Agree(s.device, s.cell, pbc)
  BY DEF set_pbc
<1>2. /\ r \in Systems /\ r.neighbors = s.neighbors /\ r.data = s.data /\ r.dtype = s.dtype /\ r.device = s.device
      /\ r.pbc = pbc /\ r.cell = s.cell
  BY DEF IsGood, Systems
<1> QED
  BY <1>1, <1>2 DEF IsGood, DataAgree, On

(* What is added was checked, and leaves the cell alone.                   *)
LEMMA AddListIsGood ==
  ASSUME NEW s, IsGood(s), NEW o \in Options, NEW list \in Lists,
         NEW r, r = add_neighbor_list(s, o, list), r # NoSystem
  PROVE  IsGood(r) /\ r.device = s.device /\ r.cell = s.cell /\ r.pbc = s.pbc
<1> DEFINE N == [p \in DOMAIN s.neighbors \union {o} |-> IF p = o THEN list ELSE s.neighbors[p]]
<1>1. list.wellformed /\ On(list, s) /\ r = [s EXCEPT !.neighbors = N]
  BY DEF add_neighbor_list
<1>2. PICK S \in SUBSET Options : s.neighbors \in [S -> Lists]
  BY DEF IsGood, Systems, ListsOfOptions
<1>3. N \in [S \union {o} -> Lists] /\ S \union {o} \in SUBSET Options
  BY <1>2
<1>4. N \in ListsOfOptions
  BY <1>3 DEF ListsOfOptions
<1>5. \A p \in DOMAIN N : N[p] = list \/ (p \in DOMAIN s.neighbors /\ N[p] = s.neighbors[p])
  OBVIOUS
<1> HIDE DEF N
<1>6. /\ r \in Systems /\ r.neighbors = N /\ r.data = s.data /\ r.dtype = s.dtype /\ r.device = s.device
      /\ r.pbc = s.pbc /\ r.cell = s.cell
  BY <1>1, <1>4 DEF IsGood, Systems
<1>7. \A p \in DOMAIN N : On(N[p], r) /\ N[p].wellformed
  BY <1>1, <1>5, <1>6 DEF IsGood, DataAgree, On
<1> QED
  BY <1>6, <1>7 DEF IsGood, DataAgree

LEMMA AddDataIsGood ==
  ASSUME NEW s, IsGood(s), NEW n \in DataNames, NEW map \in Data, NEW override \in BOOLEAN,
         NEW r, r = add_data(s, n, map, override), r # NoSystem
  PROVE  IsGood(r) /\ r.device = s.device /\ r.cell = s.cell /\ r.pbc = s.pbc
<1> DEFINE D == [p \in DOMAIN s.data \union {n} |-> IF p = n THEN map ELSE s.data[p]]
<1>1. n \notin InvalidNames /\ map.device = s.device /\ scalar_type(map) = s.dtype /\ r = [s EXCEPT !.data = D]
  BY DEF add_data
<1>2. PICK S \in SUBSET DataNames : s.data \in [S -> Data]
  BY DEF IsGood, Systems, DataOfNames
<1>3. D \in [S \union {n} -> Data] /\ S \union {n} \in SUBSET DataNames
  BY <1>2
<1>4. D \in DataOfNames
  BY <1>3 DEF DataOfNames
<1>5. \A p \in DOMAIN D : (p = n /\ D[p] = map) \/ (p \in DOMAIN s.data /\ D[p] = s.data[p])
  OBVIOUS
<1> HIDE DEF D
<1>6. /\ r \in Systems /\ r.data = D /\ r.neighbors = s.neighbors /\ r.dtype = s.dtype /\ r.device = s.device
      /\ r.pbc = s.pbc /\ r.cell = s.cell
  BY <1>1, <1>4 DEF IsGood, Systems
<1>7. \A p \in DOMAIN D : p \notin InvalidNames /\ D[p].device = r.device /\ scalar_type(D[p]) = r.dtype
  BY <1>1, <1>5, <1>6 DEF IsGood, DataAgree
<1> QED
  BY <1>6, <1>7 DEF IsGood, DataAgree, On

(* AddAll: every list and every data is added to a System without any.     *)
LEMMA AddAllIsGood ==
  ASSUME NEW s, IsGood(s), s.neighbors = NoLists, s.data = NoLists,
         NEW N \in ListsOfOptions, NEW D \in DataOfNames,
         NEW r, r = AddAll(s, N, D), r # NoSystem
  PROVE  /\ IsGood(r) /\ r.neighbors = N /\ r.data = D
         /\ r.device = s.device /\ r.dtype = s.dtype /\ r.cell = s.cell /\ r.pbc = s.pbc
<1>1. /\ r = [s EXCEPT !.neighbors = N, !.data = D]
      /\ \A o \in DOMAIN N : add_neighbor_list(s, o, N[o]) # NoSystem
      /\ \A n \in DOMAIN D : add_data(s, n, D[n], FALSE) # NoSystem
  BY DEF AddAll
<1>2. /\ r \in Systems /\ r.neighbors = N /\ r.data = D
      /\ r.device = s.device /\ r.dtype = s.dtype /\ r.cell = s.cell /\ r.pbc = s.pbc
  BY <1>1 DEF IsGood, Systems
<1>3. \A o \in DOMAIN N : On(N[o], r) /\ N[o].wellformed
  BY <1>1, <1>2 DEF add_neighbor_list, On
<1>4. \A n \in DOMAIN D : n \notin InvalidNames /\ D[n].device = r.device /\ scalar_type(D[n]) = r.dtype
  BY <1>1, <1>2 DEF add_data
<1> QED
  BY <1>2, <1>3, <1>4 DEF IsGood, DataAgree

(* The lists and the data that a conversion adds.                          *)
ConvertedLists(s, dtype, device) ==
    [o \in DOMAIN s.neighbors |-> [s.neighbors[o] EXCEPT !.dtype = dtype, !.device = device]]
ConvertedData(s, dtype, device) ==
    [n \in DOMAIN s.data |-> [s.data[n] EXCEPT !.dtype = dtype, !.device = device]]

LEMMA ConvertedListsAreTyped ==
  ASSUME NEW s \in Systems, NEW dtype \in DTypes, NEW device \in Devices
  PROVE  /\ ConvertedLists(s, dtype, device) \in ListsOfOptions
         /\ DOMAIN ConvertedLists(s, dtype, device) = DOMAIN s.neighbors
         /\ \A o \in DOMAIN s.neighbors :
               LET list == ConvertedLists(s, dtype, device)[o]
               IN  list.dtype = dtype /\ list.device = device /\ list.wellformed = s.neighbors[o].wellformed
<1>1. PICK S \in SUBSET Options : s.neighbors \in [S -> Lists]
  BY DEF Systems, ListsOfOptions
<1>2. ASSUME NEW o \in S
      PROVE  LET list == [s.neighbors[o] EXCEPT !.dtype = dtype, !.device = device]
             IN  /\ list \in Lists /\ list.dtype = dtype /\ list.device = device
                 /\ list.wellformed = s.neighbors[o].wellformed
  <2>1. s.neighbors[o] \in Lists
    BY <1>1
  <2> QED
    BY <2>1 DEF Lists
<1>3. ConvertedLists(s, dtype, device) \in [S -> Lists]
  BY <1>1, <1>2 DEF ConvertedLists
<1> QED
  BY <1>1, <1>2, <1>3 DEF ConvertedLists, ListsOfOptions

LEMMA ConvertedDataAreTyped ==
  ASSUME NEW s \in Systems, NEW dtype \in DTypes, NEW device \in Devices
  PROVE  /\ ConvertedData(s, dtype, device) \in DataOfNames
         /\ DOMAIN ConvertedData(s, dtype, device) = DOMAIN s.data
         /\ \A n \in DOMAIN s.data :
               LET map == ConvertedData(s, dtype, device)[n]
               IN  map.dtype = dtype /\ map.device = device /\ map.filled = s.data[n].filled
<1>1. PICK S \in SUBSET DataNames : s.data \in [S -> Data]
  BY DEF Systems, DataOfNames
<1>2. ASSUME NEW n \in S
      PROVE  LET map == [s.data[n] EXCEPT !.dtype = dtype, !.device = device]
             IN  /\ map \in Data /\ map.dtype = dtype /\ map.device = device
                 /\ map.filled = s.data[n].filled
  <2>1. s.data[n] \in Data
    BY <1>1
  <2> QED
    BY <2>1 DEF Data
<1>3. ConvertedData(s, dtype, device) \in [S -> Data]
  BY <1>1, <1>2 DEF ConvertedData
<1> QED
  BY <1>1, <1>2, <1>3 DEF ConvertedData, DataOfNames

(* A conversion that does not raise loses nothing.                         *)
LEMMA ToIsGood ==
  ASSUME NEW s, IsGood(s), NEW dtype \in DTypes, NEW device \in Devices,
         NEW r, r = SystemTo(s, dtype, device), r # NoSystem
  PROVE  /\ IsGood(r) /\ Agree(r.device, r.cell, r.pbc)
         /\ r.cell = s.cell /\ r.pbc = s.pbc
         /\ DOMAIN r.neighbors = DOMAIN s.neighbors /\ DOMAIN r.data = DOMAIN s.data
<1> DEFINE tensor == [dtype |-> dtype, device |-> device, wellformed |-> TRUE]
           base == SystemHolder(tensor, tensor, s.cell, s.pbc)
           N == ConvertedLists(s, dtype, device)
           D == ConvertedData(s, dtype, device)
<1>1. r = AddAll(base, N, D)
  BY DEF SystemTo, ConvertedLists, ConvertedData
<1>2. tensor \in Tensors
  BY DEF Tensors
<1>3. s \in Systems /\ s.cell \in SUBSET Axes /\ s.pbc \in SUBSET Axes
  BY DEF IsGood, Systems
<1>4. /\ N \in ListsOfOptions /\ DOMAIN N = DOMAIN s.neighbors
      /\ D \in DataOfNames /\ DOMAIN D = DOMAIN s.data
  BY <1>3, ConvertedListsAreTyped, ConvertedDataAreTyped
<1> HIDE DEF tensor, base, N, D
<1>5. base # NoSystem
  BY <1>1 DEF AddAll
<1>6. /\ IsGood(base) /\ Agree(base.device, base.cell, base.pbc) /\ base.cell = s.cell /\ base.pbc = s.pbc
      /\ base.neighbors = NoLists /\ base.data = NoLists
  BY <1>2, <1>3, <1>5, HolderIsGood DEF base
<1>7. /\ IsGood(r) /\ r.neighbors = N /\ r.data = D
      /\ r.device = base.device /\ r.cell = base.cell /\ r.pbc = base.pbc
  BY <1>1, <1>4, <1>6, AddAllIsGood
<1> QED
  BY <1>4, <1>6, <1>7

(* A conversion of checked numbers with data that have blocks succeeds.    *)
LEMMA ToSucceeds ==
  ASSUME NEW s, IsGood(s), NEW dtype \in DTypes, NEW device \in Devices,
         s.device # "meta", Agree(s.device, s.cell, s.pbc), \A n \in DOMAIN s.data : s.data[n].filled
  PROVE  SystemTo(s, dtype, device) # NoSystem
<1> DEFINE tensor == [dtype |-> dtype, device |-> device, wellformed |-> TRUE]
           base == SystemHolder(tensor, tensor, s.cell, s.pbc)
           N == ConvertedLists(s, dtype, device)
           D == ConvertedData(s, dtype, device)
           r == [base EXCEPT !.neighbors = N, !.data = D]
<1>1. SystemTo(s, dtype, device) = AddAll(base, N, D)
  BY DEF SystemTo, ConvertedLists, ConvertedData, CanCopy
<1>2. tensor \in Tensors
  BY DEF Tensors
<1>3. s \in Systems /\ s.cell \in SUBSET Axes /\ s.pbc \in SUBSET Axes
  BY DEF IsGood, Systems
<1>4. /\ N \in ListsOfOptions /\ DOMAIN N = DOMAIN s.neighbors
      /\ D \in DataOfNames /\ DOMAIN D = DOMAIN s.data
  BY <1>3, ConvertedListsAreTyped, ConvertedDataAreTyped
<1>4a. \A o \in DOMAIN N : N[o].dtype = dtype /\ N[o].device = device /\ N[o].wellformed
  BY <1>3, ConvertedListsAreTyped DEF IsGood, DataAgree
<1>4b. \A n \in DOMAIN D : D[n].dtype = dtype /\ D[n].device = device /\ D[n].filled
  BY <1>3, ConvertedDataAreTyped
<1> HIDE DEF N, D
<1>5. base = [dtype |-> dtype, device |-> device, scale |-> 0, cell |-> s.cell, pbc |-> s.pbc,
              neighbors |-> NoLists, data |-> NoLists]
  BY DEF SystemHolder, Agree
<1> HIDE DEF tensor, base
<1>6. base \in Systems /\ base.dtype = dtype /\ base.device = device /\ base.neighbors = NoLists /\ base.data = NoLists
  BY <1>3, <1>5, NoListsAreEmpty DEF Systems
<1>7. r \in Systems
  BY <1>4, <1>6 DEF Systems
<1>8. ASSUME NEW o \in DOMAIN N PROVE add_neighbor_list(base, o, N[o]) # NoSystem
  <2> DEFINE M == [p \in DOMAIN base.neighbors \union {o} |-> IF p = o THEN N[o] ELSE base.neighbors[p]]
  <2>1. add_neighbor_list(base, o, N[o]) = [base EXCEPT !.neighbors = M]
    BY <1>4a, <1>6, NoListsAreEmpty DEF add_neighbor_list, On
  <2> HIDE DEF M
  <2>2. "dtype" \in DOMAIN [base EXCEPT !.neighbors = M]
    BY <1>6 DEF Systems
  <2>3. "dtype" \notin DOMAIN NoSystem
    BY DEF NoSystem
  <2> QED
    BY <2>1, <2>2, <2>3
<1>9. ASSUME NEW n \in DOMAIN D PROVE add_data(base, n, D[n], FALSE) # NoSystem
  <2> DEFINE M == [p \in DOMAIN base.data \union {n} |-> IF p = n THEN D[n] ELSE base.data[p]]
  <2>1. add_data(base, n, D[n], FALSE) = [base EXCEPT !.data = M]
    <3>1. n \notin InvalidNames
      BY <1>4 DEF IsGood, DataAgree
    <3>2. n \notin DOMAIN base.data /\ D[n].device = base.device /\ scalar_type(D[n]) = base.dtype
      BY <1>4b, <1>6, NoListsAreEmpty DEF scalar_type
    <3> QED
      BY <3>1, <3>2 DEF add_data
  <2> HIDE DEF M
  <2>2. "dtype" \in DOMAIN [base EXCEPT !.data = M]
    BY <1>6 DEF Systems
  <2>3. "dtype" \notin DOMAIN NoSystem
    BY DEF NoSystem
  <2> QED
    BY <2>1, <2>2, <2>3
<1>10. base # NoSystem /\ r # NoSystem
  BY <1>6, <1>7, SystemsExist
<1>11. AddAll(base, N, D) = r
  BY <1>8, <1>9, <1>10 DEF AddAll
<1> QED
  BY <1>1, <1>10, <1>11

-----------------------------------------------------------------------------
(* The inductive invariant: every System is good, and one whose cell was   *)
(* checked fits.                                                           *)
SystemInv ==
    /\ systems \in [Handles -> Systems \union {NoSystem}]
    /\ \A h \in Handles : Exists(h) => DataAgree(systems[h])
    /\ CheckedCellsAgree

(* A result that is good can be assigned.                                  *)
LEMMA AssignKeepsInv ==
  ASSUME SystemInv, NEW h \in Handles, NEW r, NEW checked \in {"same", "yes", "no"},
         Assign(h, r, checked),
         r # NoSystem => IsGood(r),
         r # NoSystem /\ checked = "yes" => Agree(r.device, r.cell, r.pbc),
         r # NoSystem /\ checked = "same" =>
            Exists(h) /\ r.device = systems[h].device /\ r.cell = systems[h].cell /\ r.pbc = systems[h].pbc
  PROVE  SystemInv'
<1>1. CASE r = NoSystem
  <2>1. systems' = systems /\ unchecked' = unchecked
    BY <1>1 DEF Assign
  <2> QED
    BY <2>1 DEF SystemInv, Exists, CheckedCellsAgree, DataAgree, On, scalar_type
<1>2. CASE r # NoSystem
  <2>1. systems' = [systems EXCEPT ![h] = r] /\ r \in Systems /\ DataAgree(r)
    BY <1>2 DEF Assign, IsGood
  <2>2. /\ systems' \in [Handles -> Systems \union {NoSystem}] /\ systems'[h] = r
        /\ \A g \in Handles \ {h} : systems'[g] = systems[g]
    BY <2>1 DEF SystemInv
  <2>3. ASSUME NEW g \in Handles, Exists(g)' PROVE DataAgree(systems'[g])
    BY <2>1, <2>2, <2>3 DEF SystemInv, Exists
  <2>4. \A g \in Handles \ {h} : g \in unchecked' <=> g \in unchecked
    BY <1>2 DEF Assign
  <2>5. ASSUME NEW g \in Handles, g \notin unchecked', Exists(g)'
        PROVE  Agree(systems'[g].device, systems'[g].cell, systems'[g].pbc)
    <3>1. CASE g # h
      BY <2>2, <2>4, <2>5, <3>1 DEF SystemInv, CheckedCellsAgree, Exists
    <3>2. CASE g = h /\ checked = "yes"
      BY <1>2, <2>2, <3>2
    <3>3. CASE g = h /\ checked = "same"
      <4>1. h \notin unchecked /\ Exists(h)
        BY <1>2, <2>5, <3>3 DEF Assign
      <4> QED
        BY <1>2, <2>2, <3>3, <4>1 DEF SystemInv, CheckedCellsAgree
    <3>4. CASE g = h /\ checked = "no"
      BY <1>2, <2>5, <3>4 DEF Assign
    <3> QED
      BY <3>1, <3>2, <3>3, <3>4
  <2>6. CheckedCellsAgree'
    BY <2>5 DEF CheckedCellsAgree
  <2>7. (\A g \in Handles : Exists(g) => DataAgree(systems[g]))'
    BY <2>3 DEF DataAgree, On, scalar_type
  <2> QED
    BY <2>2, <2>6, <2>7 DEF SystemInv
<1> QED
  BY <1>1, <1>2

LEMMA InvOfSystem == ASSUME SystemInv, NEW h \in Handles, Exists(h) PROVE IsGood(systems[h])
  BY DEF SystemInv, Exists, IsGood

(* The invariant says everything but what a conversion does.               *)
LEMMA InvImpliesAgreement == SystemInv => EverythingAgrees /\ CheckedCellsAgree
  BY DEF SystemInv, EverythingAgrees, DataAgree, Exists

LEMMA SystemInitInv == SystemInit => SystemInv /\ SystemsAgree
<1> SUFFICES ASSUME SystemInit PROVE SystemInv /\ SystemsAgree
  OBVIOUS
<1>1. SystemInv
  BY DEF SystemInit, SystemInv, Exists, CheckedCellsAgree
<1>2. last.op # "to"
  BY DEF SystemInit, Nothing
<1> QED
  BY <1>1, <1>2, InvImpliesAgreement DEF SystemsAgree, ConversionsKeepEverything, ConversionsSucceed

LEMMA SystemNextInv == SystemInv /\ SystemNext => SystemInv' /\ SystemsAgree'
<1> SUFFICES ASSUME SystemInv, SystemNext PROVE SystemInv' /\ SystemsAgree'
  OBVIOUS
<1>0. ASSUME SystemInv', last' = Nothing PROVE SystemsAgree'
  <2>1. (last.op # "to")'
    BY <1>0 DEF Nothing
  <2>2. EverythingAgrees' /\ CheckedCellsAgree'
    BY <1>0, InvImpliesAgreement, PTL
  <2>3. ConversionsKeepEverything' /\ ConversionsSucceed'
    BY <2>1 DEF ConversionsKeepEverything, ConversionsSucceed
  <2> QED
    BY <2>2, <2>3 DEF SystemsAgree
<1>1. CASE New
  <2>1. PICK h \in Handles, tensor_ \in Tensors, cell_ \in Tensors, axes \in SUBSET Axes, pbc \in SUBSET Axes :
          Assign(h, SystemHolder(tensor_, cell_, axes, pbc), "yes") /\ last' = Nothing
    BY <1>1 DEF New
  <2> DEFINE r == SystemHolder(tensor_, cell_, axes, pbc)
  <2>2. r # NoSystem => IsGood(r) /\ Agree(r.device, r.cell, r.pbc)
    BY HolderIsGood
  <2> HIDE DEF r
  <2>3. SystemInv'
    BY <2>1, <2>2, AssignKeepsInv DEF r
  <2> QED
    BY <1>0, <2>1, <2>3
<1>2. CASE Set
  <2>1. PICK h \in Handles, t \in Tensors :
          /\ Exists(h)
          /\ \/ Assign(h, set_types(systems[h], t), "same")
             \/ Assign(h, set_positions(systems[h], t), "same")
             \/ \E axes \in SUBSET Axes : Assign(h, set_cell(systems[h], t, axes), "no")
             \/ \E pbc \in SUBSET Axes : Assign(h, set_pbc(systems[h], t, pbc), "yes")
          /\ last' = Nothing
    BY <1>2 DEF Set
  <2>2. IsGood(systems[h])
    BY <2>1, InvOfSystem
  <2>3. CASE Assign(h, set_types(systems[h], t), "same")
    <3>1. set_types(systems[h], t) # NoSystem => set_types(systems[h], t) = systems[h]
      BY DEF set_types
    <3> QED
      BY <2>1, <2>2, <2>3, <3>1, AssignKeepsInv, <1>0
  <2>4. CASE Assign(h, set_positions(systems[h], t), "same")
    <3>1. set_positions(systems[h], t) # NoSystem => set_positions(systems[h], t) = systems[h]
      BY DEF set_positions
    <3> QED
      BY <2>1, <2>2, <2>4, <3>1, AssignKeepsInv, <1>0
  <2>5. ASSUME NEW axes \in SUBSET Axes, Assign(h, set_cell(systems[h], t, axes), "no")
        PROVE  SystemInv'
    BY <2>2, <2>5, SetCellIsGood, AssignKeepsInv
  <2>6. ASSUME NEW pbc \in SUBSET Axes, Assign(h, set_pbc(systems[h], t, pbc), "yes")
        PROVE  SystemInv'
    BY <2>2, <2>6, SetPbcIsGood, AssignKeepsInv
  <2> QED
    BY <1>0, <2>1, <2>3, <2>4, <2>5, <2>6
<1>3. CASE Add
  <2>1. PICK h \in Handles :
          /\ Exists(h)
          /\ \/ \E o \in Options, list \in Tensors :
                  Assign(h, add_neighbor_list(systems[h], o, NeighborList(list, systems[h].scale)), "same")
             \/ \E n \in DataNames, dtype \in DTypes, device \in Devices, override \in BOOLEAN,
                   filled \in IF WithEmptyData THEN BOOLEAN ELSE {TRUE} :
                  Assign(h, add_data(systems[h], n, DataMap(dtype, device, filled), override), "same")
    BY <1>3 DEF Add
  <2>2. IsGood(systems[h]) /\ systems[h].scale \in Int
    BY <2>1, InvOfSystem DEF IsGood, Systems
  <2>3. ASSUME NEW o \in Options, NEW list \in Tensors,
               Assign(h, add_neighbor_list(systems[h], o, NeighborList(list, systems[h].scale)), "same")
        PROVE  SystemInv'
    <3>1. NeighborList(list, systems[h].scale) \in Lists
      BY <2>2 DEF NeighborList, Lists, Tensors
    <3> DEFINE r == add_neighbor_list(systems[h], o, NeighborList(list, systems[h].scale))
    <3>2. r # NoSystem => IsGood(r) /\ r.device = systems[h].device /\ r.cell = systems[h].cell /\ r.pbc = systems[h].pbc
      BY <2>2, <3>1, AddListIsGood
    <3> HIDE DEF r
    <3> QED
      BY <2>1, <2>3, <3>2, AssignKeepsInv DEF r
  <2>4. ASSUME NEW n \in DataNames, NEW dtype \in DTypes, NEW device \in Devices, NEW override \in BOOLEAN,
               NEW filled \in BOOLEAN,
               Assign(h, add_data(systems[h], n, DataMap(dtype, device, filled), override), "same")
        PROVE  SystemInv'
    <3>1. DataMap(dtype, device, filled) \in Data
      BY DEF DataMap, Data
    <3> DEFINE r == add_data(systems[h], n, DataMap(dtype, device, filled), override)
    <3>2. r # NoSystem => IsGood(r) /\ r.device = systems[h].device /\ r.cell = systems[h].cell /\ r.pbc = systems[h].pbc
      BY <2>2, <3>1, AddDataIsGood
    <3> HIDE DEF r
    <3> QED
      BY <2>1, <2>4, <3>2, AssignKeepsInv DEF r
  <2>5. SystemInv'
    <3>1. (IF WithEmptyData THEN BOOLEAN ELSE {TRUE}) \subseteq BOOLEAN
      OBVIOUS
    <3> QED
      BY <2>1, <2>3, <2>4, <3>1
  <2> QED
    BY <1>0, <1>3, <2>5 DEF Add
<1>4. CASE to
  <2>1. PICK h \in Handles, new \in Handles, dtype \in DTypes, device \in Devices :
          /\ Exists(h) /\ new # h
          /\ Assign(new, SystemTo(systems[h], dtype, device), "yes")
          /\ last' = [op |-> "to", from |-> h, new |-> new, raised |-> SystemTo(systems[h], dtype, device) = NoSystem]
    BY <1>4 DEF to
  <2> DEFINE r == SystemTo(systems[h], dtype, device)
  <2>2. IsGood(systems[h])
    BY <2>1, InvOfSystem
  <2>3. r # NoSystem =>
          /\ IsGood(r) /\ Agree(r.device, r.cell, r.pbc)
          /\ r.cell = systems[h].cell /\ r.pbc = systems[h].pbc
          /\ DOMAIN r.neighbors = DOMAIN systems[h].neighbors /\ DOMAIN r.data = DOMAIN systems[h].data
    BY <2>2, ToIsGood
  <2>4. Assign(new, r, "yes") /\ last'.op = "to" /\ last'.from = h /\ last'.new = new /\ last'.raised = (r = NoSystem)
    BY <2>1
  <2>5. ASSUME r = NoSystem
        PROVE  \/ systems[h].device = "meta" \/ h \in unchecked
               \/ \E n \in DOMAIN systems[h].data : ~ systems[h].data[n].filled
    <3>1. ~ (/\ systems[h].device # "meta" /\ Agree(systems[h].device, systems[h].cell, systems[h].pbc)
             /\ \A n \in DOMAIN systems[h].data : systems[h].data[n].filled)
      BY <2>2, <2>5, ToSucceeds
    <3>2. h \notin unchecked => Agree(systems[h].device, systems[h].cell, systems[h].pbc)
      BY <2>1 DEF SystemInv, CheckedCellsAgree
    <3> QED
      BY <3>1, <3>2
  <2> HIDE DEF r
  <2>6. SystemInv'
    BY <2>3, <2>4, AssignKeepsInv
  <2>7. systems'[h] = systems[h] /\ (r # NoSystem => systems'[new] = r) /\ (r = NoSystem => unchecked' = unchecked)
    BY <2>1, <2>4 DEF Assign, SystemInv
  <2>8. ConversionsKeepEverything'
    BY <2>3, <2>4, <2>7 DEF ConversionsKeepEverything
  <2>9. ConversionsSucceed'
    BY <2>4, <2>5, <2>7 DEF ConversionsSucceed
  <2>10. EverythingAgrees' /\ CheckedCellsAgree'
    BY <2>6, InvImpliesAgreement, PTL
  <2> QED
    BY <2>6, <2>8, <2>9, <2>10 DEF SystemsAgree
<1> QED
  BY <1>1, <1>2, <1>3, <1>4 DEF SystemNext

(* In every behaviour, for any number of Systems, everything in a System   *)
(* has its type and its device, its cell fits pbc once it was checked, a   *)
(* conversion keeps the lists, the data, the cell and pbc, and fails only  *)
(* for the reasons that ConversionsSucceed gives (system.cpp).             *)
THEOREM SystemsAlwaysAgree == SystemSpec => []SystemsAgree
<1> DEFINE Inv == SystemInv /\ SystemsAgree
<1>1. SystemInit => Inv
  BY SystemInitInv
<1>2. Inv /\ [SystemNext]_systemVars => Inv'
  <2>1. Inv /\ SystemNext => Inv'
    BY SystemNextInv
  <2>2. Inv /\ UNCHANGED systemVars => Inv'
    BY DEF systemVars, SystemInv, SystemsAgree, EverythingAgrees, CheckedCellsAgree, ConversionsKeepEverything,
           ConversionsSucceed, Exists, DataAgree, On, scalar_type
  <2> QED
    BY <2>1, <2>2
<1> QED
  BY <1>1, <1>2, PTL DEF SystemSpec
-----------------------------------------------------------------------------
(* The Systems of the engine have the scale 0, and so do their lists.      *)
InputLists == [dtype : InputTypes, device : InputDevices, wellformed : BOOLEAN, scale : {0}]
InputMaps == [dtype : InputTypes, device : InputDevices, filled : BOOLEAN]
InputsOfOptions == UNION {[S -> InputLists] : S \in SUBSET ToSet(Modules)}
InputsOfNames == UNION {[S -> InputMaps] : S \in SUBSET InputData}
InputSystems == [dtype : InputTypes, device : InputDevices, scale : {0},
                 cell : SUBSET InputAxes, pbc : SUBSET InputAxes,
                 neighbors : InputsOfOptions, data : InputsOfNames]

InputsInv == inputs \in [Inputs -> InputSystems \union {Sys!NoSystem}]

LEMMA AssignKeepsInputs ==
  ASSUME InputsInv, NEW h \in Inputs, NEW r, NEW checked, Sys!Assign(h, r, checked),
         r # Sys!NoSystem => r \in InputSystems
  PROVE  InputsInv'
<1>1. inputs' = IF r = Sys!NoSystem THEN inputs ELSE [inputs EXCEPT ![h] = r]
  BY DEF Sys!Assign
<1> QED
  BY <1>1 DEF InputsInv

LEMMA NewInput ==
  ASSUME NEW tensor_ \in Sys!Tensors, NEW cell_ \in Sys!Tensors, NEW axes \in SUBSET InputAxes, NEW pbc \in SUBSET InputAxes,
         NEW s, s = Sys!SystemHolder(tensor_, cell_, axes, pbc), s # Sys!NoSystem
  PROVE  s \in InputSystems
<1>1. s = [dtype |-> tensor_.dtype, device |-> tensor_.device, scale |-> 0,
           cell |-> axes, pbc |-> pbc, neighbors |-> Sys!NoLists, data |-> Sys!NoLists]
  BY DEF Sys!SystemHolder
<1>2. tensor_.dtype \in InputTypes /\ tensor_.device \in InputDevices
  BY DEF Sys!Tensors
<1>3. Sys!NoLists \in [{} -> InputLists] /\ Sys!NoLists \in [{} -> InputMaps]
  BY DEF Sys!NoLists
<1>4. Sys!NoLists \in InputsOfOptions /\ Sys!NoLists \in InputsOfNames
  BY <1>3 DEF InputsOfOptions, InputsOfNames
<1> QED
  BY <1>1, <1>2, <1>4 DEF InputSystems

LEMMA SetInput ==
  ASSUME NEW s \in InputSystems, NEW t, NEW axes \in SUBSET InputAxes
  PROVE  /\ Sys!set_types(s, t) \in InputSystems \union {Sys!NoSystem}
         /\ Sys!set_positions(s, t) \in InputSystems \union {Sys!NoSystem}
         /\ Sys!set_cell(s, t, axes) \in InputSystems \union {Sys!NoSystem}
         /\ Sys!set_pbc(s, t, axes) \in InputSystems \union {Sys!NoSystem}
<1>1. [s EXCEPT !.cell = axes] \in InputSystems /\ [s EXCEPT !.pbc = axes] \in InputSystems
  BY DEF InputSystems
<1> QED
  BY <1>1 DEF Sys!set_types, Sys!set_positions, Sys!set_cell, Sys!set_pbc

LEMMA AddInputList ==
  ASSUME NEW s \in InputSystems, NEW o \in ToSet(Modules), NEW list \in InputLists
  PROVE  Sys!add_neighbor_list(s, o, list) \in InputSystems \union {Sys!NoSystem}
<1> DEFINE N == [p \in DOMAIN s.neighbors \union {o} |-> IF p = o THEN list ELSE s.neighbors[p]]
<1>1. Sys!add_neighbor_list(s, o, list) \in {[s EXCEPT !.neighbors = N], Sys!NoSystem}
  BY DEF Sys!add_neighbor_list
<1>2. PICK S \in SUBSET ToSet(Modules) : s.neighbors \in [S -> InputLists]
  BY DEF InputSystems, InputsOfOptions
<1>3. N \in [S \union {o} -> InputLists] /\ S \union {o} \in SUBSET ToSet(Modules)
  BY <1>2
<1>4. N \in InputsOfOptions
  BY <1>3 DEF InputsOfOptions
<1> HIDE DEF N
<1>5. [s EXCEPT !.neighbors = N] \in InputSystems
  BY <1>4 DEF InputSystems
<1> QED
  BY <1>1, <1>5

LEMMA AddInputData ==
  ASSUME NEW s \in InputSystems, NEW n \in InputData, NEW map \in InputMaps, NEW override
  PROVE  Sys!add_data(s, n, map, override) \in InputSystems \union {Sys!NoSystem}
<1> DEFINE D == [p \in DOMAIN s.data \union {n} |-> IF p = n THEN map ELSE s.data[p]]
<1>1. Sys!add_data(s, n, map, override) \in {[s EXCEPT !.data = D], Sys!NoSystem}
  BY DEF Sys!add_data
<1>2. PICK S \in SUBSET InputData : s.data \in [S -> InputMaps]
  BY DEF InputSystems, InputsOfNames
<1>3. D \in [S \union {n} -> InputMaps] /\ S \union {n} \in SUBSET InputData
  BY <1>2
<1>4. D \in InputsOfNames
  BY <1>3 DEF InputsOfNames
<1> HIDE DEF D
<1>5. [s EXCEPT !.data = D] \in InputSystems
  BY <1>4 DEF InputSystems
<1> QED
  BY <1>1, <1>5

LEMMA EngineKeepsInputs == InputsInv /\ Engine => InputsInv'
<1> SUFFICES ASSUME InputsInv, Sys!New \/ Sys!Set \/ Sys!Add PROVE InputsInv'
  BY DEF Engine
<1>0. ASSUME NEW h \in Inputs, Sys!Exists(h) PROVE inputs[h] \in InputSystems
  BY <1>0 DEF InputsInv, Sys!Exists
<1>1. CASE Sys!New
  BY <1>1, NewInput, AssignKeepsInputs DEF Sys!New
<1>2. CASE Sys!Set
  <2>1. PICK h \in Inputs, t \in Sys!Tensors :
          /\ Sys!Exists(h)
          /\ \/ Sys!Assign(h, Sys!set_types(inputs[h], t), "same")
             \/ Sys!Assign(h, Sys!set_positions(inputs[h], t), "same")
             \/ \E axes \in SUBSET InputAxes : Sys!Assign(h, Sys!set_cell(inputs[h], t, axes), "no")
             \/ \E pbc \in SUBSET InputAxes : Sys!Assign(h, Sys!set_pbc(inputs[h], t, pbc), "yes")
    BY <1>2 DEF Sys!Set
  <2>2. inputs[h] \in InputSystems /\ {} \in SUBSET InputAxes
    BY <1>0, <2>1
  <2>3. PICK r, checked : Sys!Assign(h, r, checked) /\ r \in InputSystems \union {Sys!NoSystem}
    BY <2>1, <2>2, SetInput
  <2> QED
    BY <2>3, AssignKeepsInputs
<1>3. CASE Sys!Add
  <2>1. PICK h \in Inputs :
          /\ Sys!Exists(h)
          /\ \/ \E o \in ToSet(Modules), list \in Sys!Tensors :
                  Sys!Assign(h, Sys!add_neighbor_list(inputs[h], o, Sys!NeighborList(list, inputs[h].scale)), "same")
             \/ \E n \in InputData, dtype \in InputTypes, device \in InputDevices, override \in BOOLEAN, filled \in {TRUE} :
                  Sys!Assign(h, Sys!add_data(inputs[h], n, Sys!DataMap(dtype, device, filled), override), "same")
    BY <1>3 DEF Sys!Add
  <2>2. inputs[h] \in InputSystems
    BY <1>0, <2>1
  <2>3. \A list \in Sys!Tensors : Sys!NeighborList(list, inputs[h].scale) \in InputLists
    BY <2>2 DEF InputSystems, InputLists, Sys!NeighborList, Sys!Tensors
  <2>4. \A dtype \in InputTypes, device \in InputDevices, filled \in {TRUE} : Sys!DataMap(dtype, device, filled) \in InputMaps
    BY DEF Sys!DataMap, InputMaps
  <2>5. PICK r : Sys!Assign(h, r, "same") /\ r \in InputSystems \union {Sys!NoSystem}
    BY <2>1, <2>2, <2>3, <2>4, AddInputList, AddInputData
  <2> QED
    BY <2>5, AssignKeepsInputs
<1> QED
  BY <1>1, <1>2, <1>3

(* What the module sees: everything is multiplied by the same factor.      *)
LEMMA ConvertedSystem ==
  ASSUME NEW s \in InputSystems, NEW c \in Int, NEW r, r = _convert_system_units(s, c), r # Sys!NoSystem
  PROVE  /\ r.scale = c /\ DOMAIN r.neighbors = DOMAIN s.neighbors
         /\ \A o \in DOMAIN r.neighbors : r.neighbors[o].scale = c
<1>1. PICK S \in SUBSET ToSet(Modules) : s.neighbors \in [S -> InputLists]
  BY DEF InputSystems, InputsOfOptions
<1>2. \A o \in S : s.neighbors[o] \in InputLists /\ s.neighbors[o].scale = 0
  BY <1>1 DEF InputLists
<1>3. CASE c = 0
  <2>1. r = s
    BY <1>3 DEF _convert_system_units
  <2> QED
    BY <1>1, <1>2, <1>3, <2>1 DEF InputSystems
<1>4. CASE c # 0
  <2> DEFINE tensor == [dtype |-> s.dtype, device |-> s.device, wellformed |-> TRUE]
             made == Sys!SystemHolder(tensor, tensor, s.cell, s.pbc)
             N == [o \in DOMAIN s.neighbors |-> [s.neighbors[o] EXCEPT !.scale = @ + c]]
             base == [made EXCEPT !.scale = s.scale + c]
  <2>1. made # Sys!NoSystem /\ r = Sys!AddAll(base, N, s.data)
    BY <1>4 DEF _convert_system_units
  <2>2. tensor \in Sys!Tensors /\ s.cell \in SUBSET InputAxes /\ s.pbc \in SUBSET InputAxes /\ s.scale = 0
    BY DEF Sys!Tensors, InputSystems
  <2>3. \A o \in S : [s.neighbors[o] EXCEPT !.scale = @ + c].scale = c
    BY <1>2 DEF InputLists
  <2>4. DOMAIN N = DOMAIN s.neighbors /\ \A o \in DOMAIN N : N[o].scale = c
    BY <1>1, <2>3
  <2> HIDE DEF tensor, made, N
  <2>5. made \in InputSystems
    BY <2>1, <2>2, NewInput DEF made
  <2>6. base.scale = c /\ DOMAIN base = DOMAIN made
    BY <2>2, <2>5 DEF InputSystems
  <2>7. {"scale", "neighbors", "data"} \subseteq DOMAIN base
    BY <2>5, <2>6 DEF InputSystems
  <2> HIDE DEF base
  <2>8. r = [base EXCEPT !.neighbors = N, !.data = s.data]
    BY <2>1 DEF Sys!AddAll
  <2>9. r.scale = c /\ r.neighbors = N
    BY <2>6, <2>7, <2>8
  <2> QED
    BY <2>4, <2>9
<1> QED
  BY <1>3, <1>4

-----------------------------------------------------------------------------
(* The inductive invariant of a model, one part for each stage of a call.  *)

(* The requests so far: the options of the first n modules, each of them   *)
(* once, and with the unit of the model.                                   *)
RequestsOK(requested, n, length_unit) ==
    /\ requested \in Seq(1..Len(Modules))
    /\ \A i \in 1..n : \E k \in DOMAIN requested : Modules[requested[k]] = Modules[i]
    /\ \A k, l \in DOMAIN requested : Modules[requested[k]] = Modules[requested[l]] => k = l
    /\ \A k \in DOMAIN requested : units[requested[k]] = length_unit

RequestsInv ==
    /\ DOMAIN units = 1..Len(Modules)
    /\ call.pc = "requests" =>
        /\ model = NoModel
        /\ call \in [pc : {"requests"}, length_unit : ModelUnits, valid : BOOLEAN,
                     module : 1..(Len(Modules) + 1), requested : Seq(1..Len(Modules))]
        /\ RequestsOK(call.requested, call.module - 1, call.length_unit)
    /\ \/ model = NoModel
       \/ /\ model \in [wrapped : {TRUE}, length_unit : ModelUnits, requested : Seq(1..Len(Modules))]
          /\ RequestsOK(model.requested, Len(Modules), model.length_unit)

Selections == [given : {FALSE}, atoms : {{}}] \union [given : {TRUE}, atoms : SUBSET (Atoms \union {"other"})]

SeenInv ==
    call.pc = "module" =>
        /\ call.check \in BOOLEAN /\ call.unit \in EngineUnits /\ call.outputs \in Requests /\ call.selected \in Selections
        /\ call.seen.scale \in Int
        /\ ModuleSeesModelUnits /\ ListsAreFound

OutputNames == DOMAIN Declared \union UNION {DOMAIN outputs : outputs \in Requests}
Outputs == UNION {[names -> Maps] : names \in SUBSET OutputNames}
MapRecords == [made : {TRUE}, samples : SUBSET (Atoms \union {"system"}), values : Int,
               positions : {<<>>} \union (Int \X Int)]

MapsInv == maps \in [Maps -> MapRecords \union {NoMap}]

(* The outputs that are still in the units of the model, and the others.   *)
InModelUnits(name) ==
    name \in DOMAIN Declared /\ Known(Declared[name].unit) =>
        maps[call.made[name]].values = EnergyScale[Declared[name].unit]
InEngineUnits(name) ==
    /\ "" \notin {Declared[name].quantity, call.outputs[name].quantity}
    /\ Known(Declared[name].unit) /\ Known(call.outputs[name].unit)
    => maps[call.made[name]].values = EnergyScale[call.outputs[name].unit]

EnergySelected ==
    call.check /\ "energy" \in DOMAIN call.made =>
        maps[call.made["energy"]].samples \subseteq
            (IF call.outputs["energy"].per_atom THEN Selected(call.selected) ELSE {"system"})

Converting == call.pc \in {"convert", "returned"}

OutputsInv ==
    Converting =>
        /\ call \in [pc : {"convert", "returned"}, check : BOOLEAN, unit : EngineUnits, outputs : Requests,
                     selected : Selections, made : Outputs, todo : SUBSET OutputNames]
        /\ call.todo \subseteq DOMAIN call.made
        /\ call.pc = "returned" => call.todo = {}
        /\ \A name \in DOMAIN call.made : maps[call.made[name]] \in MapRecords
        /\ EnergySelected
        /\ ~Shares =>
            /\ \A m, n \in DOMAIN call.made : call.made[m] = call.made[n] => m = n
            /\ \A name \in call.todo : InModelUnits(name)
            /\ \A name \in DOMAIN call.made \ call.todo : InEngineUnits(name)

ModelInv ==
    /\ InputsInv /\ RequestsInv /\ SeenInv /\ MapsInv /\ OutputsInv
    /\ call.pc \in {"idle", "requests", "module", "convert", "returned"}
    /\ call.pc = "idle" => call = NoCall

LEMMA ModelInitInv == ModelInit => ModelInv
<1> SUFFICES ASSUME ModelInit PROVE ModelInv
  OBVIOUS
<1>1. InputsInv
  BY DEF ModelInit, Sys!SystemInit, InputsInv
<1>2. call.pc = "idle" /\ call = NoCall /\ model = NoModel
  BY DEF ModelInit, NoCall
<1>3. DOMAIN units = 1..Len(Modules) /\ MapsInv
  BY DEF ModelInit, MapsInv
<1> QED
  BY <1>1, <1>2, <1>3 DEF ModelInv, RequestsInv, SeenInv, OutputsInv, Converting

(* A model is made or it is not.                                           *)
LEMMA WrappedModel ==
  ASSUME RequestsInv, model.wrapped
  PROVE  /\ model \in [wrapped : {TRUE}, length_unit : ModelUnits, requested : Seq(1..Len(Modules))]
         /\ RequestsOK(model.requested, Len(Modules), model.length_unit)
<1>1. NoModel.wrapped = FALSE
  BY DEF NoModel
<1>2. model # NoModel
  BY <1>1
<1> QED
  BY <1>2 DEF RequestsInv

(* A call that ended leaves the model and the Systems as they were.        *)
LEMMA IdleKeepsInv ==
  ASSUME ModelInv, call' = NoCall, MapsInv', UNCHANGED <<units, model, inputs>>
  PROVE  ModelInv'
<1>1. call'.pc = "idle"
  BY DEF NoCall
<1>2. InputsInv'
  BY DEF ModelInv, InputsInv
<1>3. RequestsInv'
  BY <1>1 DEF ModelInv, RequestsInv, RequestsOK
<1> QED
  BY <1>1, <1>2, <1>3 DEF ModelInv, SeenInv, OutputsInv, Converting

LEMMA DroppedIsTyped ==
  ASSUME NEW k \in [Maps -> MapRecords \union {NoMap}]
  PROVE  Dropped(k) \in [Maps -> MapRecords \union {NoMap}]
  BY DEF Dropped

LEMMA EndCallKeepsInv ==
  ASSUME ModelInv, NEW k \in [Maps -> MapRecords \union {NoMap}], EndCall(k), UNCHANGED <<units, model, inputs>>
  PROVE  ModelInv'
<1>1. MapsInv'
  BY DroppedIsTyped DEF EndCall, MapsInv
<1> QED
  BY <1>1, IdleKeepsInv DEF EndCall

LEMMA EngineKeepsInv == ModelInv /\ Engine => ModelInv'
<1> SUFFICES ASSUME ModelInv, Engine PROVE ModelInv'
  OBVIOUS
<1>1. InputsInv'
  BY EngineKeepsInputs DEF ModelInv
<1>2. call.pc = "idle" /\ UNCHANGED <<units, model, call, maps>>
  BY DEF Engine, modelVars
<1>3. RequestsInv' /\ MapsInv'
  BY <1>2 DEF ModelInv, RequestsInv, RequestsOK, MapsInv
<1> QED
  BY <1>1, <1>2, <1>3 DEF ModelInv, SeenInv, OutputsInv, Converting

-----------------------------------------------------------------------------
(* The constructor.                                                        *)
LEMMA WrapKeepsInv == ModelInv /\ Wrap => ModelInv'
<1> SUFFICES ASSUME ModelInv, Wrap PROVE ModelInv'
  OBVIOUS
<1>1. PICK length_unit \in ModelUnits, valid \in BOOLEAN :
         /\ call' = [pc |-> "requests", length_unit |-> length_unit, valid |-> valid, module |-> 1, requested |-> <<>>]
         /\ model' = NoModel
         /\ UNCHANGED <<units, maps, inputVars>>
  BY DEF Wrap
<1>2. call'.pc = "requests" /\ call'.requested = <<>> /\ call'.module = 1 /\ call'.length_unit = length_unit
  BY <1>1
<1>3. Len(Modules) \in Nat /\ <<>> \in Seq(1..Len(Modules))
  BY ModulesAssumption
<1>4. call' \in [pc : {"requests"}, length_unit : ModelUnits, valid : BOOLEAN,
                 module : 1..(Len(Modules) + 1), requested : Seq(1..Len(Modules))]
  BY <1>1, <1>3
<1>5. RequestsOK(call.requested, call.module - 1, call.length_unit)'
  BY <1>2, <1>3 DEF RequestsOK
<1>6. RequestsInv'
  BY <1>1, <1>4, <1>5 DEF ModelInv, RequestsInv
<1> QED
  BY <1>1, <1>2, <1>6 DEF ModelInv, InputsInv, inputVars, MapsInv, SeenInv, OutputsInv, Converting

LEMMA RequestKeepsInv == ModelInv /\ _get_requested_neighbor_lists => ModelInv'
<1> SUFFICES ASSUME ModelInv, _get_requested_neighbor_lists PROVE ModelInv'
  OBVIOUS
<1>1. /\ call.pc = "requests" /\ call.module <= Len(Modules) /\ UNCHANGED <<model, maps, inputVars>>
      /\ model = NoModel /\ DOMAIN units = 1..Len(Modules)
      /\ call \in [pc : {"requests"}, length_unit : ModelUnits, valid : BOOLEAN,
                   module : 1..(Len(Modules) + 1), requested : Seq(1..Len(Modules))]
      /\ RequestsOK(call.requested, call.module - 1, call.length_unit)
  BY DEF _get_requested_neighbor_lists, ModelInv, RequestsInv
<1>2. PICK c, m, r, u : c = call /\ m = c.module /\ r = c.requested /\ u = c.length_unit
  OBVIOUS
<1>3. Len(Modules) \in Nat /\ m \in 1..Len(Modules) /\ r \in Seq(1..Len(Modules)) /\ u \in ModelUnits
  BY <1>1, <1>2, ModulesAssumption
<1>4. \A k \in DOMAIN r : r[k] \in ToSet(call.requested)
  BY <1>2 DEF ToSet
<1>4a. \A i \in ToSet(call.requested) : \E k \in DOMAIN r : r[k] = i
  BY <1>2 DEF ToSet
<1>5. ASSUME NEW new, call' = [call EXCEPT !.module = @ + 1, !.requested = new],
             RequestsOK(new, m, u)', DOMAIN units' = 1..Len(Modules)
      PROVE  ModelInv'
  <2>0. new \in Seq(1..Len(Modules))
    BY <1>5 DEF RequestsOK
  <2>1. /\ call'.pc = "requests" /\ call'.requested = new /\ call'.module = m + 1 /\ call'.length_unit = u
        /\ call' \in [pc : {"requests"}, length_unit : ModelUnits, valid : BOOLEAN,
                      module : 1..(Len(Modules) + 1), requested : Seq(1..Len(Modules))]
    <3>1. m + 1 \in 1..(Len(Modules) + 1) /\ call.module = m /\ call.length_unit = u
      BY <1>2, <1>3
    <3>2. call' = [call EXCEPT !.module = m + 1, !.requested = new]
      BY <1>5, <3>1
    <3> QED
      BY <1>1, <2>0, <3>1, <3>2
  <2>2. call'.module - 1 = m
    BY <1>3, <2>1
  <2>3. RequestsInv'
    BY <1>1, <1>5, <2>1, <2>2 DEF RequestsInv
  <2> QED
    BY <1>1, <2>1, <2>3 DEF ModelInv, InputsInv, inputVars, MapsInv, SeenInv, OutputsInv, Converting
<1>6. CASE already_requested /\ call' = [call EXCEPT !.module = @ + 1] /\ UNCHANGED units
  <2>1. PICK k \in DOMAIN r : Modules[r[k]] = Modules[m]
    BY <1>2, <1>4a, <1>6 DEF already_requested
  <2>2. call' = [call EXCEPT !.module = @ + 1, !.requested = r]
    BY <1>1, <1>2, <1>6
  <2>3. \A i \in 1..m : i \in 1..(m - 1) \/ i = m
    BY <1>3
  <2>4. RequestsOK(r, m, u)'
    BY <1>1, <1>2, <1>6, <2>1, <2>3 DEF RequestsOK
  <2> QED
    BY <1>1, <1>5, <1>6, <2>2, <2>4
<1>7. CASE /\ ~already_requested
           /\ call' = [call EXCEPT !.module = @ + 1, !.requested = Append(@, call.module)]
           /\ units' = [units EXCEPT ![call.module] = call.length_unit]
  <2> DEFINE new == Append(r, m)
  <2>1. call' = [call EXCEPT !.module = @ + 1, !.requested = new]
    BY <1>1, <1>2, <1>7
  <2>2. /\ new \in Seq(1..Len(Modules)) /\ DOMAIN new = DOMAIN r \union {Len(r) + 1} /\ Len(r) \in Nat
        /\ Len(r) + 1 \notin DOMAIN r
        /\ new[Len(r) + 1] = m /\ \A k \in DOMAIN r : new[k] = r[k]
    BY <1>3
  <2>3. \A k \in DOMAIN r : Modules[r[k]] # Modules[m]
    BY <1>2, <1>4, <1>7 DEF already_requested
  <2>4. units' = [units EXCEPT ![m] = u]
    BY <1>2, <1>7
  <2>4a. \A i \in 1..Len(Modules) : units'[i] = IF i = m THEN u ELSE units[i]
    BY <1>1, <2>4
  <2>4b. \A k \in DOMAIN r : r[k] \in 1..Len(Modules) /\ units[r[k]] = u
    BY <1>1, <1>2, <1>3 DEF RequestsOK
  <2> HIDE DEF new
  <2>5. \A i \in 1..m : i \in 1..(m - 1) \/ i = m
    BY <1>3
  <2>6. \A i \in 1..m : \E k \in DOMAIN new : Modules[new[k]] = Modules[i]
    <3> TAKE i \in 1..m
    <3>1. CASE i = m
      BY <2>2, <3>1
    <3>2. CASE i \in 1..(m - 1)
      <4>1. PICK k \in DOMAIN r : Modules[r[k]] = Modules[i]
        BY <1>1, <1>2, <3>2 DEF RequestsOK
      <4> QED
        BY <2>2, <4>1
    <3> QED
      BY <2>5, <3>1, <3>2
  <2>7. \A k, l \in DOMAIN new : Modules[new[k]] = Modules[new[l]] => k = l
    <3>1. \A k, l \in DOMAIN r : Modules[r[k]] = Modules[r[l]] => k = l
      BY <1>1, <1>2 DEF RequestsOK
    <3> QED
      BY <2>2, <2>3, <3>1
  <2>8. \A k \in DOMAIN new : units'[new[k]] = u
    BY <1>3, <2>2, <2>4a, <2>4b
  <2>9. RequestsOK(new, m, u)'
    BY <2>2, <2>6, <2>7, <2>8 DEF RequestsOK
  <2> QED
    BY <1>1, <1>5, <2>1, <2>4, <2>9
<1>8. CASE call' = NoCall /\ UNCHANGED units
  BY <1>1, <1>8, IdleKeepsInv DEF ModelInv, MapsInv, inputVars
<1> QED
  BY <1>6, <1>7, <1>8 DEF _get_requested_neighbor_lists

LEMMA WrappedKeepsInv == ModelInv /\ Wrapped => ModelInv'
<1> SUFFICES ASSUME ModelInv, Wrapped PROVE ModelInv'
  OBVIOUS
<1>1. /\ call.pc = "requests" /\ call.module > Len(Modules) /\ UNCHANGED <<units, maps, inputVars>>
      /\ model' = IF call.valid THEN [wrapped |-> TRUE, length_unit |-> call.length_unit, requested |-> call.requested] ELSE NoModel
      /\ call \in [pc : {"requests"}, length_unit : ModelUnits, valid : BOOLEAN,
                   module : 1..(Len(Modules) + 1), requested : Seq(1..Len(Modules))]
      /\ RequestsOK(call.requested, call.module - 1, call.length_unit)
      /\ DOMAIN units = 1..Len(Modules)
  BY DEF Wrapped, ModelInv, RequestsInv
<1>2. call' = NoCall /\ call'.pc = "idle"
  BY DEF Wrapped, NoCall
<1>3. Len(Modules) \in Nat
  BY ModulesAssumption
<1>4. call.module - 1 = Len(Modules)
  BY <1>1, <1>3
<1>5. \/ model' = NoModel
      \/ /\ model' \in [wrapped : {TRUE}, length_unit : ModelUnits, requested : Seq(1..Len(Modules))]
         /\ model'.requested = call.requested /\ model'.length_unit = call.length_unit
  BY <1>1
<1>6. RequestsOK(call.requested, Len(Modules), call.length_unit)
  BY <1>1, <1>4
<1>7. model' = NoModel \/ RequestsOK(model.requested, Len(Modules), model.length_unit)'
  BY <1>1, <1>5, <1>6 DEF RequestsOK
<1>8. RequestsInv'
  BY <1>1, <1>2, <1>5, <1>7 DEF RequestsInv
<1> QED
  BY <1>1, <1>2, <1>8 DEF ModelInv, InputsInv, inputVars, MapsInv, SeenInv, OutputsInv, Converting

-----------------------------------------------------------------------------
(* forward.                                                                *)
LEMMA LengthFactor ==
  ASSUME NEW unit \in EngineUnits, NEW length_unit \in ModelUnits
  PROVE  LET factor == unit_conversion_factor(LengthScale, unit, length_unit)
         IN  factor \in Int /\ (Known(unit) /\ Known(length_unit) => factor = LengthScale[length_unit])
<1>1. CASE unit = "" \/ length_unit = ""
  <2>1. unit_conversion_factor(LengthScale, unit, length_unit) = 0
    BY <1>1 DEF unit_conversion_factor
  <2>2. ~ (Known(unit) /\ Known(length_unit))
    BY <1>1 DEF Known
  <2> QED
    BY <2>1, <2>2
<1>2. CASE unit # "" /\ length_unit # ""
  <2>1. unit_conversion_factor(LengthScale, unit, length_unit) = LengthScale[length_unit] - LengthScale[unit]
    BY <1>2 DEF unit_conversion_factor
  <2>2. LengthScale[length_unit] \in Int /\ LengthScale[unit] = 0
    BY <1>2, UnitsAssumption
  <2> QED
    BY <2>1, <2>2
<1> QED
  BY <1>1, <1>2

LEMMA ForwardKeepsInv == ModelInv /\ forward => ModelInv'
<1> SUFFICES ASSUME ModelInv, forward PROVE ModelInv'
  OBVIOUS
<1>1. PICK h \in Inputs, outputs \in Requests, unit \in EngineUnits, check \in BOOLEAN, supported \in BOOLEAN,
           atoms_ \in Selections :
        LET seen == _convert_system_units(inputs[h], unit_conversion_factor(LengthScale, unit, model.length_unit))
        IN
        /\ call.pc = "idle" /\ model.wrapped /\ Sys!Exists(h)
        /\ IF (check => _check_inputs(inputs[h], outputs, atoms_)) /\ supported /\ seen # Sys!NoSystem
           THEN /\ call' = [pc |-> "module", check |-> check, unit |-> unit, outputs |-> outputs, selected |-> atoms_, seen |-> seen]
                /\ maps' = Dropped(maps)
           ELSE EndCall(maps)
        /\ UNCHANGED <<units, model, inputVars>>
  BY Zenon DEF forward, Selections
<1>1a. PICK seen : seen = _convert_system_units(inputs[h], unit_conversion_factor(LengthScale, unit, model.length_unit))
  OBVIOUS
<1>2. maps \in [Maps -> MapRecords \union {NoMap}] /\ UNCHANGED <<units, model, inputs>>
  BY <1>1 DEF ModelInv, MapsInv, inputVars
<1>3. CASE EndCall(maps)
  BY <1>2, <1>3, EndCallKeepsInv
<1>4. CASE /\ check => _check_inputs(inputs[h], outputs, atoms_)
           /\ seen # Sys!NoSystem
           /\ call' = [pc |-> "module", check |-> check, unit |-> unit, outputs |-> outputs, selected |-> atoms_, seen |-> seen]
           /\ maps' = Dropped(maps)
  <2>1. inputs[h] \in InputSystems
    BY <1>1 DEF ModelInv, InputsInv, Sys!Exists
  <2>2. /\ model \in [wrapped : {TRUE}, length_unit : ModelUnits, requested : Seq(1..Len(Modules))]
        /\ RequestsOK(model.requested, Len(Modules), model.length_unit)
    BY <1>1, WrappedModel DEF ModelInv
  <2>3. PICK factor : factor = unit_conversion_factor(LengthScale, unit, model.length_unit)
    OBVIOUS
  <2>4. factor \in Int /\ (Known(unit) /\ Known(model.length_unit) => factor = LengthScale[model.length_unit])
    BY <2>2, <2>3, LengthFactor
  <2>5. /\ seen.scale = factor /\ DOMAIN seen.neighbors = DOMAIN inputs[h].neighbors
        /\ \A o \in DOMAIN seen.neighbors : seen.neighbors[o].scale = factor
    BY <1>1a, <1>4, <2>1, <2>3, <2>4, ConvertedSystem
  <2>6. /\ call'.pc = "module" /\ call'.check = check /\ call'.unit = unit /\ call'.outputs = outputs
        /\ call'.selected = atoms_ /\ call'.seen = seen
    BY <1>4
  <2>7. ModuleSeesModelUnits'
    BY <1>2, <2>4, <2>5, <2>6 DEF ModuleSeesModelUnits, Known
  <2>8. ASSUME check, NEW i \in DOMAIN Modules PROVE Modules[i] \in DOMAIN seen.neighbors
    <3>1. i \in 1..Len(Modules)
      BY ModulesAssumption
    <3>2. PICK k \in DOMAIN model.requested : Modules[model.requested[k]] = Modules[i]
      BY <2>2, <3>1 DEF RequestsOK
    <3>3. model.requested[k] \in ToSet(model.requested)
      BY <3>2 DEF ToSet
    <3> QED
      BY <1>4, <2>5, <2>8, <3>2, <3>3 DEF _check_inputs
  <2>9. ListsAreFound'
    BY <2>6, <2>8 DEF ListsAreFound
  <2>10. SeenInv'
    BY <2>4, <2>5, <2>6, <2>7, <2>9 DEF SeenInv
  <2>11. MapsInv'
    BY <1>2, <1>4, DroppedIsTyped DEF MapsInv
  <2>12. RequestsInv' /\ InputsInv'
    BY <1>2, <2>6 DEF ModelInv, RequestsInv, RequestsOK, InputsInv
  <2> QED
    BY <2>6, <2>10, <2>11, <2>12 DEF ModelInv, OutputsInv, Converting
<1> QED
  BY <1>1, <1>1a, <1>3, <1>4

(* The samples of an output that was checked are among the expected ones:  *)
(* a union that is not larger has nothing more.                            *)
LEMMA CheckedSamples ==
  ASSUME NEW samples \in SUBSET (Atoms \union {"system"}), NEW request, NEW atoms_,
         _validate_atomic_samples(samples, Expected(request, atoms_))
  PROVE  samples \subseteq (IF request.per_atom THEN Selected(atoms_) ELSE {"system"})
<1> DEFINE E == Expected(request, atoms_)
<1>1. E \subseteq (IF request.per_atom THEN Selected(atoms_) ELSE {"system"})
  BY DEF Expected
<1>2. E \subseteq Atoms \union {"system"}
  BY DEF Expected, Selected
<1> HIDE DEF E
<1>3. IsFiniteSet(Atoms \union {"system"})
  BY AtomsAssumption, FS_AddElement
<1>4. E \union samples \in SUBSET (Atoms \union {"system"})
  BY <1>2
<1>5. IsFiniteSet(E \union samples)
  BY <1>3, <1>4, FS_Subset
<1>6. E \in SUBSET (E \union samples) /\ Cardinality(E \union samples) = Cardinality(E)
  BY DEF _validate_atomic_samples, E
<1>7. E \union samples = E
  BY <1>5, <1>6, FS_Subset
<1> QED
  BY <1>1, <1>7

LEMMA MadeIsTyped ==
  ASSUME NEW name, NEW samples \in SUBSET (Atoms \union {"system"}), NEW with_gradient \in BOOLEAN, call.seen.scale \in Int
  PROVE  /\ Made(name, samples, with_gradient) \in MapRecords
         /\ name \in DOMAIN Declared /\ Known(Declared[name].unit) =>
               Made(name, samples, with_gradient).values = EnergyScale[Declared[name].unit]
<1> DEFINE energy == IF name \in DOMAIN Declared /\ Declared[name].unit # "" THEN EnergyScale[Declared[name].unit] ELSE 0
           gradients_ == IF with_gradient THEN <<energy, - call.seen.scale>> ELSE <<>>
<1>1. energy \in Int
  <2>1. CASE name \in DOMAIN Declared /\ Declared[name].unit # ""
    <3>1. EnergyScale[Declared[name].unit] \in Int
      BY <2>1, UnitsAssumption
    <3> QED
      BY <2>1, <3>1
  <2>2. CASE ~ (name \in DOMAIN Declared /\ Declared[name].unit # "")
    <3>1. energy = 0
      BY <2>2, Zenon
    <3> HIDE DEF energy
    <3> QED
      BY <3>1
  <2> QED
    BY <2>1, <2>2
<1> HIDE DEF energy
<1>2. gradients_ \in {<<>>} \union (Int \X Int)
  BY <1>1
<1>3. Made(name, samples, with_gradient) = [made |-> TRUE, samples |-> samples, values |-> energy, positions |-> gradients_]
  BY DEF Made, energy
<1> HIDE DEF gradients_
<1>4. Made(name, samples, with_gradient) \in MapRecords /\ Made(name, samples, with_gradient).values = energy
  BY <1>1, <1>2, <1>3 DEF MapRecords
<1> QED
  BY <1>4 DEF energy, Known

LEMMA MapsAreNotNoMap == NoMap \notin MapRecords
<1>1. NoMap.made = FALSE
  BY DEF NoMap
<1> QED
  BY <1>1 DEF MapRecords

(* What the module returns: every output is a map, in the units that the   *)
(* model declared unless it was there before.                              *)
LEMMA ModuleMakesMaps ==
  ASSUME MapsInv, call.seen.scale \in Int,
         NEW names, NEW outputs \in [names -> Maps], NEW samples \in SUBSET (Atoms \union {"system"}), NEW with_gradient \in BOOLEAN,
         Shares \/ IsInjective(outputs),
         NEW made,
         made = [k \in Maps |-> IF k \in {m \in Maps : Shares /\ maps[m] # NoMap} THEN maps[k]
                                ELSE IF k \in Range(outputs)
                                     THEN Made(CHOOSE n \in names : outputs[n] = k, samples, with_gradient)
                                     ELSE NoMap]
  PROVE  /\ made \in [Maps -> MapRecords \union {NoMap}]
         /\ \A name \in names : made[outputs[name]] \in MapRecords
         /\ ~Shares => \A name \in names : name \in DOMAIN Declared /\ Known(Declared[name].unit) =>
                          made[outputs[name]].values = EnergyScale[Declared[name].unit]
<1>1. \A n : Made(n, samples, with_gradient) \in MapRecords
  BY MadeIsTyped
<1>2. \A k \in Maps : maps[k] \in MapRecords \union {NoMap}
  BY DEF MapsInv
<1>3. \A k \in Maps : made[k] \in MapRecords \union {NoMap}
  BY <1>1, <1>2
<1>4. made \in [Maps -> MapRecords \union {NoMap}]
  BY <1>3
<1>5. \A name \in names : outputs[name] \in Maps /\ outputs[name] \in Range(outputs)
  BY DEF Range
<1>6. \A name \in names : made[outputs[name]] \in MapRecords
  BY <1>1, <1>2, <1>5
<1>7. ASSUME ~Shares, NEW name \in names, name \in DOMAIN Declared, Known(Declared[name].unit)
      PROVE  made[outputs[name]].values = EnergyScale[Declared[name].unit]
  <2>1. made[outputs[name]] = Made(CHOOSE n \in names : outputs[n] = outputs[name], samples, with_gradient)
    BY <1>5, <1>7
  <2>2. \A n \in names : outputs[n] = outputs[name] => n = name
    BY <1>7 DEF IsInjective
  <2>3. (CHOOSE n \in names : outputs[n] = outputs[name]) = name
    BY <2>2
  <2>4. made[outputs[name]] = Made(name, samples, with_gradient)
    BY <2>1, <2>3
  <2>5. Made(name, samples, with_gradient).values = EnergyScale[Declared[name].unit]
    BY <1>7, MadeIsTyped
  <2> QED
    BY <2>4, <2>5
<1> QED
  BY <1>4, <1>6, <1>7

LEMMA ModuleKeepsInv == ModelInv /\ Module => ModelInv'
<1> SUFFICES ASSUME ModelInv, Module PROVE ModelInv'
  OBVIOUS
<1>1. /\ call.pc = "module" /\ call.check \in BOOLEAN /\ call.unit \in EngineUnits /\ call.outputs \in Requests
      /\ call.selected \in Selections /\ call.seen.scale \in Int
  BY DEF ModelInv, SeenInv, Module
<1>2. PICK names \in SUBSET (DOMAIN Declared \union DOMAIN call.outputs), wellformed \in BOOLEAN :
      \E outputs \in [names -> Maps], samples \in SUBSET (Atoms \union {"system"}), with_gradient \in IF Gradients THEN BOOLEAN ELSE {FALSE} :
        LET kept == {k \in Maps : Shares /\ maps[k] # NoMap}
            made == [k \in Maps |-> IF k \in kept THEN maps[k]
                                    ELSE IF k \in Range(outputs)
                                         THEN Made(CHOOSE n \in names : outputs[n] = k, samples, with_gradient)
                                         ELSE NoMap]
        IN /\ Shares \/ IsInjective(outputs)
           /\ IF call.check /\ ~ (wellformed /\ _check_outputs(outputs, made))
              THEN EndCall(made)
              ELSE /\ call' = [pc |-> "convert", check |-> call.check, unit |-> call.unit, outputs |-> call.outputs,
                               selected |-> call.selected, made |-> outputs, todo |-> names]
                   /\ maps' = made
           /\ UNCHANGED <<units, model, inputVars>>
  BY Zenon DEF Module
<1>3. PICK outputs \in [names -> Maps], samples \in SUBSET (Atoms \union {"system"}), with_gradient \in IF Gradients THEN BOOLEAN ELSE {FALSE} :
        LET made == [k \in Maps |-> IF k \in {m \in Maps : Shares /\ maps[m] # NoMap} THEN maps[k]
                                    ELSE IF k \in Range(outputs)
                                         THEN Made(CHOOSE n \in names : outputs[n] = k, samples, with_gradient)
                                         ELSE NoMap]
        IN /\ Shares \/ IsInjective(outputs)
           /\ IF call.check /\ ~ (wellformed /\ _check_outputs(outputs, made))
              THEN EndCall(made)
              ELSE /\ call' = [pc |-> "convert", check |-> call.check, unit |-> call.unit, outputs |-> call.outputs,
                               selected |-> call.selected, made |-> outputs, todo |-> names]
                   /\ maps' = made
           /\ UNCHANGED <<units, model, inputVars>>
  BY <1>2, Zenon
<1>4. with_gradient \in BOOLEAN
  OBVIOUS
<1> DEFINE made == [k \in Maps |-> IF k \in {m \in Maps : Shares /\ maps[m] # NoMap} THEN maps[k]
                                   ELSE IF k \in Range(outputs)
                                        THEN Made(CHOOSE n \in names : outputs[n] = k, samples, with_gradient)
                                        ELSE NoMap]
<1>5. /\ made \in [Maps -> MapRecords \union {NoMap}]
      /\ \A name \in names : made[outputs[name]] \in MapRecords
      /\ ~Shares => \A name \in names : name \in DOMAIN Declared /\ Known(Declared[name].unit) =>
                       made[outputs[name]].values = EnergyScale[Declared[name].unit]
  BY <1>1, <1>3, <1>4, ModuleMakesMaps DEF ModelInv
<1>6. /\ Shares \/ IsInjective(outputs)
      /\ IF call.check /\ ~ (wellformed /\ _check_outputs(outputs, made))
         THEN EndCall(made)
         ELSE /\ call' = [pc |-> "convert", check |-> call.check, unit |-> call.unit, outputs |-> call.outputs,
                          selected |-> call.selected, made |-> outputs, todo |-> names]
              /\ maps' = made
      /\ UNCHANGED <<units, model, inputVars>>
  BY <1>3, Zenon
<1> HIDE DEF made
<1>7. UNCHANGED <<units, model, inputs>>
  BY <1>6 DEF inputVars
<1>8. CASE EndCall(made)
  BY <1>5, <1>7, <1>8, EndCallKeepsInv
<1>9. CASE /\ call.check => _check_outputs(outputs, made)
           /\ call' = [pc |-> "convert", check |-> call.check, unit |-> call.unit, outputs |-> call.outputs,
                       selected |-> call.selected, made |-> outputs, todo |-> names]
           /\ maps' = made
  <2>1. /\ call'.pc = "convert" /\ call'.check = call.check /\ call'.outputs = call.outputs
        /\ call'.selected = call.selected /\ call'.made = outputs /\ call'.todo = names
    BY <1>9
  <2>2. names \in SUBSET OutputNames /\ outputs \in Outputs /\ DOMAIN outputs = names
    BY <1>1 DEF OutputNames, Outputs
  <2>3. call' \in [pc : {"convert", "returned"}, check : BOOLEAN, unit : EngineUnits, outputs : Requests,
                   selected : Selections, made : Outputs, todo : SUBSET OutputNames]
    BY <1>1, <1>9, <2>2
  <2>4. ASSUME call.check, "energy" \in names
        PROVE  made[outputs["energy"]].samples \subseteq
                   (IF call.outputs["energy"].per_atom THEN Selected(call.selected) ELSE {"system"})
    <3>1. _validate_atomic_samples(made[outputs["energy"]].samples, Expected(call.outputs["energy"], call.selected))
      BY <1>9, <2>2, <2>4 DEF _check_outputs
    <3>2. made[outputs["energy"]].samples \in SUBSET (Atoms \union {"system"})
      BY <1>5, <2>4 DEF MapRecords
    <3> QED
      BY <3>1, <3>2, CheckedSamples
  <2>5. EnergySelected'
    BY <1>9, <2>1, <2>2, <2>4 DEF EnergySelected, Selected
  <2>6. ~Shares => \A m, n \in names : outputs[m] = outputs[n] => m = n
    BY <1>6, <2>2 DEF IsInjective
  <2>7. ~Shares => \A name \in names : InModelUnits(name)'
    BY <1>5, <1>9, <2>1 DEF InModelUnits, Known
  <2>8. OutputsInv'
    BY <1>5, <1>9, <2>1, <2>2, <2>3, <2>5, <2>6, <2>7 DEF OutputsInv
  <2>9. RequestsInv' /\ InputsInv' /\ MapsInv'
    BY <1>5, <1>7, <1>9, <2>1 DEF ModelInv, RequestsInv, RequestsOK, InputsInv, MapsInv
  <2> QED
    BY <2>1, <2>8, <2>9 DEF ModelInv, SeenInv
<1> QED
  BY <1>6, <1>8, <1>9

(* A conversion changes the numbers of an output, and not its samples.     *)
LEMMA ConvertedOutput ==
  ASSUME NEW map \in MapRecords, NEW conversion \in Int
  PROVE  /\ convert_output(map, conversion) \in MapRecords
         /\ convert_output(map, conversion).samples = map.samples
         /\ convert_output(map, conversion).values = map.values + conversion
<1> DEFINE gradients_ == IF map.positions = <<>> THEN map.positions ELSE <<map.positions[1] + conversion, map.positions[2]>>
<1>1. convert_output(map, conversion) = [map EXCEPT !.values = map.values + conversion, !.positions = gradients_]
  BY DEF convert_output, MapRecords
<1>2. gradients_ \in {<<>>} \union (Int \X Int)
  <2>1. map.positions \in {<<>>} \union (Int \X Int)
    BY DEF MapRecords
  <2> QED
    BY <2>1
<1>3. map.values + conversion \in Int
  BY DEF MapRecords
<1> HIDE DEF gradients_
<1>4. PICK v \in Int : v = map.values + conversion
  BY <1>3
<1>5. convert_output(map, conversion) = [map EXCEPT !.values = v, !.positions = gradients_]
  BY <1>1, <1>4
<1> QED
  BY <1>2, <1>4, <1>5 DEF MapRecords

LEMMA EnergyFactor ==
  ASSUME NEW outputs \in Requests, NEW name \in DOMAIN Declared \intersect DOMAIN outputs
  PROVE  LET factor == unit_conversion_factor(EnergyScale, Declared[name].unit, outputs[name].unit)
         IN  /\ factor \in Int
             /\ Known(Declared[name].unit) /\ Known(outputs[name].unit) =>
                   /\ EnergyScale[Declared[name].unit] \in Int /\ EnergyScale[outputs[name].unit] \in Int
                   /\ factor = EnergyScale[outputs[name].unit] - EnergyScale[Declared[name].unit]
<1>1. PICK d, u : d = Declared[name].unit /\ u = outputs[name].unit
  OBVIOUS
<1>2. (d # "" => EnergyScale[d] \in Int) /\ (u # "" => EnergyScale[u] \in Int)
  BY <1>1, UnitsAssumption
<1>3. CASE d = "" \/ u = ""
  <2>1. unit_conversion_factor(EnergyScale, d, u) = 0
    BY <1>3 DEF unit_conversion_factor
  <2>2. ~ (Known(d) /\ Known(u))
    BY <1>3 DEF Known
  <2> QED
    BY <1>1, <2>1, <2>2
<1>4. CASE d # "" /\ u # ""
  <2>1. unit_conversion_factor(EnergyScale, d, u) = EnergyScale[u] - EnergyScale[d]
    BY <1>4 DEF unit_conversion_factor
  <2>2. EnergyScale[d] \in Int /\ EnergyScale[u] \in Int
    BY <1>2, <1>4
  <2> QED
    BY <1>1, <2>1, <2>2
<1> QED
  BY <1>3, <1>4

LEMMA ConvertKeepsInv == ModelInv /\ Convert => ModelInv'
<1> SUFFICES ASSUME ModelInv, Convert PROVE ModelInv'
  OBVIOUS
<1>1. PICK name \in call.todo :
        LET declared == Declared[name]
            requested == call.outputs[name]
            known == "" \notin {declared.quantity, requested.quantity}
            conversion == unit_conversion_factor(EnergyScale, declared.unit, requested.unit)
        IN IF name \notin (DOMAIN Declared \intersect DOMAIN call.outputs) \/ (known /\ declared.quantity # requested.quantity)
           THEN EndCall(maps)
           ELSE /\ maps' = IF known THEN [maps EXCEPT ![call.made[name]] = convert_output(@, conversion)] ELSE maps
                /\ call' = [call EXCEPT !.todo = @ \ {name}]
  BY Zenon DEF Convert
<1> DEFINE known == "" \notin {Declared[name].quantity, call.outputs[name].quantity}
<1>2. call.pc = "convert" /\ UNCHANGED <<units, model, inputs>> /\ maps \in [Maps -> MapRecords \union {NoMap}]
  BY DEF Convert, inputVars, ModelInv, MapsInv
<1>3. CASE EndCall(maps)
  BY <1>2, <1>3, EndCallKeepsInv
<1>4. CASE /\ name \in DOMAIN Declared \intersect DOMAIN call.outputs
           /\ maps' = IF known
                      THEN [maps EXCEPT ![call.made[name]] =
                               convert_output(@, unit_conversion_factor(EnergyScale, Declared[name].unit, call.outputs[name].unit))]
                      ELSE maps
           /\ call' = [call EXCEPT !.todo = @ \ {name}]
  <2>1. PICK c, made, todo, asked, factor :
          /\ c = call /\ made = c.made /\ todo = c.todo /\ asked = c.outputs
          /\ factor = unit_conversion_factor(EnergyScale, Declared[name].unit, asked[name].unit)
    OBVIOUS
  <2>2. /\ call \in [pc : {"convert", "returned"}, check : BOOLEAN, unit : EngineUnits, outputs : Requests,
                     selected : Selections, made : Outputs, todo : SUBSET OutputNames]
        /\ call.todo \subseteq DOMAIN call.made
        /\ \A n \in DOMAIN call.made : maps[call.made[n]] \in MapRecords
        /\ EnergySelected
        /\ ~Shares =>
            /\ \A m, n \in DOMAIN call.made : call.made[m] = call.made[n] => m = n
            /\ \A n \in call.todo : InModelUnits(n)
            /\ \A n \in DOMAIN call.made \ call.todo : InEngineUnits(n)
    BY <1>2 DEF ModelInv, OutputsInv, Converting
  <2>3. /\ call' \in [pc : {"convert", "returned"}, check : BOOLEAN, unit : EngineUnits, outputs : Requests,
                      selected : Selections, made : Outputs, todo : SUBSET OutputNames]
        /\ call'.pc = "convert" /\ call'.check = c.check /\ call'.outputs = asked /\ call'.selected = c.selected
        /\ call'.made = made /\ call'.todo = todo \ {name}
    BY <1>2, <1>4, <2>1, <2>2
  <2>4. /\ asked \in Requests /\ name \in todo /\ todo \subseteq DOMAIN made
        /\ \A n \in DOMAIN made : made[n] \in Maps /\ maps[made[n]] \in MapRecords
    BY <2>1, <2>2 DEF Outputs
  <2>5. /\ factor \in Int
        /\ Known(Declared[name].unit) /\ Known(asked[name].unit) =>
              /\ EnergyScale[Declared[name].unit] \in Int /\ EnergyScale[asked[name].unit] \in Int
              /\ factor = EnergyScale[asked[name].unit] - EnergyScale[Declared[name].unit]
    BY <1>4, <2>1, <2>4, EnergyFactor
  <2>6. PICK old, new : old = maps[made[name]] /\ new = convert_output(old, factor)
    OBVIOUS
  <2>7. new \in MapRecords /\ new.samples = old.samples /\ new.values = old.values + factor
    BY <2>4, <2>5, <2>6, ConvertedOutput
  <2>8. maps' = IF known THEN [maps EXCEPT ![made[name]] = new] ELSE maps
    BY <1>4, <2>1, <2>6
  <2> HIDE DEF known
  <2>9. /\ maps' \in [Maps -> MapRecords \union {NoMap}]
        /\ \A k \in Maps : maps'[k] = IF known /\ k = made[name] THEN new ELSE maps[k]
    BY <1>2, <2>7, <2>8
  <2>10. \A n \in DOMAIN made : maps'[made[n]] \in MapRecords /\ maps'[made[n]].samples = maps[made[n]].samples
    BY <2>4, <2>6, <2>7, <2>9
  <2>11. EnergySelected'
    BY <2>1, <2>2, <2>3, <2>10 DEF EnergySelected, Selected
  <2>12. ASSUME ~Shares PROVE /\ \A n \in todo \ {name} : InModelUnits(n)'
                              /\ \A n \in DOMAIN made \ (todo \ {name}) : InEngineUnits(n)'
    <3>1. \A m, n \in DOMAIN made : made[m] = made[n] => m = n
      BY <2>1, <2>2, <2>12
    <3>2. \A n \in DOMAIN made \ {name} : maps'[made[n]] = maps[made[n]]
      BY <2>4, <2>9, <3>1
    <3>3. \A n \in todo \ {name} : InModelUnits(n)'
      <4> TAKE n \in todo \ {name}
      <4>1. InModelUnits(n) /\ maps'[made[n]] = maps[made[n]]
        BY <2>1, <2>2, <2>4, <2>12, <3>2
      <4> QED
        BY <2>1, <2>3, <4>1 DEF InModelUnits, Known
    <3>4. ASSUME NEW n \in DOMAIN made \ todo PROVE InEngineUnits(n)'
      <4>1. InEngineUnits(n) /\ maps'[made[n]] = maps[made[n]]
        BY <2>1, <2>2, <2>4, <2>12, <3>2
      <4> QED
        BY <2>1, <2>3, <4>1 DEF InEngineUnits, Known
    <3>5. InEngineUnits(name)'
      <4> SUFFICES ASSUME known, Known(Declared[name].unit), Known(asked[name].unit)
                   PROVE  maps'[made[name]].values = EnergyScale[asked[name].unit]
        BY <2>1, <2>3 DEF InEngineUnits, Known, known
      <4>1. InModelUnits(name) /\ name \in DOMAIN Declared
        BY <1>4, <2>1, <2>2, <2>4, <2>12
      <4>2. old.values = EnergyScale[Declared[name].unit]
        BY <2>1, <2>6, <4>1 DEF InModelUnits
      <4>3. maps'[made[name]] = new
        BY <2>4, <2>9
      <4> QED
        BY <2>5, <2>7, <4>2, <4>3
    <3> QED
      BY <3>3, <3>4, <3>5
  <2>13. OutputsInv'
    BY <2>3, <2>4, <2>10, <2>11, <2>12, <2>2, <2>1 DEF OutputsInv
  <2>14. RequestsInv' /\ InputsInv' /\ MapsInv'
    BY <1>2, <2>3, <2>9 DEF ModelInv, RequestsInv, RequestsOK, InputsInv, MapsInv
  <2> QED
    BY <2>3, <2>13, <2>14 DEF ModelInv, SeenInv
<1> QED
  BY <1>1, <1>3, <1>4

LEMMA ReturnKeepsInv == ModelInv /\ Return => ModelInv'
<1> SUFFICES ASSUME ModelInv, Return PROVE ModelInv'
  OBVIOUS
<1>1. call.pc = "convert" /\ call.todo = {} /\ call' = [call EXCEPT !.pc = "returned"] /\ UNCHANGED <<units, model, maps, inputs>>
  BY DEF Return, inputVars
<1>2. OutputsInv /\ Converting
  BY <1>1 DEF ModelInv, Converting
<1>3. /\ call' \in [pc : {"convert", "returned"}, check : BOOLEAN, unit : EngineUnits, outputs : Requests,
                    selected : Selections, made : Outputs, todo : SUBSET OutputNames]
      /\ call'.pc = "returned" /\ call'.check = call.check /\ call'.outputs = call.outputs /\ call'.selected = call.selected
      /\ call'.made = call.made /\ call'.todo = call.todo
  BY <1>1, <1>2 DEF OutputsInv
<1>4. EnergySelected'
  BY <1>1, <1>2, <1>3 DEF OutputsInv, EnergySelected, Selected
<1>5. \A n : (InModelUnits(n) => InModelUnits(n)') /\ (InEngineUnits(n) => InEngineUnits(n)')
  BY <1>1, <1>3 DEF InModelUnits, InEngineUnits, Known
<1>6. OutputsInv'
  BY <1>1, <1>2, <1>3, <1>4, <1>5 DEF OutputsInv
<1>7. RequestsInv' /\ InputsInv' /\ MapsInv'
  BY <1>1, <1>3 DEF ModelInv, RequestsInv, RequestsOK, InputsInv, MapsInv
<1> QED
  BY <1>3, <1>6, <1>7 DEF ModelInv, SeenInv

LEMMA DoneKeepsInv == ModelInv /\ Done => ModelInv'
  BY EndCallKeepsInv DEF Done, ModelInv, MapsInv, inputVars

-----------------------------------------------------------------------------
(* Every request is listed: its place in the list is the only one with     *)
(* these options.                                                          *)
LEMMA ListedOnce ==
  ASSUME NEW requested, NEW length_unit, RequestsOK(requested, Len(Modules), length_unit), NEW i \in DOMAIN Modules
  PROVE  Cardinality({k \in DOMAIN requested : Modules[requested[k]] = Modules[i]}) = 1
<1>1. i \in 1..Len(Modules)
  BY ModulesAssumption
<1>2. PICK k \in DOMAIN requested : Modules[requested[k]] = Modules[i]
  BY <1>1 DEF RequestsOK
<1>3. {l \in DOMAIN requested : Modules[requested[l]] = Modules[i]} = {k}
  BY <1>2 DEF RequestsOK
<1> QED
  BY <1>3, FS_Singleton

LEMMA ModelInvImpliesUnits == ModelInv => UnitsAreRight
<1> SUFFICES ASSUME ModelInv PROVE UnitsAreRight
  OBVIOUS
<1>1. ModuleSeesModelUnits /\ ListsAreFound
  BY DEF ModelInv, SeenInv, ModuleSeesModelUnits, ListsAreFound
<1>2. OnlySelectedAtoms
  BY DEF ModelInv, OutputsInv, Converting, EnergySelected, OnlySelectedAtoms
<1>3. RequestsAreListedOnce
  <2> SUFFICES ASSUME model.wrapped
               PROVE  /\ \A i \in DOMAIN Modules : Cardinality({k \in DOMAIN model.requested : Modules[model.requested[k]] = Modules[i]}) = 1
                      /\ \A k \in DOMAIN model.requested : units[model.requested[k]] = model.length_unit
    BY DEF RequestsAreListedOnce
  <2>1. RequestsOK(model.requested, Len(Modules), model.length_unit)
    BY WrappedModel DEF ModelInv
  <2>2. \A k \in DOMAIN model.requested : units[model.requested[k]] = model.length_unit
    BY <2>1 DEF RequestsOK
  <2>3. \A i \in DOMAIN Modules : Cardinality({k \in DOMAIN model.requested : Modules[model.requested[k]] = Modules[i]}) = 1
    BY <2>1, ListedOnce
  <2> QED
    BY <2>2, <2>3
<1>4. ASSUME ~Shares PROVE OutputsAreInEngineUnits
  <2> SUFFICES ASSUME call.pc = "returned", NEW name \in DOMAIN call.made PROVE InEngineUnits(name)
    BY DEF OutputsAreInEngineUnits, InEngineUnits
  <2> QED
    BY <1>4 DEF ModelInv, OutputsInv, Converting
<1> QED
  BY <1>1, <1>2, <1>3, <1>4 DEF UnitsAreRight

(* In every behaviour, for any modules, units, outputs and Systems, the    *)
(* module of a MetatensorAtomisticModel sees positions and lists in the    *)
(* units of the model, finds the lists that were requested, each listed    *)
(* once, and the engine gets the selected atoms only, in its own units if  *)
(* every output is a TensorMap of its own (model.py).                      *)
THEOREM UnitsAreAlwaysRight == ModelSpec => []UnitsAreRight
<1>1. ModelInit => ModelInv
  BY ModelInitInv
<1>2. ModelInv /\ [ModelNext]_atomisticVars => ModelInv'
  <2>1. ModelInv /\ ModelNext => ModelInv'
    BY EngineKeepsInv, WrapKeepsInv, RequestKeepsInv, WrappedKeepsInv, ForwardKeepsInv, ModuleKeepsInv,
       ConvertKeepsInv, ReturnKeepsInv, DoneKeepsInv DEF ModelNext
  <2>2. ASSUME ModelInv, UNCHANGED atomisticVars PROVE ModelInv'
    <3>1. UNCHANGED <<units, model, call, maps, inputs>>
      BY <2>2 DEF atomisticVars, modelVars, inputVars
    <3>2. InputsInv' /\ RequestsInv' /\ MapsInv'
      BY <2>2, <3>1 DEF ModelInv, InputsInv, RequestsInv, RequestsOK, MapsInv
    <3>3. SeenInv'
      BY <2>2, <3>1 DEF ModelInv, SeenInv, ModuleSeesModelUnits, ListsAreFound, Known
    <3>4. OutputsInv'
      BY <2>2, <3>1 DEF ModelInv, OutputsInv, Converting, EnergySelected, Selected, InModelUnits, InEngineUnits, Known
    <3> QED
      BY <2>2, <3>1, <3>2, <3>3, <3>4 DEF ModelInv
  <2> QED
    BY <2>1, <2>2
<1> QED
  BY <1>1, <1>2, ModelInvImpliesUnits, PTL DEF ModelSpec


-----------------------------------------------------------------------------
(* TensorBlock and TensorMap of metatensor-torch *)

(* What a block of metatensor-torch is: values, and arrays at paths that   *)
(* agree with them.                                                        *)
WholeBlock(b) == DOMAIN b \subseteq Seq(Parameters) /\ <<>> \in DOMAIN b /\ Agrees(b)

WholeBlocks(keys, blocks) ==
    /\ \E n \in Nat \ {0} : DOMAIN blocks = 1..n
    /\ \A i \in DOMAIN blocks : /\ WholeBlock(blocks[i])
                                /\ blocks[i][<<>>].device = keys
                                /\ blocks[i][<<>>].dtype = blocks[1][<<>>].dtype

WholeObject(x) ==
    \/ x = Unused
    \/ \E b, v : x = BlockObject(b, v) /\ WholeBlock(b)
    \/ \E keys, blocks : x = MapObject(keys, blocks) /\ WholeBlocks(keys, blocks)

ObjectsInv ==
    /\ objects = [o \in Objects |-> objects[o]]
    /\ \A o \in Objects : WholeObject(objects[o])

(* What an operation was given is in its result.                           *)
Kept(r) ==
    \/ r.op = "copy"
    \/ r.op \in {"to", "components"} /\ Flat(r.given)
    => NumbersOf(BlocksOf(r.result)) = NumbersOf(r.given)

LEMMA ObjectFields ==
    ASSUME NEW b, NEW v, NEW keys, NEW blocks
    PROVE  /\ BlockObject(b, v).kind = "block" /\ BlockObject(b, v).block = b
           /\ MapObject(keys, blocks).kind = "map"
           /\ MapObject(keys, blocks).keys = keys /\ MapObject(keys, blocks).blocks = blocks
           /\ Unused.kind = "unused"
           /\ BlocksOf(BlockObject(b, v)) = <<b>> /\ BlocksOf(MapObject(keys, blocks)) = blocks
BY DEF BlockObject, MapObject, Unused, BlocksOf

LEMMA BlocksAreWhole ==
    ASSUME ObjectsInv, NEW o \in Objects
    PROVE  /\ IsBlock(o) => /\ WholeBlock(objects[o].block)
                            /\ \E v : objects[o] = BlockObject(objects[o].block, v)
           /\ IsMap(o) => /\ WholeBlocks(objects[o].keys, objects[o].blocks)
                          /\ objects[o] = MapObject(objects[o].keys, objects[o].blocks)
<1>1. PICK x : x = objects[o]
    OBVIOUS
<1>2. WholeObject(x)
    BY <1>1 DEF ObjectsInv
<1>3. /\ x.kind = "block" => WholeBlock(x.block) /\ \E v : x = BlockObject(x.block, v)
      /\ x.kind = "map" => WholeBlocks(x.keys, x.blocks) /\ x = MapObject(x.keys, x.blocks)
    <2>1. CASE x = Unused
        BY <2>1, ObjectFields
    <2>2. CASE \E b, v : x = BlockObject(b, v) /\ WholeBlock(b)
        BY <2>2, ObjectFields
    <2>3. CASE \E keys, blocks : x = MapObject(keys, blocks) /\ WholeBlocks(keys, blocks)
        BY <2>3, ObjectFields
    <2> QED BY <1>2, <2>1, <2>2, <2>3 DEF WholeObject
<1> QED
    BY <1>1, <1>3 DEF IsBlock, IsMap

LEMMA ArrayFields ==
    ASSUME NEW n, NEW t, NEW d, NEW l
    PROVE  /\ Array(n, t, d, l).numbers = n /\ Array(n, t, d, l).dtype = t
           /\ Array(n, t, d, l).device = d /\ Array(n, t, d, l).labels = l
BY DEF Array

-----------------------------------------------------------------------------
(* What the operations return *)

LEMMA NewBlockIsWhole ==
    ASSUME NEW array, CanMakeBlock(array)
    PROVE  WholeBlock([path \in {<<>>} |-> array])
<1>1. <<>> \in Seq(Parameters)
    OBVIOUS
<1> QED
    BY <1>1 DEF WholeBlock, Agrees, CanMakeBlock

LEMMA WithGradientIsWhole ==
    ASSUME NEW b, WholeBlock(b), NEW g, WholeBlock(g), NEW p \in Parameters, CanAddGradient(b, p, g)
    PROVE  WholeBlock(WithGradient(b, p, g))
<1> DEFINE w == WithGradient(b, p, g)
<1>1. <<p>> \in Seq(Parameters) /\ <<p>> # <<>>
    OBVIOUS
<1>2. DOMAIN w = DOMAIN b \union {<<p>>} /\ \A path \in DOMAIN w : w[path] = IF path = <<p>> THEN g[<<>>] ELSE b[path]
    BY DEF WithGradient
<1> HIDE DEF w
<1>3. w[<<>>] = b[<<>>]
    BY <1>1, <1>2 DEF WholeBlock
<1>4. g[<<>>].labels = {g[<<>>].device}
    BY DEF WholeBlock, Agrees
<1>5. Agrees(w)
    BY <1>2, <1>3, <1>4 DEF WholeBlock, Agrees, CanAddGradient
<1> QED
    BY <1>1, <1>2, <1>5 DEF WholeBlock, w

LEMMA GradientIsWhole ==
    ASSUME NEW b, WholeBlock(b), NEW p \in parameters(b)
    PROVE  WholeBlock(GradientOf(b, p))
<1> DEFINE below == {path \in DOMAIN b : path # <<>> /\ path[1] = p}
           g == GradientOf(b, p)
<1>1. DOMAIN g = {Tail(q) : q \in below} /\ \A path \in DOMAIN g : g[path] = b[<<p>> \o path]
    BY DEF GradientOf
<1>2. p \in Parameters /\ <<p>> \in DOMAIN b
    BY DEF parameters
<1>3. ASSUME NEW q \in below PROVE q \in Seq(Parameters) /\ Tail(q) \in Seq(Parameters) /\ <<p>> \o Tail(q) = q
    <2>1. q \in Seq(Parameters) /\ q # <<>> /\ Head(q) = p
        BY DEF WholeBlock
    <2>2. Tail(q) \in Seq(Parameters) /\ <<Head(q)>> \o Tail(q) = q
        BY <2>1, HeadTailProperties, ConcatProperties
    <2> QED BY <2>1, <2>2
<1>4. Tail(<<p>>) = <<>> /\ <<p>> \in below
    BY <1>2
<1> HIDE DEF g
<1>5. <<>> \in DOMAIN g /\ DOMAIN g \subseteq Seq(Parameters)
    <2> HIDE DEF below
    <2> QED BY <1>1, <1>3, <1>4
<1>6. ASSUME NEW path \in DOMAIN g PROVE \E q \in DOMAIN b : g[path] = b[q]
    <2>1. PICK q \in below : path = Tail(q)
        BY <1>1
    <2>2. g[path] = b[q]
        BY <1>1, <1>3, <2>1
    <2> QED BY <2>2
<1>7. ASSUME NEW q \in DOMAIN b
      PROVE  b[q].device = b[<<>>].device /\ b[q].dtype = b[<<>>].dtype /\ b[q].labels = {b[<<>>].device}
    BY DEF WholeBlock, Agrees
<1>8. Agrees(g)
    <2>1. ASSUME NEW path \in DOMAIN g
          PROVE  g[path].device = b[<<>>].device /\ g[path].dtype = b[<<>>].dtype /\ g[path].labels = {b[<<>>].device}
        BY <1>6, <1>7
    <2> QED BY <2>1, <1>5 DEF Agrees
<1> QED
    BY <1>5, <1>8 DEF WholeBlock, g

(* to returns a whole block, of any block whose arrays are of one type. *)
LEMMA ConvertedIsWhole ==
    ASSUME NEW b, DOMAIN b \subseteq Seq(Parameters), <<>> \in DOMAIN b,
           NEW dtype, NEW device, CanConvert(b, dtype)
    PROVE  /\ WholeBlock(BlockTo(b, dtype, device))
           /\ BlockTo(b, dtype, device)[<<>>].device = device
<1> DEFINE c == BlockTo(b, dtype, device)
<1>1. DOMAIN c = {q \in DOMAIN b : Len(q) <= 1}
    BY DEF BlockTo
<1>2. Len(<<>>) = 0
    OBVIOUS
<1>3. <<>> \in DOMAIN c /\ DOMAIN c \subseteq Seq(Parameters)
    BY <1>1, <1>2
<1>4. ASSUME NEW path \in DOMAIN c
      PROVE  /\ c[path].dtype = IF dtype = "same" THEN b[path].dtype ELSE dtype
             /\ c[path].device = device /\ c[path].labels = {device} /\ path \in DOMAIN b
    BY <1>1, ArrayFields DEF BlockTo
<1> HIDE DEF c
<1>5. \A path \in DOMAIN c : c[path].dtype = c[<<>>].dtype
    BY <1>3, <1>4 DEF CanConvert
<1>6. Agrees(c)
    BY <1>3, <1>4, <1>5 DEF Agrees
<1> QED
    BY <1>3, <1>4, <1>6 DEF WholeBlock, c

(* ... and it keeps all numbers but those of gradients of gradients. *)
LEMMA ConvertedIsKept ==
    ASSUME NEW b, DOMAIN b \subseteq Seq(Parameters), ~ Nested(b), NEW dtype, NEW device
    PROVE  [path \in DOMAIN BlockTo(b, dtype, device) |-> BlockTo(b, dtype, device)[path].numbers]
             = [path \in DOMAIN b |-> b[path].numbers]
<1> DEFINE c == BlockTo(b, dtype, device)
<1>1. DOMAIN c = {q \in DOMAIN b : Len(q) <= 1}
    BY DEF BlockTo
<1>2. \A q \in DOMAIN b : Len(q) \in Nat /\ ~ (Len(q) > 1)
    BY DEF Nested
<1>3. DOMAIN c = DOMAIN b
    <2>1. \A q \in DOMAIN b : Len(q) <= 1
        BY <1>2
    <2> QED BY <1>1, <2>1
<1>4. \A path \in DOMAIN b : c[path].numbers = b[path].numbers
    BY <1>1, <1>3, ArrayFields DEF BlockTo
<1> QED
    BY <1>3, <1>4

LEMMA MapToFields ==
    ASSUME NEW blocks, NEW dtype, NEW device
    PROVE  /\ DOMAIN MapTo(blocks, dtype, device) = DOMAIN blocks
           /\ \A i \in DOMAIN blocks : MapTo(blocks, dtype, device)[i] = BlockTo(blocks[i], dtype, device)
BY DEF MapTo

(* Blocks that have values and gradients, wherever these are. *)
ArePaths(blocks) ==
    /\ \E n \in Nat \ {0} : DOMAIN blocks = 1..n
    /\ \A i \in DOMAIN blocks : DOMAIN blocks[i] \subseteq Seq(Parameters) /\ <<>> \in DOMAIN blocks[i]

LEMMA MapToIsWhole ==
    ASSUME NEW blocks, ArePaths(blocks), NEW dtype, NEW device,
           \A i \in DOMAIN blocks : CanConvert(blocks[i], dtype),
           CanMakeMap(device, MapTo(blocks, dtype, device))
    PROVE  WholeBlocks(device, MapTo(blocks, dtype, device))
<1> DEFINE m == MapTo(blocks, dtype, device)
<1>1. DOMAIN m = DOMAIN blocks /\ \A i \in DOMAIN m : m[i] = BlockTo(blocks[i], dtype, device)
    BY MapToFields
<1>2. ASSUME NEW i \in DOMAIN m PROVE WholeBlock(m[i]) /\ m[i][<<>>].device = device
    BY <1>1, ConvertedIsWhole DEF ArePaths
<1>3. \A i \in DOMAIN m : m[i][<<>>].dtype = m[1][<<>>].dtype
    BY DEF CanMakeMap
<1>4. \E n \in Nat \ {0} : DOMAIN m = 1..n
    BY <1>1 DEF ArePaths
<1> HIDE DEF m
<1> QED
    BY <1>2, <1>3, <1>4 DEF WholeBlocks, m

LEMMA MapToKeeps ==
    ASSUME NEW blocks, ArePaths(blocks), Flat(blocks), NEW dtype, NEW device
    PROVE  NumbersOf(MapTo(blocks, dtype, device)) = NumbersOf(blocks)
<1> DEFINE m == MapTo(blocks, dtype, device)
           Of(b) == [path \in DOMAIN b |-> b[path].numbers]
<1>1. DOMAIN m = DOMAIN blocks /\ \A i \in DOMAIN blocks : m[i] = BlockTo(blocks[i], dtype, device)
    BY MapToFields
<1>2. ASSUME NEW i \in DOMAIN blocks PROVE Of(m[i]) = Of(blocks[i])
    <2>1. m[i] = BlockTo(blocks[i], dtype, device) /\ ~ Nested(blocks[i]) /\ DOMAIN blocks[i] \subseteq Seq(Parameters)
        BY <1>1 DEF ArePaths, Flat
    <2>2. Of(BlockTo(blocks[i], dtype, device)) = Of(blocks[i])
        BY <2>1, ConvertedIsKept
    <2> HIDE DEF Of
    <2> QED BY <2>1, <2>2
<1>3. NumbersOf(m) = [i \in DOMAIN m |-> Of(m[i])] /\ NumbersOf(blocks) = [i \in DOMAIN blocks |-> Of(blocks[i])]
    BY DEF NumbersOf
<1> HIDE DEF Of, m
<1>4. NumbersOf(m) = NumbersOf(blocks)
    BY <1>1, <1>2, <1>3
<1> QED
    BY <1>4 DEF m

LEMMA WholeArePaths ==
    ASSUME NEW keys, NEW blocks, WholeBlocks(keys, blocks)
    PROVE  ArePaths(blocks)
BY DEF WholeBlocks, WholeBlock, ArePaths

LEMMA MergedArePaths ==
    ASSUME NEW blocks, ArePaths(blocks)
    PROVE  ArePaths(<<Merged(blocks)>>)
<1> DEFINE m == Merged(blocks)
           s == <<m>>
<1>1. 1 \in DOMAIN blocks
    BY DEF ArePaths
<1>2. DOMAIN m = DOMAIN blocks[1]
    BY DEF Merged
<1>3. DOMAIN m \subseteq Seq(Parameters) /\ <<>> \in DOMAIN m
    BY <1>1, <1>2 DEF ArePaths
<1> HIDE DEF m
<1>4. DOMAIN s = 1..1 /\ \A i \in DOMAIN s : s[i] = m
    OBVIOUS
<1> HIDE DEF s
<1> QED
    BY <1>3, <1>4 DEF ArePaths, s, m

LEMMA ChangedArePaths ==
    ASSUME NEW blocks, ArePaths(blocks)
    PROVE  /\ ArePaths([i \in DOMAIN blocks |-> WithNewLabels(blocks[i])])
           /\ NumbersOf([i \in DOMAIN blocks |-> WithNewLabels(blocks[i])]) = NumbersOf(blocks)
           /\ Flat(blocks) => Flat([i \in DOMAIN blocks |-> WithNewLabels(blocks[i])])
<1> DEFINE c == [i \in DOMAIN blocks |-> WithNewLabels(blocks[i])]
           Of(b) == [path \in DOMAIN b |-> b[path].numbers]
<1>1. ASSUME NEW i \in DOMAIN blocks PROVE DOMAIN c[i] = DOMAIN blocks[i]
    BY DEF WithNewLabels
<1>2. ASSUME NEW i \in DOMAIN blocks PROVE Of(c[i]) = Of(blocks[i])
    <2>1. \A path \in DOMAIN blocks[i] : c[i][path].numbers = blocks[i][path].numbers
        BY ArrayFields DEF WithNewLabels
    <2> HIDE DEF c
    <2> QED BY <1>1, <2>1
<1>3. NumbersOf(c) = [i \in DOMAIN c |-> Of(c[i])] /\ NumbersOf(blocks) = [i \in DOMAIN blocks |-> Of(blocks[i])]
    BY DEF NumbersOf
<1>4. DOMAIN c = DOMAIN blocks
    OBVIOUS
<1> HIDE DEF c, Of
<1>5. NumbersOf(c) = NumbersOf(blocks)
    BY <1>2, <1>3, <1>4
<1>6. ArePaths(c)
    BY <1>1, <1>4 DEF ArePaths
<1>7. Flat(blocks) => Flat(c)
    BY <1>1, <1>4 DEF Flat, Nested
<1> QED
    BY <1>5, <1>6, <1>7 DEF c

LEMMA FilesAreWhole == ASSUME NEW b \in Files PROVE WholeBlock(b)
<1> DEFINE A == {Array({n}, Float64, CPU, {CPU}) : n \in Numbers}
<1>1. PICK T \in Trees : b \in [T -> A]
    BY DEF Files
<1>2. T \subseteq Paths /\ <<>> \in T
    BY DEF Trees
<1>3. Paths \subseteq Seq(Parameters)
    <2> SUFFICES ASSUME NEW n \in 0..LoadedDepth, NEW path \in [1..n -> Parameters] PROVE path \in Seq(Parameters)
        BY DEF Paths
    <2>1. n \in Nat
        OBVIOUS
    <2> QED BY <2>1, SeqDef
<1>4. ASSUME NEW a \in A PROVE a.device = CPU /\ a.dtype = Float64 /\ a.labels = {CPU}
    <2>1. PICK n \in Numbers : a = Array({n}, Float64, CPU, {CPU})
        OBVIOUS
    <2> HIDE DEF A
    <2> QED BY <2>1, ArrayFields
<1> HIDE DEF A
<1>5. ASSUME NEW path \in T PROVE b[path].device = CPU /\ b[path].dtype = Float64 /\ b[path].labels = {CPU}
    BY <1>1, <1>4
<1>6. DOMAIN b = T
    BY <1>1
<1>7. Agrees(b)
    <2>1. b[<<>>].device = CPU /\ b[<<>>].dtype = Float64
        BY <1>2, <1>5
    <2> QED BY <1>5, <1>6, <2>1 DEF Agrees
<1> QED
    BY <1>2, <1>3, <1>6, <1>7 DEF WholeBlock

-----------------------------------------------------------------------------
(* Every step keeps the objects whole *)

LEMMA NothingKept ==
    ASSUME NEW op, op \notin {"copy", "to", "components"}, NEW given, NEW result
    PROVE  Kept([op |-> op, given |-> given, result |-> result])
BY DEF Kept

LEMMA ReturnKeeps ==
    ASSUME ObjectsInv, NEW op, NEW given, NEW result, WholeObject(result),
           Kept([op |-> op, given |-> given, result |-> result]), ReturnObject(op, given, result)
    PROVE  ObjectsInv' /\ Kept(returned')
<1>1. PICK o \in Objects : /\ objects' = [objects EXCEPT ![o] = result]
                          /\ returned' = [op |-> op, given |-> given, result |-> result]
    BY DEF ReturnObject
<1>2. \A x \in Objects : objects'[x] = IF x = o THEN result ELSE objects[x]
    BY <1>1 DEF ObjectsInv
<1>3. ObjectsInv'
    <2>1. objects' = [x \in Objects |-> objects'[x]]
        BY <1>1 DEF ObjectsInv
    <2>2. \A x \in Objects : WholeObject(objects'[x])
        BY <1>2 DEF ObjectsInv
    <2> QED BY <2>1, <2>2 DEF ObjectsInv
<1> QED
    BY <1>1, <1>3

LEMMA BlockReturned ==
    ASSUME ObjectsInv, NEW op, op \notin {"copy", "to", "components"}, NEW given,
           NEW b, WholeBlock(b), NEW v, ReturnObject(op, given, BlockObject(b, v))
    PROVE  ObjectsInv' /\ Kept(returned')
<1>1. WholeObject(BlockObject(b, v))
    BY DEF WholeObject
<1> QED
    BY <1>1, NothingKept, ReturnKeeps

LEMMA MapReturned ==
    ASSUME ObjectsInv, NEW op, NEW given, NEW blocks, ArePaths(blocks), NEW dtype, NEW device,
           op \in {"to", "components"} /\ Flat(given) => Flat(blocks) /\ NumbersOf(given) = NumbersOf(blocks),
           op # "copy", ReturnMapTo(op, given, blocks, dtype, device)
    PROVE  ObjectsInv' /\ Kept(returned')
<1> DEFINE m == MapTo(blocks, dtype, device)
           r == [op |-> op, given |-> given, result |-> MapObject(device, m)]
<1>1. WholeBlocks(device, m) /\ ReturnObject(op, given, MapObject(device, m))
    BY MapToIsWhole DEF ReturnMapTo
<1>2. WholeObject(MapObject(device, m))
    BY <1>1 DEF WholeObject
<1>3. BlocksOf(r.result) = m /\ r.op = op /\ r.given = given
    BY ObjectFields
<1>4. Flat(blocks) => NumbersOf(m) = NumbersOf(blocks)
    BY MapToKeeps
<1> HIDE DEF m
<1>5. Kept(r)
    <2> HIDE DEF r
    <2> QED BY <1>3, <1>4 DEF Kept
<1> QED
    BY <1>1, <1>2, <1>5, ReturnKeeps

WholeInv == ObjectsInv /\ Kept(returned)

LEMMA InitWhole == BlocksInit => WholeInv
BY DEF BlocksInit, WholeInv, ObjectsInv, WholeObject, Kept, NoOperation

LEMMA NextWhole == WholeInv /\ [BlocksNext]_blockVars => WholeInv'
<1> SUFFICES ASSUME WholeInv, [BlocksNext]_blockVars PROVE ObjectsInv' /\ Kept(returned')
    BY DEF WholeInv, Kept, Flat, NumbersOf, BlocksOf, Nested
<1> ObjectsInv
    BY DEF WholeInv
<1>1. CASE TensorBlockHolder
    <2>1. PICK n \in Numbers, dtype \in BlockTypes, device \in BlockDevices, labels \in SUBSET BlockDevices :
              /\ CanMakeBlock(Array({n}, dtype, device, labels))
              /\ ReturnObject("new", <<>>, BlockObject([path \in {<<>>} |-> Array({n}, dtype, device, labels)], FALSE))
        BY <1>1 DEF TensorBlockHolder
    <2> DEFINE b == [path \in {<<>>} |-> Array({n}, dtype, device, labels)]
    <2>2. WholeBlock(b)
        BY <2>1, NewBlockIsWhole
    <2>3. ReturnObject("new", <<>>, BlockObject(b, FALSE))
        BY <2>1
    <2> HIDE DEF b
    <2> QED BY <2>2, <2>3, BlockReturned
<1>2. CASE add_gradient
    <2>1. PICK o \in Objects, g \in Objects, p \in Parameters :
              /\ IsBlock(o) /\ IsBlock(g)
              /\ CanAddGradient(objects[o].block, p, objects[g].block)
              /\ objects' = [objects EXCEPT ![o].block = WithGradient(@, p, objects[g].block)]
              /\ returned' = [op |-> "add_gradient", given |-> <<objects[o].block, p, objects[g].block>>,
                              result |-> objects'[o]]
        BY <1>2 DEF add_gradient
    <2>2. PICK b, v : objects[o] = BlockObject(b, v) /\ WholeBlock(b)
        BY <2>1, BlocksAreWhole
    <2>3. objects[o].block = b /\ WholeBlock(objects[g].block)
        BY <2>1, <2>2, BlocksAreWhole, ObjectFields
    <2> DEFINE w == WithGradient(b, p, objects[g].block)
    <2>4. WholeBlock(w)
        BY <2>1, <2>2, <2>3, WithGradientIsWhole
    <2>5. objects' = [objects EXCEPT ![o] = BlockObject(w, v)]
        <3>1. objects' = [objects EXCEPT ![o] = [objects[o] EXCEPT !.block = w]]
            BY <2>1, <2>3
        <3> HIDE DEF w
        <3>2. [BlockObject(b, v) EXCEPT !.block = w] = BlockObject(w, v)
            BY DEF BlockObject
        <3> QED BY <2>2, <3>1, <3>2
    <2>6. WholeObject(BlockObject(w, v))
        BY <2>4 DEF WholeObject
    <2> HIDE DEF w
    <2>7. ObjectsInv'
        <3>1. objects' = [x \in Objects |-> objects'[x]]
            BY <2>5 DEF ObjectsInv
        <3>2. \A x \in Objects : objects'[x] = IF x = o THEN BlockObject(w, v) ELSE objects[x]
            BY <2>5 DEF ObjectsInv
        <3>3. \A x \in Objects : WholeObject(objects'[x])
            BY <2>6, <3>2 DEF ObjectsInv
        <3> QED BY <3>1, <3>3 DEF ObjectsInv
    <2>8. Kept(returned')
        BY <2>1, NothingKept
    <2> QED BY <2>7, <2>8
<1>3. CASE gradient
    <2>1. PICK o \in Objects : IsBlock(o) /\ \E p \in parameters(objects[o].block) :
              ReturnObject("gradient", <<objects[o].block, p>>, BlockObject(GradientOf(objects[o].block, p), TRUE))
        BY <1>3 DEF gradient
    <2>2. PICK p \in parameters(objects[o].block) :
              ReturnObject("gradient", <<objects[o].block, p>>, BlockObject(GradientOf(objects[o].block, p), TRUE))
        BY <2>1
    <2>3. WholeBlock(GradientOf(objects[o].block, p))
        BY <2>1, BlocksAreWhole, GradientIsWhole
    <2> QED BY <2>2, <2>3, BlockReturned
<1>4. CASE to_block
    <2>1. PICK o \in Objects, dtype \in BlockTypes \union {"same"}, device \in BlockDevices :
              /\ IsBlock(o) /\ CanConvert(objects[o].block, dtype)
              /\ ReturnObject("to", <<objects[o].block>>, BlockObject(BlockTo(objects[o].block, dtype, device), FALSE))
        BY <1>4 DEF to_block
    <2>2. PICK b : b = objects[o].block
        OBVIOUS
    <2> DEFINE c == BlockTo(b, dtype, device)
               r == [op |-> "to", given |-> <<b>>, result |-> BlockObject(c, FALSE)]
               Of(x) == [path \in DOMAIN x |-> x[path].numbers]
    <2>3. WholeBlock(b) /\ DOMAIN b \subseteq Seq(Parameters) /\ <<>> \in DOMAIN b /\ CanConvert(b, dtype)
        BY <2>1, <2>2, BlocksAreWhole DEF WholeBlock
    <2>4. WholeBlock(c)
        BY <2>3, ConvertedIsWhole
    <2>5. WholeObject(BlockObject(c, FALSE))
        BY <2>4 DEF WholeObject
    <2>6. ~ Nested(b) => Of(c) = Of(b)
        BY <2>3, ConvertedIsKept
    <2>7. BlocksOf(r.result) = <<c>> /\ r.given = <<b>> /\ r.op = "to"
        BY ObjectFields
    <2> HIDE DEF c
    <2>8. /\ Flat(<<b>>) => ~ Nested(b)
          /\ NumbersOf(<<c>>) = <<Of(c)>> /\ NumbersOf(<<b>>) = <<Of(b)>>
        BY DEF Flat, NumbersOf
    <2> HIDE DEF Of
    <2>9. Kept(r)
        <3> HIDE DEF r
        <3> QED BY <2>6, <2>7, <2>8 DEF Kept
    <2>10. ReturnObject("to", <<b>>, BlockObject(c, FALSE))
        BY <2>1, <2>2 DEF c
    <2> QED BY <2>5, <2>9, <2>10, ReturnKeeps
<1>5. CASE copy_block
    <2>1. PICK o \in Objects :
              IsBlock(o) /\ ReturnObject("copy", <<objects[o].block>>, BlockObject(objects[o].block, FALSE))
        BY <1>5 DEF copy_block
    <2>2. PICK b : b = objects[o].block
        OBVIOUS
    <2>3. WholeObject(BlockObject(b, FALSE))
        BY <2>1, <2>2, BlocksAreWhole DEF WholeObject
    <2>4. Kept([op |-> "copy", given |-> <<b>>, result |-> BlockObject(b, FALSE)])
        BY ObjectFields DEF Kept
    <2> QED BY <2>1, <2>2, <2>3, <2>4, ReturnKeeps
<1>6. CASE load_block
    BY <1>6, FilesAreWhole, BlockReturned DEF load_block
<1>7. CASE TensorMapHolder
    <2>1. PICK keys \in BlockDevices, n \in 1..MaxBlocks :
              \E chosen \in [1..n -> {o \in Objects : IsBlock(o)}] :
                  LET blocks == [i \in 1..n |-> objects[chosen[i]].block]
                  IN CanMakeMap(keys, blocks) /\ ReturnObject("map", blocks, MapObject(keys, blocks))
        BY <1>7 DEF TensorMapHolder
    <2>2. PICK chosen \in [1..n -> {o \in Objects : IsBlock(o)}] :
                  LET blocks == [i \in 1..n |-> objects[chosen[i]].block]
                  IN CanMakeMap(keys, blocks) /\ ReturnObject("map", blocks, MapObject(keys, blocks))
        BY <2>1
    <2> DEFINE blocks == [i \in 1..n |-> objects[chosen[i]].block]
    <2>3. CanMakeMap(keys, blocks) /\ ReturnObject("map", blocks, MapObject(keys, blocks))
        BY <2>2
    <2>4. n \in Nat \ {0} /\ DOMAIN blocks = 1..n
        OBVIOUS
    <2>5. ASSUME NEW i \in DOMAIN blocks PROVE WholeBlock(blocks[i])
        BY BlocksAreWhole
    <2> HIDE DEF blocks
    <2>6. WholeBlocks(keys, blocks)
        BY <2>3, <2>4, <2>5 DEF WholeBlocks, CanMakeMap
    <2>7. WholeObject(MapObject(keys, blocks))
        BY <2>6 DEF WholeObject
    <2> QED BY <2>3, <2>7, NothingKept, ReturnKeeps
<1>8. CASE to_map
    <2>1. PICK o \in Objects, dtype \in BlockTypes \union {"same"}, device \in BlockDevices :
              IsMap(o) /\ ReturnMapTo("to", objects[o].blocks, objects[o].blocks, dtype, device)
        BY <1>8 DEF to_map
    <2>2. ArePaths(objects[o].blocks)
        BY <2>1, BlocksAreWhole, WholeArePaths
    <2> QED BY <2>1, <2>2, MapReturned
<1>9. CASE block_by_id
    <2>1. PICK o \in Objects : IsMap(o) /\ \E i \in DOMAIN objects[o].blocks :
              ReturnObject("block", <<>>, BlockObject(objects[o].blocks[i], TRUE))
        BY <1>9 DEF block_by_id
    <2>2. PICK i \in DOMAIN objects[o].blocks :
              ReturnObject("block", <<>>, BlockObject(objects[o].blocks[i], TRUE))
        BY <2>1
    <2>3. WholeBlock(objects[o].blocks[i])
        BY <2>1, BlocksAreWhole DEF WholeBlocks
    <2> QED BY <2>2, <2>3, BlockReturned
<1>10. CASE copy_map
    <2>1. PICK o \in Objects : IsMap(o) /\ ReturnObject("copy", objects[o].blocks, objects[o])
        BY <1>10 DEF copy_map
    <2>2. PICK x : x = objects[o]
        OBVIOUS
    <2>3. x = MapObject(x.keys, x.blocks) /\ WholeObject(x)
        BY <2>1, <2>2, BlocksAreWhole DEF ObjectsInv
    <2>4. BlocksOf(x) = x.blocks
        BY <2>3, ObjectFields
    <2>5. Kept([op |-> "copy", given |-> x.blocks, result |-> x])
        BY <2>4 DEF Kept
    <2> QED BY <2>1, <2>2, <2>3, <2>5, ReturnKeeps
<1>11. CASE move_keys
    <2>1. PICK o \in Objects :
              IsMap(o) /\ ReturnMapTo("move", objects[o].blocks, <<Merged(objects[o].blocks)>>, "same", objects[o].keys)
        BY <1>11 DEF move_keys
    <2>2. ArePaths(<<Merged(objects[o].blocks)>>)
        BY <2>1, BlocksAreWhole, WholeArePaths, MergedArePaths
    <2> QED BY <2>1, <2>2, MapReturned
<1>12. CASE components_to_properties
    <2>1. PICK o \in Objects :
              /\ IsMap(o)
              /\ ReturnMapTo("components", objects[o].blocks,
                             [i \in DOMAIN objects[o].blocks |-> WithNewLabels(objects[o].blocks[i])],
                             "same", objects[o].keys)
        BY <1>12 DEF components_to_properties
    <2>2. PICK blocks : blocks = objects[o].blocks
        OBVIOUS
    <2> DEFINE c == [i \in DOMAIN blocks |-> WithNewLabels(blocks[i])]
    <2>3. ArePaths(blocks)
        BY <2>1, <2>2, BlocksAreWhole, WholeArePaths
    <2>4. ArePaths(c) /\ NumbersOf(c) = NumbersOf(blocks) /\ (Flat(blocks) => Flat(c))
        BY <2>3, ChangedArePaths
    <2>5. ReturnMapTo("components", blocks, c, "same", objects[o].keys)
        BY <2>1, <2>2
    <2> HIDE DEF c
    <2> QED BY <2>4, <2>5, MapReturned
<1>13. CASE Forget
    <2>1. PICK o \in Objects : objects' = [objects EXCEPT ![o] = Unused] /\ returned' = NoOperation
        BY <1>13 DEF Forget
    <2>2. Kept(returned')
        BY <2>1 DEF Kept, NoOperation
    <2>3. objects' = [x \in Objects |-> objects'[x]]
        BY <2>1 DEF ObjectsInv
    <2>4. \A x \in Objects : WholeObject(objects'[x])
        BY <2>1 DEF ObjectsInv, WholeObject
    <2> QED BY <2>2, <2>3, <2>4 DEF ObjectsInv
<1>14. CASE UNCHANGED blockVars
    BY <1>14 DEF blockVars, WholeInv, ObjectsInv
<1> QED
    BY <1>1, <1>2, <1>3, <1>4, <1>5, <1>6, <1>7, <1>8, <1>9, <1>10, <1>11, <1>12, <1>13, <1>14 DEF BlocksNext

(* Blocks and tensor maps of metatensor-torch are on one device and of one *)
(* type at all depths, whatever was done to them and however many there    *)
(* are, and to, copy and components_to_properties lose nothing.            *)
THEOREM TorchBlocksStayWhole == BlocksSpec => []TorchBlocksAreWhole
<1>1. WholeInv => TorchBlocksAreWhole
    <2> SUFFICES ASSUME WholeInv PROVE DevicesAgree /\ NothingIsLost
        BY DEF TorchBlocksAreWhole
    <2>1. NothingIsLost
        BY DEF WholeInv, Kept, NothingIsLost
    <2>2. DOMAIN objects = Objects /\ ObjectsInv
        BY DEF WholeInv, ObjectsInv
    <2>3. ASSUME NEW o \in Objects
          PROVE  /\ IsBlock(o) => Agrees(objects[o].block)
                 /\ IsMap(o) => \A i \in DOMAIN objects[o].blocks :
                        /\ Agrees(objects[o].blocks[i])
                        /\ objects[o].blocks[i][<<>>].device = objects[o].keys
                        /\ objects[o].blocks[i][<<>>].dtype = objects[o].blocks[1][<<>>].dtype
        BY <2>2, BlocksAreWhole DEF WholeBlock, WholeBlocks
    <2> QED BY <2>1, <2>2, <2>3 DEF DevicesAgree
<1> QED
    BY <1>1, InitWhole, NextWhole, PTL DEF BlocksSpec

-----------------------------------------------------------------------------
(* Neighbors lists *)

(* Positions, cell and pairs are what their names say. *)
NTypeOK ==
    /\ positions \in [Atom -> Int]
    /\ cell \in [1..3 -> Int]
    /\ nl \subseteq Pair

(* Pairs are found from both ends, and no atom is paired with itself. *)
NlInv == \A p \in nl : Mirror(p) \in nl /\ ~ Trivial(p)

NInv == NTypeOK /\ NlInv /\ DistancesMatch

-----------------------------------------------------------------------------
(* Lemmas about sums over finite sets, by induction over their subsets *)

(* A set of subsets of a finite set has a smallest one: the least          *)
(* counterexample that the inductions below start from.                    *)
LEMMA SmallestSubset ==
    ASSUME NEW S, IsFiniteSet(S), NEW T \in SUBSET (SUBSET S), T # {}
    PROVE  \E x \in T : \A y \in T : ~ (y \subseteq x /\ y # x)
<1> DEFINE R == StrictSubsetOrdering(S)
<1>1. FiniteSubsetsOf(S) = SUBSET S
    BY FS_FiniteSubsetsOfFinite
<1>2. IsWellFoundedOn(R, SUBSET S)
    BY <1>1, FS_StrictSubsetOrderingWellFounded
<1>3. T \subseteq SUBSET S
    OBVIOUS
<1> HIDE DEF R
<1>4. \E x \in T : \A y \in T : ~ (<<y, x>> \in R)
    BY <1>2, <1>3, WFMin
<1> QED
    BY <1>4 DEF R, StrictSubsetOrdering

(* h has the sums of f over all the subsets of S, one element at a time.   *)
One(s) == CHOOSE x \in s : TRUE
PartialSums(f, S, h) ==
    h = [s \in SUBSET S |-> IF s = {} THEN 0 ELSE f[One(s)] + h[s \ {One(s)}]]

LEMMA OneIn == ASSUME NEW s, s # {} PROVE One(s) \in s
BY DEF One

(* What partial sums say of a single subset. *)
LEMMA PartialSum ==
    ASSUME NEW f, NEW S, NEW h, PartialSums(f, S, h), NEW s \in SUBSET S
    PROVE  /\ s = {} => h[s] = 0
           /\ s # {} => h[s] = f[One(s)] + h[s \ {One(s)}]
<1> DEFINE F(t) == IF t = {} THEN 0 ELSE f[One(t)] + h[t \ {One(t)}]
<1>1. h = [t \in SUBSET S |-> F(t)]
    BY DEF PartialSums
<1> HIDE DEF F
<1>2. h[s] = F(s)
    BY <1>1
<1> QED
    BY <1>2 DEF F

(* The partial sums of two sets agree on the subsets of both. *)
LEMMA PartialSumsAgree ==
    ASSUME NEW f, NEW S, NEW T, NEW g, NEW h, IsFiniteSet(S),
           PartialSums(f, S, g), PartialSums(f, T, h),
           NEW s \in SUBSET S, s \in SUBSET T
    PROVE  g[s] = h[s]
<1> DEFINE Bad == {t \in SUBSET S : t \subseteq T /\ g[t] # h[t]}
<1>1. SUFFICES ASSUME Bad # {} PROVE FALSE
    OBVIOUS
<1>2. Bad \in SUBSET (SUBSET S)
    OBVIOUS
<1>3. PICK t \in Bad : \A u \in Bad : ~ (u \subseteq t /\ u # t)
    <2> HIDE DEF Bad
    <2> QED BY <1>1, <1>2, SmallestSubset
<1>4. t \in SUBSET S /\ t \in SUBSET T /\ g[t] # h[t]
    OBVIOUS
<1>5. CASE t = {}
    <2>1. g[t] = 0 BY <1>4, <1>5, PartialSum
    <2>2. h[t] = 0 BY <1>4, <1>5, PartialSum
    <2> QED BY <2>1, <2>2, <1>4
<1>6. CASE t # {}
    <2> DEFINE u == t \ {One(t)}
    <2>1. u \subseteq t /\ u # t BY <1>6, OneIn
    <2>2. u \notin Bad BY <1>3, <2>1
    <2>3. g[u] = h[u] BY <1>4, <2>1, <2>2
    <2>4. g[t] = f[One(t)] + g[u] BY <1>4, <1>6, PartialSum
    <2>5. h[t] = f[One(t)] + h[u] BY <1>4, <1>6, PartialSum
    <2> QED BY <2>3, <2>4, <2>5, <1>4
<1> QED
    BY <1>5, <1>6

(* A finite set has partial sums. *)
LEMMA PartialSumsExist ==
    ASSUME NEW f, NEW S, IsFiniteSet(S)
    PROVE  \E h : PartialSums(f, S, h)
<1> DEFINE Bad == {t \in SUBSET S : ~ \E h : PartialSums(f, t, h)}
<1>1. SUFFICES ASSUME Bad # {} PROVE FALSE
    OBVIOUS
<1>2. Bad \in SUBSET (SUBSET S)
    OBVIOUS
<1>3. PICK U \in Bad : \A u \in Bad : ~ (u \subseteq U /\ u # U)
    <2> HIDE DEF Bad
    <2> QED BY <1>1, <1>2, SmallestSubset
<1>4. U \in SUBSET S /\ ~ \E h : PartialSums(f, U, h)
    OBVIOUS
<1> DEFINE G == [t \in SUBSET S |-> CHOOSE h : PartialSums(f, t, h)]
<1>5. ASSUME NEW t \in SUBSET U, t # U PROVE PartialSums(f, t, G[t])
    <2>1. t \notin Bad /\ t \in SUBSET S BY <1>3, <1>4, <1>5
    <2>2. \E h : PartialSums(f, t, h) BY <2>1
    <2>3. PartialSums(f, t, CHOOSE h : PartialSums(f, t, h)) BY <2>2
    <2> QED BY <2>1, <2>3
<1> HIDE DEF Bad, G
<1> DEFINE A(t) == IF t = {} THEN 0 ELSE f[One(t)] + G[t \ {One(t)}][t \ {One(t)}]
           H == [t \in SUBSET U |-> A(t)]
           B(t) == IF t = {} THEN 0 ELSE f[One(t)] + H[t \ {One(t)}]
<1>6. ASSUME NEW t \in SUBSET U, t # U PROVE G[t][t] = A(t)
    <2>1. t \in SUBSET t /\ PartialSums(f, t, G[t]) BY <1>5, <1>6
    <2>2. CASE t = {}
        BY <2>1, <2>2, PartialSum
    <2>3. CASE t # {}
        <3> DEFINE u == t \ {One(t)}
        <3>1. G[t][t] = f[One(t)] + G[t][u] BY <2>1, <2>3, PartialSum
        <3>2. u \in SUBSET U /\ u # U /\ u \in SUBSET t /\ u \in SUBSET u BY <1>6, <2>3, OneIn
        <3>3. PartialSums(f, u, G[u]) BY <3>2, <1>5
        <3>4. IsFiniteSet(t) BY <1>4, FS_Subset
        <3>5. G[t][u] = G[u][u] 
            <4> HIDE DEF u
            <4> QED BY <2>1, <3>2, <3>3, <3>4, PartialSumsAgree
        <3> QED BY <3>1, <3>5, <2>3
    <2> QED BY <2>2, <2>3
<1>7. ASSUME NEW t \in SUBSET U PROVE A(t) = B(t)
    <2>1. CASE t = {} BY <2>1
    <2>2. CASE t # {}
        <3> DEFINE u == t \ {One(t)}
        <3>1. u \in SUBSET U /\ u # U BY <1>7, <2>2, OneIn
        <3>2. G[u][u] = A(u) BY <3>1, <1>6
        <3> HIDE DEF A
        <3>3. H[u] = A(u) BY <3>1
        <3> HIDE DEF H
        <3>4. B(t) = f[One(t)] + A(u) BY <2>2, <3>3
        <3>5. A(t) = f[One(t)] + G[u][u] BY <2>2 DEF A
        <3> QED BY <3>2, <3>4, <3>5
    <2> QED BY <2>1, <2>2
<1>8. H = [t \in SUBSET U |-> B(t)]
    <2> HIDE DEF A, B
    <2> QED BY <1>7
<1>9. PartialSums(f, U, H)
    <2> HIDE DEF A, H
    <2> QED BY <1>8 DEF PartialSums
<1> QED
    BY <1>4, <1>9

(* The sum over a finite set, by its partial sums. *)
LEMMA SumIsPartialSum ==
    ASSUME NEW f, NEW S, IsFiniteSet(S), NEW h, PartialSums(f, S, h), NEW s \in SUBSET S
    PROVE  SumFunctionOnSet(f, s) = h[s]
<1> DEFINE g == CHOOSE k : PartialSums(f, s, k)
<1>1. SumFunctionOnSet(f, s) = g[s]
    BY DEF SumFunctionOnSet, FoldFunctionOnSet, MapThenFoldSet, PartialSums, One
<1>2. IsFiniteSet(s)
    BY FS_Subset
<1>3. PartialSums(f, s, g)
    BY <1>2, PartialSumsExist
<1> HIDE DEF g
<1>4. s \in SUBSET s
    OBVIOUS
<1> QED
    BY <1>1, <1>2, <1>3, <1>4, PartialSumsAgree

LEMMA SumOfNothing == ASSUME NEW f PROVE SumFunctionOnSet(f, {}) = 0
<1>1. IsFiniteSet({}) BY FS_EmptySet
<1>2. PICK h : PartialSums(f, {}, h) BY <1>1, PartialSumsExist
<1>3. {} \in SUBSET {} OBVIOUS
<1>4. h[{}] = 0 BY <1>2, <1>3, PartialSum
<1> QED BY <1>1, <1>2, <1>3, <1>4, SumIsPartialSum

LEMMA SumOfMore ==
    ASSUME NEW f, NEW S, IsFiniteSet(S), S # {}
    PROVE  SumFunctionOnSet(f, S) = f[One(S)] + SumFunctionOnSet(f, S \ {One(S)})
<1>2. PICK h : PartialSums(f, S, h) BY PartialSumsExist
<1>3. S \in SUBSET S /\ S \ {One(S)} \in SUBSET S OBVIOUS
<1>4. h[S] = f[One(S)] + h[S \ {One(S)}] BY <1>2, <1>3, PartialSum
<1>5. SumFunctionOnSet(f, S) = h[S] BY <1>2, <1>3, SumIsPartialSum
<1>6. SumFunctionOnSet(f, S \ {One(S)}) = h[S \ {One(S)}] BY <1>2, <1>3, SumIsPartialSum
<1> QED BY <1>4, <1>5, <1>6

(* A sum of integers is an integer. *)
LEMMA SumType ==
    ASSUME NEW f, NEW S, IsFiniteSet(S), \A x \in S : f[x] \in Int
    PROVE  SumFunctionOnSet(f, S) \in Int
<1> DEFINE Bad == {t \in SUBSET S : SumFunctionOnSet(f, t) \notin Int}
<1>1. SUFFICES ASSUME Bad # {} PROVE FALSE
    OBVIOUS
<1>2. Bad \in SUBSET (SUBSET S)
    OBVIOUS
<1>3. PICK t \in Bad : \A u \in Bad : ~ (u \subseteq t /\ u # t)
    <2> HIDE DEF Bad
    <2> QED BY <1>1, <1>2, SmallestSubset
<1>4. t \in SUBSET S /\ SumFunctionOnSet(f, t) \notin Int
    OBVIOUS
<1>5. t # {}
    BY <1>4, SumOfNothing
<1> DEFINE u == t \ {One(t)}
<1>6. u \subseteq t /\ u # t /\ One(t) \in S BY <1>4, <1>5, OneIn
<1>7. SumFunctionOnSet(f, u) \in Int BY <1>3, <1>4, <1>6
<1>8. IsFiniteSet(t) BY <1>4, FS_Subset
<1>9. SumFunctionOnSet(f, t) = f[One(t)] + SumFunctionOnSet(f, u) BY <1>5, <1>8, SumOfMore
<1> QED BY <1>4, <1>6, <1>7, <1>9

(* Any element may be the one that is added last. *)
LEMMA SumWithout ==
    ASSUME NEW f, NEW S, IsFiniteSet(S), \A x \in S : f[x] \in Int, NEW y \in S
    PROVE  SumFunctionOnSet(f, S) = f[y] + SumFunctionOnSet(f, S \ {y})
<1> DEFINE Sum(t) == SumFunctionOnSet(f, t)
           Bad == {t \in SUBSET S : \E x \in t : Sum(t) # f[x] + Sum(t \ {x})}
<1>1. SUFFICES ASSUME Bad # {} PROVE FALSE
    BY DEF Sum
<1>2. Bad \in SUBSET (SUBSET S)
    OBVIOUS
<1>3. PICK t \in Bad : \A u \in Bad : ~ (u \subseteq t /\ u # t)
    <2> HIDE DEF Bad
    <2> QED BY <1>1, <1>2, SmallestSubset
<1> HIDE DEF Sum
<1>4. PICK x \in t : t \in SUBSET S /\ Sum(t) # f[x] + Sum(t \ {x})
    OBVIOUS
<1>5. ASSUME NEW u \in SUBSET t, u # t, NEW v \in u PROVE Sum(u) = f[v] + Sum(u \ {v})
    BY <1>3, <1>4, <1>5
<1>6. ASSUME NEW u \in SUBSET S PROVE IsFiniteSet(u) /\ Sum(u) \in Int
    BY FS_Subset, SumType DEF Sum
<1> DEFINE z == One(t)
<1>7. z \in t /\ Sum(t) = f[z] + Sum(t \ {z})
    BY <1>4, <1>6, OneIn, SumOfMore DEF Sum
<1> HIDE DEF z, Bad
<1>8. z # x
    BY <1>4, <1>7
<1> DEFINE w == (t \ {z}) \ {x}
<1>9. w = (t \ {x}) \ {z} /\ w \in SUBSET S
    BY <1>4
<1>10. Sum(t \ {z}) = f[x] + Sum(w)
    BY <1>4, <1>5, <1>7, <1>8
<1>11. Sum(t \ {x}) = f[z] + Sum(w)
    BY <1>4, <1>5, <1>7, <1>8, <1>9
<1>12. Sum(w) \in Int /\ f[x] \in Int /\ f[z] \in Int
    BY <1>4, <1>6, <1>7, <1>9
<1> QED
    BY <1>4, <1>7, <1>10, <1>11, <1>12

LEMMA DifferencesAdd ==
    ASSUME NEW i \in Int, NEW j \in Int, NEW k \in Int, NEW l \in Int,
           NEW m \in Int, NEW n \in Int, NEW a \in Int, NEW b \in Int,
           i - j = k - l, m - n = a - b
    PROVE  (m + i) - (n + j) = (a + k) - (b + l)
OBVIOUS

(* Sums whose terms differ by those of g, which are added for the elements *)
(* of A and subtracted for those of B, differ by the sums of these.        *)
Part(g, x, A) == IF x \in A THEN g[x] ELSE 0
TermsDiffer(f, h, g, A, B, S) ==
    \A x \in S : /\ f[x] \in Int /\ h[x] \in Int /\ g[x] \in Int
                 /\ h[x] - f[x] = Part(g, x, A) - Part(g, x, B)

LEMMA SumDifference ==
    ASSUME NEW f, NEW h, NEW g, NEW A, NEW B, NEW S, IsFiniteSet(S),
           TermsDiffer(f, h, g, A, B, S)
    PROVE  SumFunctionOnSet(h, S) - SumFunctionOnSet(f, S)
             = SumFunctionOnSet(g, S \intersect A) - SumFunctionOnSet(g, S \intersect B)
<1> DEFINE Sum(k, t) == SumFunctionOnSet(k, t)
           Same(t) == Sum(h, t) - Sum(f, t) = Sum(g, t \intersect A) - Sum(g, t \intersect B)
           Bad == {t \in SUBSET S : ~ Same(t)}
<1>1. SUFFICES ASSUME Bad # {} PROVE FALSE
    <2>1. SUFFICES Same(S)
        BY Zenon DEF Sum, Same
    <2> HIDE DEF Same
    <2> QED OBVIOUS
<1>2. Bad \in SUBSET (SUBSET S)
    OBVIOUS
<1>3. PICK t \in Bad : \A u \in Bad : ~ (u \subseteq t /\ u # t)
    <2> HIDE DEF Bad
    <2> QED BY <1>1, <1>2, SmallestSubset
<1> HIDE DEF Sum
<1>4. t \in SUBSET S /\ Sum(h, t) - Sum(f, t) # Sum(g, t \intersect A) - Sum(g, t \intersect B)
    OBVIOUS
<1>5. ASSUME NEW u \in SUBSET S
      PROVE  /\ Sum(h, u) \in Int /\ Sum(f, u) \in Int /\ Sum(g, u) \in Int
             /\ \A y \in u : /\ Sum(h, u) = h[y] + Sum(h, u \ {y})
                             /\ Sum(f, u) = f[y] + Sum(f, u \ {y})
                             /\ Sum(g, u) = g[y] + Sum(g, u \ {y})
    <2>1. IsFiniteSet(u) /\ \A x \in u : h[x] \in Int /\ f[x] \in Int /\ g[x] \in Int
        BY FS_Subset DEF TermsDiffer
    <2>2. Sum(h, u) \in Int /\ \A y \in u : Sum(h, u) = h[y] + Sum(h, u \ {y})
        BY <2>1, SumType, SumWithout DEF Sum
    <2>3. Sum(f, u) \in Int /\ \A y \in u : Sum(f, u) = f[y] + Sum(f, u \ {y})
        BY <2>1, SumType, SumWithout DEF Sum
    <2>4. Sum(g, u) \in Int /\ \A y \in u : Sum(g, u) = g[y] + Sum(g, u \ {y})
        BY <2>1, SumType, SumWithout DEF Sum
    <2> QED
        BY <2>2, <2>3, <2>4
<1>6. t # {}
    <2>1. SUFFICES ASSUME t = {} PROVE FALSE
        OBVIOUS
    <2>2. Sum(h, t) = 0 /\ Sum(f, t) = 0 /\ Sum(g, t \intersect A) = 0 /\ Sum(g, t \intersect B) = 0
        BY <2>1, SumOfNothing DEF Sum
    <2> QED BY <1>4, <2>2
<1>7. PICK y \in t : y \in S
    BY <1>4, <1>6
<1> DEFINE u == t \ {y}
<1>8. u \in SUBSET S /\ u \subseteq t /\ u # t
    BY <1>4, <1>7
<1>9. Sum(h, u) - Sum(f, u) = Sum(g, u \intersect A) - Sum(g, u \intersect B)
    <2> HIDE DEF Same
    <2>1. Same(u)
        BY <1>3, <1>8
    <2> QED BY <2>1 DEF Same
<1>10. ASSUME NEW C
       PROVE  Sum(g, t \intersect C) = Part(g, y, C) + Sum(g, u \intersect C)
    <2>1. t \intersect C \in SUBSET S /\ u \intersect C \in SUBSET S
        BY <1>4
    <2>2. Sum(g, u \intersect C) \in Int
        BY <2>1, <1>5
    <2>3. CASE y \in C
        <3>1. y \in t \intersect C /\ (t \intersect C) \ {y} = u \intersect C
            BY <1>7, <2>3
        <3> QED BY <3>1, <2>1, <2>3, <1>5 DEF Part
    <2>4. CASE y \notin C
        <3>1. t \intersect C = u \intersect C
            BY <2>4
        <3>2. \A n \in Int : n = 0 + n
            OBVIOUS
        <3>3. Sum(g, u \intersect C) = 0 + Sum(g, u \intersect C)
            BY <2>2, <3>2
        <3> QED BY Zenon, <3>1, <3>3, <2>4 DEF Part
    <2> QED BY <2>3, <2>4
<1>11. Sum(h, t) = h[y] + Sum(h, u) /\ Sum(f, t) = f[y] + Sum(f, u)
    BY <1>4, <1>5, <1>7
<1> DEFINE a == Part(g, y, A)
           b == Part(g, y, B)
<1>12. a \in Int /\ b \in Int /\ h[y] \in Int /\ f[y] \in Int /\ h[y] - f[y] = a - b
    BY <1>7 DEF TermsDiffer, Part
<1>13. Sum(g, t \intersect A) = a + Sum(g, u \intersect A) /\ Sum(g, t \intersect B) = b + Sum(g, u \intersect B)
    BY <1>10
<1>14. /\ Sum(h, u) \in Int /\ Sum(f, u) \in Int
       /\ Sum(g, u \intersect A) \in Int /\ Sum(g, u \intersect B) \in Int
    BY <1>5, <1>8
<1>15. (h[y] + Sum(h, u)) - (f[y] + Sum(f, u)) = (a + Sum(g, u \intersect A)) - (b + Sum(g, u \intersect B))
    <2> HIDE DEF a, b, u, Bad
    <2> DEFINE i == Sum(h, u)
               j == Sum(f, u)
               k == Sum(g, u \intersect A)
               l == Sum(g, u \intersect B)
               m == h[y]
               n == f[y]
    <2>1. i - j = k - l /\ m - n = a - b
        BY <1>9, <1>12
    <2>2. i \in Int /\ j \in Int /\ k \in Int /\ l \in Int /\ m \in Int /\ n \in Int /\ a \in Int /\ b \in Int
        BY <1>12, <1>14
    <2> HIDE DEF i, j, k, l, m, n
    <2>3. (m + i) - (n + j) = (a + k) - (b + l)
        BY <2>1, <2>2, DifferencesAdd
    <2> QED BY <2>3 DEF i, j, k, l, m, n
<1> QED
    BY Zenon, <1>4, <1>11, <1>13, <1>15

-----------------------------------------------------------------------------
(* Lemmas about pairs and their mirror images *)

(* The opposite of the opposite shift is the shift. *)
LEMMA MinusMinus ==
    ASSUME NEW S \in [1..3 -> Int]
    PROVE  Minus(Minus(S)) = S /\ Minus(S) \in [1..3 -> Int]
BY DEF Minus

(* What a pair is made of. *)
LEMMA PairParts ==
    ASSUME NEW p \in Pair
    PROVE  /\ p.first \in Int /\ p.second \in Int
           /\ p.first \in Atom /\ p.second \in Atom
           /\ p.shift \in Shifts /\ p.shift \in [1..3 -> Int]
           /\ p = [first |-> p.first, second |-> p.second, shift |-> p.shift]
BY ShiftsAssumption DEF Pair, Atom

(* The mirror image of the mirror image is the pair. *)
LEMMA MirrorMirror ==
    ASSUME NEW p \in Pair
    PROVE  Mirror(p) \in Pair /\ Mirror(Mirror(p)) = p
<1>1. Minus(p.shift) \in Shifts
    BY PairParts, ShiftsAssumption
<1>2. Mirror(p) \in Pair
    BY <1>1, PairParts DEF Mirror, Pair
<1>3. Minus(Minus(p.shift)) = p.shift
    BY PairParts, MinusMinus
<1> QED
    BY <1>2, <1>3, PairParts DEF Mirror

(* One of a pair and its mirror image is rejected, and only one. *)
LEMMA OneOfTwo ==
    ASSUME NEW p \in Pair, ~ Trivial(p)
    PROVE  rejected(p) <=> ~ rejected(Mirror(p))
<1> DEFINE S == p.shift
<1>1. S \in [1..3 -> Int] /\ p.first \in Int /\ p.second \in Int
    BY PairParts
<1>2. S[1] \in Int /\ S[2] \in Int /\ S[3] \in Int
    BY <1>1
<1>3. /\ Mirror(p).first = p.second /\ Mirror(p).second = p.first
      /\ Mirror(p).shift[1] = - S[1] /\ Mirror(p).shift[2] = - S[2] /\ Mirror(p).shift[3] = - S[3]
    BY <1>1 DEF Mirror, Minus
<1>4. CASE p.first # p.second
    BY <1>1, <1>3, <1>4 DEF rejected
<1>5. CASE p.first = p.second
  <2>1. ~ (S[1] = 0 /\ S[2] = 0 /\ S[3] = 0)
    <3> SUFFICES ASSUME S[1] = 0, S[2] = 0, S[3] = 0 PROVE FALSE
        OBVIOUS
    <3>1. \A a \in 1..3 : S[a] = 0
        BY <1>1
    <3>2. S = [a \in 1..3 |-> 0]
        BY <1>1, <3>1
    <3> QED
        BY <1>5, <3>2 DEF Trivial
  <2> QED
      BY <1>1, <1>2, <1>3, <1>5, <2>1 DEF rejected
<1> QED
    BY <1>4, <1>5

(* The mirror image has the opposite distance. *)
LEMMA MirrorDistance ==
    ASSUME NEW p \in Pair, NEW pos \in [Atom -> Int], NEW vectors \in [1..3 -> Int]
    PROVE  Distance(Mirror(p), pos, vectors) = - Distance(p, pos, vectors)
<1> DEFINE S == p.shift
<1>1. S \in [1..3 -> Int] /\ p.first \in Atom /\ p.second \in Atom
    BY PairParts
<1>2. /\ S[1] \in Int /\ S[2] \in Int /\ S[3] \in Int
      /\ vectors[1] \in Int /\ vectors[2] \in Int /\ vectors[3] \in Int
      /\ pos[p.first] \in Int /\ pos[p.second] \in Int
    BY <1>1
<1>3. /\ Mirror(p).first = p.second /\ Mirror(p).second = p.first
      /\ Mirror(p).shift[1] = - S[1] /\ Mirror(p).shift[2] = - S[2] /\ Mirror(p).shift[3] = - S[3]
    BY <1>1 DEF Mirror, Minus
<1>4. \A x, y \in Int : (- x) * y = - (x * y) /\ x * y \in Int
    OBVIOUS
<1>5. /\ (- S[1]) * vectors[1] = - (S[1] * vectors[1]) /\ S[1] * vectors[1] \in Int
      /\ (- S[2]) * vectors[2] = - (S[2] * vectors[2]) /\ S[2] * vectors[2] \in Int
      /\ (- S[3]) * vectors[3] = - (S[3] * vectors[3]) /\ S[3] * vectors[3] \in Int
    BY <1>2, <1>4
<1> DEFINE a == S[1] * vectors[1]
           b == S[2] * vectors[2]
           c == S[3] * vectors[3]
<1>6. Distance(p, pos, vectors) = pos[p.second] - pos[p.first] + a + b + c
    BY DEF Distance
<1>7. Distance(Mirror(p), pos, vectors) = pos[p.first] - pos[p.second] + (- a) + (- b) + (- c)
    BY <1>3, <1>5 DEF Distance
<1> HIDE DEF a, b, c
<1>8. a \in Int /\ b \in Int /\ c \in Int
    BY <1>5 DEF a, b, c
<1> QED
    BY <1>2, <1>6, <1>7, <1>8

-----------------------------------------------------------------------------
(* A list of pairs that were found from both ends has each pair once. *)
LEMMA SelectedOnce ==
    ASSUME NTypeOK, NlInv
    PROVE  EachPairOnce
<1>1. ASSUME NEW p \in nl PROVE /\ p \in Pair /\ ~ Trivial(p) /\ Mirror(p) \in nl /\ Mirror(Mirror(p)) = p
                                /\ rejected(p) <=> ~ rejected(Mirror(p))
    BY MirrorMirror, OneOfTwo DEF NTypeOK, NlInv
<1>2. selected \intersect Mirrors(selected) = {}
  <2> SUFFICES ASSUME NEW p \in selected, p \in selected, Mirror(p) \in selected PROVE FALSE
      BY DEF Mirrors
  <2> QED
      BY <1>1 DEF selected
<1>3. selected \union Mirrors(selected) \subseteq nl
    BY <1>1 DEF selected, Mirrors
<1>4. nl \subseteq selected \union Mirrors(selected)
  <2> SUFFICES ASSUME NEW p \in nl, p \notin selected PROVE p \in Mirrors(selected)
      OBVIOUS
  <2>1. Mirror(p) \in selected /\ Mirror(Mirror(p)) = p
      BY <1>1 DEF selected
  <2> QED
      BY <2>1 DEF Mirrors
<1> QED
    BY <1>2, <1>3, <1>4 DEF EachPairOnce

(* The distances of a new list match its samples. *)
LEMMA NewDistances ==
    ASSUME NTypeOK, NlInv, NEW full \in BOOLEAN, NEW p \in Samples(full)
    PROVE  full_distance(p) = Distance(p, positions, cell)
<1>1. CASE p \in selected
    BY <1>1 DEF full_distance
<1>2. CASE p \notin selected
  <2>1. PICK q \in selected : p = Mirror(q)
      BY <1>2 DEF Samples, Mirrors
  <2>2. q \in Pair
      BY DEF selected, NTypeOK
  <2>3. Mirror(p) = q
      BY <2>1, <2>2, MirrorMirror
  <2>4. Distance(p, positions, cell) = - Distance(q, positions, cell)
      BY <2>1, <2>2, MirrorDistance DEF NTypeOK
  <2> QED
      BY <1>2, <2>3, <2>4 DEF full_distance
<1> QED
    BY <1>1, <1>2

(* The invariant holds at first, ... *)
LEMMA Initially == Init => NInv
BY ShiftsAssumption DEF Init, NInv, NTypeOK, NlInv, DistancesMatch, NoBlock

(* ... every step keeps it, ... *)
LEMMA NextKeeps == NInv /\ [Next]_vars => NInv'
<1> SUFFICES ASSUME NInv, [Next]_vars PROVE NInv'
    OBVIOUS
<1>1. CASE Move
    BY <1>1, ShiftsAssumption DEF Move, NInv, NTypeOK, NlInv, DistancesMatch, NoBlock
<1>2. CASE Find
  <2>1. PICK p \in Pair : ~ Trivial(p) /\ nl' = nl \union {p, Mirror(p)}
      BY <1>2 DEF Find
  <2>2. Mirror(p) \in Pair /\ Mirror(Mirror(p)) = p
      BY MirrorMirror
  <2>3. ~ Trivial(Mirror(p))
    <3>1. p.shift \in [1..3 -> Int]
        BY PairParts
    <3>2. Minus(p.shift) = [a \in 1..3 |-> 0] => p.shift = [a \in 1..3 |-> 0]
      <4> SUFFICES ASSUME Minus(p.shift) = [a \in 1..3 |-> 0] PROVE p.shift = [a \in 1..3 |-> 0]
          OBVIOUS
      <4>1. \A a \in 1..3 : Minus(p.shift)[a] = 0 /\ Minus(p.shift)[a] = - p.shift[a]
          BY <3>1 DEF Minus
      <4>2. \A a \in 1..3 : p.shift[a] = 0
          BY <3>1, <4>1
      <4> QED
          BY <3>1, <4>2
    <3> QED
        BY <2>1, <3>2 DEF Trivial, Mirror
  <2>4. NTypeOK'
      BY <1>2, <2>1, <2>2 DEF Find, NInv, NTypeOK
  <2>5. NlInv'
      BY <2>1, <2>2, <2>3 DEF NInv, NlInv
  <2>6. DistancesMatch'
      BY <1>2 DEF Find, NInv, DistancesMatch, Distance
  <2> QED
      BY <2>4, <2>5, <2>6 DEF NInv
<1>3. CASE _compute_ase_neighbors
  <2>1. NTypeOK' /\ NlInv'
      BY <1>3 DEF _compute_ase_neighbors, NInv, NTypeOK, NlInv
  <2>2. /\ full_list' \in BOOLEAN
        /\ block' = [p \in Samples(full_list') |-> full_distance(p)]
        /\ positions' = positions /\ cell' = cell
      BY <1>3 DEF _compute_ase_neighbors
  <2>3. \A p \in Samples(full_list') : full_distance(p) = Distance(p, positions, cell)
      BY <2>2, NewDistances DEF NInv
  <2>4. DistancesMatch'
      BY <2>2, <2>3 DEF DistancesMatch, Distance
  <2> QED
      BY <2>1, <2>4 DEF NInv
<1>4. CASE backward
    BY <1>4 DEF backward, NInv, NTypeOK, NlInv, DistancesMatch, Distance
<1>5. CASE UNCHANGED vars
    BY <1>5 DEF vars, NInv, NTypeOK, NlInv, DistancesMatch, Distance
<1> QED
    BY <1>1, <1>2, <1>3, <1>4, <1>5 DEF Next

(* ... and so it always holds. *)
LEMMA Invariant == Spec => []NInv
BY Initially, NextKeeps, PTL DEF Spec

(* Whatever ase finds, a half list of the calculator has every pair from   *)
(* exactly one end, and a full list from both ends.                        *)
THEOREM PairsAreKeptOnce == Spec => []EachPairOnce
<1>1. NInv => EachPairOnce
    BY SelectedOnce DEF NInv
<1> QED
    BY <1>1, Invariant, PTL

(* Every distance in a list of the calculator matches its sample, so that  *)
(* the check of register_autograd_neighbors does not fail.                 *)
THEOREM DistancesAreRight == Spec => []DistancesMatch
<1>1. NInv => DistancesMatch
    BY DEF NInv
<1> QED
    BY <1>1, Invariant, PTL

-----------------------------------------------------------------------------
(* The results of backward are those of the list that is there. *)
BackwardOf(g) ==
    [done |-> TRUE, upstream |-> g, positions |-> positions_grad(g), cell |-> cell_grad(g)]

GradientsInv ==
    /\ DOMAIN block \subseteq Pair /\ IsFiniteSet(nl) /\ IsFiniteSet(DOMAIN block)
    /\ block = NoBlock => gradients = NoGradients
    /\ \/ gradients = NoGradients
       \/ \E g \in [DOMAIN block -> Upstream] : gradients = BackwardOf(g)

LEMMA InitiallyGradients == Init => GradientsInv
BY FS_EmptySet DEF Init, GradientsInv, NoBlock

LEMMA NextKeepsGradients == NInv /\ GradientsInv /\ [Next]_vars => GradientsInv'
<1> SUFFICES ASSUME NInv, GradientsInv, [Next]_vars PROVE GradientsInv'
    OBVIOUS
<1>1. CASE Move
    BY <1>1, FS_EmptySet DEF Move, GradientsInv, NoBlock
<1>2. CASE Find
  <2>1. PICK p \in Pair : nl' = nl \union {p, Mirror(p)}
      BY <1>2 DEF Find
  <2>2. IsFiniteSet(nl')
      <3>1. IsFiniteSet({p, Mirror(p)})
        <4>1. IsFiniteSet({p}) /\ IsFiniteSet({Mirror(p)})
            BY FS_Singleton
        <4>2. {p, Mirror(p)} = {p} \union {Mirror(p)}
            OBVIOUS
        <4> QED BY <4>1, <4>2, FS_Union
      <3> QED BY <2>1, <3>1, FS_Union DEF GradientsInv
  <2>3. block = NoBlock /\ block' = block /\ gradients' = gradients
      BY <1>2 DEF Find
  <2> QED
      BY <2>2, <2>3 DEF GradientsInv
<1>3. CASE _compute_ase_neighbors
  <2>1. block = NoBlock /\ gradients' = gradients /\ nl' = nl /\ full_list' \in BOOLEAN
        /\ block' = [p \in Samples(full_list') |-> full_distance(p)]
      BY <1>3 DEF _compute_ase_neighbors
  <2>2. DOMAIN block' = Samples(full_list')
      BY <2>1
  <2>3. Samples(full_list') \subseteq nl
      <3>1. EachPairOnce BY SelectedOnce DEF NInv
      <3>2. selected \subseteq nl /\ selected \union Mirrors(selected) = nl BY <3>1 DEF EachPairOnce, selected
      <3> QED BY <3>2 DEF Samples
  <2>4. DOMAIN block' \subseteq Pair /\ IsFiniteSet(DOMAIN block')
      BY <2>2, <2>3, FS_Subset DEF GradientsInv, NInv, NTypeOK
  <2> QED
      BY <2>1, <2>4 DEF GradientsInv
<1>4. CASE backward
  <2>1. block # NoBlock /\ block' = block /\ nl' = nl
      BY <1>4 DEF backward
  <2>2. PICK g \in [DOMAIN block -> Upstream] : gradients' = BackwardOf(g)
      BY <1>4 DEF backward, BackwardOf
  <2>3. BackwardOf(g)' = BackwardOf(g)
      BY <2>1 DEF BackwardOf, positions_grad, cell_grad
  <2> QED
      BY <2>1, <2>2, <2>3 DEF GradientsInv
<1>5. CASE UNCHANGED vars
    BY <1>5 DEF vars, GradientsInv, BackwardOf, positions_grad, cell_grad
<1> QED
    BY <1>1, <1>2, <1>3, <1>4, <1>5 DEF Next

LEMMA InvariantGradients == Spec => []GradientsInv
BY Initially, NextKeeps, InitiallyGradients, NextKeepsGradients, PTL DEF Spec

(* Terms of a weighted sum. *)
LEMMA Weighted ==
    ASSUME NEW w \in Int, NEW d \in Int, NEW s \in Int
    PROVE  w * d \in Int /\ w * (d + s) \in Int /\ s * w \in Int /\ w * (d + s) - w * d = s * w
OBVIOUS

LEMMA DistanceType ==
    ASSUME NEW p \in Pair, NEW pos \in [Atom -> Int], NEW vectors \in [1..3 -> Int]
    PROVE  Distance(p, pos, vectors) \in Int
<1>1. p.shift \in [1..3 -> Int] /\ p.first \in Atom /\ p.second \in Atom
    BY PairParts
<1>2. /\ p.shift[1] \in Int /\ p.shift[2] \in Int /\ p.shift[3] \in Int
      /\ vectors[1] \in Int /\ vectors[2] \in Int /\ vectors[3] \in Int
      /\ pos[p.first] \in Int /\ pos[p.second] \in Int
    BY <1>1
<1>3. /\ p.shift[1] * vectors[1] \in Int /\ p.shift[2] * vectors[2] \in Int
      /\ p.shift[3] * vectors[3] \in Int
    BY <1>2
<1> QED
    BY <1>2, <1>3 DEF Distance

(* How far a pair gets longer when an atom moves by one, ... *)
Moved(p, a) == (IF p.second = a THEN 1 ELSE 0) - (IF p.first = a THEN 1 ELSE 0)

LEMMA AtomMoves ==
    ASSUME NEW p \in Pair, NEW pos \in [Atom -> Int], NEW vectors \in [1..3 -> Int], NEW a \in Atom
    PROVE  /\ Moved(p, a) \in Int
           /\ Distance(p, [pos EXCEPT ![a] = @ + 1], vectors) = Distance(p, pos, vectors) + Moved(p, a)
<1> DEFINE next == [pos EXCEPT ![a] = @ + 1]
           s == IF p.second = a THEN 1 ELSE 0
           f == IF p.first = a THEN 1 ELSE 0
           x == p.shift[1] * vectors[1]
           y == p.shift[2] * vectors[2]
           z == p.shift[3] * vectors[3]
<1>1. p.shift \in [1..3 -> Int] /\ p.first \in Atom /\ p.second \in Atom
    BY PairParts
<1>2. x \in Int /\ y \in Int /\ z \in Int
  <2>1. /\ p.shift[1] \in Int /\ p.shift[2] \in Int /\ p.shift[3] \in Int
        /\ vectors[1] \in Int /\ vectors[2] \in Int /\ vectors[3] \in Int
      BY <1>1
  <2> QED
      BY <2>1
<1>3. /\ pos[p.first] \in Int /\ pos[p.second] \in Int
      /\ next[p.first] = pos[p.first] + f /\ next[p.second] = pos[p.second] + s
      /\ s \in Int /\ f \in Int
    BY <1>1
<1>4. Moved(p, a) = s - f
    BY DEF Moved
<1>5. /\ Distance(p, pos, vectors) = pos[p.second] - pos[p.first] + x + y + z
      /\ Distance(p, next, vectors) = next[p.second] - next[p.first] + x + y + z
    BY DEF Distance
<1> HIDE DEF next, x, y, z, s, f
<1>6. /\ s - f \in Int
      /\ Distance(p, next, vectors) = Distance(p, pos, vectors) + (s - f)
    BY <1>2, <1>3, <1>5
<1> QED
    BY <1>4, <1>6 DEF next

(* ... or a cell vector. *)
LEMMA CellMoves ==
    ASSUME NEW p \in Pair, NEW pos \in [Atom -> Int], NEW vectors \in [1..3 -> Int], NEW c \in 1..3
    PROVE  /\ p.shift[c] \in Int
           /\ Distance(p, pos, [vectors EXCEPT ![c] = @ + 1]) = Distance(p, pos, vectors) + p.shift[c]
<1> DEFINE next == [vectors EXCEPT ![c] = @ + 1]
           S == p.shift
<1>1. S \in [1..3 -> Int] /\ p.first \in Atom /\ p.second \in Atom
    BY PairParts
<1>2. \A k \in 1..3 : S[k] \in Int /\ vectors[k] \in Int /\ next[k] = IF k = c THEN vectors[k] + 1 ELSE vectors[k]
    BY <1>1
<1>3. \A k \in 1..3 : /\ S[k] * vectors[k] \in Int /\ S[k] \in Int
                      /\ S[k] * next[k] = IF k = c THEN S[k] * vectors[k] + S[k] ELSE S[k] * vectors[k]
  <2> SUFFICES ASSUME NEW k \in 1..3
               PROVE  /\ S[k] * vectors[k] \in Int /\ S[k] \in Int
                      /\ S[k] * next[k] = IF k = c THEN S[k] * vectors[k] + S[k] ELSE S[k] * vectors[k]
      OBVIOUS
  <2>1. \A m, n \in Int : m * n \in Int /\ m * (n + 1) = m * n + m
      OBVIOUS
  <2> HIDE DEF next, S
  <2> QED
      BY <1>2, <2>1
<1> DEFINE x == S[1] * vectors[1]
           y == S[2] * vectors[2]
           z == S[3] * vectors[3]
<1>4. Distance(p, pos, vectors) = pos[p.second] - pos[p.first] + x + y + z
    BY DEF Distance
<1>5. Distance(p, pos, next) = pos[p.second] - pos[p.first] + S[1] * next[1] + S[2] * next[2] + S[3] * next[3]
    BY DEF Distance
<1>6. /\ x \in Int /\ y \in Int /\ z \in Int /\ S[1] \in Int /\ S[2] \in Int /\ S[3] \in Int
      /\ S[1] * next[1] = IF c = 1 THEN x + S[1] ELSE x
      /\ S[2] * next[2] = IF c = 2 THEN y + S[2] ELSE y
      /\ S[3] * next[3] = IF c = 3 THEN z + S[3] ELSE z
    <2> HIDE DEF next, S
    <2>1. 1 \in 1..3 /\ 2 \in 1..3 /\ 3 \in 1..3
        OBVIOUS
    <2> QED BY <1>3, <2>1
<1>7. pos[p.first] \in Int /\ pos[p.second] \in Int
    BY <1>1
<1> DEFINE X == S[1] * next[1]
           Y == S[2] * next[2]
           Z == S[3] * next[3]
           from == pos[p.first]
           there == pos[p.second]
<1>8. Distance(p, pos, next) = there - from + X + Y + Z /\ Distance(p, pos, vectors) = there - from + x + y + z
    BY <1>4, <1>5
<1>9. /\ from \in Int /\ there \in Int
      /\ x \in Int /\ y \in Int /\ z \in Int /\ S[1] \in Int /\ S[2] \in Int /\ S[3] \in Int
      /\ X = (IF c = 1 THEN x + S[1] ELSE x)
      /\ Y = (IF c = 2 THEN y + S[2] ELSE y)
      /\ Z = (IF c = 3 THEN z + S[3] ELSE z)
    BY <1>6, <1>7
<1> HIDE DEF X, Y, Z, x, y, z, from, there
<1>10. CASE c = 1
    BY <1>8, <1>9, <1>10
<1>11. CASE c = 2
    BY <1>8, <1>9, <1>11
<1>12. CASE c = 3
    BY <1>8, <1>9, <1>12
<1> QED
    BY <1>10, <1>11, <1>12

(* The sum of distances that backward is about. *)
WeightedSum(D, g, pos, vectors) == SumFunction([p \in D |-> g[p] * Distance(p, pos, vectors)])
Further(f, a) == [f EXCEPT ![a] = @ + 1]

(* The gradients that backward returns, for any list D. *)
AtomGrad(D, g, a) == SumFunctionOnSet(g, {p \in D : p.second = a}) - SumFunctionOnSet(g, {p \in D : p.first = a})
CellGrad(D, g, c) == SumFunction([p \in D |-> p.shift[c] * g[p]])

(* A moving atom changes the weighted sum of distances by its gradient: a  *)
(* pair counts for its second atom, against its first one, and not at all  *)
(* for an atom and its own image.                                          *)
LEMMA AtomGradient ==
    ASSUME NEW D, D \subseteq Pair, IsFiniteSet(D), NEW g \in [D -> Int],
           NEW pos \in [Atom -> Int], NEW vectors \in [1..3 -> Int], NEW a \in Atom
    PROVE  WeightedSum(D, g, Further(pos, a), vectors)
             - WeightedSum(D, g, pos, vectors)
             = AtomGrad(D, g, a)
<1> DEFINE h == [p \in D |-> g[p] * Distance(p, Further(pos, a), vectors)]
           f == [p \in D |-> g[p] * Distance(p, pos, vectors)]
           A == {p \in D : p.second = a}
           B == {p \in D : p.first = a}
<1>1. ASSUME NEW p \in D
      PROVE  /\ f[p] \in Int /\ h[p] \in Int /\ g[p] \in Int
             /\ h[p] - f[p] = Part(g, p, A) - Part(g, p, B)
  <2> DEFINE w == g[p]
             d == Distance(p, pos, vectors)
             s == Moved(p, a)
  <2>1. p \in Pair /\ w \in Int /\ d \in Int /\ s \in Int
      BY DistanceType, AtomMoves
  <2>2. f[p] = w * d
      OBVIOUS
  <2>3. h[p] = w * (d + s)
      <3>1. Distance(p, Further(pos, a), vectors) = d + s
          BY <2>1, AtomMoves DEF Further
      <3> QED BY <3>1
  <2>4. s * w = Part(g, p, A) - Part(g, p, B)
      <3>1. /\ Part(g, p, A) = IF p.second = a THEN w ELSE 0
            /\ Part(g, p, B) = IF p.first = a THEN w ELSE 0
          BY DEF Part
      <3>2. s = (IF p.second = a THEN 1 ELSE 0) - (IF p.first = a THEN 1 ELSE 0)
          BY DEF Moved
      <3>3. \A n \in Int : 1 * n = n /\ (-1) * n = 0 - n /\ 0 * n = 0
          OBVIOUS
      <3> HIDE DEF w, s, A, B
      <3>4. CASE p.second = a /\ p.first = a
          BY <2>1, <3>1, <3>2, <3>3, <3>4
      <3>5. CASE p.second = a /\ p.first # a
          BY <2>1, <3>1, <3>2, <3>3, <3>5
      <3>6. CASE p.second # a /\ p.first = a
          BY <2>1, <3>1, <3>2, <3>3, <3>6
      <3>7. CASE p.second # a /\ p.first # a
          BY <2>1, <3>1, <3>2, <3>3, <3>7
      <3> QED BY <3>4, <3>5, <3>6, <3>7
  <2> HIDE DEF f, h, w, d, s, A, B
  <2>5. w * d \in Int /\ w * (d + s) \in Int /\ w * (d + s) - w * d = s * w
      BY <2>1, Weighted
  <2> QED
      BY <2>1, <2>2, <2>3, <2>4, <2>5 DEF w
<1>2. DOMAIN f = D /\ DOMAIN h = D /\ D \intersect A = A /\ D \intersect B = B
    OBVIOUS
<1> HIDE DEF f, h, A, B
<1>3. TermsDiffer(f, h, g, A, B, D)
    BY <1>1 DEF TermsDiffer
<1>4. SumFunctionOnSet(h, D) - SumFunctionOnSet(f, D) = SumFunctionOnSet(g, A) - SumFunctionOnSet(g, B)
    BY <1>2, <1>3, SumDifference
<1> QED
    BY <1>2, <1>4 DEF SumFunction, WeightedSum, AtomGrad, f, h, A, B

(* A cell vector that moves changes it by the gradient of the vector. *)
LEMMA CellGradient ==
    ASSUME NEW D, D \subseteq Pair, IsFiniteSet(D), NEW g \in [D -> Int],
           NEW pos \in [Atom -> Int], NEW vectors \in [1..3 -> Int], NEW c \in 1..3
    PROVE  WeightedSum(D, g, pos, Further(vectors, c))
             - WeightedSum(D, g, pos, vectors)
             = CellGrad(D, g, c)
<1> DEFINE h == [p \in D |-> g[p] * Distance(p, pos, Further(vectors, c))]
           f == [p \in D |-> g[p] * Distance(p, pos, vectors)]
           k == [p \in D |-> p.shift[c] * g[p]]
<1>1. ASSUME NEW p \in D
      PROVE  /\ f[p] \in Int /\ h[p] \in Int /\ k[p] \in Int
             /\ h[p] - f[p] = Part(k, p, D) - Part(k, p, {})
  <2> DEFINE w == g[p]
             d == Distance(p, pos, vectors)
             s == p.shift[c]
  <2>1. p \in Pair /\ w \in Int /\ d \in Int /\ s \in Int
      BY DistanceType, CellMoves
  <2>2. f[p] = w * d /\ k[p] = s * w
      OBVIOUS
  <2>3. h[p] = w * (d + s)
      <3>1. Distance(p, pos, Further(vectors, c)) = d + s
          BY <2>1, CellMoves DEF Further
      <3> QED BY <3>1
  <2> HIDE DEF f, h, k, w, d, s
  <2>4. Part(k, p, D) = k[p] /\ Part(k, p, {}) = 0
      BY DEF Part
  <2>5. w * d \in Int /\ w * (d + s) \in Int /\ s * w \in Int /\ w * (d + s) - w * d = s * w
      BY <2>1, Weighted
  <2>6. s * w - 0 = s * w
      BY <2>5
  <2> QED
      BY <2>2, <2>3, <2>4, <2>5, <2>6
<1>2. DOMAIN f = D /\ DOMAIN h = D /\ DOMAIN k = D /\ D \intersect D = D /\ D \intersect {} = {}
    OBVIOUS
<1> HIDE DEF f, h, k
<1>3. TermsDiffer(f, h, k, D, {}, D)
    BY <1>1 DEF TermsDiffer
<1>4. SumFunctionOnSet(h, D) - SumFunctionOnSet(f, D) = SumFunctionOnSet(k, D) - SumFunctionOnSet(k, {})
    BY <1>2, <1>3, SumDifference
<1>5. SumFunctionOnSet(k, {}) = 0 /\ SumFunctionOnSet(k, D) \in Int
    BY <1>1, SumOfNothing, SumType
<1>6. SumFunctionOnSet(h, D) - SumFunctionOnSet(f, D) = SumFunctionOnSet(k, D)
    BY <1>4, <1>5
<1> QED
    BY <1>2, <1>6 DEF SumFunction, WeightedSum, CellGrad, f, h, k

(* What NeighborsAutograd::backward returns is the gradient with respect   *)
(* to the positions and the cell, for every list, all gradients upstream,  *)
(* and any positions.                                                      *)
THEOREM BackwardIsRight == Spec => []BackwardIsTheGradient
<1>1. NInv /\ GradientsInv => BackwardIsTheGradient
  <2> SUFFICES ASSUME NInv, GradientsInv, gradients.done PROVE BackwardIsTheGradient
      BY DEF BackwardIsTheGradient
  <2>1. gradients # NoGradients
      BY DEF NoGradients
  <2>2. PICK g \in [DOMAIN block -> Upstream] : gradients = BackwardOf(g)
      BY <2>1 DEF GradientsInv
  <2>3. gradients.upstream = g /\ gradients.positions = positions_grad(g) /\ gradients.cell = cell_grad(g)
      BY <2>2 DEF BackwardOf
  <2>4. PICK D, pos, vectors : D = DOMAIN block /\ pos = positions /\ vectors = cell
      OBVIOUS
  <2>5. /\ D \subseteq Pair /\ IsFiniteSet(D) /\ g \in [D -> Int]
        /\ pos \in [Atom -> Int] /\ vectors \in [1..3 -> Int]
      BY <2>4, ShiftsAssumption DEF NInv, NTypeOK, GradientsInv
  <2>6. ASSUME NEW a \in Atom
        PROVE  WeightedSum(D, g, Further(pos, a), vectors)
                 - WeightedSum(D, g, pos, vectors)
                 = positions_grad(g)[a]
    <3>1. positions_grad(g)[a] = AtomGrad(D, g, a)
        BY <2>4 DEF positions_grad, AtomGrad
    <3>2. WeightedSum(D, g, Further(pos, a), vectors) - WeightedSum(D, g, pos, vectors)
            = AtomGrad(D, g, a)
        BY <2>5, AtomGradient
    <3> QED BY Zenon, <3>1, <3>2
  <2>7. ASSUME NEW c \in 1..3
        PROVE  WeightedSum(D, g, pos, Further(vectors, c))
                 - WeightedSum(D, g, pos, vectors)
                 = cell_grad(g)[c]
    <3>1. cell_grad(g)[c] = CellGrad(D, g, c)
        BY <2>4 DEF cell_grad, CellGrad
    <3>2. WeightedSum(D, g, pos, Further(vectors, c)) - WeightedSum(D, g, pos, vectors)
            = CellGrad(D, g, c)
        BY <2>5, CellGradient
    <3> QED BY Zenon, <3>1, <3>2
  <2> QED
      BY <2>3, <2>4, <2>6, <2>7 DEF BackwardIsTheGradient, WeightedSum, Further
<1> QED
    BY <1>1, Invariant, InvariantGradients, PTL
=============================================================================
