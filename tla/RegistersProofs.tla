--------------------------- MODULE RegistersProofs ---------------------------
(***************************************************************************)
(* Proofs about the register allocator, for any number of families, blocks  *)
(* and registers per block.                                                 *)
(***************************************************************************)
EXTENDS RegisterAllocation, FiniteSetTheorems, WellFoundedInduction, TLAPS

-----------------------------------------------------------------------------
(* Least and greatest members, and sizes in blocks                          *)

LEMMA MinIn ==
  ASSUME NEW S \in SUBSET Nat, S # {}
  PROVE  Min(S) \in S /\ \A y \in S : Min(S) <= y
  <1> DEFINE R == {p \in Nat \X Nat : p[1] < p[2]}
  <1>1. IsWellFoundedOn(R, Nat)
    BY NatLessThanWellFounded, Zenon DEF OpToRel
  <1> HIDE DEF R
  <1>2. \E x \in S : \A y \in S : ~ (<<y, x>> \in R)
    BY <1>1, WFMin
  <1>3. \A x, y \in Nat : <<y, x>> \in R <=> y < x
    BY DEF R
  <1>4. PICK x \in S : \A y \in S : ~ (<<y, x>> \in R)
    BY <1>2
  <1>5. ASSUME NEW y \in S PROVE x <= y
    <2>1. x \in Nat /\ y \in Nat /\ ~ (y < x)
      BY <1>3, <1>4
    <2> QED
      BY <2>1
  <1> QED
    BY <1>5 DEF Min

LEMMA MaxIn ==
  ASSUME NEW n \in Nat, NEW S \in SUBSET (1 .. n), S # {}
  PROVE  Max(S) \in S
  <1> DEFINE T == {n - b : b \in S}
  <1>1. T \in SUBSET Nat /\ T # {}
    <2>1. \A b \in S : n - b \in Nat
      OBVIOUS
    <2> QED
      BY <2>1
  <1>2. Min(T) \in T /\ \A y \in T : Min(T) <= y
    BY <1>1, MinIn
  <1>3. PICK x \in S : Min(T) = n - x
    BY <1>2
  <1>4. \A b \in S : n - b \in T
    OBVIOUS
  <1> HIDE DEF T
  <1>5. \A b \in S : x >= b
    BY <1>2, <1>3, <1>4
  <1> QED
    BY <1>5 DEF Max

LEMMA BlocksNeeded ==
  ASSUME NEW s \in Nat, s # 0
  PROVE  /\ BlocksFor(s) \in Nat /\ BlocksFor(s) >= 1
         /\ s <= BlockSize => BlocksFor(s) = 1
  <1> DEFINE x == s + BlockSize - 1
             q == x \div BlockSize
  <1>1. BlockSize \in Nat /\ BlockSize > 0
    BY TableSizes
  <1>2. x \in Nat /\ x >= BlockSize /\ (s <= BlockSize => x < BlockSize + BlockSize)
    BY <1>1
  <1> HIDE DEF x
  <1>3. q \in Int /\ BlockSize * q <= x /\ x < BlockSize * q + BlockSize
    BY <1>1, <1>2
  <1> HIDE DEF q
  <1>4. q >= 1
    BY <1>1, <1>2, <1>3
  <1>5. s <= BlockSize => q < 2
    BY <1>1, <1>2, <1>3
  <1> QED
    BY <1>3, <1>4, <1>5 DEF q, x, BlocksFor

LEMMA DisjointSum ==
  ASSUME NEW S, NEW T, IsFiniteSet(S), IsFiniteSet(T), S \cap T = {}
  PROVE  Cardinality(S \cup T) = Cardinality(S) + Cardinality(T)
  <1>1. Cardinality(S) \in Nat /\ Cardinality(T) \in Nat
    BY FS_CardinalityType
  <1>2. Cardinality(S \cap T) = 0
    BY FS_EmptySet
  <1>3. Cardinality(S \cup T) = Cardinality(S) + Cardinality(T) - Cardinality(S \cap T)
    BY FS_Union
  <1> QED
    BY <1>1, <1>2, <1>3

-----------------------------------------------------------------------------
(* Lists of areas                                                           *)

Blocks == 0 .. NumBlocks - 1
Lists  == [Blocks -> 0 .. NumBlocks]

\* The areas of a list end before the next one starts
ListOK(l) ==
  /\ \A p \in Blocks : p + l[p] <= NumBlocks
  /\ \A p, q \in Blocks : p < q /\ l[p] > 0 /\ l[q] > 0 => p + l[p] <= q

LEMMA ListTypes ==
  /\ NumBlocks \in Nat /\ NumBlocks > 0
  /\ \A p \in Blocks : p \in Nat /\ p < NumBlocks
  /\ \A l \in Lists : \A p \in Blocks : l[p] \in Nat /\ l[p] <= NumBlocks
  BY TableSizes DEF Blocks, Lists

LEMMA OccupiedType ==
  ASSUME NEW l \in Lists, ListOK(l)
  PROVE  /\ Occupied(l) \subseteq Blocks /\ IsFiniteSet(Occupied(l))
         /\ Cardinality(Occupied(l)) \in Nat
         /\ \A x : x \in Occupied(l) <=> \E p \in Blocks : x \in p .. p + l[p] - 1
  <1>1. \A x : x \in Occupied(l) <=> \E p \in Blocks : x \in p .. p + l[p] - 1
    BY DEF Occupied, Lists
  <1>2. ASSUME NEW x \in Occupied(l) PROVE x \in Blocks
    <2>1. PICK p \in Blocks : x \in p .. p + l[p] - 1
      BY <1>1
    <2>2. p \in Nat /\ l[p] \in Nat /\ p + l[p] <= NumBlocks /\ NumBlocks \in Nat
      BY ListTypes DEF ListOK
    <2> QED
      BY <2>1, <2>2 DEF Blocks
  <1>3. IsFiniteSet(Blocks)
    BY TableSizes, FS_Interval DEF Blocks
  <1> QED
    BY <1>1, <1>2, <1>3, FS_Subset, FS_CardinalityType

LEMMA FreeArea ==
  ASSUME NEW l \in Lists, ListOK(l), NEW n \in Nat, n >= 1, NEW p \in FreeAreas(l, n)
  PROVE  /\ p \in Blocks /\ p + n <= NumBlocks /\ l[p] = 0
         /\ (p .. p + n - 1) \cap Occupied(l) = {}
         /\ \A q \in Blocks : q < p => q + l[q] <= p
         /\ \A q \in Blocks : p < q /\ l[q] > 0 => p + n <= q
  <1>1. /\ p \in Blocks /\ p + n <= NumBlocks
        /\ (p .. p + n - 1) \cap Occupied(l) = {}
    BY DEF FreeAreas, Lists
  <1>2. \A x \in p .. p + n - 1 : \A q \in Blocks : ~ (x \in q .. q + l[q] - 1)
    BY <1>1, OccupiedType
  <1>3. p \in Nat /\ \A q \in Blocks : l[q] \in Nat /\ q \in Nat
    BY <1>1, TableSizes DEF Blocks, Lists
  <1>4. p \in p .. p + n - 1
    BY <1>3
  <1>5. l[p] = 0
    BY <1>1, <1>2, <1>3, <1>4
  <1>6. ASSUME NEW q \in Blocks, q < p PROVE q + l[q] <= p
    BY <1>2, <1>3, <1>4, <1>6
  <1>7. ASSUME NEW q \in Blocks, p < q, l[q] > 0 PROVE p + n <= q
    <2>1. q \in q .. q + l[q] - 1
      BY <1>3, <1>7
    <2>2. q \notin p .. p + n - 1
      BY <1>2, <2>1
    <2> QED
      BY <1>3, <1>7, <2>2
  <1> QED
    BY <1>1, <1>5, <1>6, <1>7

\* Alloc takes a free area
LEMMA Taken ==
  ASSUME NEW l \in Lists, ListOK(l), NEW n \in Nat, n >= 1, NEW p \in FreeAreas(l, n),
         NEW m, m = [l EXCEPT ![p] = n]
  PROVE  /\ m \in Lists /\ ListOK(m)
         /\ Cardinality(Occupied(m)) = Cardinality(Occupied(l)) + n
  <1>1. /\ p \in Blocks /\ p + n <= NumBlocks /\ l[p] = 0
        /\ (p .. p + n - 1) \cap Occupied(l) = {}
        /\ \A q \in Blocks : q < p => q + l[q] <= p
        /\ \A q \in Blocks : p < q /\ l[q] > 0 => p + n <= q
    BY FreeArea
  <1>2. m \in Lists /\ \A q \in Blocks : m[q] = IF q = p THEN n ELSE l[q]
    BY <1>1, TableSizes DEF Lists, Blocks
  <1>3. ListOK(m)
    <2>1. \A q \in Blocks : q + m[q] <= NumBlocks
      BY <1>1, <1>2 DEF ListOK
    <2>2. ASSUME NEW q \in Blocks, NEW r \in Blocks, q < r, m[q] > 0, m[r] > 0
          PROVE  q + m[q] <= r
      <3>1. CASE q = p
        BY <1>1, <1>2, <2>2, <3>1, ListTypes
      <3>2. CASE r = p
        BY <1>1, <1>2, <2>2, <3>2, ListTypes
      <3>3. CASE q # p /\ r # p
        BY <1>2, <2>2, <3>3 DEF ListOK
      <3> QED
        BY <3>1, <3>2, <3>3
    <2> QED
      BY <2>1, <2>2 DEF ListOK
  <1>4. Occupied(m) = Occupied(l) \cup (p .. p + n - 1)
    <2>1. \A x : x \in Occupied(m) <=> \E q \in Blocks : x \in q .. q + m[q] - 1
      BY <1>2, <1>3, OccupiedType
    <2>2. \A x : x \in Occupied(l) <=> \E q \in Blocks : x \in q .. q + l[q] - 1
      BY OccupiedType
    <2>3. \A x : ~ (x \in p .. p + l[p] - 1)
      BY <1>1, TableSizes DEF Blocks
    <2>4. ASSUME NEW x \in Occupied(m) PROVE x \in Occupied(l) \cup (p .. p + n - 1)
      <3>1. PICK q \in Blocks : x \in q .. q + m[q] - 1
        BY <2>1
      <3>2. CASE q = p
        BY <1>1, <1>2, <3>1, <3>2
      <3>3. CASE q # p
        BY <1>2, <2>2, <3>1, <3>3
      <3> QED
        BY <3>2, <3>3
    <2>5. ASSUME NEW x \in p .. p + n - 1 PROVE x \in Occupied(m)
      BY <1>1, <1>2, <2>1, <2>5
    <2>6. ASSUME NEW x \in Occupied(l) PROVE x \in Occupied(m)
      <3>1. PICK q \in Blocks : x \in q .. q + l[q] - 1
        BY <2>2
      <3>2. q # p
        BY <2>3, <3>1
      <3> QED
        BY <1>2, <2>1, <3>1, <3>2
    <2> QED
      BY <2>4, <2>5, <2>6
  <1>5. IsFiniteSet(p .. p + n - 1) /\ Cardinality(p .. p + n - 1) = n
    <2>1. p \in Int /\ p + n - 1 \in Int /\ p <= p + n - 1
      BY <1>1, TableSizes DEF Blocks
    <2> QED
      BY <2>1, FS_Interval
  <1>6. IsFiniteSet(Occupied(l)) /\ Cardinality(Occupied(l)) \in Nat
    BY OccupiedType
  <1>7. Cardinality(Occupied(l) \cup (p .. p + n - 1)) =
          Cardinality(Occupied(l)) + Cardinality(p .. p + n - 1)
    BY <1>1, <1>5, <1>6, DisjointSum
  <1>8. Cardinality(Occupied(m)) = Cardinality(Occupied(l)) + n
    BY <1>4, <1>5, <1>7
  <1> QED
    BY <1>2, <1>3, <1>8

\* Free gives an area back
LEMMA Cleared ==
  ASSUME NEW l \in Lists, ListOK(l), NEW p \in Blocks, l[p] > 0,
         NEW m, m = [l EXCEPT ![p] = 0]
  PROVE  /\ m \in Lists /\ ListOK(m)
         /\ Cardinality(Occupied(m)) = Cardinality(Occupied(l)) - l[p]
  <1>1. m \in Lists /\ \A q \in Blocks : m[q] = IF q = p THEN 0 ELSE l[q]
    BY TableSizes DEF Lists, Blocks
  <1>2. l[p] \in Nat /\ p + l[p] <= NumBlocks
    BY TableSizes DEF Lists, ListOK, Blocks
  <1>3. ListOK(m)
    BY <1>1, TableSizes DEF ListOK, Blocks, Lists
  <1>4. p \in FreeAreas(m, l[p])
    <2>1. ASSUME NEW x \in p .. p + l[p] - 1, x \in Occupied(m) PROVE FALSE
      <3>1. PICK q \in Blocks : x \in q .. q + m[q] - 1
        BY <1>1, <1>3, <2>1, OccupiedType
      <3>2. q # p /\ m[q] = l[q] /\ l[q] > 0
        BY <1>1, <1>2, <3>1, TableSizes DEF Blocks, Lists
      <3>3. /\ x \in Int /\ p <= x /\ x < p + l[p] /\ q <= x /\ x < q + l[q]
            /\ p \in Nat /\ q \in Nat
        BY <1>2, <2>1, <3>1, <3>2, ListTypes
      <3>4. p < q => p + l[p] <= q
        BY <3>2 DEF ListOK
      <3>5. q < p => q + l[q] <= p
        BY <3>2 DEF ListOK
      <3>6. l[p] \in Nat /\ l[q] \in Nat
        BY ListTypes
      <3> QED
        BY <3>2, <3>3, <3>4, <3>5, <3>6
    <2> QED
      BY <1>1, <1>2, <2>1 DEF FreeAreas, Lists
  <1>5. l = [m EXCEPT ![p] = l[p]]
    BY <1>1 DEF Lists
  <1>6. Cardinality(Occupied(l)) = Cardinality(Occupied(m)) + l[p]
    BY <1>1, <1>2, <1>3, <1>4, <1>5, Taken
  <1> QED
    BY <1>1, <1>2, <1>3, <1>6, OccupiedType

\* A block that is not occupied is an area of its own
LEMMA BlockFree ==
  ASSUME NEW l \in Lists, ListOK(l), Cardinality(Occupied(l)) < NumBlocks
  PROVE  FreeAreas(l, 1) # {}
  <1>1. /\ Occupied(l) \subseteq Blocks /\ Cardinality(Blocks) = NumBlocks
    <2>1. Cardinality(0 .. NumBlocks - 1) = NumBlocks
      BY TableSizes, FS_Interval
    <2> QED
      BY <2>1, OccupiedType DEF Blocks
  <1>2. PICK p \in Blocks : p \notin Occupied(l)
    <2>1. Occupied(l) # Blocks
      BY <1>1, ListTypes
    <2> QED
      BY <1>1, <2>1
  <1>3. p .. p + 1 - 1 = {p}
    BY TableSizes DEF Blocks
  <1> QED
    BY <1>2, <1>3, TableSizes DEF FreeAreas, Lists, Blocks

-----------------------------------------------------------------------------
(* The invariant: who holds what                                            *)

Types ==
  /\ unit \in [RegType -> [free : [ContextType -> Int], list : Lists]]
  /\ holder \in [LFID -> [stage : {"none", "reserved", "created"},
                          base : [RegType -> -1 .. NumBlocks - 1]]]

\* An area has one owner, a created family
Owned(i) ==
  /\ \A f \in LFID : holder[f].base[i] # INVALID =>
       /\ holder[f].stage = "created"
       /\ holder[f].base[i] \in Blocks
       /\ unit[i].list[holder[f].base[i]] > 0
  /\ \A f, g \in LFID : holder[f].base[i] = holder[g].base[i] /\ f # g =>
       holder[f].base[i] = INVALID
  /\ \A p \in Blocks : unit[i].list[p] > 0 => \E f \in LFID : holder[f].base[i] = p

\* The families that wait for the block that was set aside for them
Waiting == {f \in LFID : holder[f].stage = "reserved" /\ ~ IsExclusive(f)}

Pooled(i) ==
  /\ unit[i].free["NORMAL"] =
       NumBlocks - Cardinality(Occupied(unit[i].list)) - Cardinality(Waiting)
       - unit[i].free["EXCLUSIVE"]
  /\ unit[i].free["NORMAL"] >= 0
  /\ unit[i].free["EXCLUSIVE"] = IF holder[NumFamilies - 1].base[i] = INVALID THEN 1 ELSE 0

UnitOK(i) == ListOK(unit[i].list) /\ Owned(i) /\ Pooled(i)

IInv == Types /\ \A i \in RegType : UnitOK(i)

LEMMA Families ==
  /\ NumFamilies - 1 \in LFID /\ 0 \in LFID /\ 0 # NumFamilies - 1
  /\ IsFiniteSet(LFID)
  /\ INVALID \notin Blocks /\ RegType # {}
  <1>1. NumFamilies \in Nat /\ NumFamilies >= 2
    BY TableSizes
  <1>2. IsFiniteSet(0 .. NumFamilies - 1)
    BY <1>1, FS_Interval
  <1> QED
    BY <1>1, <1>2 DEF LFID, INVALID, Blocks, RegType

LEMMA WaitingType ==
  IsFiniteSet(Waiting) /\ Cardinality(Waiting) \in Nat
  <1>1. Waiting \subseteq LFID
    BY DEF Waiting
  <1> QED
    BY <1>1, Families, FS_Subset, FS_CardinalityType

\* One family begins to wait, stops waiting, or none does
LEMMA WaitingMore ==
  ASSUME NEW f \in LFID, ~ IsExclusive(f), holder[f].stage # "reserved",
         holder'[f].stage = "reserved", \A g \in LFID \ {f} : holder'[g] = holder[g]
  PROVE  Cardinality(Waiting)' = Cardinality(Waiting) + 1
  <1>1. Waiting' = Waiting \cup {f} /\ f \notin Waiting
    BY DEF Waiting, IsExclusive
  <1> QED
    BY <1>1, WaitingType, FS_AddElement

LEMMA WaitingLess ==
  ASSUME NEW f \in LFID, ~ IsExclusive(f), holder[f].stage = "reserved",
         holder'[f].stage # "reserved", \A g \in LFID \ {f} : holder'[g] = holder[g]
  PROVE  Cardinality(Waiting)' = Cardinality(Waiting) - 1
  <1>1. Waiting' = Waiting \ {f} /\ f \in Waiting
    BY DEF Waiting, IsExclusive
  <1> QED
    BY <1>1, WaitingType, FS_RemoveElement

LEMMA WaitingSame ==
  ASSUME NEW f \in LFID,
         IsExclusive(f) \/ (holder[f].stage # "reserved" /\ holder'[f].stage # "reserved"),
         \A g \in LFID \ {f} : holder'[g] = holder[g]
  PROVE  Cardinality(Waiting)' = Cardinality(Waiting)
  <1>1. Waiting' = Waiting
    BY DEF Waiting, IsExclusive
  <1> QED
    BY <1>1

-----------------------------------------------------------------------------
(* The calls                                                                *)

\* AllocateContext and ReleaseContext: a block moves between the normal pool and
\* the families that wait
LEMMA ContextKept ==
  ASSUME IInv, Types', NEW f \in LFID, holder[f].stage # "created", holder'[f].stage # "created",
         holder'[f].base = holder[f].base,
         \A g \in LFID \ {f} : holder'[g] = holder[g],
         NEW k \in Int, Cardinality(Waiting)' = Cardinality(Waiting) + k,
         \A i \in RegType : /\ unit'[i].list = unit[i].list
                            /\ unit'[i].free["NORMAL"] = unit[i].free["NORMAL"] - k
                            /\ unit[i].free["NORMAL"] - k >= 0
                            /\ unit'[i].free["EXCLUSIVE"] = unit[i].free["EXCLUSIVE"]
  PROVE  IInv'
  <1> SUFFICES ASSUME NEW i \in RegType PROVE UnitOK(i)'
    BY DEF IInv
  <1>1. ListOK(unit[i].list) /\ Owned(i) /\ Pooled(i)
    BY DEF IInv, UnitOK
  <1>2. /\ unit'[i].list = unit[i].list
        /\ unit'[i].free["NORMAL"] = unit[i].free["NORMAL"] - k
        /\ unit[i].free["NORMAL"] - k >= 0
        /\ unit'[i].free["EXCLUSIVE"] = unit[i].free["EXCLUSIVE"]
    OBVIOUS
  <1>3. \A g \in LFID : holder'[g].base = holder[g].base
    OBVIOUS
  <1>4. ListOK(unit[i].list)'
    BY <1>1, <1>2 DEF ListOK
  <1>5. Owned(i)'
    <2>1. \A g \in LFID : holder'[g].base[i] # INVALID =>
             /\ holder'[g].stage = "created"
             /\ holder'[g].base[i] \in Blocks
             /\ unit'[i].list[holder'[g].base[i]] > 0
      <3>1. holder[f].base[i] = INVALID
        BY <1>1 DEF Owned
      <3> QED
        BY <1>1, <1>2, <1>3, <3>1 DEF Owned
    <2>2. /\ \A g, h \in LFID : holder'[g].base[i] = holder'[h].base[i] /\ g # h =>
               holder'[g].base[i] = INVALID
          /\ \A p \in Blocks : unit'[i].list[p] > 0 => \E g \in LFID : holder'[g].base[i] = p
      BY <1>1, <1>2, <1>3 DEF Owned
    <2> QED
      BY <2>1, <2>2 DEF Owned
  <1>6. Pooled(i)'
    <2>1. Cardinality(Waiting) \in Nat /\ NumBlocks \in Nat
      BY WaitingType, ListTypes
    <2>2. /\ unit[i].free["NORMAL"] \in Int /\ unit[i].free["EXCLUSIVE"] \in Int
          /\ Cardinality(Occupied(unit[i].list)) \in Nat
      <3>1. unit[i].list \in Lists /\ unit[i].free \in [ContextType -> Int]
        BY DEF IInv, Types
      <3> QED
        BY <1>1, <3>1, OccupiedType DEF ContextType
    <2>3. Cardinality(Occupied(unit[i].list))' = Cardinality(Occupied(unit[i].list))
      BY <1>2
    <2>4. holder'[NumFamilies - 1].base[i] = holder[NumFamilies - 1].base[i]
      BY <1>3, Families
    <2> QED
      BY <1>1, <1>2, <2>1, <2>2, <2>3, <2>4 DEF Pooled
  <1> QED
    BY <1>4, <1>5, <1>6 DEF UnitOK

\* Nothing fails to find an area, and what Alloc takes is counted
LEMMA AllocFacts ==
  ASSUME IInv, NEW sizes \in [RegType -> Nat], NEW t \in ContextType, CanAlloc(unit, sizes, t),
         NEW i \in RegType
  PROVE  LET n == BlocksFor(sizes[i])
             p == AllocIndices(unit, sizes)[i]
         IN  /\ sizes[i] = 0 => p = INVALID
             /\ sizes[i] # 0 =>
                  /\ n \in Nat /\ n >= 1 /\ p \in FreeAreas(unit[i].list, n)
                  /\ n <= unit[i].free["NORMAL"] + (IF t = "NORMAL" THEN 0 ELSE 1)
  <1> DEFINE n == BlocksFor(sizes[i])
             p == AllocIndices(unit, sizes)[i]
  <1>1. p = IF sizes[i] = 0 THEN INVALID ELSE Min(FreeAreas(unit[i].list, n))
    BY DEF AllocIndices
  <1>2. CASE sizes[i] # 0
    <2>1. n \in Nat /\ n >= 1
      BY <1>2, BlocksNeeded
    <2>2. /\ FreeAreas(unit[i].list, n) # {}
          /\ n <= unit[i].free["NORMAL"] + (IF t = "NORMAL" THEN 0 ELSE 1)
      BY <1>2 DEF CanAlloc
    <2>3. unit[i].list \in Lists
      BY DEF IInv, Types
    <2>4. FreeAreas(unit[i].list, n) \subseteq Blocks
      BY <2>3 DEF FreeAreas, Lists
    <2>5. FreeAreas(unit[i].list, n) \in SUBSET Nat
      BY <2>4, ListTypes
    <2>6. p \in FreeAreas(unit[i].list, n)
      BY <1>1, <1>2, <2>2, <2>5, MinIn
    <2> QED
      BY <1>2, <2>1, <2>2, <2>6
  <1> QED
    BY <1>1, <1>2

\* The family that a call of Alloc is for
Claims(f, t) ==
  \/ holder[f].stage = "reserved" /\ t = Special(f)
  \/ holder[f].stage = "none" /\ t = "NORMAL" /\ ~ IsExclusive(f)

LEMMA AllocKept ==
  ASSUME IInv, NEW sizes \in [RegType -> Nat], NEW t \in ContextType, CanAlloc(unit, sizes, t),
         NEW f \in LFID, Claims(f, t), unit' = Alloc(unit, sizes, t),
         holder' = [holder EXCEPT ![f] = [stage |-> "created",
                                          base |-> AllocIndices(unit, sizes)]]
  PROVE  IInv'
  <1> DEFINE n(i) == BlocksFor(sizes[i])
             p(i) == AllocIndices(unit, sizes)[i]
  <1>1. ASSUME NEW i \in RegType
        PROVE  /\ sizes[i] = 0 => p(i) = INVALID
               /\ sizes[i] # 0 =>
                    /\ n(i) \in Nat /\ n(i) >= 1 /\ p(i) \in FreeAreas(unit[i].list, n(i))
                    /\ n(i) <= unit[i].free["NORMAL"] + (IF t = "NORMAL" THEN 0 ELSE 1)
    BY AllocFacts
  <1>2. ASSUME NEW i \in RegType
        PROVE  /\ unit[i].list \in Lists /\ ListOK(unit[i].list) /\ Owned(i) /\ Pooled(i)
               /\ unit[i] \in [free : [ContextType -> Int], list : Lists]
               /\ unit[i].free \in [ContextType -> Int]
    BY DEF IInv, Types, UnitOK
  <1>3. ASSUME NEW i \in RegType, sizes[i] # 0
        PROVE  /\ p(i) \in Blocks /\ unit[i].list[p(i)] = 0
               /\ unit'[i].list = [unit[i].list EXCEPT ![p(i)] = n(i)]
               /\ unit'[i].free = Charge(unit[i].free, n(i), t)
               /\ unit'[i].list \in Lists /\ ListOK(unit'[i].list)
               /\ Cardinality(Occupied(unit'[i].list)) =
                    Cardinality(Occupied(unit[i].list)) + n(i)
    <2>1. unit'[i] = [free |-> Charge(unit[i].free, n(i), t),
                      list |-> [unit[i].list EXCEPT ![p(i)] = n(i)]]
      BY <1>3 DEF Alloc
    <2>2. p(i) \in Blocks /\ unit[i].list[p(i)] = 0
      BY <1>1, <1>2, <1>3, FreeArea
    <2>3. unit'[i].list = [unit[i].list EXCEPT ![p(i)] = n(i)]
      BY <2>1
    <2>4. /\ unit'[i].list \in Lists /\ ListOK(unit'[i].list)
          /\ Cardinality(Occupied(unit'[i].list)) =
               Cardinality(Occupied(unit[i].list)) + n(i)
      BY <1>1, <1>2, <1>3, <2>3, Taken
    <2> QED
      BY <2>1, <2>2, <2>4
  <1>4. ASSUME NEW i \in RegType, sizes[i] = 0
        PROVE  /\ unit'[i].list = unit[i].list
               /\ unit'[i].free =
                    IF t = "RESERVED" THEN [unit[i].free EXCEPT !["NORMAL"] = @ + 1]
                                      ELSE unit[i].free
    BY <1>2, <1>4 DEF Alloc
  <1>5. /\ holder'[f].stage = "created"
        /\ \A i \in RegType : holder'[f].base[i] = p(i) /\ holder[f].base[i] = INVALID
        /\ \A g \in LFID \ {f} : holder'[g] = holder[g]
        /\ holder[f].stage # "created"
    <2>1. holder \in [LFID -> [stage : {"none", "reserved", "created"},
                              base : [RegType -> -1 .. NumBlocks - 1]]]
      BY DEF IInv, Types
    <2>2. holder[f].stage # "created"
      BY DEF Claims
    <2>3. \A i \in RegType : holder[f].base[i] = INVALID
      BY <1>2, <2>2 DEF Owned
    <2> QED
      BY <2>1, <2>2, <2>3
  <1>6. Types'
    <2>1. \A i \in RegType : unit'[i] \in [free : [ContextType -> Int], list : Lists]
      <3>1. ASSUME NEW i \in RegType, sizes[i] # 0
            PROVE  unit'[i] \in [free : [ContextType -> Int], list : Lists]
        <4>1. unit'[i] = [free |-> Charge(unit[i].free, n(i), t),
                          list |-> [unit[i].list EXCEPT ![p(i)] = n(i)]]
          BY <3>1 DEF Alloc
        <4>2. Charge(unit[i].free, n(i), t) \in [ContextType -> Int]
          BY <1>1, <1>2, <3>1 DEF Charge, ContextType
        <4>3. [unit[i].list EXCEPT ![p(i)] = n(i)] \in Lists
          BY <1>3, <3>1
        <4> QED
          BY <4>1, <4>2, <4>3
      <3>2. ASSUME NEW i \in RegType, sizes[i] = 0
            PROVE  unit'[i] \in [free : [ContextType -> Int], list : Lists]
        <4>1. unit'[i] = IF t = "RESERVED" THEN [unit[i] EXCEPT !.free["NORMAL"] = @ + 1]
                                           ELSE unit[i]
          BY <3>2 DEF Alloc
        <4> QED
          BY <1>2, <4>1 DEF ContextType
      <3> QED
        BY <3>1, <3>2
    <2>2. unit' \in [RegType -> [free : [ContextType -> Int], list : Lists]]
      BY <2>1 DEF Alloc
    <2>3. AllocIndices(unit, sizes) \in [RegType -> -1 .. NumBlocks - 1]
      <3>1. ASSUME NEW i \in RegType PROVE p(i) \in -1 .. NumBlocks - 1
        <4>1. p(i) = INVALID \/ p(i) \in Blocks
          BY <1>1, <1>3
        <4> HIDE DEF p
        <4>2. \A q \in Blocks : q \in -1 .. NumBlocks - 1
          BY ListTypes DEF Blocks
        <4>3. INVALID \in -1 .. NumBlocks - 1
          BY ListTypes DEF INVALID
        <4> QED
          BY <4>1, <4>2, <4>3
      <3> QED
        BY <3>1 DEF AllocIndices
    <2> QED
      BY <2>2, <2>3 DEF Types, IInv
  <1> SUFFICES ASSUME NEW i \in RegType PROVE UnitOK(i)'
    BY <1>6 DEF IInv
  <1>7. ListOK(unit[i].list)'
    BY <1>2, <1>3, <1>4
  <1>8. Owned(i)'
    <2>1. \A q \in Blocks : unit'[i].list[q] =
             IF sizes[i] # 0 /\ q = p(i) THEN n(i) ELSE unit[i].list[q]
      BY <1>2, <1>3, <1>4 DEF Lists
    <2>2. sizes[i] # 0 => n(i) > 0
      BY <1>1
    <2>3. \A g \in LFID : holder'[g].base[i] =
             IF g = f THEN p(i) ELSE holder[g].base[i]
      BY <1>5
    <2>4. \A g \in LFID : holder'[g].stage = IF g = f THEN "created" ELSE holder[g].stage
      BY <1>5
    <2>5. ASSUME NEW g \in LFID, holder[g].base[i] # INVALID, sizes[i] # 0
          PROVE  holder[g].base[i] # p(i)
      <3>1. unit[i].list[holder[g].base[i]] > 0
        BY <1>2, <2>5 DEF Owned
      <3>2. unit[i].list[p(i)] = 0
        BY <1>3, <2>5
      <3> HIDE DEF p
      <3> QED
        BY <3>1, <3>2
    <2>6. sizes[i] # 0 => p(i) \in Blocks
      BY <1>3
    <2>7. sizes[i] = 0 => p(i) = INVALID
      BY <1>1
    <2> HIDE DEF n, p
    <2>8. ASSUME NEW g \in LFID, holder'[g].base[i] # INVALID
          PROVE  /\ holder'[g].stage = "created" /\ holder'[g].base[i] \in Blocks
                 /\ unit'[i].list[holder'[g].base[i]] > 0
      <3>1. CASE g = f
        BY <2>1, <2>2, <2>3, <2>4, <2>8, <2>6, <2>7, <3>1
      <3>2. CASE g # f
        <4>1. /\ holder[g].stage = "created" /\ holder[g].base[i] \in Blocks
              /\ unit[i].list[holder[g].base[i]] > 0
          BY <1>2, <2>3, <2>8, <3>2 DEF Owned
        <4>2. sizes[i] # 0 => holder[g].base[i] # p(i)
          BY <2>3, <2>5, <2>8, <3>2
        <4> QED
          BY <2>1, <2>3, <2>4, <3>2, <4>1, <4>2
      <3> QED
        BY <3>1, <3>2
    <2>9. \A g, h \in LFID : holder'[g].base[i] = holder'[h].base[i] /\ g # h =>
             holder'[g].base[i] = INVALID
      BY <1>2, <2>3, <2>5, <2>7 DEF Owned
    <2>10. ASSUME NEW q \in Blocks, unit'[i].list[q] > 0
          PROVE  \E g \in LFID : holder'[g].base[i] = q
      <3>1. CASE sizes[i] # 0 /\ q = p(i)
        BY <2>3, <3>1
      <3>2. CASE ~ (sizes[i] # 0 /\ q = p(i))
        <4>1. PICK g \in LFID : holder[g].base[i] = q
          BY <1>2, <2>1, <2>10, <3>2 DEF Owned
        <4>2. g # f
          BY <1>5, <4>1, Families
        <4> QED
          BY <2>3, <4>1, <4>2
      <3> QED
        BY <3>1, <3>2
    <2> QED
      BY <2>8, <2>9, <2>10 DEF Owned
  <1>9. Pooled(i)'
    <2> DEFINE waits == holder[f].stage = "reserved" /\ ~ IsExclusive(f)
               k == IF waits THEN 1 ELSE 0
               u == unit[i].free["NORMAL"]
               e == unit[i].free["EXCLUSIVE"]
               o == Cardinality(Occupied(unit[i].list))
               w == Cardinality(Waiting)
    <2>1. Cardinality(Waiting)' = w - k
      <3>1. w \in Nat
        BY WaitingType
      <3>2. CASE waits
        BY <1>5, <3>2, WaitingLess
      <3>3. CASE ~ waits
        BY <1>5, <3>1, <3>3, WaitingSame
      <3> QED
        BY <3>2, <3>3
    <2>2. w \in Nat /\ o \in Nat /\ NumBlocks \in Nat /\ u \in Int /\ e \in Int
      BY <1>2, WaitingType, ListTypes, OccupiedType DEF ContextType
    <2>3. /\ u = NumBlocks - o - w - e /\ u >= 0
          /\ e = IF holder[NumFamilies - 1].base[i] = INVALID THEN 1 ELSE 0
      BY <1>2 DEF Pooled
    <2>4. /\ t \in {"NORMAL", "RESERVED", "EXCLUSIVE"}
          /\ t = "RESERVED" <=> waits
          /\ t = "EXCLUSIVE" <=> IsExclusive(f)
      BY DEF Claims, Special, ContextType
    <2>5. IsExclusive(f) => e = 1
      BY <1>5, <2>3 DEF IsExclusive
    <2>6. holder'[NumFamilies - 1].base[i] =
            IF IsExclusive(f) THEN p(i) ELSE holder[NumFamilies - 1].base[i]
      BY <1>5, Families DEF IsExclusive
    <2>7. CASE sizes[i] = 0
      <3>1. unit'[i].free["NORMAL"] = u + k
        <4>1. unit'[i].free["NORMAL"] = IF t = "RESERVED" THEN u + 1 ELSE u
          BY <1>2, <1>4, <2>7 DEF ContextType
        <4> HIDE DEF u, waits
        <4> QED
          BY <2>2, <2>4, <4>1
      <3>2. unit'[i].free["EXCLUSIVE"] = e
        BY <1>2, <1>4, <2>7 DEF ContextType
      <3>3. Cardinality(Occupied(unit[i].list))' = o
        BY <1>4, <2>7
      <3>4. holder'[NumFamilies - 1].base[i] = holder[NumFamilies - 1].base[i]
        BY <1>1, <1>5, <2>6, <2>7 DEF IsExclusive
      <3> HIDE DEF u, e, o, w, waits
      <3>5. k \in Nat
        OBVIOUS
      <3> HIDE DEF k
      <3> QED
        BY <2>1, <2>2, <2>3, <3>1, <3>2, <3>3, <3>4, <3>5 DEF Pooled
    <2>8. CASE sizes[i] # 0
      <3>1. unit'[i].free["NORMAL"] = IF t = "NORMAL" THEN u - n(i) ELSE u - (n(i) - 1)
        BY <1>2, <1>3, <2>8 DEF Charge, ContextType
      <3>2. unit'[i].free["EXCLUSIVE"] = IF t = "EXCLUSIVE" THEN e - 1 ELSE e
        <4>1. unit'[i].free = Charge(unit[i].free, n(i), t)
          BY <1>3, <2>8
        <4>2. unit[i].free \in [ContextType -> Int]
          BY <1>2
        <4> HIDE DEF n, p
        <4>3. CASE t = "NORMAL"
          BY <4>1, <4>2, <4>3 DEF Charge, ContextType
        <4>4. CASE t = "RESERVED"
          BY <4>1, <4>2, <4>4 DEF Charge, ContextType
        <4>5. CASE t = "EXCLUSIVE"
          BY <4>1, <4>2, <4>5 DEF Charge, ContextType
        <4> QED
          BY <2>4, <4>3, <4>4, <4>5
      <3>3. Cardinality(Occupied(unit[i].list))' = o + n(i)
        BY <1>3, <2>8
      <3>4. n(i) \in Nat /\ n(i) <= u + (IF t = "NORMAL" THEN 0 ELSE 1)
        BY <1>1, <2>8
      <3>5. IsExclusive(f) => holder'[NumFamilies - 1].base[i] # INVALID
        <4>1. p(i) \in Blocks
          BY <1>3, <2>8
        <4> HIDE DEF p
        <4> QED
          BY <2>6, <4>1, Families
      <3>6. ~ IsExclusive(f) => holder'[NumFamilies - 1].base[i] = holder[NumFamilies - 1].base[i]
        BY <2>6
      <3>7. waits => ~ IsExclusive(f)
        OBVIOUS
      <3> HIDE DEF u, e, o, w, waits, n, p
      <3>8. unit'[i].free["NORMAL"] >= 0
        BY <2>2, <3>1, <3>4
      <3>9. unit'[i].free["NORMAL"] = NumBlocks - (o + n(i)) - (w - k) - unit'[i].free["EXCLUSIVE"]
        <4>1. CASE t = "NORMAL"
          BY <2>2, <2>3, <2>4, <3>1, <3>2, <3>4, <4>1
        <4>2. CASE t = "RESERVED"
          BY <2>2, <2>3, <2>4, <3>1, <3>2, <3>4, <4>2
        <4>3. CASE t = "EXCLUSIVE"
          BY <2>2, <2>3, <2>4, <3>1, <3>2, <3>4, <3>7, <4>3
        <4> QED
          BY <2>4, <4>1, <4>2, <4>3
      <3>10. unit'[i].free["EXCLUSIVE"] =
               IF holder'[NumFamilies - 1].base[i] = INVALID THEN 1 ELSE 0
        BY <2>2, <2>3, <2>4, <2>5, <3>2, <3>5, <3>6
      <3> QED
        BY <2>1, <3>3, <3>8, <3>9, <3>10 DEF Pooled
    <2> QED
      BY <2>7, <2>8
  <1> QED
    BY <1>7, <1>8, <1>9 DEF UnitOK

LEMMA ReleaseKept ==
  ASSUME IInv, NEW f \in LFID, FreeRegisters(f)
  PROVE  IInv'
  <1> DEFINE t == IF IsExclusive(f) THEN "EXCLUSIVE" ELSE "NORMAL"
             b(i) == holder[f].base[i]
             n(i) == unit[i].list[b(i)]
  <1>1. /\ holder[f].stage = "created"
        /\ unit' = Release(unit, holder[f].base, t)
        /\ holder' = [holder EXCEPT ![f] = Nothing]
    BY DEF FreeRegisters
  <1>2. ASSUME NEW i \in RegType
        PROVE  /\ unit[i].list \in Lists /\ ListOK(unit[i].list) /\ Owned(i) /\ Pooled(i)
               /\ unit[i] \in [free : [ContextType -> Int], list : Lists]
               /\ unit[i].free \in [ContextType -> Int]
    BY DEF IInv, Types, UnitOK
  <1>3. /\ holder'[f] = Nothing
        /\ \A i \in RegType : holder'[f].base[i] = INVALID
        /\ \A g \in LFID \ {f} : holder'[g] = holder[g]
    <2>1. holder \in [LFID -> [stage : {"none", "reserved", "created"},
                              base : [RegType -> -1 .. NumBlocks - 1]]]
      BY DEF IInv, Types
    <2> QED
      BY <1>1, <2>1 DEF Nothing
  <1>4. ASSUME NEW i \in RegType, b(i) = INVALID
        PROVE  unit'[i] = unit[i]
    BY <1>1, <1>4 DEF Release
  <1>5. ASSUME NEW i \in RegType, b(i) # INVALID
        PROVE  /\ b(i) \in Blocks /\ n(i) \in Nat /\ n(i) > 0
               /\ unit'[i] = [free |-> Refund(unit[i].free, n(i), t),
                             list |-> [unit[i].list EXCEPT ![b(i)] = 0]]
               /\ unit'[i].free = Refund(unit[i].free, n(i), t)
               /\ unit'[i].list = [unit[i].list EXCEPT ![b(i)] = 0]
               /\ unit'[i].list \in Lists /\ ListOK(unit'[i].list)
               /\ Cardinality(Occupied(unit'[i].list)) =
                    Cardinality(Occupied(unit[i].list)) - n(i)
    <2>1. unit'[i] = [free |-> Refund(unit[i].free, n(i), t),
                      list |-> [unit[i].list EXCEPT ![b(i)] = 0]]
      BY <1>1, <1>5 DEF Release
    <2>2. b(i) \in Blocks /\ n(i) > 0
      BY <1>2, <1>5 DEF Owned
    <2>3. n(i) \in Nat
      BY <1>2, <2>2, ListTypes
    <2>4. /\ unit'[i].list = [unit[i].list EXCEPT ![b(i)] = 0]
          /\ unit'[i].free = Refund(unit[i].free, n(i), t)
      BY <2>1
    <2>5. /\ unit'[i].list \in Lists /\ ListOK(unit'[i].list)
          /\ Cardinality(Occupied(unit'[i].list)) =
               Cardinality(Occupied(unit[i].list)) - n(i)
      BY <1>2, <2>2, <2>4, Cleared
    <2> QED
      BY <2>1, <2>2, <2>3, <2>4, <2>5
  <1>6. Types'
    <2>1. ASSUME NEW i \in RegType
          PROVE  unit'[i] \in [free : [ContextType -> Int], list : Lists]
      <3>1. CASE b(i) = INVALID
        BY <1>2, <1>4, <3>1
      <3>2. CASE b(i) # INVALID
        <4>1. /\ n(i) \in Nat
              /\ unit'[i] = [free |-> Refund(unit[i].free, n(i), t),
                            list |-> [unit[i].list EXCEPT ![b(i)] = 0]]
              /\ unit'[i].list \in Lists
          BY <1>5, <3>2
        <4> HIDE DEF n, b
        <4>2. Refund(unit[i].free, n(i), t) \in [ContextType -> Int]
          BY <1>2, <4>1 DEF Refund, ContextType
        <4> QED
          BY <4>1, <4>2
      <3> QED
        BY <3>1, <3>2
    <2>2. unit' \in [RegType -> [free : [ContextType -> Int], list : Lists]]
      BY <1>1, <2>1 DEF Release
    <2>3. Nothing \in [stage : {"none", "reserved", "created"},
                      base : [RegType -> -1 .. NumBlocks - 1]]
      BY ListTypes DEF Nothing, INVALID
    <2> QED
      BY <1>1, <2>2, <2>3 DEF Types, IInv
  <1> SUFFICES ASSUME NEW i \in RegType PROVE UnitOK(i)'
    BY <1>6 DEF IInv
  <1>7. ListOK(unit[i].list)'
    BY <1>2, <1>4, <1>5
  <1>8. Owned(i)'
    <2>1. ASSUME NEW q \in Blocks
          PROVE  unit'[i].list[q] =
                   IF b(i) # INVALID /\ q = b(i) THEN 0 ELSE unit[i].list[q]
      <3>1. CASE b(i) = INVALID
        BY <1>4, <3>1
      <3>2. CASE b(i) # INVALID
        <4>1. unit'[i].list = [unit[i].list EXCEPT ![b(i)] = 0]
          BY <1>5, <3>2
        <4> HIDE DEF b
        <4> QED
          BY <1>2, <3>2, <4>1 DEF Lists
      <3> QED
        BY <3>1, <3>2
    <2>2. \A g \in LFID : holder'[g].base[i] = IF g = f THEN INVALID ELSE holder[g].base[i]
      BY <1>3
    <2>3. \A g \in LFID : g # f => holder'[g].stage = holder[g].stage
      BY <1>3
    <2>4. \A g \in LFID : g # f /\ holder[g].base[i] # INVALID => holder[g].base[i] # b(i)
      BY <1>2 DEF Owned
    <2>5. ASSUME NEW g \in LFID, holder'[g].base[i] # INVALID
          PROVE  /\ holder'[g].stage = "created" /\ holder'[g].base[i] \in Blocks
                 /\ unit'[i].list[holder'[g].base[i]] > 0
      <3>1. g # f /\ holder'[g].base[i] = holder[g].base[i]
        BY <2>2, <2>5
      <3>2. /\ holder[g].stage = "created" /\ holder[g].base[i] \in Blocks
            /\ unit[i].list[holder[g].base[i]] > 0
        BY <1>2, <2>5, <3>1 DEF Owned
      <3>3. holder[g].base[i] # b(i)
        BY <2>4, <2>5, <3>1
      <3> HIDE DEF b
      <3> QED
        BY <2>1, <2>3, <3>1, <3>2, <3>3
    <2>6. \A g, h \in LFID : holder'[g].base[i] = holder'[h].base[i] /\ g # h =>
             holder'[g].base[i] = INVALID
      BY <1>2, <2>2 DEF Owned
    <2>7. ASSUME NEW q \in Blocks, unit'[i].list[q] > 0
          PROVE  \E g \in LFID : holder'[g].base[i] = q
      <3>1. /\ ~ (b(i) # INVALID /\ q = b(i)) /\ unit[i].list[q] > 0
        BY <2>1, <2>7
      <3>2. PICK g \in LFID : holder[g].base[i] = q
        BY <1>2, <3>1 DEF Owned
      <3>3. g # f
        BY <3>1, <3>2, Families
      <3> QED
        BY <2>2, <3>2, <3>3
    <2> QED
      BY <2>5, <2>6, <2>7 DEF Owned
  <1>9. Pooled(i)'
    <2> DEFINE u == unit[i].free["NORMAL"]
               e == unit[i].free["EXCLUSIVE"]
               o == Cardinality(Occupied(unit[i].list))
               w == Cardinality(Waiting)
    <2>1. Cardinality(Waiting)' = w
      BY <1>1, <1>3, WaitingSame DEF Nothing
    <2>2. w \in Nat /\ o \in Nat /\ NumBlocks \in Nat /\ u \in Int /\ e \in Int
      BY <1>2, WaitingType, ListTypes, OccupiedType DEF ContextType
    <2>3. /\ u = NumBlocks - o - w - e /\ u >= 0
          /\ e = IF holder[NumFamilies - 1].base[i] = INVALID THEN 1 ELSE 0
      BY <1>2 DEF Pooled
    <2>4. holder'[NumFamilies - 1].base[i] =
            IF IsExclusive(f) THEN INVALID ELSE holder[NumFamilies - 1].base[i]
      BY <1>3, Families DEF IsExclusive
    <2>5. CASE b(i) = INVALID
      <3>1. unit'[i] = unit[i]
        BY <1>4, <2>5
      <3>2. holder'[NumFamilies - 1].base[i] = holder[NumFamilies - 1].base[i]
        BY <2>4, <2>5 DEF IsExclusive
      <3> QED
        BY <2>1, <2>3, <3>1, <3>2 DEF Pooled
    <2>6. CASE b(i) # INVALID
      <3>1. /\ unit'[i].free = Refund(unit[i].free, n(i), t)
            /\ n(i) \in Nat /\ n(i) > 0
            /\ Cardinality(Occupied(unit[i].list))' = o - n(i)
        BY <1>5, <2>6
      <3>2. unit[i].free \in [ContextType -> Int]
        BY <1>2
      <3>3. IsExclusive(f) => e = 0
        BY <2>3, <2>6 DEF IsExclusive
      <3> HIDE DEF n, b
      <3>4. CASE IsExclusive(f)
        <4>1. unit'[i].free["NORMAL"] = u + n(i) - 1 /\ unit'[i].free["EXCLUSIVE"] = e + 1
          BY <3>1, <3>2, <3>4 DEF Refund, ContextType
        <4> HIDE DEF u, e, o, w
        <4> QED
          BY <2>1, <2>2, <2>3, <2>4, <3>1, <3>3, <3>4, <4>1 DEF Pooled
      <3>5. CASE ~ IsExclusive(f)
        <4>1. unit'[i].free["NORMAL"] = u + n(i) /\ unit'[i].free["EXCLUSIVE"] = e
          BY <3>1, <3>2, <3>5 DEF Refund, ContextType
        <4> HIDE DEF u, e, o, w
        <4> QED
          BY <2>1, <2>2, <2>3, <2>4, <3>1, <3>5, <4>1 DEF Pooled
      <3> QED
        BY <3>4, <3>5
    <2> QED
      BY <2>5, <2>6
  <1> QED
    BY <1>7, <1>8, <1>9 DEF UnitOK

-----------------------------------------------------------------------------
(* Every step keeps the invariant                                           *)

LEMMA FreeMoved ==
  ASSUME NEW u \in [free : [ContextType -> Int], list : Lists],
         NEW k \in ContextType, NEW m \in ContextType, NEW x \in Int, NEW y \in Int
  PROVE  [u EXCEPT !.free[k] = x, !.free[m] = y]
           = [free |-> [u.free EXCEPT ![k] = x, ![m] = y], list |-> u.list]
  <1>1. /\ [u EXCEPT !.free[k] = x, !.free[m] = y]
             = [[u EXCEPT !.free[k] = x] EXCEPT !.free[m] = y]
        /\ [u EXCEPT !.free[k] = x] = [free |-> [u.free EXCEPT ![k] = x], list |-> u.list]
    OBVIOUS
  <1>2. [[free |-> [u.free EXCEPT ![k] = x], list |-> u.list] EXCEPT !.free[m] = y]
          = [free |-> [u.free EXCEPT ![k] = x, ![m] = y], list |-> u.list]
    OBVIOUS
  <1> QED
    BY <1>1, <1>2

LEMMA PoolNames ==
  "NORMAL" \in ContextType /\ "RESERVED" \in ContextType /\ "EXCLUSIVE" \in ContextType
  BY DEF ContextType

LEMMA ReserveKept ==
  ASSUME IInv, NEW f \in LFID, AllocateContext(f)
  PROVE  IInv'
  <1>1. /\ unit \in [RegType -> [free : [ContextType -> Int], list : Lists]]
        /\ holder \in [LFID -> [stage : {"none", "reserved", "created"},
                                base : [RegType -> -1 .. NumBlocks - 1]]]
    BY DEF IInv, Types
  <1>2. /\ holder[f].stage = "none"
        /\ holder' = [holder EXCEPT ![f].stage = "reserved"]
        /\ unit' = IF IsExclusive(f) THEN unit ELSE ReserveContext(unit)
    BY DEF AllocateContext
  <1>3. /\ holder'[f].stage = "reserved" /\ holder'[f].base = holder[f].base
        /\ \A g \in LFID \ {f} : holder'[g] = holder[g]
    BY <1>1, <1>2
  <1>4. holder' \in [LFID -> [stage : {"none", "reserved", "created"},
                             base : [RegType -> -1 .. NumBlocks - 1]]]
    BY <1>1, <1>2
  <1>5. CASE IsExclusive(f)
    <2>1. unit' = unit
      BY <1>2, <1>5
    <2>2. Cardinality(Waiting)' = Cardinality(Waiting) + 0
      BY <1>3, <1>5, WaitingSame, WaitingType
    <2>3. \A i \in RegType : unit[i].free["NORMAL"] \in Int /\ unit[i].free["NORMAL"] >= 0
      BY <1>1 DEF IInv, UnitOK, Pooled, ContextType
    <2>4. Types'
      BY <1>1, <1>4, <2>1 DEF Types
    <2>5. \A i \in RegType :
            /\ unit'[i].list = unit[i].list
            /\ unit'[i].free["NORMAL"] = unit[i].free["NORMAL"] - 0
            /\ unit[i].free["NORMAL"] - 0 >= 0
            /\ unit'[i].free["EXCLUSIVE"] = unit[i].free["EXCLUSIVE"]
      BY <2>1, <2>3
    <2> QED
      BY <1>2, <1>3, <2>2, <2>4, <2>5, ContextKept
  <1>6. CASE ~ IsExclusive(f)
    <2>1. unit' = ReserveContext(unit)
      BY <1>2, <1>6
    <2>2. Cardinality(Waiting)' = Cardinality(Waiting) + 1
      BY <1>2, <1>3, <1>6, WaitingMore
    <2>3. ASSUME NEW i \in RegType
          PROVE  /\ unit'[i] \in [free : [ContextType -> Int], list : Lists]
                 /\ unit'[i].list = unit[i].list
                 /\ unit'[i].free["NORMAL"] = unit[i].free["NORMAL"] - 1
                 /\ unit'[i].free["EXCLUSIVE"] = unit[i].free["EXCLUSIVE"]
      <3> DEFINE x == unit[i].free["NORMAL"] - 1
                 y == unit[i].free["RESERVED"] + 1
      <3>1. unit[i] \in [free : [ContextType -> Int], list : Lists]
        BY <1>1
      <3>2. x \in Int /\ y \in Int
        BY <3>1 DEF ContextType
      <3>3. unit'[i] = [unit[i] EXCEPT !.free["NORMAL"] = x, !.free["RESERVED"] = y]
        BY <2>1, <3>1 DEF ReserveContext, ContextType
      <3>4. x = unit[i].free["NORMAL"] - 1
        OBVIOUS
      <3> HIDE DEF x, y
      <3>5. unit'[i] = [free |-> [unit[i].free EXCEPT !["NORMAL"] = x, !["RESERVED"] = y],
                        list |-> unit[i].list]
        BY <3>1, <3>2, <3>3, PoolNames, FreeMoved
      <3>6. /\ [unit[i].free EXCEPT !["NORMAL"] = x, !["RESERVED"] = y] \in [ContextType -> Int]
            /\ unit[i].list \in Lists
        BY <3>1, <3>2, PoolNames
      <3>7. /\ unit'[i] \in [free : [ContextType -> Int], list : Lists]
            /\ unit'[i].list = unit[i].list
        BY <3>5, <3>6
      <3>8. unit'[i].free = [unit[i].free EXCEPT !["NORMAL"] = x, !["RESERVED"] = y]
        BY <3>5
      <3>9. unit'[i].free["NORMAL"] = x /\ unit'[i].free["EXCLUSIVE"] = unit[i].free["EXCLUSIVE"]
        BY <3>1, <3>8 DEF ContextType
      <3> QED
        BY <3>4, <3>7, <3>9
    <2>4. unit' \in [RegType -> [free : [ContextType -> Int], list : Lists]]
      BY <2>1, <2>3 DEF ReserveContext
    <2>5. ASSUME NEW i \in RegType PROVE unit[i].free["NORMAL"] - 1 >= 0
      <3> DEFINE S == {unit[j].free["NORMAL"] : j \in RegType}
      <3>1. S \in SUBSET Nat /\ S # {} /\ unit[i].free["NORMAL"] \in S
        BY <1>1 DEF IInv, UnitOK, Pooled, ContextType, RegType
      <3>2. Min(S) > 0
        BY <1>6 DEF AllocateContext, GetNumFreeContexts
      <3> HIDE DEF S
      <3>3. Min(S) \in S /\ Min(S) <= unit[i].free["NORMAL"]
        BY <3>1, MinIn
      <3>4. Min(S) \in Nat /\ unit[i].free["NORMAL"] \in Nat
        BY <3>1, <3>3
      <3> QED
        BY <3>2, <3>3, <3>4
    <2>6. Types'
      BY <1>4, <2>4 DEF Types
    <2> QED
      BY <1>2, <1>3, <2>2, <2>3, <2>5, <2>6, ContextKept
  <1> QED
    BY <1>5, <1>6

LEMMA UnreserveKept ==
  ASSUME IInv, NEW f \in LFID, ReleaseContext(f)
  PROVE  IInv'
  <1>1. /\ unit \in [RegType -> [free : [ContextType -> Int], list : Lists]]
        /\ holder \in [LFID -> [stage : {"none", "reserved", "created"},
                                base : [RegType -> -1 .. NumBlocks - 1]]]
    BY DEF IInv, Types
  <1>2. /\ holder[f].stage = "reserved" /\ ~ IsExclusive(f)
        /\ unit' = UnreserveContext(unit)
        /\ holder' = [holder EXCEPT ![f] = Nothing]
    BY DEF ReleaseContext
  <1>3. Nothing \in [stage : {"none", "reserved", "created"},
                    base : [RegType -> -1 .. NumBlocks - 1]]
    BY ListTypes DEF Nothing, INVALID
  <1>4. holder' \in [LFID -> [stage : {"none", "reserved", "created"},
                             base : [RegType -> -1 .. NumBlocks - 1]]]
    BY <1>1, <1>2, <1>3
  <1>5. \A i \in RegType : holder[f].base[i] = INVALID
    BY <1>2 DEF IInv, UnitOK, Owned
  <1>6. /\ holder'[f].stage = "none" /\ holder'[f].base = holder[f].base
        /\ \A g \in LFID \ {f} : holder'[g] = holder[g]
    <2>1. holder'[f] = Nothing /\ \A g \in LFID \ {f} : holder'[g] = holder[g]
      BY <1>1, <1>2
    <2>2. holder[f].base = [i \in RegType |-> INVALID]
      BY <1>1, <1>5
    <2> QED
      BY <2>1, <2>2 DEF Nothing
  <1>7. Cardinality(Waiting)' = Cardinality(Waiting) + (-1)
    BY <1>2, <1>6, WaitingLess, WaitingType
  <1>8. ASSUME NEW i \in RegType
        PROVE  /\ unit'[i] \in [free : [ContextType -> Int], list : Lists]
               /\ unit'[i].list = unit[i].list
               /\ unit'[i].free["NORMAL"] = unit[i].free["NORMAL"] - (-1)
               /\ unit[i].free["NORMAL"] - (-1) >= 0
               /\ unit'[i].free["EXCLUSIVE"] = unit[i].free["EXCLUSIVE"]
    <2> DEFINE x == unit[i].free["NORMAL"] + 1
               y == unit[i].free["RESERVED"] - 1
    <2>1. unit[i] \in [free : [ContextType -> Int], list : Lists]
      BY <1>1
    <2>2. x \in Int /\ y \in Int /\ unit[i].free["NORMAL"] \in Int
      BY <2>1 DEF ContextType
    <2>3. unit'[i] = [unit[i] EXCEPT !.free["NORMAL"] = x, !.free["RESERVED"] = y]
      BY <1>2, <2>1 DEF UnreserveContext, ContextType
    <2>4. unit[i].free["NORMAL"] >= 0
      BY DEF IInv, UnitOK, Pooled
    <2>5. x = unit[i].free["NORMAL"] - (-1) /\ x >= 0
      BY <2>2, <2>4
    <2> HIDE DEF x, y
    <2>6. unit'[i] = [free |-> [unit[i].free EXCEPT !["NORMAL"] = x, !["RESERVED"] = y],
                      list |-> unit[i].list]
      BY <2>1, <2>2, <2>3, PoolNames, FreeMoved
    <2>7. /\ [unit[i].free EXCEPT !["NORMAL"] = x, !["RESERVED"] = y] \in [ContextType -> Int]
           /\ unit[i].list \in Lists
      BY <2>1, <2>2, PoolNames
    <2>8. /\ unit'[i] \in [free : [ContextType -> Int], list : Lists]
          /\ unit'[i].list = unit[i].list
      BY <2>6, <2>7
    <2>9. unit'[i].free = [unit[i].free EXCEPT !["NORMAL"] = x, !["RESERVED"] = y]
      BY <2>6
    <2>10. unit'[i].free["NORMAL"] = x /\ unit'[i].free["EXCLUSIVE"] = unit[i].free["EXCLUSIVE"]
      BY <2>1, <2>9 DEF ContextType
    <2> QED
      BY <2>5, <2>8, <2>10
  <1>9. unit' \in [RegType -> [free : [ContextType -> Int], list : Lists]]
    BY <1>2, <1>8 DEF UnreserveContext
  <1>10. Types'
    BY <1>4, <1>9 DEF Types
  <1> QED
    BY <1>2, <1>6, <1>7, <1>8, <1>10, ContextKept

LEMMA Sizes ==
  ASSUME NEW n \in Counts, NEW k \in Nat
  PROVE  RegSizes(n, k) \in [RegType -> Nat]
  <1>1. ASSUME NEW i \in RegType
        PROVE  (n[i].locals + n[i].shareds) * k + n[i].globals + n[i].shareds \in Nat
    <2>1. n[i] \in [globals : Nat, shareds : Nat, locals : Nat]
      BY BodyFits
    <2>2. /\ n[i].locals + n[i].shareds \in Nat /\ n[i].globals \in Nat
          /\ n[i].shareds \in Nat
      BY <2>1
    <2>3. (n[i].locals + n[i].shareds) * k \in Nat
      BY <2>2
    <2> QED
      BY <2>2, <2>3
  <1> QED
    BY <1>1 DEF RegSizes

LEMMA CreateKept ==
  ASSUME IInv, NEW f \in LFID, NEW n \in Counts, NEW phys \in 0 .. MaxPhys,
         AllocateRegisters(f, n, phys)
  PROVE  IInv'
  <1> DEFINE S == Fitting(unit, n, phys, Special(f))
             sizes == RegSizes(n, Max(S))
  <1>1. /\ holder[f].stage = "reserved" /\ S # {}
        /\ unit' = Alloc(unit, sizes, Special(f))
        /\ holder' = [holder EXCEPT ![f].stage = "created",
                                   ![f].base = AllocIndices(unit, sizes)]
    BY DEF AllocateRegisters
  <1>2. Max({1, phys}) \in Nat
    <2>1. phys \in Nat
      BY BodyFits
    <2>2. \E x \in {1, phys} : \A y \in {1, phys} : x >= y
      BY <2>1
    <2>3. Max({1, phys}) \in {1, phys}
      BY <2>2 DEF Max
    <2> QED
      BY <2>1, <2>3
  <1>3. S \in SUBSET (1 .. Max({1, phys}))
    BY DEF Fitting
  <1>4. Max(S) \in S
    BY <1>1, <1>2, <1>3, MaxIn
  <1>5. Max(S) \in Nat /\ CanAlloc(unit, sizes, Special(f))
    BY <1>2, <1>3, <1>4 DEF Fitting
  <1>6. sizes \in [RegType -> Nat]
    BY <1>5, Sizes
  <1> HIDE DEF S, sizes
  <1>7. holder' = [holder EXCEPT ![f] = [stage |-> "created",
                                         base |-> AllocIndices(unit, sizes)]]
    <2>1. holder \in [LFID -> [stage : {"none", "reserved", "created"},
                              base : [RegType -> -1 .. NumBlocks - 1]]]
      BY DEF IInv, Types
    <2> DEFINE x == AllocIndices(unit, sizes)
    <2>2. holder' = [holder EXCEPT ![f].stage = "created", ![f].base = x]
      BY <1>1
    <2> HIDE DEF x
    <2>3. [holder[f] EXCEPT !.stage = "created", !.base = x] = [stage |-> "created", base |-> x]
      <3>1. holder[f] \in [stage : {"none", "reserved", "created"},
                          base : [RegType -> -1 .. NumBlocks - 1]]
        BY <2>1
      <3>2. /\ [holder[f] EXCEPT !.stage = "created", !.base = x]
                 = [[holder[f] EXCEPT !.stage = "created"] EXCEPT !.base = x]
            /\ [holder[f] EXCEPT !.stage = "created"]
                 = [stage |-> "created", base |-> holder[f].base]
        BY <3>1
      <3>3. [[stage |-> "created", base |-> holder[f].base] EXCEPT !.base = x]
              = [stage |-> "created", base |-> x]
        OBVIOUS
      <3> QED
        BY <3>2, <3>3
    <2>4. holder' = [holder EXCEPT ![f] = [stage |-> "created", base |-> x]]
      BY <2>1, <2>2, <2>3
    <2> QED
      BY <2>4 DEF x
  <1>8. Special(f) \in ContextType /\ Claims(f, Special(f))
    BY <1>1 DEF Special, ContextType, Claims
  <1> QED
    BY <1>1, <1>5, <1>6, <1>7, <1>8, AllocKept

LEMMA InitialKept ==
  ASSUME IInv, NEW f \in LFID, NEW n \in Counts, AllocateInitialFamily(f, n)
  PROVE  IInv'
  <1>1. /\ holder[f] = Nothing /\ f = 0
        /\ CanAlloc(unit, RegSizes(n, 1), "NORMAL")
        /\ unit' = Alloc(unit, RegSizes(n, 1), "NORMAL")
        /\ holder' = [holder EXCEPT ![f] = [stage |-> "created",
                                           base |-> AllocIndices(unit, RegSizes(n, 1))]]
    BY DEF AllocateInitialFamily
  <1>2. RegSizes(n, 1) \in [RegType -> Nat]
    BY Sizes
  <1>3. "NORMAL" \in ContextType /\ Claims(f, "NORMAL")
    BY <1>1, Families DEF ContextType, Claims, Nothing, IsExclusive
  <1> QED
    BY <1>1, <1>2, <1>3, AllocKept

LEMMA InvInit == Init => IInv
  <1> SUFFICES ASSUME Init PROVE IInv
    OBVIOUS
  <1>1. unit = FreshUnit /\ holder = [f \in LFID |-> Nothing]
    BY DEF Init
  <1>2. AllFree(NumBlocks) \in [ContextType -> Int]
    BY ListTypes DEF AllFree, ContextType
  <1>3. [p \in 0 .. NumBlocks - 1 |-> 0] \in Lists
    BY ListTypes DEF Lists, Blocks
  <1>4. Nothing \in [stage : {"none", "reserved", "created"},
                    base : [RegType -> -1 .. NumBlocks - 1]]
    BY ListTypes DEF Nothing, INVALID
  <1>5. Types
    BY <1>1, <1>2, <1>3, <1>4 DEF Types, FreshUnit
  <1>6. ASSUME NEW i \in RegType PROVE UnitOK(i)
    <2>1. /\ unit[i].list = [p \in 0 .. NumBlocks - 1 |-> 0]
          /\ unit[i].free = AllFree(NumBlocks)
      BY <1>1 DEF FreshUnit
    <2>2. ListOK(unit[i].list) /\ unit[i].list \in Lists
      BY <1>3, <2>1, ListTypes DEF ListOK, Blocks
    <2>3. \A f \in LFID : holder[f].base[i] = INVALID
      BY <1>1 DEF Nothing
    <2>4. Owned(i)
      BY <2>1, <2>3 DEF Owned, Blocks
    <2>5. Cardinality(Waiting) = 0
      <3>1. Waiting = {}
        BY <1>1 DEF Waiting, Nothing
      <3> QED
        BY <3>1, FS_EmptySet
    <2>6. Cardinality(Occupied(unit[i].list)) = 0
      <3>1. \A p \in Blocks : unit[i].list[p] = 0 /\ p \in Nat
        BY <2>1, ListTypes DEF Blocks
      <3>2. \A x : ~ (x \in Occupied(unit[i].list))
        BY <2>2, <3>1, OccupiedType
      <3>3. Occupied(unit[i].list) = {}
        BY <3>2
      <3> QED
        BY <3>3, FS_EmptySet
    <2>7. unit[i].free["NORMAL"] = NumBlocks - 1 /\ unit[i].free["EXCLUSIVE"] = 1
      BY <2>1 DEF AllFree, ContextType
    <2>8. Pooled(i)
      BY <2>3, <2>5, <2>6, <2>7, Families, ListTypes DEF Pooled
    <2> QED
      BY <2>2, <2>4, <2>8 DEF UnitOK
  <1> QED
    BY <1>5, <1>6 DEF IInv

LEMMA InvNext == IInv /\ [Next]_vars => IInv'
  <1> SUFFICES ASSUME IInv, [Next]_vars PROVE IInv'
    OBVIOUS
  <1>1. ASSUME NEW f \in LFID, AllocateContext(f) PROVE IInv'
    BY <1>1, ReserveKept
  <1>2. ASSUME NEW f \in LFID, ReleaseContext(f) PROVE IInv'
    BY <1>2, UnreserveKept
  <1>3. ASSUME NEW f \in LFID, NEW n \in Counts, NEW p \in 0 .. MaxPhys,
               AllocateRegisters(f, n, p)
        PROVE  IInv'
    BY <1>3, CreateKept
  <1>4. ASSUME NEW f \in LFID, NEW n \in Counts, AllocateInitialFamily(f, n) PROVE IInv'
    BY <1>4, InitialKept
  <1>5. ASSUME NEW f \in LFID, FreeRegisters(f) PROVE IInv'
    BY <1>5, ReleaseKept
  <1>6. CASE UNCHANGED vars
    <2>1. unit' = unit /\ holder' = holder
      BY <1>6 DEF vars
    <2>2. /\ Types' /\ Waiting' = Waiting
          /\ \A i \in RegType : Owned(i)' /\ (ListOK(unit[i].list))'
      BY <2>1 DEF IInv, Types, UnitOK, Owned, Waiting
    <2>3. \A i \in RegType : Pooled(i)'
      BY <2>1, <2>2 DEF IInv, UnitOK, Pooled
    <2> QED
      BY <2>2, <2>3 DEF IInv, UnitOK
  <1> QED
    BY <1>1, <1>2, <1>3, <1>4, <1>5, <1>6 DEF Next

LEMMA InvHolds == Spec => []IInv
  BY InvInit, InvNext, PTL DEF Spec

-----------------------------------------------------------------------------
(* What the invariant says of the pools and of reservations                 *)

LEMMA InvPools == IInv => PoolsExact
  <1> SUFFICES ASSUME IInv, NEW i \in RegType
               PROVE  /\ \A f, g \in LFID : f # g => AreaOf(f, i) \cap AreaOf(g, i) = {}
                      /\ Occupied(unit[i].list) = UNION {AreaOf(f, i) : f \in LFID}
                      /\ unit[i].free["NORMAL"] =
                           NumBlocks - Cardinality(Occupied(unit[i].list))
                           - Cardinality(Waiting) - unit[i].free["EXCLUSIVE"]
    BY DEF PoolsExact, AreasOwned, NormalPoolExact, Waiting
  <1>1. /\ unit[i].list \in Lists /\ ListOK(unit[i].list) /\ Owned(i) /\ Pooled(i)
    BY DEF IInv, Types, UnitOK
  <1> DEFINE l == unit[i].list
             b(f) == holder[f].base[i]
  <1>2. \A f \in LFID : AreaOf(f, i) = IF b(f) = INVALID THEN {} ELSE b(f) .. b(f) + l[b(f)] - 1
    BY DEF AreaOf
  <1>3. \A f \in LFID : b(f) # INVALID => b(f) \in Blocks /\ l[b(f)] > 0
    BY <1>1 DEF Owned
  <1>4. \A f, g \in LFID : b(f) = b(g) /\ f # g => b(f) = INVALID
    BY <1>1 DEF Owned
  <1>5. \A p \in Blocks : l[p] > 0 => \E f \in LFID : b(f) = p
    BY <1>1 DEF Owned
  <1>6. ListOK(l) /\ l \in Lists
    BY <1>1
  <1>7. \A x : x \in Occupied(l) <=> \E p \in Blocks : x \in p .. p + l[p] - 1
    BY <1>6, OccupiedType
  <1> HIDE DEF l, b
  <1>8. ASSUME NEW f \in LFID, NEW g \in LFID, f # g
        PROVE  AreaOf(f, i) \cap AreaOf(g, i) = {}
    <2>1. CASE b(f) = INVALID \/ b(g) = INVALID
      BY <1>2, <2>1
    <2>2. CASE b(f) # INVALID /\ b(g) # INVALID
      <3>1. /\ b(f) \in Blocks /\ b(g) \in Blocks /\ b(f) # b(g)
            /\ l[b(f)] > 0 /\ l[b(g)] > 0
        BY <1>3, <1>4, <1>8, <2>2
      <3>2. /\ b(f) < b(g) => b(f) + l[b(f)] <= b(g)
            /\ b(g) < b(f) => b(g) + l[b(g)] <= b(f)
        BY <1>6, <3>1 DEF ListOK
      <3>3. b(f) \in Nat /\ b(g) \in Nat /\ l[b(f)] \in Nat /\ l[b(g)] \in Nat
        BY <1>6, <3>1, ListTypes
      <3> QED
        BY <1>2, <2>2, <3>1, <3>2, <3>3
    <2> QED
      BY <2>1, <2>2
  <1>9. ASSUME NEW x \in Occupied(l) PROVE \E f \in LFID : x \in AreaOf(f, i)
    <2>1. PICK p \in Blocks : x \in p .. p + l[p] - 1
      BY <1>7
    <2>2. l[p] > 0
      BY <1>6, <2>1, ListTypes
    <2>3. PICK f \in LFID : b(f) = p
      BY <1>5, <2>2
    <2>4. b(f) # INVALID
      BY <2>3, Families
    <2> QED
      BY <1>2, <2>1, <2>3, <2>4
  <1>10. ASSUME NEW f \in LFID, NEW x \in AreaOf(f, i) PROVE x \in Occupied(l)
    <2>1. b(f) # INVALID /\ x \in b(f) .. b(f) + l[b(f)] - 1
      BY <1>2
    <2> QED
      BY <1>3, <1>7, <2>1
  <1>11. Occupied(l) = UNION {AreaOf(f, i) : f \in LFID}
    BY <1>9, <1>10
  <1> QED
    BY <1>1, <1>8, <1>11 DEF Pooled, l

LEMMA InvReservation == IInv => ReservationHonoured
  <1> SUFFICES ASSUME IInv, NEW f \in LFID, holder[f].stage = "reserved", NEW n \in Counts,
                      NEW i \in RegType, RegSizes(n, 1)[i] # 0
               PROVE  LET k == BlocksFor(RegSizes(n, 1)[i])
                      IN  /\ k <= unit[i].free["NORMAL"]
                                  + (IF Special(f) = "NORMAL" THEN 0 ELSE 1)
                          /\ FreeAreas(unit[i].list, k) # {}
    BY DEF ReservationHonoured, CanAlloc
  <1>1. BlocksFor(RegSizes(n, 1)[i]) = 1
    <2>1. n[i] \in [globals : Nat, shareds : Nat, locals : Nat]
      BY BodyFits
    <2>2. RegSizes(n, 1)[i] = (n[i].locals + n[i].shareds) * 1 + n[i].globals + n[i].shareds
      BY DEF RegSizes
    <2>3. n[i].globals + 2 * n[i].shareds + n[i].locals <= BlockSize /\ BlockSize \in Nat
      BY BodyFits, TableSizes
    <2>4. RegSizes(n, 1)[i] \in Nat /\ RegSizes(n, 1)[i] <= BlockSize
      BY <2>1, <2>2, <2>3
    <2> QED
      BY <2>4, BlocksNeeded
  <1>2. /\ unit[i].list \in Lists /\ ListOK(unit[i].list) /\ Owned(i) /\ Pooled(i)
        /\ unit[i].free \in [ContextType -> Int]
    BY DEF IInv, Types, UnitOK
  <1>3. /\ unit[i].free["NORMAL"] \in Int /\ unit[i].free["EXCLUSIVE"] \in Int
        /\ Cardinality(Occupied(unit[i].list)) \in Nat
    BY <1>2, OccupiedType DEF ContextType
  <1>4. Cardinality(Waiting) \in Nat
    BY WaitingType
  <1>5. IsExclusive(f) \/ Cardinality(Waiting) > 0
    <2>1. CASE ~ IsExclusive(f)
      <3>1. f \in Waiting
        BY <2>1 DEF Waiting
      <3>2. Cardinality(Waiting) # 0
        BY <3>1, WaitingType, FS_EmptySet
      <3> QED
        BY <1>4, <3>2
    <2> QED
      BY <2>1
  <1>6. unit[i].free["EXCLUSIVE"] >= 0 /\ (IsExclusive(f) => unit[i].free["EXCLUSIVE"] = 1)
    <2>1. holder[f].base[i] = INVALID
      BY <1>2 DEF Owned
    <2> QED
      BY <1>2, <2>1 DEF Pooled, IsExclusive
  <1>7. Cardinality(Occupied(unit[i].list)) < NumBlocks
    BY <1>2, <1>3, <1>4, <1>5, <1>6, ListTypes DEF Pooled
  <1>8. FreeAreas(unit[i].list, 1) # {}
    BY <1>2, <1>7, BlockFree
  <1>9. Special(f) # "NORMAL"
    BY DEF Special
  <1> QED
    BY <1>1, <1>2, <1>3, <1>8, <1>9 DEF Pooled

(* No two families are given the same block, every occupied block has an      *)
(* owner, and the normal pool counts exactly the blocks that are neither      *)
(* occupied, nor set aside for a family that was allocated, nor kept for the  *)
(* exclusive family, after any sequence of calls (RAUnit.cpp, Alloc, Free,    *)
(* ReserveContext and UnreserveContext).                                     *)
THEOREM PoolsStayExact == Spec => []PoolsExact
  BY InvHolds, InvPools, PTL

(* A family that was allocated can be created: for every type there is room   *)
(* for the registers of one thread, whatever other families took and however  *)
(* the free blocks are scattered (Allocator.cpp, AllocateRegisters).          *)
THEOREM ReservationsHonoured == Spec => []ReservationHonoured
  BY InvHolds, InvReservation, PTL
=============================================================================
