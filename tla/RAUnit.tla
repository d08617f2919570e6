------------------------------- MODULE RAUnit -------------------------------
(***************************************************************************)
(* The contexts of a DRISC core and its register allocation unit.  Per      *)
(* register type the unit holds the block list (list[p] is the length of    *)
(* the area that starts at block p, 0 when none does) and the pools of free *)
(* blocks.  The operators map the unit's state r to its state after the     *)
(* call.                                                                    *)
(***************************************************************************)
EXTENDS Integers, Sequences, FiniteSets, FiniteSetsExt
-----------------------------------------------------------------------------
(***************************************************************************)
(* The identifiers and context pools shared by the tables of a DRISC core.  *)
(* A context is one family table entry, one thread table entry and one      *)
(* register block.  Each table keeps its free entries in pools: NORMAL,     *)
(* EXCLUSIVE (the one entry kept for exclusive families) and RESERVED (set  *)
(* aside when a family is allocated, claimed when it is created).           *)
(***************************************************************************)
CONSTANTS NumFamilies,   \* entries of the family table, the last one exclusive
          NumThreads,    \* entries of the thread table
          NumBlocks,     \* allocation blocks of the register file, per type
          BlockSize      \* registers in a block

ASSUME TableSizes ==
    /\ NumFamilies \in Nat /\ NumFamilies >= 2
    /\ NumThreads \in Nat /\ NumThreads >= 2
    /\ NumBlocks \in Nat /\ NumBlocks >= 2
    /\ BlockSize \in Nat \ {0}

ContextType == {"NORMAL", "RESERVED", "EXCLUSIVE"}
LFID == 0 .. NumFamilies - 1
TID  == 0 .. NumThreads - 1
RegType == {"int", "flt"}

INVALID == -1    \* INVALID_LFID, INVALID_TID, INVALID_REG_INDEX

\* The pools of a table of n entries when nothing is in use.
AllFree(n) == [t \in ContextType |->
                  CASE t = "NORMAL"    -> n - 1
                    [] t = "RESERVED"  -> 0
                    [] t = "EXCLUSIVE" -> 1]
-----------------------------------------------------------------------------
FreshUnit == [i \in RegType |->
                [free |-> AllFree(NumBlocks),
                 list |-> [p \in 0 .. NumBlocks - 1 |-> 0]]]

\* Mutant: the type with most contexts decides
GetMostFreeContexts(r, t) == Max({r[i].free[t] : i \in RegType})
GetNumFreeContexts(r, t) == Min({r[i].free[t] : i \in RegType})

ReserveContext(r) ==
    [i \in RegType |-> [r[i] EXCEPT !.free["NORMAL"] = @ - 1,
                                    !.free["RESERVED"] = @ + 1]]

UnreserveContext(r) ==
    [i \in RegType |-> [r[i] EXCEPT !.free["NORMAL"] = @ + 1,
                                    !.free["RESERVED"] = @ - 1]]

Occupied(list) == UNION {p .. p + list[p] - 1 : p \in DOMAIN list}

\* The positions where n consecutive blocks are free.
\* Mutant: the search stops one block short
FreeAreasShort(list, n) ==
    {p \in DOMAIN list : /\ p + n <= NumBlocks
                         /\ (p .. p + n - 2) \cap Occupied(list) = {}
                         /\ p \notin Occupied(list)}
FreeAreas(list, n) ==
    {p \in DOMAIN list : /\ p + n <= NumBlocks
                         /\ (p .. p + n - 1) \cap Occupied(list) = {}}

BlocksFor(size) == (size + BlockSize - 1) \div BlockSize

\* The first loop of Alloc: every type that needs registers has room for them.
CanAlloc(r, sizes, t) ==
    \A i \in {j \in RegType : sizes[j] # 0} :
        /\ BlocksFor(sizes[i]) <= r[i].free["NORMAL"] + (IF t = "NORMAL" THEN 0 ELSE 1)
        /\ FreeAreas(r[i].list, BlocksFor(sizes[i])) # {}

\* The areas it finds, first fit, as block numbers.
AllocIndices(r, sizes) ==
    [i \in RegType |-> IF sizes[i] = 0 THEN INVALID
                       ELSE Min(FreeAreas(r[i].list, BlocksFor(sizes[i])))]

\* What taking n blocks costs the pools: one block of a special context comes
\* from its own pool and the others from the normal one.
Charge(free, n, t) ==
    IF t = "NORMAL" THEN [free EXCEPT !["NORMAL"] = @ - n]
                    ELSE [free EXCEPT ![t] = @ - 1, !["NORMAL"] = @ - (n - 1)]

\* The commit loop of Alloc.  A type that needs no registers gives its reserved
\* block back to the normal pool; the reserved count is left as it was.
Alloc(r, sizes, t) ==
    [i \in RegType |->
        LET n == BlocksFor(sizes[i])
        IN  IF sizes[i] # 0
            THEN [free |-> Charge(r[i].free, n, t),
                  list |-> [r[i].list EXCEPT ![AllocIndices(r, sizes)[i]] = n]]
            ELSE IF t = "RESERVED"
            THEN [r[i] EXCEPT !.free["NORMAL"] = @ + 1]
            ELSE r[i]]

\* What freeing n blocks returns to the pools.
\* Mutant: all blocks of the exclusive family go to the normal pool too
RefundTwice(free, n, t) ==
    IF t = "EXCLUSIVE" THEN [free EXCEPT !["EXCLUSIVE"] = @ + 1, !["NORMAL"] = @ + n]
                       ELSE [free EXCEPT !["NORMAL"] = @ + n]
Refund(free, n, t) ==
    IF t = "EXCLUSIVE" THEN [free EXCEPT !["EXCLUSIVE"] = @ + 1, !["NORMAL"] = @ + n - 1]
                       ELSE [free EXCEPT !["NORMAL"] = @ + n]

\* RAUnit::Free.
Release(r, indices, t) ==
    [i \in RegType |->
        IF indices[i] = INVALID THEN r[i]
        ELSE [free |-> Refund(r[i].free, r[i].list[indices[i]], t),
              list |-> [r[i].list EXCEPT ![indices[i]] = 0]]]

\* The registers a family of `phys` concurrent threads needs, per type
\* (Allocator::AllocateRegisters).
RegSizes(counts, phys) ==
    [i \in RegType |-> (counts[i].locals + counts[i].shareds) * phys
                       + counts[i].globals + counts[i].shareds]

\* The block sizes AllocateRegisters tries, and the first of them that fits.
Fitting(r, counts, phys, t) ==
    {b \in 1 .. Max({1, phys}) : CanAlloc(r, RegSizes(counts, b), t)}
=============================================================================
