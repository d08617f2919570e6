------------------------- MODULE RegisterAllocation -------------------------
(***************************************************************************)
(* The register file of one core under the calls the Allocator makes: a     *)
(* context is reserved when a family is allocated, given back when the      *)
(* allocation is unwound or the family restricted away, claimed when the    *)
(* family is created and freed when the family is cleaned up.               *)
(***************************************************************************)
EXTENDS RAUnit

CONSTANTS Counts,    \* the register counts thread bodies may ask for
          MaxPhys    \* the largest physical block size a program asks for

\* A body fits a context, and a context fits a block (RAUnit's constructor and
\* the check of the register counts in DoFamilyCreate).
ASSUME BodyFits ==
    /\ Counts \subseteq [RegType -> [globals : Nat, shareds : Nat, locals : Nat]]
    /\ \A n \in Counts, i \in RegType :
         n[i].globals + 2 * n[i].shareds + n[i].locals <= BlockSize
    /\ MaxPhys \in Nat

VARIABLES unit,      \* the RAUnit
          holder     \* what each family table entry holds of it

vars == <<unit, holder>>

Nothing == [stage |-> "none", base |-> [i \in RegType |-> INVALID]]
IsExclusive(f) == f = NumFamilies - 1
\* The context a family entry draws its registers from.
Special(f) == IF IsExclusive(f) THEN "EXCLUSIVE" ELSE "RESERVED"

\* The free list stays a list of areas, and no family is left with half of its
\* registers when Alloc finds a type it cannot place.
TypeOK ==
    /\ \A i \in RegType : \A t \in ContextType : unit[i].free[t] \in Int
    /\ \A i \in RegType : unit[i].list \in [0 .. NumBlocks - 1 -> 0 .. NumBlocks]
    /\ holder \in [LFID -> [stage : {"none", "reserved", "created"},
                            base : [RegType -> -1 .. NumBlocks - 1]]]

Init == unit = FreshUnit /\ holder = [f \in LFID |-> Nothing]

\* The register part of AllocateContext.
AllocateContext(f) ==
    /\ holder[f].stage = "none"
    /\ LET t == IF IsExclusive(f) THEN "EXCLUSIVE" ELSE "NORMAL"
       IN  GetNumFreeContexts(unit, t) > 0
    /\ unit' = IF IsExclusive(f) THEN unit ELSE ReserveContext(unit)
    /\ holder' = [holder EXCEPT ![f].stage = "reserved"]

\* The register part of ReleaseContext.
ReleaseContext(f) ==
    /\ holder[f].stage = "reserved" /\ ~IsExclusive(f)
    /\ unit' = UnreserveContext(unit)
    /\ holder' = [holder EXCEPT ![f] = Nothing]

\* AllocateRegisters for a created family.
AllocateRegisters(f, counts, phys) ==
    /\ holder[f].stage = "reserved"
    /\ Fitting(unit, counts, phys, Special(f)) # {}
    /\ LET sizes == RegSizes(counts, Max(Fitting(unit, counts, phys, Special(f))))
       IN  /\ unit' = Alloc(unit, sizes, Special(f))
           /\ holder' = [holder EXCEPT ![f].stage = "created",
                                       ![f].base = AllocIndices(unit, sizes)]

\* AllocateInitialFamily takes its registers from the normal pool, once, before
\* the core runs anything.
AllocateInitialFamily(f, counts) ==
    /\ \A g \in LFID : holder[g] = Nothing
    /\ f = 0 /\ CanAlloc(unit, RegSizes(counts, 1), "NORMAL")
    /\ unit' = Alloc(unit, RegSizes(counts, 1), "NORMAL")
    /\ holder' = [holder EXCEPT ![f] = [stage |-> "created",
                                        base |-> AllocIndices(unit, RegSizes(counts, 1))]]

\* The register part of cleaning up a family in DecreaseFamilyDependency.
FreeRegisters(f) ==
    /\ holder[f].stage = "created"
    /\ unit' = Release(unit, holder[f].base, IF IsExclusive(f) THEN "EXCLUSIVE" ELSE "NORMAL")
    /\ holder' = [holder EXCEPT ![f] = Nothing]

Next ==
    \E f \in LFID :
        \/ AllocateContext(f)
        \/ ReleaseContext(f)
        \/ \E n \in Counts, p \in 0 .. MaxPhys : AllocateRegisters(f, n, p)
        \/ \E n \in Counts : AllocateInitialFamily(f, n)
        \/ FreeRegisters(f)

Spec == Init /\ [][Next]_vars
-----------------------------------------------------------------------------
\* The areas a family was given, per type.
AreaOf(f, i) == LET b == holder[f].base[i]
                IN  IF b = INVALID THEN {} ELSE b .. b + unit[i].list[b] - 1

\* No two families share a block, and every area of the list has an owner: the
\* first-fit search of Alloc and the clearing in Free keep the list exact.
AreasOwned ==
    \A i \in RegType :
        /\ \A f, g \in LFID : f # g => AreaOf(f, i) \cap AreaOf(g, i) = {}
        /\ Occupied(unit[i].list) = UNION {AreaOf(f, i) : f \in LFID}

\* A reserved family can always be created: with one thread at a time there is
\* room for its registers whatever the other families took, and however the
\* blocks are fragmented.
ReservationHonoured ==
    \A f \in LFID : holder[f].stage = "reserved" =>
        \A n \in Counts : CanAlloc(unit, RegSizes(n, 1), Special(f))

\* The normal pool counts exactly the blocks that are neither occupied, nor set
\* aside for a family that was allocated and not yet created, nor kept for the
\* exclusive family.
NormalPoolExact ==
    \A i \in RegType :
        unit[i].free["NORMAL"] =
            NumBlocks - Cardinality(Occupied(unit[i].list))
            - Cardinality({f \in LFID : holder[f].stage = "reserved" /\ ~IsExclusive(f)})
            - unit[i].free["EXCLUSIVE"]

\* The blocks and the counts of the pools agree.
PoolsExact == AreasOwned /\ NormalPoolExact

\* A block is in one pool: what a type of registers has in its pools and in use
\* adds up to the blocks it has ("We've reserved a context, but aren't using it.
\* Release it back to the normal pool", RAUnit::Alloc).
PoolsAddUp ==
    \A i \in RegType :
        unit[i].free["NORMAL"] + unit[i].free["RESERVED"] + unit[i].free["EXCLUSIVE"]
            + Cardinality(Occupied(unit[i].list)) = NumBlocks
=============================================================================
