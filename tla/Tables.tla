---------------------------- MODULE Tables ----------------------------
(*****************************************************************************)
(* The tables of a DRISC core: families and threads.                         *)
(*****************************************************************************)
EXTENDS RAUnit
-----------------------------------------------------------------------------
(***************************************************************************)
(* The family table of a core: its entries k.families and the counts        *)
(* k.freeFamilies of the free ones.  The operators map the record k of a    *)
(* core's state to that record after the call.                              *)
(***************************************************************************)
CONSTANTS Parent,    \* the registers of parent threads that completions go to
          None       \* no parent

NoRegs == [i \in RegType |-> [globals |-> 0, shareds |-> 0, locals |-> 0]]

\* An entry that was never used.
\* `limit' is the union of the limit set by the program and, once the family
\* is created, the number of threads this core still has to run.
EmptyFamily ==
    [state |-> "EMPTY", owner |-> None, pc |-> NoRegs,
     placeSize |-> 1, numCores |-> 1, link |-> INVALID,
     start |-> 0, limit |-> 1, step |-> 1, physBlockSize |-> 0,
     hasShareds |-> FALSE, counts |-> NoRegs, base |-> [i \in RegType |-> INVALID],
     lastAllocated |-> INVALID, lastShareds |-> 0, prevCleanedUp |-> FALSE,
     broken |-> FALSE, syncDone |-> FALSE, syncTo |-> None,
     allocationDone |-> FALSE, prevSynchronized |-> FALSE, detached |-> FALSE,
     syncSent |-> TRUE, numThreadsAllocated |-> 0, numPendingReads |-> 0]

IsExclusive(f) == f = NumFamilies - 1
IsExclusiveUsed(k) == k.freeFamilies["EXCLUSIVE"] = 0
GetNumUsedFamilies(k) == NumFamilies - 1 - k.freeFamilies["NORMAL"]

\* The entry AllocateFamily picks: the exclusive one, or the first free one.
FreeEntry(k, t) ==
    IF t = "EXCLUSIVE" THEN NumFamilies - 1
    ELSE Min({f \in LFID : ~IsExclusive(f) /\ k.families[f].state = "EMPTY"})

AllocateFamily(k, f, t, family) ==
    [k EXCEPT !.families[f] = [family EXCEPT !.state = "ALLOCATED"],
              !.freeFamilies[t] = @ - 1]

\* The entry keeps what it held.
FreeFamily(k, f, t) ==
    [k EXCEPT !.families[f].state = "EMPTY", !.freeFamilies[t] = @ + 1]
-----------------------------------------------------------------------------
(***************************************************************************)
(* The thread table of a core: its entries k.threads, the stack k.empty of  *)
(* free ones (the list m_empty) and the counts k.freeThreads.               *)
(***************************************************************************)
\* An entry that was never used.  `shareds' and `dependents' number the windows
\* of shared registers in the family's block.
EmptyThread ==
    [state |-> "EMPTY", family |-> INVALID, index |-> 0, nextInBlock |-> INVALID,
     prevCleanedUp |-> FALSE, killed |-> FALSE, numPendingWrites |-> 0,
     shareds |-> 0, dependents |-> 0]

ReserveThread(k) ==
    [k EXCEPT !.freeThreads["NORMAL"] = @ - 1, !.freeThreads["RESERVED"] = @ + 1]

\* Mutant: the reserved pool keeps its count
UnreserveThreadTwice(k) == [k EXCEPT !.freeThreads["NORMAL"] = @ + 1]
UnreserveThread(k) ==
    [k EXCEPT !.freeThreads["NORMAL"] = @ + 1, !.freeThreads["RESERVED"] = @ - 1]

\* PopEmpty takes the head of the list and fails when the pool t is empty.
CanPopEmpty(k, t) == k.freeThreads[t] > 0
PopEmpty(k, t) ==
    [k EXCEPT !.empty = Tail(@),
              !.threads[Head(k.empty)].state = "WAITING",
              !.freeThreads[t] = @ - 1]

PushEmpty(k, t, c) ==
    [k EXCEPT !.empty = <<t>> \o @,
              !.threads[t].state = "EMPTY",
              !.freeThreads[c] = @ + 1]
=============================================================================
