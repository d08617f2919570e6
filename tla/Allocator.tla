----------------------------- MODULE Allocator ------------------------------
(***************************************************************************)
(* Family and thread management on one core.  k is the record of the core's *)
(* state: the tables, the queues between the allocator's processes and the  *)
(* network's registers.  Every operator maps k to the record the call       *)
(* leaves; whether all the writes it makes find room is decided once, by    *)
(* the process that makes it (Place!Commit), because a simulated process    *)
(* that fails changes nothing.                                              *)
(***************************************************************************)
EXTENDS Tables, TLC

-----------------------------------------------------------------------------
(* How many threads a family has and how they are spread over the cores of  *)
(* its place: CalculateThreadCount and CalculateDistribution.  Integer and   *)
(* SInteger are machine words of IntegerWidth bits.                         *)
CONSTANT IntegerWidth

ASSUME WidthAssumption == IntegerWidth \in Nat \ {0}

Modulus  == 2 ^ IntegerWidth
Integer  == 0 .. Modulus - 1
SInteger == -(2 ^ (IntegerWidth - 1)) .. 2 ^ (IntegerWidth - 1) - 1

\* Signed and unsigned words hold the same bits.
Wrap(x) == x % Modulus

Signed(x) == IF Wrap(x) < 2 ^ (IntegerWidth - 1) THEN Wrap(x) ELSE Wrap(x) - Modulus

\* step = 0 raises an exception and yields no count.
CalculateThreadCount(start, limit, step) ==
    LET up   == step > 0
        diff == IF up THEN (IF limit > start THEN limit - start ELSE 0)
                      ELSE (IF limit < start THEN start - limit ELSE 0)
        size == Wrap(IF up THEN step ELSE -step)
    IN  Wrap(Wrap(diff) + size - 1) \div size

ThreadsPerCore(nThreads, numCores) == Max({1, Wrap(nThreads + numCores - 1) \div numCores})

\* The cores a family of nThreads is restricted to, of the ones it was given.
CoresNeeded(nThreads, numCores) == Max({1, Min({nThreads, numCores})})

\* The threads left after the skipped ones, as far as they are this core's.
\* Mutant: all that are left
LocalThreadsLeft(nThreads, skipped, perCore) == Max({nThreads, skipped}) - skipped
LocalThreads(nThreads, skipped, perCore) ==
    Min({Max({nThreads, skipped}) - skipped, perCore})

\* The threads that run at a time.  A block size of 0 stands for the whole thread
\* table but the exclusive entry.
PhysBlockSize(block, default, local) == Min({IF block = 0 THEN default ELSE block, local})

\* The share of core `pid`: how many threads come before it in the index
\* sequence, how many it runs, and how many of those at a time.
CalculateDistribution(pid, placeSize, nThreads, numCores, block, default) ==
    LET perCore == ThreadsPerCore(nThreads, numCores)
        skipped == IF numCores > 1 THEN Wrap(perCore * (pid % placeSize)) ELSE 0
        local   == LocalThreads(nThreads, skipped, perCore)
    IN  [skipped |-> skipped,
         nThreads |-> local,
         physBlockSize |-> PhysBlockSize(block, default, local)]
-----------------------------------------------------------------------------
(* Messages, dependencies and contexts                                      *)
\* Network::SendMessage for the link to the next core, Network::SendSync, and
\* Network::SendMessage for a register of a parent thread on another core.
SendLink(k, m) == [k EXCEPT !.linkOut = Append(@, m)]
SendSync(k, s) == [k EXCEPT !.syncs = Append(@, s)]
WriteParent(k, p, v) ==
    [k EXCEPT !.delegateOut = Append(@, [type |-> "RAW_REGISTER", dest |-> p, value |-> v])]

\* The FID that stands for a failed allocation.
NoFamily == [core |-> INVALID, fid |-> INVALID]

\* Network::SendMessage for core `dest', through the input register when it is
\* the sender itself.
SendRemote(c, k, dest, m) ==
    IF dest = c THEN [k EXCEPT !.delegateIn = Append(@, m)]
                ELSE [k EXCEPT !.delegateOut = Append(@, [dest |-> dest] @@ m)]
-----------------------------------------------------------------------------
\* The four conditions of a core's share of a family being over.
\* Mutant: the cores before this one do not matter
SynchronizedAlone(F) == F.numThreadsAllocated = 0 /\ F.allocationDone /\ F.numPendingReads = 0
Synchronized(F) ==
    /\ F.numThreadsAllocated = 0 /\ F.allocationDone
    /\ F.numPendingReads = 0 /\ F.prevSynchronized

Resolve(F, dep) ==
    CASE dep = "THREAD_COUNT"      -> [F EXCEPT !.numThreadsAllocated = @ - 1]
      [] dep = "OUTSTANDING_READS" -> [F EXCEPT !.numPendingReads = @ - 1]
      [] dep = "PREV_SYNCHRONIZED" -> [F EXCEPT !.prevSynchronized = TRUE]
      [] dep = "ALLOCATION_DONE"   -> [F EXCEPT !.allocationDone = TRUE]
      [] dep = "SYNC_SENT"         -> [F EXCEPT !.syncSent = TRUE]
      [] dep = "DETACHED"          -> [F EXCEPT !.detached = TRUE]

\* The dependency was the last one that kept the family from being over.
Completes(F, dep) == Synchronized(F) /\ dep \notin {"SYNC_SENT", "DETACHED"}

\* Nobody needs the entry any more.
\* Mutant: the answer to the parent is not waited for
CleanableUnsent(F) == Synchronized(F) /\ F.detached
Cleanable(F) == Synchronized(F) /\ F.detached /\ F.syncSent

\* The token that tells the next core, or the synchronizing parent, that the
\* family is over up to this core.
ForwardSynchronization(k, f) ==
    LET F == k.families[f]
    IN  IF F.link # INVALID
        THEN SendLink(k, [type |-> "DONE", fid |-> F.link, broken |-> F.broken])
        ELSE IF F.syncTo # None
        THEN SendSync(k, [fid |-> f, parent |-> F.syncTo, broken |-> F.broken])
        ELSE k

DecreaseFamilyDependency(k, f, dep) ==
    LET F    == Resolve(k.families[f], dep)
        over == F.numThreadsAllocated = 0 /\ F.allocationDone
        done == Completes(F, dep)
        G    == [F EXCEPT !.state = IF over /\ dep \in {"THREAD_COUNT", "ALLOCATION_DONE"}
                                    THEN "TERMINATED" ELSE @,
                          !.syncDone = @ \/ done]
        k1   == [k EXCEPT !.families[f] = G]
        k2   == IF done THEN ForwardSynchronization(k1, f) ELSE k1
        t    == IF IsExclusive(f) THEN "EXCLUSIVE" ELSE "NORMAL"
    IN  IF Cleanable(F)
        THEN FreeFamily([k2 EXCEPT !.unit = Release(@, F.base, t)], f, t)
        ELSE k2

\* The thread is pushed on the cleanup queue once nothing of it is pending.
\* Mutants: running threads are clean; the predecessor does not matter
PushRunning(k, t) ==
    IF k.threads[t].numPendingWrites = 0 /\ k.threads[t].prevCleanedUp
    THEN [k EXCEPT !.cleanup = Append(@, t)] ELSE k
PushOutOfOrder(k, t) ==
    IF k.threads[t].numPendingWrites = 0 /\ k.threads[t].killed
    THEN [k EXCEPT !.cleanup = Append(@, t)] ELSE k
PushIfClean(k, t) ==
    IF k.threads[t].numPendingWrites = 0 /\ k.threads[t].prevCleanedUp /\ k.threads[t].killed
    THEN [k EXCEPT !.cleanup = Append(@, t)] ELSE k

\* DecreaseThreadDependency.  Waking a thread that waits for its writes belongs
\* to scheduling and is left out.
DecreaseThreadDependency(k, t, dep) ==
    PushIfClean(CASE dep = "OUTSTANDING_WRITES" -> [k EXCEPT !.threads[t].numPendingWrites = @ - 1]
                  [] dep = "PREV_CLEANED_UP"    -> [k EXCEPT !.threads[t].prevCleanedUp = TRUE]
                  [] dep = "TERMINATED"         -> [k EXCEPT !.threads[t].killed = TRUE], t)

\* KillThread, called by the pipeline for a running thread.
KillThread(k, t) ==
    DecreaseThreadDependency([k EXCEPT !.threads[t].state = "TERMINATED"], t, "TERMINATED")
-----------------------------------------------------------------------------
\* Does the family keep the order of its threads in a chain?
Chained(F) == F.hasShareds /\ F.physBlockSize > 1

\* The window of shareds the thread writes: a new slot brings one of its own and
\* a recycled one writes where it used to read.
\* Mutant: a recycled slot counts as a new one
NewWindow(F, T, new) == F.numThreadsAllocated + 1
OwnWindow(F, T, new) == IF new THEN F.numThreadsAllocated + 1 ELSE T.dependents

\* AllocateThread(fid, tid, isNewlyAllocated).  The thread's dependents are the
\* window its predecessor writes.
AllocateThread(k, f, t, new) ==
    LET F   == k.families[f]
        own == OwnWindow(F, k.threads[t], new)
        T   == [state |-> "ACTIVE", family |-> f, index |-> F.start, nextInBlock |-> INVALID,
                prevCleanedUp |-> \/ F.prevCleanedUp \/ ~F.hasShareds
                                  \/ F.numThreadsAllocated = 0 \/ F.physBlockSize = 1,
                killed |-> FALSE, numPendingWrites |-> 0,
                shareds |-> own, dependents |-> F.lastShareds]
        set == [k.threads EXCEPT ![t] = T]
        G   == [F EXCEPT !.prevCleanedUp = FALSE,
                         !.lastShareds = own,
                         !.numThreadsAllocated = IF new THEN @ + 1 ELSE @,
                         !.lastAllocated = IF Chained(F) THEN t ELSE @,
                         !.start = Signed(@ + F.step),
                         !.limit = @ - 1]
        k1  == [k EXCEPT !.families[f] = G,
                         !.threads = IF F.lastAllocated = INVALID THEN set
                                     ELSE [set EXCEPT ![F.lastAllocated].nextInBlock = t]]
    IN  IF G.limit = 0 THEN DecreaseFamilyDependency(k1, f, "ALLOCATION_DONE") ELSE k1

\* The pool an entry goes back to: the last thread of the exclusive family
\* returns the exclusive entry.
CleanContext(f, F) ==
    IF IsExclusive(f) /\ F.numThreadsAllocated = 1 THEN "EXCLUSIVE" ELSE "NORMAL"

\* The first half of DoThreadAllocate: the thread at the front of the cleanup
\* queue is given back or recycled, after it has told its successor.  A thread that
\* is its own successor (AllocateThread linked it to itself) queues itself again:
\* `looped' records it.
CleanThread(k) ==
    LET t  == Head(k.cleanup)
        f  == k.threads[t].family
        F  == k.families[f]
        n  == k.threads[t].nextInBlock
        k1 == [k EXCEPT !.cleanup = Tail(@), !.looped = (n = t)]
        k2 == IF ~Chained(F) THEN k1
              ELSE IF n = INVALID THEN [k1 EXCEPT !.families[f].prevCleanedUp = TRUE]
              ELSE DecreaseThreadDependency(k1, n, "PREV_CLEANED_UP")
    IN  IF F.allocationDone
        THEN DecreaseFamilyDependency(PushEmpty(k2, t, CleanContext(f, F)), f, "THREAD_COUNT")
        ELSE AllocateThread(k2, f, t, FALSE)

\* The second half: the family at the front of the allocation queue.
InitiallyAllocated(F) == F.numThreadsAllocated = F.physBlockSize \/ F.allocationDone

\* The pool its next thread comes from: a special one for the first thread.
FirstPool(k, f) ==
    IF k.families[f].numThreadsAllocated # 0 THEN "NORMAL"
    ELSE IF IsExclusive(f) THEN "EXCLUSIVE" ELSE "RESERVED"

AllocateFirst(k, f) ==
    AllocateThread(PopEmpty(k, FirstPool(k, f)), f, Head(k.empty), TRUE)
-----------------------------------------------------------------------------
IsContextAvailable(k, t) ==
    /\ GetNumFreeContexts(k.unit, t) > 0
    /\ k.freeThreads[t] > 0
    /\ k.freeFamilies[t] > 0

\* Mutant: the thread entry stays reserved
ReleaseContextLeaky(k, f) == [FreeFamily(k, f, "NORMAL") EXCEPT !.unit = UnreserveContext(@)]
ReleaseContext(k, f) ==
    UnreserveThread([FreeFamily(k, f, "NORMAL") EXCEPT !.unit = UnreserveContext(@)])

\* AllocateContext and InitializeFamily: entry f for the request req.  `owner'
\* only records whose family it is.
AllocateContext(k, f, t, req) ==
    LET F  == [EmptyFamily EXCEPT !.owner = req.parent, !.placeSize = req.size,
                                  !.link = req.prev, !.prevSynchronized = req.prev = INVALID]
        k1 == AllocateFamily(k, f, t, F)
    IN  IF t = "EXCLUSIVE" THEN k1
        ELSE ReserveThread([k1 EXCEPT !.unit = ReserveContext(@)])

Largest(S) == {n \in S : \A m \in S : m <= n}

\* The core after AllocateRegisters, with the largest block size that fits; none
\* when no block size does.
AllocateRegisters(k, f, t) ==
    LET F == k.families[f]
        with(n, sizes) == [k EXCEPT !.unit = Alloc(@, sizes, t),
                                    !.families[f].base = AllocIndices(k.unit, sizes),
                                    !.families[f].physBlockSize = n]
    IN  UNION {{with(n, sizes) : sizes \in {RegSizes(F.counts, n)}} :
                  n \in Largest(Fitting(k.unit, F.counts, F.physBlockSize, t))}

ActivateFamily(k, f) ==
    [k EXCEPT !.families[f].state = "ACTIVE", !.alloc = Append(@, f)]

\* CalculateDistribution on the entry of core c.
Distribute(c, F, nThreads, numCores) ==
    LET d == CalculateDistribution(c, F.placeSize, nThreads, numCores,
                                   F.physBlockSize, NumThreads - 1)
    IN  [F EXCEPT !.start = Signed(@ + F.step * d.skipped), !.limit = d.nThreads,
                  !.physBlockSize = d.physBlockSize]
=============================================================================
