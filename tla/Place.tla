------------------------------- MODULE Place --------------------------------
(***************************************************************************)
(* A place of cores and the parent threads that create families on it.      *)
(* Each parent runs on a core outside the place and drives one family: it   *)
(* allocates it, sets its properties, creates it, may synchronize on it and *)
(* detaches.  The parents' programs (`Scripts') are the inputs.             *)
(***************************************************************************)
EXTENDS Network

CONSTANTS NumCores,    \* the cores of the place
          Workloads,   \* what the parents may run together: a script each, or None
          MaxReads,    \* bound: outstanding loads of a family on a core
          MaxWrites,   \* bound: outstanding stores of a thread
          Stale        \* the values a flag nobody initialised may hold

ASSUME PlaceAssumption == IsPowerOfTwo(NumCores)

Core == 0 .. NumCores - 1

VARIABLES cpu,       \* cpu[c]: the state of core c
          parent,    \* parent[p]: where parent p is in its program
          outbox,    \* outbox[p]: its message on the way to the place
          ran,       \* history: how often each index of p's family was run
          breaks     \* history: the parents a thread of whose family broke it

vars == <<cpu, parent, outbox, ran, breaks>>

FreshCore ==
    [families |-> [f \in LFID |-> EmptyFamily], freeFamilies |-> AllFree(NumFamilies),
     threads |-> [t \in TID |-> EmptyThread], freeThreads |-> AllFree(NumThreads),
     empty |-> [i \in 1 .. NumThreads |-> i - 1], unit |-> FreshUnit,
     alloc |-> <<>>, cleanup |-> <<>>, creates |-> <<>>, createState |-> "INITIAL",
     reqSuspend |-> <<>>, reqNoSuspend |-> <<>>, reqExclusive |-> <<>>,
     syncs |-> <<>>, linkIn |-> <<>>, linkOut |-> <<>>, respIn |-> <<>>, respOut |-> <<>>,
     delegateIn |-> <<>>, delegateOut |-> <<>>, looped |-> FALSE]

Indices == SInteger

\* A parent that has not started.  `phase' is how far its program got and `sync'
\* what became of its synchronization.
Idle(s) == [phase |-> "start", script |-> s, todo |-> <<>>, fid |-> None, sync |-> "none"]

Init ==
    /\ cpu = [c \in Core |-> FreshCore]
    /\ \E w \in Workloads : parent = [p \in Parent |-> Idle(w[p])]
    /\ outbox = [p \in Parent |-> <<>>]
    /\ ran = [p \in Parent |-> [i \in Indices |-> 0]]
    /\ breaks = {}

\* A process commits when every register it writes is empty and every buffer it
\* fills has room, and leaves everything as it was otherwise.  A buffer sees its
\* size at the start of the cycle.
Registers == {"linkOut", "respOut", "delegateIn", "delegateOut"}
Fits(old, new) ==
    /\ \A r \in Registers : Len(new[r]) > Len(old[r]) => old[r] = <<>>
    /\ Len(new.alloc) > Len(old.alloc) => Len(old.alloc) < NumFamilies
    /\ Len(new.creates) > Len(old.creates) => Len(old.creates) < NumFamilies

Commit(c, k) == \E new \in {k} : Fits(cpu[c], new) /\ cpu' = [cpu EXCEPT ![c] = new]

\* The parents that run something.
Programs == {p \in Parent : parent[p].script # None}

\* Nothing but the core changes.
Rest == UNCHANGED <<parent, outbox, ran, breaks>>
-----------------------------------------------------------------------------
(* The allocator's processes.                                               *)

\* DoFamilyAllocate's choice of request.
Buffer(k) ==
    IF ~IsExclusiveUsed(k) /\ k.reqExclusive # <<>> THEN "reqExclusive"
    ELSE IF k.reqNoSuspend # <<>> THEN "reqNoSuspend"
    ELSE IF k.reqSuspend # <<>> THEN "reqSuspend" ELSE "none"

Popped(k) == [k EXCEPT ![Buffer(k)] = Tail(@)]
Request(k) == Head(k[Buffer(k)])
Kind(k) == IF Buffer(k) = "reqExclusive" THEN "EXCLUSIVE" ELSE "NORMAL"

\* The request has reached the last core of its place.
LastOfPlace(c, req) == req.type = "SINGLE" \/ (c + 1) % req.size = 0

\* No context, and the request does not wait for one: fail or unwind.
RefuseAllocation(c) ==
    LET k == cpu[c]  req == Request(k)
    IN  /\ Buffer(k) = "reqNoSuspend" /\ ~IsContextAvailable(k, "NORMAL")
        /\ Commit(c, IF req.prev = INVALID THEN WriteParent(Popped(k), req.parent, NoFamily)
                     ELSE [Popped(k) EXCEPT !.respOut = Append(@,
                             [numCores |-> 0, exact |-> req.type = "EXACT", prev |-> req.prev,
                              next |-> INVALID, parent |-> req.parent])])
        /\ Rest

\* The last context of the place is there: create the family for a bundle, answer
\* the parent, or commit the other cores.
Answer(c, k, req, f) ==
    IF req.bundle
    THEN SendRemote(c, k, c, [type |-> "CREATE", fid |-> f, pc |-> req.body,
                              parent |-> req.parent, bundle |-> TRUE, notify |-> req.notify,
                              index |-> req.index])
    ELSE IF req.prev = INVALID THEN WriteParent(k, req.parent, [core |-> c, fid |-> f])
    ELSE [k EXCEPT !.respOut = Append(@,
             [numCores |-> req.size, exact |-> req.type = "EXACT",
              prev |-> req.prev, next |-> f, parent |-> req.parent])]

FinishAllocation(c) ==
    LET k   == cpu[c]
        req == Request(k)
        f   == FreeEntry(k, Kind(k))
        k1  == AllocateContext(Popped(k), f, Kind(k), req)
        k2  == [k1 EXCEPT !.families[f].numCores = IF req.type = "SINGLE" THEN 1 ELSE req.size,
                          !.families[f].link = INVALID]
    IN  /\ Buffer(k) # "none" /\ IsContextAvailable(k, Kind(k))
        /\ LastOfPlace(c, req)
        /\ Commit(c, Answer(c, k2, req, f))
        /\ Rest

\* Ask the next core of the place.
ForwardAllocation(c) ==
    LET k   == cpu[c]
        req == Request(k)
        f   == FreeEntry(k, Kind(k))
    IN  /\ Buffer(k) # "none" /\ IsContextAvailable(k, Kind(k))
        /\ ~LastOfPlace(c, req)
        /\ Commit(c, SendLink(AllocateContext(Popped(k), f, Kind(k), req),
                       [type |-> "ALLOCATE",
                        req |-> [req EXCEPT
                                   !.prev = f,
                                   !.type = IF @ = "EXACT" THEN @ ELSE "NORMAL",
                                   !.suspend = req.type = "EXACT" /\ Buffer(k) # "reqNoSuspend"]]))
        /\ Rest

\* DoFamilyCreate handles the create at the front of the queue, one stage a step.
\* `Stage(c, s, k)': the process is in stage s and leaves the core as k.
Stage(c, s, k) ==
    /\ cpu[c].creates # <<>> /\ cpu[c].createState = s
    /\ Commit(c, k)
    /\ Rest

Creating(c) == Head(cpu[c].creates).fid

\* The number of threads; an empty family has no program header to load.
CreateInitial(c) ==
    LET k    == cpu[c]
        info == Head(k.creates)
        F    == k.families[info.fid]
        n    == IF info.bundle THEN 1 ELSE CalculateThreadCount(F.start, F.limit, F.step)
    IN  Stage(c, "INITIAL",
              [k EXCEPT !.families[info.fid].start = IF info.bundle THEN info.index ELSE @,
                        !.families[info.fid].limit = n,
                        !.families[info.fid].state = "CREATING",
                        !.createState = IF n = 0 THEN "LINE_LOADED" ELSE "LOAD_REGSPEC"])

\* The I-cache has the line or fetches it.
CreateLoadRegspec(c) ==
    \E next \in {"LINE_LOADED", "LOADING_LINE"} :
        Stage(c, "LOAD_REGSPEC", [cpu[c] EXCEPT !.createState = next])

OnICachelineLoaded(c) ==
    Stage(c, "LOADING_LINE", [cpu[c] EXCEPT !.createState = "LINE_LOADED"])

\* The register counts; an empty family has none.
CreateLineLoaded(c) ==
    LET k == cpu[c]  f == Creating(c)
        counts == IF k.families[f].limit = 0 THEN NoRegs ELSE k.families[f].pc
    IN  Stage(c, "LINE_LOADED",
              [k EXCEPT !.families[f].counts = counts,
                        !.families[f].base = [i \in RegType |-> INVALID],
                        !.families[f].hasShareds = \E i \in RegType : counts[i].shareds > 0,
                        !.createState = "RESTRICTING"])

\* How many cores the family really needs.
RestrictedCores(f, F) ==
    IF IsExclusive(f) \/ F.hasShareds THEN 1 ELSE CoresNeeded(F.limit, F.numCores)

CreateRestricting(c) ==
    LET k == cpu[c]  f == Creating(c)  F == k.families[f]  n == RestrictedCores(f, F)
    IN  Stage(c, "RESTRICTING",
              [k EXCEPT !.families[f] = [Distribute(c, F, F.limit, n) EXCEPT !.numCores = n],
                        !.createState = "ALLOCATING_REGISTERS"])

CreateAllocatingRegisters(c) ==
    LET k == cpu[c]  f == Creating(c)
        t == IF IsExclusive(f) THEN "EXCLUSIVE" ELSE "RESERVED"
    IN  /\ k.creates # <<>>
        /\ \E k1 \in AllocateRegisters(k, f, t) :
              Stage(c, "ALLOCATING_REGISTERS",
                    [k1 EXCEPT !.createState = "BROADCASTING_CREATE"])

CreateBroadcasting(c) ==
    LET k == cpu[c]  f == Creating(c)  F == k.families[f]
        m == [type |-> "CREATE", fid |-> F.link, numCores |-> F.numCores - 1, pc |-> F.pc]
    IN  Stage(c, "BROADCASTING_CREATE",
              [(IF F.link = INVALID THEN k ELSE SendLink(k, m)) EXCEPT
                  !.families[f].link = IF F.numCores = 1 THEN INVALID ELSE @,
                  !.createState = "ACTIVATING_FAMILY"])

\* A bundle needs a shared register for its parameter; nobody waits for one that
\* is not notified.  An empty family is over before it starts.
CreateActivating(c) ==
    LET k    == cpu[c]
        info == Head(k.creates)
        f    == info.fid
        k1   == IF info.bundle /\ ~info.notify
                THEN [k EXCEPT !.families[f].detached = TRUE, !.families[f].syncSent = TRUE]
                ELSE k
        k2   == IF k.families[f].limit # 0 THEN ActivateFamily(k1, f)
                ELSE DecreaseFamilyDependency(IF IsExclusive(f) THEN k1 ELSE UnreserveThread(k1),
                                              f, "ALLOCATION_DONE")
    IN  /\ k.creates # <<>>
        /\ info.bundle => k.families[f].counts["int"].shareds > 0
        /\ Stage(c, "ACTIVATING_FAMILY", [k2 EXCEPT !.createState = "NOTIFY"])

CreateNotify(c) ==
    LET k    == cpu[c]
        info == Head(k.creates)
        k1   == [k EXCEPT !.createState = "INITIAL", !.creates = Tail(@)]
    IN  Stage(c, "NOTIFY", IF info.notify
                           THEN WriteParent(k1, info.parent, [core |-> c, fid |-> info.fid])
                           ELSE k1)

DoFamilyCreate(c) ==
    \/ CreateInitial(c) \/ CreateLoadRegspec(c) \/ OnICachelineLoaded(c) \/ CreateLineLoaded(c)
    \/ CreateRestricting(c) \/ CreateAllocatingRegisters(c) \/ CreateBroadcasting(c)
    \/ CreateActivating(c) \/ CreateNotify(c)

DoFamilyAllocate(c) == RefuseAllocation(c) \/ FinishAllocation(c) \/ ForwardAllocation(c)

\* History: the threads of core c that k starts and the core did not have.
Started(c, k) == {t \in TID : k.threads[t].state = "ACTIVE"
                              /\ cpu[c].threads[t].state # "ACTIVE"}
Record(c, k) ==
    \E new \in {k} :
        ran' = [p \in Parent |-> [i \in Indices |-> ran[p][i] + Cardinality(
                   {t \in Started(c, new) : /\ new.families[new.threads[t].family].owner = p
                                            /\ new.threads[t].index = i})]]

\* DoThreadAllocate: cleaning up takes precedence over initial allocation.
CleanupThread(c) ==
    /\ cpu[c].cleanup # <<>>
    /\ Commit(c, CleanThread(cpu[c]))
    /\ Record(c, CleanThread(cpu[c]))
    /\ UNCHANGED <<parent, outbox, breaks>>

FinishInitialAllocation(c) ==
    LET k == cpu[c]  F == k.families[Head(k.alloc)]
    IN  /\ k.cleanup = <<>> /\ k.alloc # <<>>
        /\ InitiallyAllocated(F)
        /\ Commit(c, [k EXCEPT !.alloc = Tail(@)])
        /\ Rest

NoThreadsHere(c) ==
    LET k == cpu[c]  F == k.families[Head(k.alloc)]
    IN  /\ k.cleanup = <<>> /\ k.alloc # <<>>
        /\ ~InitiallyAllocated(F) /\ F.limit = 0
        /\ Commit(c, DecreaseFamilyDependency(k, Head(k.alloc), "ALLOCATION_DONE"))
        /\ Rest

\* The check phase of a process runs on the old table: a first and only thread
\* looks as if its family were over, and has to find room for the token.
TokenRoom(k, F) ==
    F.limit = 1 /\ F.link # INVALID /\ Synchronized([F EXCEPT !.allocationDone = TRUE])
        => k.linkOut = <<>>

InitialThread(c) ==
    LET k == cpu[c]  f == Head(k.alloc)  F == k.families[f]
    IN  /\ k.cleanup = <<>> /\ k.alloc # <<>>
        /\ ~InitiallyAllocated(F) /\ F.limit # 0
        /\ CanPopEmpty(k, FirstPool(k, f)) /\ TokenRoom(k, F)
        /\ Commit(c, AllocateFirst(k, f))
        /\ Record(c, AllocateFirst(k, f))
        /\ UNCHANGED <<parent, outbox, breaks>>

DoThreadAllocate(c) ==
    CleanupThread(c) \/ FinishInitialAllocation(c) \/ NoThreadsHere(c) \/ InitialThread(c)
-----------------------------------------------------------------------------
(* The pipeline and the data cache, as far as they touch the tables.         *)

Running(c, t) == cpu[c].threads[t].state = "ACTIVE"
FamilyOf(c, t) == cpu[c].threads[t].family

Kill(c, t) == Running(c, t) /\ Commit(c, KillThread(cpu[c], t)) /\ Rest

\* A load that misses, and the cache line it waited for (OnMemoryRead).
Load(c, t) ==
    /\ Running(c, t) /\ cpu[c].families[FamilyOf(c, t)].numPendingReads < MaxReads
    /\ Commit(c, [cpu[c] EXCEPT !.families[FamilyOf(c, t)].numPendingReads = @ + 1])
    /\ Rest

LoadDone(c, f) ==
    /\ cpu[c].families[f].numPendingReads > 0
    /\ Commit(c, DecreaseFamilyDependency(cpu[c], f, "OUTSTANDING_READS"))
    /\ Rest

\* A store, and its acknowledgement (IncreaseThreadDependency).
Store(c, t) ==
    /\ Running(c, t) /\ cpu[c].threads[t].numPendingWrites < MaxWrites
    /\ Commit(c, [cpu[c] EXCEPT !.threads[t].numPendingWrites = @ + 1])
    /\ Rest

StoreDone(c, t) ==
    /\ cpu[c].threads[t].numPendingWrites > 0
    /\ Commit(c, DecreaseThreadDependency(cpu[c], t, "OUTSTANDING_WRITES"))
    /\ Rest

\* ExecBreak: the message goes to the thread's own core.  One break a family is
\* enough of them.
Break(c, t) ==
    LET p == cpu[c].families[FamilyOf(c, t)].owner
    IN  /\ Running(c, t) /\ p \in Parent \ breaks /\ parent[p].script.breaks
        /\ Commit(c, SendRemote(c, cpu[c], c, [type |-> "BREAK", fid |-> FamilyOf(c, t)]))
        /\ breaks' = breaks \cup {p}
        /\ UNCHANGED <<parent, outbox, ran>>
-----------------------------------------------------------------------------
(* The network's processes.                                                  *)

DoSyncs(c) ==
    LET k == cpu[c]  info == Head(k.syncs)
    IN  /\ k.syncs # <<>>
        /\ Commit(c, DecreaseFamilyDependency(
                        WriteParent([k EXCEPT !.syncs = Tail(@)], info.parent, info.broken),
                        info.fid, "SYNC_SENT"))
        /\ Rest

DoAllocResponse(c) ==
    LET k == cpu[c]
    IN  /\ k.respIn # <<>>
        /\ Commit(c, OnAllocResponse(c, [k EXCEPT !.respIn = <<>>], Head(k.respIn)))
        /\ Rest

\* What the message m from the link or the delegation network makes of k; a
\* balanced allocation depends on a flag nobody set.
LinkHandler(c, k, m) ==
    CASE m.type = "ALLOCATE"     -> {QueueFamilyAllocation(k, m.req)}
      [] m.type = "BALLOCATE"    -> {OnBallocate(c, k, m, b) : b \in Stale}
      [] m.type = "SET_PROPERTY" -> {OnSetProperty(k, m.fid, m)}
      [] m.type = "CREATE" /\ m.numCores = 0 -> {RestrictCreate(k, m)}
      [] m.type = "CREATE" /\ m.numCores > 0 ->
            {QueueLinkCreate(r, m) : r \in UNION {AllocateRegisters(s, m.fid, "RESERVED") :
                                                     s \in {SetUp(c, k, m)}}}
      [] m.type = "DONE"         -> {OnDone(k, m)}
      [] m.type = "SYNC"         -> {OnSync(k, m.fid, m.parent)}
      [] m.type = "DETACH"       -> {OnDetach(k, m.fid)}
      [] m.type = "GLOBAL"       -> {OnGlobal(k, m.fid, m)}
      [] m.type = "BREAK"        -> {OnBreak(k, m.fid)}

DoLink(c) ==
    /\ cpu[c].linkIn # <<>>
    /\ \E k \in LinkHandler(c, [cpu[c] EXCEPT !.linkIn = <<>>], Head(cpu[c].linkIn)) :
            Commit(c, k)
    /\ Rest

\* Allocator::QueueCreate for a create of the delegation network.
QueueCreate(k, m) ==
    [k EXCEPT !.families[m.fid].pc = m.pc,
              !.families[m.fid].state = "CREATE_QUEUED",
              !.creates = Append(@, [fid |-> m.fid, parent |-> m.parent, bundle |-> m.bundle,
                                     notify |-> m.notify, index |-> m.index])]

DelegationHandler(c, k, m) ==
    CASE m.type = "ALLOCATE"     -> OnAllocate(c, k, m.req)
      [] m.type = "SET_PROPERTY" -> OnSetProperty(k, m.fid, m)
      [] m.type = "CREATE"       -> QueueCreate(k, m)
      [] m.type = "SYNC"         -> OnSync(k, m.fid, m.parent)
      [] m.type = "DETACH"       -> OnDetach(k, m.fid)
      [] m.type = "GLOBAL"       -> OnGlobal(k, m.fid, m)
      [] m.type = "BREAK"        -> OnBreak(k, m.fid)

DoDelegationIn(c) ==
    /\ cpu[c].delegateIn # <<>>
    /\ Commit(c, DelegationHandler(c, [cpu[c] EXCEPT !.delegateIn = <<>>],
                                      Head(cpu[c].delegateIn)))
    /\ Rest

\* RegisterPair::DoTransfer, for the link and for the allocation responses.
TransferLink(c) ==
    /\ cpu[c].linkOut # <<>> /\ cpu[c + 1].linkIn = <<>>
    /\ cpu' = [cpu EXCEPT ![c].linkOut = <<>>, ![c + 1].linkIn = cpu[c].linkOut]
    /\ Rest

TransferResponse(c) ==
    /\ cpu[c].respOut # <<>> /\ cpu[c - 1].respIn = <<>>
    /\ cpu' = [cpu EXCEPT ![c].respOut = <<>>, ![c - 1].respIn = cpu[c].respOut]
    /\ Rest

\* DoDelegationOut to another core of the place.
DelegateToCore(c) ==
    LET m == Head(cpu[c].delegateOut)
    IN  /\ cpu[c].delegateOut # <<>> /\ m.type # "RAW_REGISTER"
        /\ cpu[m.dest].delegateIn = <<>>
        /\ cpu' = [cpu EXCEPT ![c].delegateOut = <<>>,
                              ![m.dest].delegateIn = cpu[c].delegateOut]
        /\ Rest
-----------------------------------------------------------------------------
(* The parents.  A script is an allocation request and the operations that   *)
(* follow on the family; a program waits for the allocation and the create,  *)
(* and may go on while its synchronization is pending.                       *)

\* ExecAllocate, or DoBundle for a bundle.
Allocate(p) ==
    LET s == parent[p].script
    IN  /\ p \in Programs /\ parent[p].phase = "start"
        /\ parent' = [parent EXCEPT ![p] = [@ EXCEPT !.todo = s.todo,
                         !.phase = IF s.req.notify THEN "allocating" ELSE "running"]]
        /\ outbox' = [outbox EXCEPT ![p] = <<[dest |-> s.pid, m |->
                         [type |-> "ALLOCATE", req |-> [prev |-> INVALID, parent |-> p] @@ s.req]]>>]
        /\ UNCHANGED <<cpu, ran, breaks>>

\* SetFamilyProperty, ExecCreate, WriteFamilyRegister, ExecSync and ExecDetach.
Operate(p) ==
    LET q  == parent[p]
        op == Head(q.todo)
    IN  /\ q.phase = "running" /\ q.todo # <<>> /\ outbox[p] = <<>>
        /\ outbox' = [outbox EXCEPT ![p] = <<[dest |-> q.fid.core, m |->
                         [fid |-> q.fid.fid, parent |-> p] @@ op]>>]
        /\ parent' = [parent EXCEPT
                         ![p].todo = Tail(@),
                         ![p].phase = IF op.type = "CREATE" THEN "creating" ELSE @,
                         ![p].sync = IF op.type = "SYNC" THEN "waiting" ELSE @]
        /\ UNCHANGED <<cpu, ran, breaks>>

\* DoDelegationOut of the parent's core.
Deliver(p) ==
    LET d == Head(outbox[p])
    IN  /\ outbox[p] # <<>> /\ cpu[d.dest].delegateIn = <<>>
        /\ cpu' = [cpu EXCEPT ![d.dest].delegateIn = <<d.m>>]
        /\ outbox' = [outbox EXCEPT ![p] = <<>>]
        /\ UNCHANGED <<parent, ran, breaks>>

\* What a completion makes of the parent that waits for it.
Completed(q, v) ==
    CASE q.phase = "allocating" /\ v = NoFamily -> [q EXCEPT !.phase = "failed", !.todo = <<>>]
      [] q.phase = "allocating" /\ v # NoFamily -> [q EXCEPT !.phase = "running", !.fid = v]
      [] q.phase = "creating"                   -> [q EXCEPT !.phase = "running"]
      [] q.phase = "running" /\ q.sync = "waiting" ->
            [q EXCEPT !.sync = IF v THEN "broken" ELSE "ok"]
      [] OTHER                                  -> [q EXCEPT !.phase = "surprised"]

\* DoDelegationOut to a register of a parent.
DelegateToParent(c) ==
    LET m == Head(cpu[c].delegateOut)
    IN  /\ cpu[c].delegateOut # <<>> /\ m.type = "RAW_REGISTER"
        /\ cpu' = [cpu EXCEPT ![c].delegateOut = <<>>]
        /\ parent' = [parent EXCEPT ![m.dest] = Completed(@, m.value)]
        /\ UNCHANGED <<outbox, ran, breaks>>
-----------------------------------------------------------------------------
Over(p) == parent[p].phase \in {"running", "failed"} /\ parent[p].todo = <<>>

Quiet(c) ==
    LET k == cpu[c]
    IN  /\ \A q \in {"alloc", "cleanup", "creates", "syncs", "linkIn", "linkOut", "respIn",
                     "respOut", "delegateIn", "delegateOut"} : k[q] = <<>>
        /\ \A t \in TID : ~Running(c, t)

Detaches(p) == \/ parent[p].phase = "failed" \/ ~parent[p].script.req.notify
               \/ \E i \in DOMAIN parent[p].script.todo : parent[p].script.todo[i].type = "DETACH"

\* A parent waits for contexts that another one keeps.
Kept(p) == /\ parent[p].phase = "allocating"
           /\ \E q \in Programs : Over(q) /\ ~Detaches(q)

\* A core cleaned a thread that was its own successor.  The thread is queued for
\* cleanup although it runs or is free, and in the next cycle the assertion at the
\* start of DoThreadAllocate ends the program.
Aborted == \E c \in Core : cpu[c].looped

Finished ==
    /\ \/ Aborted
       \/ /\ \A p \in Programs : (Over(p) \/ Kept(p)) /\ outbox[p] = <<>>
          /\ \A c \in Core : Quiet(c)
    /\ UNCHANGED vars

Process(c) ==
    \/ DoFamilyAllocate(c) \/ DoFamilyCreate(c) \/ DoThreadAllocate(c)
    \/ DoSyncs(c) \/ DoAllocResponse(c) \/ DoLink(c) \/ DoDelegationIn(c)
    \/ DelegateToCore(c) \/ DelegateToParent(c)

Pipeline(c) ==
    \/ \E t \in TID : Kill(c, t) \/ Load(c, t) \/ Store(c, t) \/ StoreDone(c, t) \/ Break(c, t)
    \/ \E f \in LFID : LoadDone(c, f)

Next ==
    \/ /\ ~Aborted
       /\ \/ \E c \in Core : Process(c) \/ Pipeline(c)
          \/ \E c \in Core \ {NumCores - 1} : TransferLink(c)
          \/ \E c \in Core \ {0} : TransferResponse(c)
          \/ \E p \in Parent : Allocate(p) \/ Operate(p) \/ Deliver(p)
    \/ Finished

Spec == Init /\ [][Next]_vars

\* Every process of the simulator runs when it can, threads end, memory answers
\* and parents carry on.
Fairness ==
    /\ \A c \in Core :
        /\ WF_vars(DoFamilyAllocate(c)) /\ WF_vars(DoFamilyCreate(c))
        /\ WF_vars(DoThreadAllocate(c)) /\ WF_vars(DoSyncs(c)) /\ WF_vars(DoAllocResponse(c))
        /\ WF_vars(DoLink(c)) /\ WF_vars(DoDelegationIn(c))
        /\ WF_vars(DelegateToCore(c)) /\ WF_vars(DelegateToParent(c))
        /\ \A t \in TID : WF_vars(Kill(c, t)) /\ WF_vars(StoreDone(c, t))
        /\ \A f \in LFID : WF_vars(LoadDone(c, f))
    /\ \A c \in Core \ {NumCores - 1} : WF_vars(TransferLink(c))
    /\ \A c \in Core \ {0} : WF_vars(TransferResponse(c))
    /\ \A p \in Parent : WF_vars(Operate(p)) /\ WF_vars(Deliver(p))

FairSpec == Spec /\ Fairness
-----------------------------------------------------------------------------
Live(c, f) == cpu[c].families[f].state # "EMPTY"
Entries(p) == {e \in Core \X LFID : Live(e[1], e[2]) /\ cpu[e[1]].families[e[2]].owner = p}
LiveThread(c, t) == cpu[c].threads[t].state # "EMPTY"
ThreadsOf(c, f) == {t \in TID : LiveThread(c, t) /\ cpu[c].threads[t].family = f}

\* Messages under way to core c about one of its family entries.
ToCore(c) ==
    {cpu[c].linkIn[i] : i \in DOMAIN cpu[c].linkIn}
    \cup (IF c = 0 THEN {} ELSE {cpu[c - 1].linkOut[i] : i \in DOMAIN cpu[c - 1].linkOut})
    \cup {cpu[c].delegateIn[i] : i \in DOMAIN cpu[c].delegateIn}
FamilyMessages(c) == {m \in ToCore(c) : m.type \notin {"ALLOCATE", "BALLOCATE", "BREAK"}}

FamilyState == {"EMPTY", "ALLOCATED", "CREATE_QUEUED", "CREATING", "ACTIVE", "TERMINATED"}

\* The tables and queues hold what they may, and every completion finds the
\* parent it is meant for waiting: the network never answers twice.
TypeOK ==
    /\ \A c \in Core :
        /\ \A f \in LFID : LET F == cpu[c].families[f] IN
               /\ F.state \in FamilyState /\ F.numThreadsAllocated \in 0 .. NumThreads
               /\ F.link \in LFID \cup {INVALID} /\ F.limit \in Integer \cup SInteger
               /\ F.numPendingReads \in 0 .. MaxReads
        /\ \A t \in TID : LET T == cpu[c].threads[t] IN
               /\ T.state \in {"EMPTY", "WAITING", "ACTIVE", "TERMINATED"}
               /\ T.numPendingWrites \in 0 .. MaxWrites
               /\ T.nextInBlock \in TID \cup {INVALID}
    /\ \A p \in Parent : parent[p].phase \in
            {"start", "allocating", "running", "creating", "failed"}

\* FamilyTable::CheckStateSanity and ThreadTable::CheckStateSanity: the pools add
\* up to the entries that are free, and no pool is overdrawn.
TablesSane ==
    \A c \in Core : LET k == cpu[c] IN
        /\ k.freeFamilies["NORMAL"] + k.freeFamilies["EXCLUSIVE"]
               = Cardinality({f \in LFID : ~Live(c, f)})
        /\ k.freeThreads["NORMAL"] + k.freeThreads["RESERVED"] + k.freeThreads["EXCLUSIVE"]
               = Cardinality({t \in TID : ~LiveThread(c, t)})
        /\ k.freeThreads["NORMAL"] >= 0 /\ k.freeThreads["RESERVED"] >= 0
        /\ k.freeThreads["EXCLUSIVE"] \in 0 .. 1
        /\ Len(k.empty) = Cardinality({t \in TID : ~LiveThread(c, t)})

\* A process writes a register once in a cycle (the assertion in Register::Write),
\* and the queue of synchronizations never overflows (UNREACHABLE in SendSync).
WrittenOnce ==
    \A c \in Core : /\ \A r \in Registers : Len(cpu[c][r]) <= 1
                    /\ Len(cpu[c].syncs) <= NumFamilies

\* The values of the variable of a C loop.
Iterations(start, limit, step) ==
    {i \in SInteger : /\ IF step > 0 THEN i >= start /\ i < limit ELSE i <= start /\ i > limit
                      /\ (i - start) % (IF step > 0 THEN step ELSE -step) = 0}

\* The indices the program asked for.
Asked(p) ==
    IF parent[p].script.req.bundle THEN {parent[p].script.req.index}
    ELSE LET todo == parent[p].script.todo
             set(prop, default) ==
                 LET s == {i \in DOMAIN todo : todo[i].type = "SET_PROPERTY" /\ todo[i].prop = prop}
                 IN  IF s = {} THEN default ELSE todo[Max(s)].value
         IN  Iterations(set("START", 0), set("LIMIT", 1), set("STEP", 1))

\* No index of a family is run twice, on whatever core, and none that the program
\* did not ask for.
RunAtMostOnce ==
    \A p \in Programs : \A i \in Indices : ran[p][i] <= (IF i \in Asked(p) THEN 1 ELSE 0)

\* A parent whose synchronization completed knows that on every core of the
\* family all threads are gone and all loads have arrived and, unless a thread
\* broke the family, that every index was run.
SyncMeansOver ==
    \A p \in Programs : parent[p].sync \in {"ok", "broken"} =>
        /\ \A e \in Entries(p) : LET F == cpu[e[1]].families[e[2]] IN
            /\ F.numThreadsAllocated = 0 /\ F.numPendingReads = 0
            /\ F.state # "ALLOCATED" => Synchronized(F)
        /\ p \notin breaks => \A i \in Asked(p) : ran[p][i] = 1

\* Nothing is left behind: when all programs are over and the cores are quiet,
\* no parent waits for a synchronization and every core has all its contexts back,
\* those of the cores a family was restricted or unwound from included.  (A break
\* that overtakes a core's first thread leaves its thread entry reserved.)
AllReturned ==
    (\A p \in Programs : Over(p) /\ outbox[p] = <<>> /\ Detaches(p))
        /\ (\A c \in Core : Quiet(c) /\ \A f \in LFID : cpu[c].families[f].numPendingReads = 0)
        /\ (\A c \in Core, t \in TID : cpu[c].threads[t].numPendingWrites = 0)
    => /\ \A p \in Parent : parent[p].sync # "waiting"
       /\ \A c \in Core : /\ cpu[c].freeFamilies = AllFree(NumFamilies)
                          /\ breaks = {} => cpu[c].freeThreads = AllFree(NumThreads)
                          /\ \A i \in RegType : /\ cpu[c].unit[i].free["NORMAL"] = NumBlocks - 1
                                                 /\ Occupied(cpu[c].unit[i].list) = {}

\* A core without families has no thread entry set aside: reserved contexts are
\* kept for the families that reserved them, unless one was broken.
ReservedForFamilies ==
    \A c \in Core : breaks = {} /\ (\A f \in LFID : ~Live(c, f)) => cpu[c].freeThreads["RESERVED"] = 0

\* No balanced request gets as far as the allocation queues (the assertion in
\* QueueFamilyAllocation).
BalancedResolved ==
    \A c \in Core : \A q \in {"reqSuspend", "reqNoSuspend", "reqExclusive"} :
        \A i \in DOMAIN cpu[c][q] : cpu[c][q][i].type # "BALANCED"

\* Every message for a family entry, and every queue that names one, finds the
\* entry in use; globals find its registers allocated; and what may be resolved
\* once only is not under way a second time (the assertions of
\* DecreaseFamilyDependency).  A break may come too late: see BreakFindsFamily.
MessagesFindFamily ==
    \A c \in Core :
        /\ \A m \in FamilyMessages(c) : LET F == cpu[c].families[m.fid] IN
            /\ F.state # "EMPTY"
            /\ m.type = "GLOBAL" /\ m \notin {cpu[c - 1].linkOut[i] : i \in
                    IF c = 0 THEN {} ELSE DOMAIN cpu[c - 1].linkOut}
                 => F.state \in {"ACTIVE", "TERMINATED"}
            /\ m.type = "DONE" => ~F.prevSynchronized
            /\ m.type = "DETACH" => ~F.detached
        /\ \A i \in DOMAIN cpu[c].syncs : LET F == cpu[c].families[cpu[c].syncs[i].fid] IN
            F.state # "EMPTY" /\ ~F.syncSent

\* The cleanup queue holds each thread once, and only threads that terminated
\* (the assertion in DoThreadAllocate).
CleanupSound ==
    \A c \in Core : LET q == cpu[c].cleanup IN
        /\ \A i, j \in DOMAIN q : q[i] = q[j] => i = j
        /\ \A i \in DOMAIN q : cpu[c].threads[q[i]].state = "TERMINATED"

\* In a family with shared registers, threads are cleaned up in the order of
\* their indices, so no thread's shareds are cleared while its predecessor can
\* still write them.
CleanedInOrder ==
    \A c \in Core : \A i \in DOMAIN cpu[c].cleanup :
        LET T == cpu[c].threads[cpu[c].cleanup[i]] IN
        Chained(cpu[c].families[T.family]) =>
            \A u \in ThreadsOf(c, T.family) :
                (cpu[c].threads[u].index - T.index) * cpu[c].families[T.family].step >= 0

\* Each thread reads the window its predecessor writes, and no two threads of a
\* family write the same one.
WindowsChain ==
    \A c \in Core, f \in LFID : cpu[c].families[f].hasShareds =>
        \A t, u \in ThreadsOf(c, f) : t # u =>
            LET T == cpu[c].threads[t]  U == cpu[c].threads[u] IN
            /\ T.shareds # U.shareds
            /\ U.index = Signed(T.index + cpu[c].families[f].step) => U.dependents = T.shareds

\* A family allocated on a place is a chain of live entries, one per core and as
\* long as it says, a power of two, all of the place if the allocation was exact
\* and one core if it was balanced; no other core keeps an entry for it.
ChainFrom(c, f, n) ==
    \E chain \in [0 .. n - 1 -> LFID] :
        /\ chain[0] = f
        /\ \A i \in 0 .. n - 1 :
            /\ cpu[c + i].families[chain[i]].state = "ALLOCATED"
            /\ cpu[c + i].families[chain[i]].link = IF i = n - 1 THEN INVALID ELSE chain[i + 1]
            /\ cpu[c + i].families[chain[i]].numCores = n
AllocatedChain ==
    \A p \in Programs :
        /\ parent[p].phase = "running" /\ parent[p].todo = parent[p].script.todo
        /\ parent[p].todo # <<>> /\ ~parent[p].script.req.bundle
        => LET fid == parent[p].fid
               n   == cpu[fid.core].families[fid.fid].numCores
           IN  /\ IsPowerOfTwo(n)
               /\ parent[p].script.req.type = "EXACT" => n = parent[p].script.req.size
               /\ parent[p].script.req.type = "BALANCED" => n = 1
               /\ ChainFrom(fid.core, fid.fid, n)
               /\ Cardinality(Entries(p)) = n

\* The threads of a family end in the order the hardware counts on, up to the first
\* thread that is cleaned up as its own successor.  The code does that: when the
\* first thread of a family with shareds is recycled before the second is allocated,
\* AllocateThread links it to itself (Allocator.cpp:356), and its next cleanup queues
\* it again, which breaks CleanupSound and ends the program (the assertion at :867).
ThreadsInOrder == ~Aborted => CleanupSound /\ CleanedInOrder /\ WindowsChain

\* No context is lost or held twice: the tables, the chains of entries of the
\* allocated families and the reservations agree.
ContextsAccounted == TypeOK /\ TablesSane /\ AllocatedChain /\ ReservedForFamilies

\* What is on its way between the cores finds what it is for, and the parent is
\* answered once.
MessagesSound == MessagesFindFamily /\ BalancedResolved /\ WrittenOnce

\* An allocation gets an answer.
AllocationsAnswered ==
    \A p \in Parent : parent[p].phase = "allocating" ~> parent[p].phase # "allocating"

\* A synchronization gets an answer.
SyncsAnswered == \A p \in Parent : parent[p].sync = "waiting" ~> parent[p].sync # "waiting"

\* A detached family is freed on every core.
DetachedFreed == \A p \in Parent : (p \in Programs /\ Over(p) /\ Detaches(p)) ~> Entries(p) = {}

\* What a parent waits for comes, and what it leaves behind goes.
FamiliesEnd == AllocationsAnswered /\ SyncsAnswered /\ DetachedFreed

-----------------------------------------------------------------------------
(* What the comments and the manual say and the code does not keep: the     *)
(* README tells how each of these fails.                                    *)

\* A break finds the family whose thread issued it ("A break can only be sent from
\* the family itself", DoDelegationIn).
BreakFindsFamily ==
    \A c \in Core : \A m \in ToCore(c) : m.type = "BREAK" => Live(c, m.fid)

\* Once a break has gone as far as it goes, no core creates threads any more.
BreakReachesAll ==
    \A p \in breaks :
        (\A c \in Core : \A m \in ToCore(c) : m.type # "BREAK")
        => \A e \in Entries(p) : cpu[e[1]].families[e[2]].allocationDone

\* A family that waits in the thread allocation queue is set up; the one at the
\* front may be over when the allocator is about to drop it.
AllocQueueCreated ==
    \A c \in Core : \A i \in DOMAIN cpu[c].alloc :
        \/ cpu[c].families[cpu[c].alloc[i]].state \in {"ACTIVE", "TERMINATED"}
        \/ i = 1 /\ cpu[c].cleanup = <<>>

\* A bundle never gets into the queue of requests that may fail ("Bundle creations
\* are always suspending", DoFamilyAllocate).
BundlesSuspend ==
    \A c \in Core : \A i \in DOMAIN cpu[c].reqNoSuspend : ~cpu[c].reqNoSuspend[i].bundle
=============================================================================
