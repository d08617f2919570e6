------------------------------ MODULE Scheduler -----------------------------
(***************************************************************************)
(* How a core schedules its threads: from the ready lists over the           *)
(* instruction cache to the active queue, into the pipeline and out of it    *)
(* again.  Every list of threads is a head and a tail, linked through the    *)
(* same `next' field of the thread table.  The pipeline is seen from its two *)
(* ends: the fetch stage switches a thread in, the writeback stage decides   *)
(* what becomes of it; of its instructions one register and one kind of      *)
(* store are left, which is what threads wait for.                           *)
(***************************************************************************)
EXTENDS ICache

CONSTANTS PipeDepth,      \* threads that can be in the pipeline together
          Programs,       \* the lines families start with
          MaxWrites,      \* bound: outstanding stores of a thread
          MaxEvents       \* bound: invalidations and reads by other clients

ASSUME SchedulerAssumption ==
    /\ Programs \subseteq Addr
    /\ PipeDepth \in Nat /\ MaxWrites \in Nat /\ MaxEvents \in Nat

VARIABLES thread,     \* thread[t]: see below
          list,       \* the ready lists "pipe" and "other", and the "active" queue
          prevReady,  \* m_prevReadyList
          pipe,       \* the threads in the pipeline, the oldest first
          reg,        \* the register threads wait for
          create,     \* what the family creation does with the cache
          events,     \* how many more invalidations and foreign reads there are
          early       \* history: an answer came for a line that nobody waits for

schedVars == <<thread, list, prevReady, pipe, reg, create, events, early>>
vars == <<icacheVars, schedVars>>

NoThread == [state |-> "EMPTY", next |-> None, cid |-> None, pc |-> None,
             writes |-> 0, waitingForWrites |-> FALSE]
NoList   == [head |-> None, tail |-> None]

\* `busy': a long-latency operation is going to write the register.
Init ==
    /\ ICacheInit
    /\ thread = [t \in Thread |-> NoThread]
    /\ list = [l \in {"pipe", "other", "active"} |-> NoList]
    /\ prevReady = "other"
    /\ pipe = <<>>
    /\ reg = [state |-> "EMPTY", head |-> None, tail |-> None, busy |-> FALSE]
    /\ create = [state |-> "IDLE", pc |-> None, cid |-> None]
    /\ events = MaxEvents
    /\ early = FALSE
-----------------------------------------------------------------------------
(* Thread lists.                                                             *)

\* The threads from h on, t being the last.
Chain(next, h, t) ==
    LET walk[n \in 0 .. Cardinality(Thread)] ==
            IF n = 0 THEN <<h>>
            ELSE IF Last(walk[n - 1]) \in {t, None} THEN walk[n - 1]
            ELSE Append(walk[n - 1], next[Last(walk[n - 1])])
    IN  IF h = None THEN <<>> ELSE walk[Cardinality(Thread)]

NextOf(threads) == [t \in Thread |-> threads[t].next]

\* QueueThreads: list l with the threads from h to t, which get state s.
Queued(lists, l, h, t) ==
    [lists EXCEPT ![l] = [head |-> IF @.head = None THEN h ELSE @.head, tail |-> t]]

QueueThreads(threads, l, h, t, s) ==
    LET chain == ToSet(Chain(NextOf(threads), h, t))
    IN  [x \in Thread |->
            [threads[x] EXCEPT !.state = IF x \in chain THEN s ELSE @,
                               !.next = IF list[l].head # None /\ x = list[l].tail THEN h ELSE @]]

\* LinkedList::Pop.
Popped(l) == [list EXCEPT ![l] = IF @.head = @.tail THEN NoList
                                 ELSE [@ EXCEPT !.head = thread[list[l].head].next]]
-----------------------------------------------------------------------------
(* The allocator's and the cache's processes.                                *)

\* AllocateThread, after the entry's last thread was cleaned up.
AllocateThread(t, a) ==
    /\ thread[t].state \in {"EMPTY", "TERMINATED"} /\ thread[t].writes = 0
    /\ thread' = QueueThreads([thread EXCEPT ![t] = [NoThread EXCEPT !.pc = a]],
                              "other", t, t, "READY")
    /\ list' = Queued(list, "other", t, t)
    /\ UNCHANGED <<icacheVars, prevReady, pipe, reg, create, events, early>>

\* Mutant: the threads from the pipeline always come first
ReadyListPipe == IF list["pipe"].head # None THEN "pipe" ELSE "other"
\* DoThreadActivation: the ready lists take turns.
ReadyList ==
    IF (prevReady = "other" \/ list["other"].head = None) /\ list["pipe"].head # None
    THEN "pipe" ELSE "other"

ActivateHit ==
    LET t == list[ReadyList].head
    IN  /\ t # None
        /\ \E c \in CID :
             /\ FetchHit(c, thread[t].pc)
             /\ list' = Queued(Popped(ReadyList), "active", t, t)
             /\ thread' = QueueThreads([thread EXCEPT ![t].cid = c], "active", t, t, "ACTIVE")
        /\ prevReady' = ReadyList
        /\ UNCHANGED <<pipe, reg, create, events, early>>

ActivateMiss ==
    LET t == list[ReadyList].head
    IN  /\ t # None
        /\ \E c \in CID :
             /\ \/ FetchLoading(c, thread[t].pc, t) \/ FetchMiss(c, thread[t].pc, t)
             /\ thread' = [thread EXCEPT ![t].cid = c, ![t].state = "WAITING",
                              ![t].next = IF Hits(thread[t].pc) = {} THEN None ELSE line[c].head]
        /\ list' = Popped(ReadyList)
        /\ prevReady' = ReadyList
        /\ UNCHANGED <<pipe, reg, create, events, early>>

\* DoIncoming: resume the creation and the threads that wait for the line.
DoIncoming ==
    LET c == Head(incoming)
    IN  /\ incoming # <<>> /\ ~served
        /\ incoming' = Tail(incoming)
        /\ served' = TRUE
        /\ line' = [line EXCEPT ![c].state = "FULL", ![c].creation = FALSE,
                                ![c].head = None, ![c].tail = None]
        /\ create' = IF line[c].creation THEN [create EXCEPT !.state = "LINE_LOADED", !.cid = c]
                     ELSE create
        /\ IF line[c].head = None THEN UNCHANGED <<thread, list>>
           ELSE /\ thread' = QueueThreads(thread, "active", line[c].head, line[c].tail, "ACTIVE")
                /\ list' = Queued(list, "active", line[c].head, line[c].tail)
        /\ UNCHANGED <<outgoing, arrived, reading, prevReady, pipe, reg, events, early>>

\* The stages of DoFamilyCreate that use the cache.  Activation comes first.
CreateStart(a) ==
    /\ create.state = "IDLE"
    /\ create' = [create EXCEPT !.state = "LOAD_REGSPEC", !.pc = a]
    /\ UNCHANGED <<icacheVars, thread, list, prevReady, pipe, reg, events, early>>

CreateLoadRegspec ==
    /\ create.state = "LOAD_REGSPEC" /\ list[ReadyList].head = None
    /\ \E c \in CID :
         \/ /\ FetchHit(c, create.pc)
            /\ create' = [create EXCEPT !.state = "LINE_LOADED", !.cid = c]
         \/ /\ \/ FetchLoading(c, create.pc, None) \/ FetchMiss(c, create.pc, None)
            /\ create' = [create EXCEPT !.state = "LOADING_LINE"]
    /\ UNCHANGED <<thread, list, prevReady, pipe, reg, events, early>>

CreateLineLoaded ==
    /\ create.state = "LINE_LOADED"
    /\ line' = Released(line, create.cid)
    /\ create' = [create EXCEPT !.state = "IDLE", !.pc = None, !.cid = None]
    /\ UNCHANGED <<outgoing, incoming, arrived, served, reading,
                   thread, list, prevReady, pipe, reg, events, early>>
-----------------------------------------------------------------------------
(* The pipeline.                                                             *)

\* FetchStage::OnCycle with m_switched: the thread at the front of the queue.
SwitchIn ==
    LET t == list["active"].head
    IN  /\ t # None /\ Len(pipe) < PipeDepth
        /\ list' = Popped("active")
        /\ thread' = [thread EXCEPT ![t].state = "RUNNING"]
        /\ pipe' = Append(pipe, t)
        /\ UNCHANGED <<icacheVars, prevReady, reg, create, events, early>>

\* The end of the writeback stage for the oldest thread.
Leaves(t) == pipe # <<>> /\ t = Head(pipe) /\ pipe' = Tail(pipe)
LeavesLine(t) ==
    /\ line' = Released(line, thread[t].cid)
    /\ UNCHANGED <<outgoing, incoming, arrived, served, reading>>

KillThread(t) ==
    /\ Leaves(t) /\ LeavesLine(t)
    /\ thread' = [thread EXCEPT ![t].state = "TERMINATED", ![t].cid = None]
    /\ UNCHANGED <<list, prevReady, reg, create, events, early>>

RescheduleThread(t, a) ==
    /\ Leaves(t) /\ LeavesLine(t)
    /\ thread' = QueueThreads([thread EXCEPT ![t].pc = a, ![t].next = None],
                              "pipe", t, t, "READY")
    /\ list' = Queued(list, "pipe", t, t)
    /\ UNCHANGED <<prevReady, reg, create, events, early>>

\* Mutant: the threads that wait already are not linked
SuspendUnlinked(t) ==
    /\ Leaves(t) /\ LeavesLine(t)
    /\ reg.state # "FULL"
    /\ thread' = [thread EXCEPT ![t].state = "SUSPENDED", ![t].cid = None]
    /\ reg' = [reg EXCEPT !.state = "WAITING", !.head = t,
                          !.tail = IF reg.state = "WAITING" THEN @ ELSE t]
    /\ UNCHANGED <<list, prevReady, create, events, early>>
\* SuspendThread, on a register that is not full.
SuspendOnRegister(t) ==
    /\ Leaves(t) /\ LeavesLine(t)
    /\ reg.state # "FULL"
    /\ thread' = [thread EXCEPT ![t].state = "SUSPENDED", ![t].cid = None, ![t].next = reg.head]
    /\ reg' = [reg EXCEPT !.state = "WAITING", !.head = t,
                          !.tail = IF reg.state = "WAITING" THEN @ ELSE t]
    /\ UNCHANGED <<list, prevReady, create, events, early>>

\* SuspendThread, on a memory barrier with stores outstanding.
SuspendOnWrites(t) ==
    /\ Leaves(t) /\ LeavesLine(t)
    /\ thread[t].writes # 0
    /\ thread' = [thread EXCEPT ![t].state = "SUSPENDED", ![t].cid = None,
                                ![t].waitingForWrites = TRUE]
    /\ UNCHANGED <<list, prevReady, reg, create, events, early>>

\* A store of the oldest thread, and its completion (DecreaseThreadDependency).
Store(t) ==
    /\ pipe # <<>> /\ t = Head(pipe) /\ thread[t].writes < MaxWrites
    /\ thread' = [thread EXCEPT ![t].writes = @ + 1]
    /\ UNCHANGED <<icacheVars, list, prevReady, pipe, reg, create, events, early>>

StoreDone(t) ==
    LET wakes == thread[t].writes = 1 /\ thread[t].waitingForWrites
        less  == [thread EXCEPT ![t].writes = @ - 1,
                                ![t].waitingForWrites = @ /\ thread[t].writes # 1]
    IN  /\ thread[t].writes > 0
        /\ thread' = IF wakes THEN QueueThreads(less, "other", t, t, "READY") ELSE less
        /\ list' = IF wakes THEN Queued(list, "other", t, t) ELSE list
        /\ UNCHANGED <<icacheVars, prevReady, pipe, reg, create, events, early>>

\* RegisterFile::WriteRegister of a full value wakes who waits, into list l.
WriteRegister(l) ==
    /\ reg' = [state |-> "FULL", head |-> None, tail |-> None, busy |-> FALSE]
    /\ IF reg.state # "WAITING" THEN UNCHANGED <<thread, list>>
       ELSE /\ thread' = QueueThreads(thread, l, reg.head, reg.tail, "READY")
            /\ list' = Queued(list, l, reg.head, reg.tail)
    /\ UNCHANGED <<icacheVars, prevReady, pipe, create, events, early>>

\* By an instruction of the oldest thread, which goes on afterwards.  It waits in
\* the writeback stage for a load under way to the register; programs do not
\* overwrite the target of any other operation.
PipelineWrite == pipe # <<>> /\ ~reg.busy /\ WriteRegister("pipe")

\* By the operation that was started on it (FPU, D-cache, network), or by
\* another core for an empty one.
AsyncWrite == (reg.busy \/ reg.state \in {"EMPTY", "WAITING"}) /\ WriteRegister("other")

\* A long-latency operation starts; who waits goes on waiting.
StartOperation ==
    /\ pipe # <<>> /\ ~reg.busy
    /\ reg' = [reg EXCEPT !.state = IF @ = "WAITING" THEN @ ELSE "PENDING", !.busy = TRUE]
    /\ UNCHANGED <<icacheVars, thread, list, prevReady, pipe, create, events, early>>
-----------------------------------------------------------------------------
\* The memory takes requests and delivers them; for the other clients of its bus
\* too, and it takes lines back.  `early' records an answer that nobody asked for.
NotesAnswer(a) == early' = (early \/ Unasked(a))
Delivers(a) ==
    /\ OnMemoryReadCompleted(a) /\ NotesAnswer(a)
    /\ UNCHANGED <<events, thread, list, prevReady, pipe, reg, create>>
Memory ==
    \/ DoOutgoing /\ UNCHANGED schedVars
    \/ \E a \in Addr : Delivers(a)
    \/ /\ events > 0 /\ events' = events - 1
       /\ \E a \in Addr : \/ OnOtherReadCompleted(a) /\ NotesAnswer(a)
                          \/ OnMemoryInvalidated(a) /\ UNCHANGED early
       /\ UNCHANGED <<thread, list, prevReady, pipe, reg, create>>

\* A cycle ends when the process that is entitled to the service has had it.
CanActivate == list[ReadyList].head # None /\ CanFetch(thread[list[ReadyList].head].pc)
Tick ==
    /\ served \/ arrived # <<>>
    /\ served \/ (incoming = <<>> /\ ~CanActivate)
    /\ incoming' = incoming \o arrived
    /\ arrived' = <<>>
    /\ served' = FALSE
    /\ UNCHANGED <<line, outgoing, reading, schedVars>>

Retire == \E t \in Thread :
    \/ KillThread(t) \/ SuspendOnRegister(t) \/ SuspendOnWrites(t)
    \/ \E a \in Addr : RescheduleThread(t, a)

Next ==
    \/ \E t \in Thread, a \in Addr : AllocateThread(t, a)
    \/ ActivateHit \/ ActivateMiss \/ DoIncoming
    \/ \E a \in Programs : CreateStart(a)
    \/ CreateLoadRegspec \/ CreateLineLoaded
    \/ SwitchIn \/ Retire
    \/ \E t \in Thread : Store(t) \/ StoreDone(t)
    \/ PipelineWrite \/ AsyncWrite \/ StartOperation
    \/ Memory \/ Tick

Spec == Init /\ [][Next]_vars

\* The kernel runs every process that can run, memory answers and no thread
\* stays in the pipeline for ever.  Nothing is promised of new threads, of what
\* threads wait for and of the requests to create families.
Fairness ==
    /\ WF_vars(ActivateHit \/ ActivateMiss) /\ WF_vars(DoIncoming) /\ WF_vars(Tick)
    /\ WF_vars(CreateLineLoaded) /\ WF_vars(SwitchIn) /\ WF_vars(Retire)
    /\ WF_vars(DoOutgoing /\ UNCHANGED schedVars)
    /\ WF_vars(\E a \in Addr : Delivers(a))

FairSpec == Spec /\ Fairness
-----------------------------------------------------------------------------
ThreadState == {"EMPTY", "READY", "WAITING", "ACTIVE", "RUNNING", "SUSPENDED", "TERMINATED"}
ListType == [head : Thread \cup {None}, tail : Thread \cup {None}]

\* The tables, queues and buffers hold what they may.
TypeOK ==
    /\ line \in [CID -> [state : {"EMPTY", "LOADING", "FULL", "INVALID"},
                         tag : Addr \cup {None}, references : Nat,
                         head : Thread \cup {None}, tail : Thread \cup {None},
                         creation : BOOLEAN, fresh : BOOLEAN]]
    /\ outgoing \in Seq(Addr) /\ Len(outgoing) <= BufferSize
    /\ incoming \in Seq(CID) /\ arrived \in Seq(CID)
    /\ Len(incoming) + Len(arrived) <= BufferSize
    /\ served \in BOOLEAN
    /\ reading \in [Addr -> Nat]
    /\ thread \in [Thread -> [state : ThreadState, next : Thread \cup {None},
                              cid : CID \cup {None}, pc : Addr \cup {None},
                              writes : 0 .. MaxWrites, waitingForWrites : BOOLEAN]]
    /\ list \in [{"pipe", "other", "active"} -> ListType]
    /\ prevReady \in {"pipe", "other"}
    /\ pipe \in Seq(Thread)
    /\ reg \in [state : {"EMPTY", "PENDING", "WAITING", "FULL"}, busy : BOOLEAN,
                head : Thread \cup {None}, tail : Thread \cup {None}]
    /\ create \in [state : {"IDLE", "LOAD_REGSPEC", "LOADING_LINE", "LINE_LOADED"},
                   pc : Addr \cup {None}, cid : CID \cup {None}]
    /\ events \in 0 .. MaxEvents /\ early \in BOOLEAN

InState(s) == {t \in Thread : thread[t].state = s}

\* The list from h to t is well formed: it reaches its tail and holds S.
Holds(h, t, S) ==
    LET chain == Chain(NextOf(thread), h, t)
    IN  /\ ToSet(chain) = S
        /\ h = None <=> S = {}
        /\ h # None => Last(chain) = t

\* Every thread is where its state says and nowhere else, although all lists
\* share one link per thread: no thread is ever lost or scheduled twice.
ListsSound ==
    /\ \E S, T \in SUBSET Thread :
          /\ S \cap T = {} /\ S \cup T = InState("READY")
          /\ Holds(list["pipe"].head, list["pipe"].tail, S)
          /\ Holds(list["other"].head, list["other"].tail, T)
    /\ Holds(list["active"].head, list["active"].tail, InState("ACTIVE"))
    /\ \A c \in CID :
          Holds(line[c].head, line[c].tail, {t \in InState("WAITING") : thread[t].cid = c})
    /\ Holds(reg.head, reg.tail, {t \in InState("SUSPENDED") : ~thread[t].waitingForWrites})
    /\ ToSet(pipe) = InState("RUNNING") /\ IsInjective(pipe)

\* The threads that hold a reference to line c.
Users(c) == {t \in Thread : thread[t].state \in {"WAITING", "ACTIVE", "RUNNING"}
                            /\ thread[t].cid = c}
CreationUses(c) == \/ create.state = "LINE_LOADED" /\ create.cid = c
                   \/ line[c].creation

\* A line counts exactly the threads and the creation that use it, so none is
\* replaced under them and none is kept for ever.
ReferencesExact ==
    \A c \in CID : line[c].references = Cardinality(Users(c))
                                        + (IF CreationUses(c) THEN 1 ELSE 0)

\* Who executes or reads a line finds it loaded and with the right tag: what
\* ICache::Read asserts and throws about.
ReadersFindLine ==
    /\ \A t \in InState("ACTIVE") \cup InState("RUNNING") :
          /\ line[thread[t].cid].state \in {"FULL", "INVALID"}
          /\ line[thread[t].cid].tag = thread[t].pc
    /\ create.state = "LINE_LOADED" =>
          /\ line[create.cid].state \in {"FULL", "INVALID"}
          /\ line[create.cid].tag = create.pc

\* Lines are held by those who use them, and by nobody else.
LinesHeld == ReferencesExact /\ ReadersFindLine

\* A thread or the create process waits for the line.
WaitedFor(c) == line[c].head # None \/ line[c].creation

\* Somebody who waits for a line has an answer coming: its request is queued, at
\* the memory, or the line has come in; and what comes in is waited for.  This holds
\* up to the first answer that is taken for a line nobody waits for, or for one whose
\* answer is already queued.  The code takes the answer to another client's read for
\* such a line as well (ICache.cpp:395): the queue entry is out of date once the last
\* user has released the line, and the line may by then be loading another address.
WaitersAnswered ==
    ~early =>
        /\ \A c \in CID : WaitedFor(c) =>
            \/ Contains(outgoing, line[c].tag) \/ reading[line[c].tag] > 0
            \/ Contains(incoming \o arrived, c)
        /\ \A c \in ToSet(incoming \o arrived) : WaitedFor(c)

\* A ready thread gets into the pipeline, whatever is invalidated meanwhile.
ReadyRuns == \A t \in Thread : thread[t].state = "READY" ~> thread[t].state = "RUNNING"

-----------------------------------------------------------------------------
(* What the comments say and the code does not keep.                         *)

\* "LINE_FULL, ///< Line has data and can be reused", and a line that is
\* invalidated while it loads "will be cleared" after use.
FullIsFresh == \A c \in CID : line[c].state = "FULL" => line[c].fresh
=============================================================================
