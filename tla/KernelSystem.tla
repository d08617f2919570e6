---------------------------- MODULE KernelSystem ----------------------------
(***************************************************************************)
(* Cores that load from one serial memory, cycle by cycle as the kernel     *)
(* runs them.  Each core has a pipeline that issues the loads of its        *)
(* threads (what it is beside that is left out), and of its L1 data cache   *)
(* the outgoing queue, the read responses and the writebacks; a thread whose *)
(* load is written back is active again.  Cores and memory have clocks of   *)
(* their own, so every load crosses two clock domains.  The system stands   *)
(* for the paths of this shape: a queue in each domain, a service that is   *)
(* arbitrated in the domain of the queue it guards.                         *)
(***************************************************************************)
EXTENDS Kernel

CONSTANTS
    Core, Thread,
    Loads,          \* how many loads a thread issues
    Setups,         \* the configurations: frequencies, sizes, request time, policy
    StepCycles,     \* the cycles a user steps by; 0 stands for INFINITE_CYCLES
    MaxStops        \* bound of the interrupts by the user

VARIABLES
    setup,          \* the configuration of this run
    k,              \* the kernel's clocks, processes, storages and ports
    run,            \* Step: [phase, todo, idle, suspended, lastsuspend, end, stops]
    sys             \* [issued, answered: loads per core; nextdone; twice]
vars == <<setup, k, run, sys>>

Active(c) == <<"m_active", c>>
Outgoing(c) == <<"m_outgoing", c>>
Responses(c) == <<"m_read_responses", c>>
Writebacks(c) == <<"m_writebacks", c>>
Requests == <<"m_requests", "memory">>

Init ==
    /\ setup \in Setups
    /\ LET new == NewKernel(Periods(setup.frequency),
                     [s \in Storage |-> IF s[1] = "m_active" THEN NewList ELSE NewBuffer(setup.size[s[1]], 1)],
                     [r \in Port |-> IF r[1] = "p_requests"
                                     THEN NewPort(setup.policy, IF setup.policy = "both" THEN <<>> ELSE setup.clients,
                                                  IF setup.policy = "both" THEN setup.clients ELSE <<>>)
                                     ELSE NewPort("priority", <<<<"p_ReadResponses", r[2]>>, <<"p_Pipeline", r[2]>>>>, <<>>)])
           filled == [new EXCEPT !.store = [s \in Storage |->
                         IF s[1] = "m_active" THEN [@[s] EXCEPT !.new = SetToSeq(Thread)] ELSE @[s]]]
       IN  k = FoldSet(LAMBDA c, j : RegisterUpdate(j, Active(c)), filled, Core)
    /\ run = [phase |-> "prompt", todo |-> <<>>, idle |-> FALSE, suspended |-> FALSE,
              lastsuspend |-> -1, end |-> 0, stops |-> 0]
    /\ sys = [issued |-> [c \in Core |-> <<>>], answered |-> [c \in Core |-> <<>>],
              nextdone |-> 0, twice |-> FALSE]
-----------------------------------------------------------------------------
\* The handlers.  Item i of a queue is <<core, thread>>.
Item(s) == k.store[s].data[1]

PipelineOps(c) ==
    <<Invoke(<<"p_service", c>>), Push(Outgoing(c), Item(Active(c))), Pop(Active(c))>>
\* Mutant: a request that the memory does not take is dropped
DropRequests(c) == IF CanPut(k.store[Requests])
                   THEN <<Invoke(<<"p_requests", "memory">>), Push(Requests, Item(Outgoing(c))), Pop(Outgoing(c))>>
                   ELSE <<Pop(Outgoing(c))>>
\* DCacheNaive::DoOutgoingRequests and SerialMemory::Read
OutgoingOps(c) == <<Invoke(<<"p_requests", "memory">>), Push(Requests, Item(Outgoing(c))), Pop(Outgoing(c))>>
\* SerialMemory::DoRequests: times the request at the front, waits, answers it.
MemoryCycle == k.now \div k.clk["memory"].period
Answers == sys.nextdone > 0 /\ MemoryCycle >= sys.nextdone
MemoryOps == IF Answers THEN <<Push(Responses(Item(Requests)[1]), Item(Requests)), Pop(Requests)>> ELSE <<>>
\* DCacheNaive::DoReadResponses, DoReadWritebacks
ResponseOps(c) ==
    <<Invoke(<<"p_service", c>>), Push(Writebacks(c), Item(Responses(c))), Pop(Responses(c))>>
HasMore(item) == Len(SelectSeq(sys.issued[item[1]], LAMBDA t : t = item[2])) < Loads
WritebackOps(c) ==
    LET item == Item(Writebacks(c))
    IN  (IF HasMore(item) THEN <<Push(Active(c), item[2])>> ELSE <<>>) \o <<Pop(Writebacks(c))>>

\* The pipeline puts the thread of its own core into the request.
Handler(p) ==
    CASE p[1] = "p_Pipeline"       -> [PipelineOps(p[2]) EXCEPT ![2].item = <<p[2], @>>]
      [] p[1] = "p_Outgoing"       -> OutgoingOps(p[2])
      [] p[1] = "p_Requests"       -> MemoryOps
      [] p[1] = "p_ReadResponses"  -> ResponseOps(p[2])
      [] p[1] = "p_ReadWritebacks" -> WritebackOps(p[2])
Effect(p) ==
    CASE p[1] = "p_Pipeline" -> [sys EXCEPT !.issued[p[2]] = Append(@, Item(Active(p[2])))]
      [] p[1] = "p_ReadWritebacks" -> [sys EXCEPT !.answered[p[2]] = Append(@, Item(Writebacks(p[2]))[2])]
      [] p[1] = "p_Requests" ->
            [sys EXCEPT !.nextdone = IF @ = 0 THEN MemoryCycle + setup.time ELSE IF Answers THEN 0 ELSE @]
      [] OTHER -> sys
-----------------------------------------------------------------------------
\* Step: run for so many cycles, from the first cycle in which a clock is due.
Step(cycles) ==
    /\ run.phase = "prompt" /\ ~run.idle
    /\ k' = ToFirstClock(k)
    /\ run' = [run EXCEPT !.phase = "loop", !.suspended = FALSE,
                          !.end = IF cycles = 0 THEN 0 ELSE k.now + cycles]
    /\ UNCHANGED <<setup, sys>>
GoesOn == /\ ~run.suspended \/ run.lastsuspend = k.now
          /\ ~run.idle
          /\ run.end = 0 \/ k.now < run.end
BeginCycle ==
    /\ run.phase = "loop" /\ GoesOn
    /\ run' = [run EXCEPT !.phase = "acquire", !.todo = DueProcesses(k), !.idle = TRUE]
    /\ UNCHANGED <<setup, k, sys>>
Return ==
    /\ run.phase = "loop" /\ ~GoesOn
    /\ LET now == IF run.end # 0 /\ run.end < k.now THEN run.end ELSE k.now
       IN  /\ k' = [k EXCEPT !.now = now]
           /\ run' = [run EXCEPT !.phase = "prompt", !.lastsuspend = IF run.suspended THEN now ELSE @]
    /\ UNCHANGED <<setup, sys>>
\* The user interrupts, or a breakpoint is hit.
Stop ==
    /\ run.phase = "commit" /\ run.stops < MaxStops
    /\ run' = [run EXCEPT !.suspended = TRUE, !.stops = @ + 1]
    /\ UNCHANGED <<setup, k, sys>>

Acquire ==
    /\ run.phase = "acquire" /\ run.todo # <<>>
    /\ LET p == Head(run.todo) ops == Handler(p)
       IN  /\ k' = AcquireProcess(k, p, ops)
           /\ sys' = [sys EXCEPT !.twice = @ \/ \E i \in Attempted(k, p, ops) :
                         ops[i].op = "invoke" /\ AsksTwice(k.port[ops[i].on], p, k.now)]
    /\ run' = [run EXCEPT !.todo = Tail(@)]
    /\ UNCHANGED setup
Arbitrate ==
    /\ run.phase = "acquire" /\ run.todo = <<>>
    /\ k' = ArbitrateAll(k)
    /\ run' = [run EXCEPT !.phase = "commit", !.todo = DueProcesses(k)]
    /\ UNCHANGED <<setup, sys>>
Commit ==
    /\ run.phase = "commit" /\ run.todo # <<>>
    /\ LET p == Head(run.todo) IN
         IF Commits(k, p, Handler(p))
         THEN /\ k' = CommitProcess(k, p, Handler(p))
              /\ sys' = Effect(p)
              /\ run' = [run EXCEPT !.todo = Tail(@), !.idle = FALSE]
         ELSE /\ k' = StallProcess(k, p)
              /\ run' = [run EXCEPT !.todo = Tail(@)]
              /\ UNCHANGED sys
    /\ UNCHANGED setup
BeginUpdate ==
    /\ run.phase = "commit" /\ run.todo = <<>>
    /\ run' = [run EXCEPT !.phase = "update", !.todo = DueStorages(k)]
    /\ UNCHANGED <<setup, k, sys>>
Update ==
    /\ run.phase = "update" /\ run.todo # <<>>
    /\ k' = UpdateStorage(k, Head(run.todo))
    /\ run' = [run EXCEPT !.todo = Tail(@), !.idle = FALSE]
    /\ UNCHANGED <<setup, sys>>
Advance ==
    /\ run.phase = "update" /\ run.todo = <<>>
    /\ LET idle == run.idle /\ ~HasFutureClock(k)
       IN  /\ k' = IF idle THEN k ELSE Advanced(k)
           /\ run' = [run EXCEPT !.phase = "loop", !.idle = idle]
    /\ UNCHANGED <<setup, sys>>

Next ==
    \/ \E cycles \in StepCycles : Step(cycles)
    \/ BeginCycle \/ Return \/ Stop
    \/ Acquire \/ Arbitrate \/ Commit \/ BeginUpdate \/ Update \/ Advance
Spec == Init /\ [][Next]_vars
\* The user lets the simulation go on.
FairSpec == Spec /\ WF_vars(Next)
-----------------------------------------------------------------------------
\* A process is active as often as a storage holds something for it, it is in
\* the list of its clock once, and a clock with active processes or storages
\* to be updated is due at an edge of its own that has not passed (unless the
\* cycle of that edge is being ended).
Holding(p) == {s \in Storage : Sensitive[s] = p /\ ~Empty(k.store[s])}
EdgeAhead(c) == /\ Contains(k.active, c)
                /\ k.clk[c].due % k.clk[c].period = 0
                /\ k.now <= k.clk[c].due /\ k.clk[c].due <= k.now + k.clk[c].period
AwakeWhileHolding ==
    /\ \A p \in Process : k.proc[p].activations = Cardinality(Holding(p))
    /\ \A s \in Storage : LET listed == {i \in DOMAIN k.clk[StorageClock[s]].procs :
                                            k.clk[StorageClock[s]].procs[i] = Sensitive[s]}
                          IN  Cardinality(listed) = IF Holding(Sensitive[s]) = {} THEN 0 ELSE 1
    /\ \A c \in Clock : k.clk[c].procs # <<>> \/ k.clk[c].storages # <<>> => EdgeAhead(c)

\* The kernel says that the simulation is idle only when nothing is left in any
\* storage: no load is forgotten half way.
IdleMeansDone ==
    run.idle /\ run.phase \in {"loop", "prompt"} =>
        /\ \A s \in Storage : Empty(k.store[s]) /\ k.store[s].new = <<>>
        /\ \A c \in Core : Len(sys.answered[c]) = Loads * Cardinality(Thread)

\* The comment on AddRequest: a process cannot ask twice in one cycle.
AskedOnce == ~sys.twice

\* Every load is answered once, in order, and some time.
LQ == INSTANCE LoadQueue WITH Core <- Core, Load <- Thread, issued <- sys.issued, answered <- sys.answered
AnswersInOrder == LQ!Spec
=============================================================================
