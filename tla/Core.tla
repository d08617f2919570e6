-------------------------------- MODULE Core --------------------------------
(***************************************************************************)
(* A core at work: the pipeline, the register file, the FPU behind it and   *)
(* the data cache's answers, for a set of threads whose programs are chosen *)
(* one instruction at a time as they are fetched.                           *)
(***************************************************************************)
EXTENDS Pipeline

CONSTANTS
    Isas,        \* instruction sets, out of "mtalpha" and "mtsparc"
    Code,        \* [isa -> [Thread -> [1..MaxLen -> instructions to choose from]]]
    MaxStalls    \* bound: cycles in which the writeback or the memory stage is refused

ASSUME CoreAssumption ==
    /\ Thread \subseteq Nat /\ Reg \subseteq Nat
    /\ MaxLen \in Nat \ {0} /\ MaxStalls \in Nat
    /\ Isas \subseteq {"mtalpha", "mtsparc"}

VARIABLE core
vars == core

Init ==
    \E isa \in Isas :
        core = [isa |-> isa,
                reg |-> [r \in Reg |-> EmptyReg], upd |-> [r \in Reg |-> EmptyReg],
                thread |-> [t \in Thread |-> [state |-> "active", pc |-> 1]],
                prog |-> [t \in Thread |-> <<>>],
                fd |-> None, dr |-> None, re |-> None, em |-> None, mw |-> None, wbBypass |-> None,
                fetch |-> [switched |-> TRUE, tid |-> 0, pc |-> 1],
                read |-> [o1 |-> NoOperand, o2 |-> NoOperand, rsv |-> None],
                wb |-> [offset |-> 0, stall |-> FALSE],
                fpu |-> InitFPU, loads |-> {}, writes |-> [t \in Thread |-> 0],
                arch |-> [r \in Reg |-> 0], fault |-> FALSE, go |-> TRUE, stalls |-> 0]
-----------------------------------------------------------------------------
\* The operations whose result comes after the instruction has left the pipeline.
LongLatency == {"add", "div", "load"}
Operands(n) == Regs(n.ra) \cup Regs(n.rb) \cup Regs(n.rs)

\* A result of long latency is read before another instruction overwrites its
\* register, as compilers do that emit no dead writes.  A load may overwrite
\* any, since it waits for its target, and an ordinary result that of a load.
ReadFirst(q, i, r) ==
    \E j \in (i + 1)..Len(q) : r \in Operands(q[j]) /\ \A k \in (i + 1)..(j - 1) : r \notin Regs(q[k].rc)
WritesLive(p, n) ==
    \A i \in 1..Len(p) : \A r \in Regs(p[i].rc) \cap Regs(n.rc) :
        \/ p[i].op \notin LongLatency
        \/ n.op = "load"
        \/ p[i].op = "load" /\ n.op = "alu"
        \/ ReadFirst(Append(p, n), i, r)

Stall == {"none", "writeback", "memory"}

\* The writes of a cycle take effect and the threads it made ready can be fetched.
EndOfCycle(c) ==
    [c EXCEPT !.reg = c.upd, !.go = TRUE,
              !.thread = [t \in Thread |-> IF @[t].state = "ready" THEN [@[t] EXCEPT !.state = "active"] ELSE @[t]]]

\* What the fetch stage can do: go on with its thread, or take the next active
\* one, if there is one; the instruction is one of the program, as far as it is known.
Fetches(c) ==
    UNION {LET tid == IF c.fetch.switched THEN t ELSE c.fetch.tid
               known == IF tid = None THEN <<>> ELSE c.prog[tid]
               possible == {n \in Code[c.isa][tid][Len(known) + 1] : WritesLive(known, n)}
           IN  IF tid = None \/ Len(known) = Length[tid] THEN {Fetch(c, t, None)}
               ELSE {Fetch(c, t, n) : n \in possible} :
           t \in Active(c) \cup {u \in {None} : Active(c) = {}}}

\* One cycle of the pipeline: the stages run from back to front, each on the
\* state the later ones leave.
Cycle(stall) ==
    /\ stall = "none" \/ core.stalls < MaxStalls
    /\ \E hit \in BOOLEAN :
       \E wb \in {Writeback([core EXCEPT !.wbBypass = core.mw, !.upd = core.reg], stall = "writeback")} :
       \E mem \in {Memory(wb, stall = "memory", hit)} :
       \E ex \in {Execute(mem)} :
       \E rd \in {Read(ex)} :
       \E c \in Fetches(Decode(rd)) :
           core' = EndOfCycle([c EXCEPT !.stalls = IF stall = "none" THEN @ ELSE @ + 1])

\* Threads of a list become active again.
Wake(c, ts) ==
    [c EXCEPT !.thread = [t \in Thread |-> IF t \in ts THEN [@[t] EXCEPT !.state = "active"] ELSE @[t]]]

\* The FPU's own steps.
StartOperation == CanStart(core.fpu) /\ core' = [core EXCEPT !.fpu = Start(@)]
AdvanceOperation(n) == CanAdvance(core.fpu, n) /\ core' = [core EXCEPT !.fpu = Advance(@, n)]
CompleteOperation(n) ==
    /\ HasTurn(core.fpu, n)
    /\ LET r == Target(core.fpu, n)
           old == core.reg[r]
           new == FullReg(Result(core.fpu, n))
       IN  /\ CheckFPUOutputAvailability(old)
           /\ core' = Wake([core EXCEPT !.reg[r] = new, !.fpu = OnCompletion(@, n),
                                        !.fault = @ \/ Refuses(old, new, FALSE)],
                           Woken(old, new))

\* The data cache writes the data of a load back, one register at a time.
DoReadWritebacks(l) ==
    /\ AwaitsLoad(core.reg[l.base + l.index])
    /\ LET r == l.base + l.index
           new == FullReg(l.val)
           rest == IF l.index + 1 = l.size THEN {} ELSE {[l EXCEPT !.index = @ + 1]}
       IN  core' = Wake([core EXCEPT !.reg[r] = new, !.loads = (@ \ {l}) \cup rest], Woken(core.reg[r], new))

\* A write has reached the memory: the last one ends the thread's barrier.
DecreaseThreadDependency(t) ==
    /\ core.writes[t] > 0
    /\ LET c == [core EXCEPT !.writes[t] = @ - 1]
           waits == c.thread[t].state = "suspended" /\ c.prog[t][c.thread[t].pc].op = "barrier"
       IN  core' = IF c.writes[t] = 0 /\ waits THEN Wake(c, {t}) ELSE c

Next ==
    \/ \E stall \in Stall : Cycle(stall)
    \/ StartOperation
    \/ \E n \in Unit : AdvanceOperation(n) \/ CompleteOperation(n)
    \/ \E l \in core.loads : DoReadWritebacks(l)
    \/ \E t \in Thread : DecreaseThreadDependency(t)

Spec == Init /\ [][Next]_vars

\* Every component runs in every cycle it has work for, and memory answers.
Fairness ==
    /\ WF_vars(Cycle("none"))
    /\ WF_vars(StartOperation)
    /\ \A n \in Unit : WF_vars(AdvanceOperation(n)) /\ WF_vars(CompleteOperation(n))
    /\ WF_vars(\E l \in core.loads : DoReadWritebacks(l))
    /\ \A t \in Thread : WF_vars(DecreaseThreadDependency(t))

FairSpec == Spec /\ Fairness
-----------------------------------------------------------------------------
Full(v) == v.state = "FULL"
Matches(v, o) == \A i \in 1..SizeOf(v) : o # <<>> => v.val[i] = core.arch[o[1] + i - 1]

\* An instruction that goes on to the Execute stage has, for each operand, what
\* the last instruction before it that writes the operand produces, however the
\* value came: register file, one of three bypasses, FPU or memory
\* (ReadStage::ReadBypasses, ReadStage::OnCycle).
OperandsInOrder ==
    LET i == core.re
        n == core.prog[i.tid][i.pc]
    IN  i # None /\ Full(i.rav) =>
            CASE n.op = "store" -> Matches(i.stored, n.rs)
              [] n.op = "load" -> TRUE
              [] OTHER -> Matches(i.rav, n.ra) /\ Matches(i.rbv, n.rb)

\* The results that are on their way to register r: in the FPU, at the data
\* cache, and those of the instructions that have not written back.
OnItsWay(r) ==
    \/ Due(core.fpu, r)
    \/ \E l \in core.loads : r \in (l.base + l.index)..(l.base + l.size - 1)

\* A register that is pending gets a result, and a result gets a register that
\* waits for it: a full register has no result due but one whose instruction is
\* still to write it back (WritebackStage::OnCycle, CheckFPUOutputAvailability).
PendingHasResult ==
    \A r \in Reg :
        /\ core.reg[r].state = "PENDING" => OnItsWay(r)
        /\ OnItsWay(r) /\ core.reg[r].state \in {"EMPTY", "FULL"} =>
               \E m \in {core.em, core.mw} : m # None /\ r \in Regs(m.rc)

\* None of the assertions on waiting lists fails, and no register is reset that
\* a load is going to write (WritebackStage, ReadStage, RegisterFile::WriteRegister).
NoFault == ~core.fault

\* The registers agree with what is under way to them.
RegistersSound == PendingHasResult /\ NoFault

\* A thread that waits for a register of its own or at a barrier goes on; what
\* is to come to a shared register is up to other threads (ActivateThreads,
\* FPU::DoPipeline, DecreaseThreadDependency).
Waiting(t) ==
    /\ core.thread[t].state = "suspended"
    /\ \A r \in Reg \ Local[t] : t \notin ToSet(core.reg[r].waiting)
SuspendedWakes == \A t \in Thread : Waiting(t) ~> (core.thread[t].state # "suspended")
=============================================================================
