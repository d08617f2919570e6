---------------------------- MODULE Pipeline ----------------------------
(*****************************************************************************)
(* The register file, the floating-point unit and the pipeline of a core.    *)
(*****************************************************************************)
EXTENDS Integers, Sequences, SequencesExt
-----------------------------------------------------------------------------
(***************************************************************************)
(* Registers with state bits.  A register that is PENDING is going to be    *)
(* written by a long-latency operation (mem: by a load); a WAITING one also *)
(* has a list of threads that wait for it, the one that came last first.    *)
(***************************************************************************)

CONSTANTS Reg, Thread

EmptyReg == [state |-> "EMPTY", val |-> 0, waiting |-> <<>>, mem |-> FALSE]
FullReg(v) == [EmptyReg EXCEPT !.state = "FULL", !.val = v]

\* WriteRegister refuses (by an exception) to reset a register with waiting
\* threads, and all but the memory to change a register a load will write.
Refuses(old, new, fromMemory) ==
    /\ old.state # "FULL"
    /\ \/ old.state = "WAITING" /\ new.state = "EMPTY"
       \/ old.mem /\ ~fromMemory /\ (new.state = "FULL" \/ ~new.mem)

\* The threads a write wakes.
Woken(old, new) == IF old.state = "WAITING" /\ new.state = "FULL" THEN ToSet(old.waiting) ELSE {}

\* An FPU result, unlike one of memory, is for a register that is PENDING or
\* has waiting threads, by whatever operation.
AlwaysAvailable(old) == TRUE
CheckFPUOutputAvailability(old) == old.state \in {"PENDING", "WAITING"}
\* A load's data are for a register whose request has been written back.
AwaitsLoad(old) == old.state # "FULL" /\ old.mem
-----------------------------------------------------------------------------
(***************************************************************************)
(* The floating-point unit behind one core: a queue of operations and       *)
(* units in which they complete in order.  How long an operation takes is   *)
(* left open; u is the state of the FPU.                                    *)
(***************************************************************************)
CONSTANTS
    Unit,          \* the units, 1..n
    UnitFor,       \* [operation -> unit]
    Pipelined,     \* [unit -> takes operations before the first completes]
    InputQueueSize

InitFPU == [inputs |-> <<>>, slots |-> [n \in Unit |-> <<>>]]

CanQueue(u) == Len(u.inputs) < InputQueueSize
QueueOperation(u, op, base, size, val) ==
    [u EXCEPT !.inputs = Append(@, [op |-> op, base |-> base, size |-> size, val |-> val])]

CanStart(u) ==
    /\ u.inputs # <<>>
    /\ LET n == UnitFor[Head(u.inputs).op]
       IN  u.slots[n] = <<>> \/ (Pipelined[n] /\ Len(u.slots[n]) < 2)
Start(u) ==
    LET o == Head(u.inputs)
    IN  [u EXCEPT !.inputs = Tail(@),
                  !.slots[UnitFor[o.op]] = Append(@, [base |-> o.base, size |-> o.size, val |-> o.val,
                                                      index |-> 0, done |-> FALSE])]

Completed(u, n) == u.slots[n] # <<>> /\ Head(u.slots[n]).done
CanAdvance(u, n) == u.slots[n] # <<>> /\ ~Head(u.slots[n]).done
Advance(u, n) == [u EXCEPT !.slots[n][1].done = TRUE]

\* One unit writes to a core per cycle: the first that has a completed
\* operation takes the turn, also when the core then refuses its result.
HasTurn(u, n) == Completed(u, n) /\ \A m \in Unit : m < n => ~Completed(u, m)
Target(u, n) == Head(u.slots[n]).base + Head(u.slots[n]).index
Result(u, n) == Head(u.slots[n]).val
OnCompletion(u, n) ==
    LET r == Head(u.slots[n])
    IN  [u EXCEPT !.slots[n] = IF r.index + 1 = r.size THEN Tail(@) ELSE [@ EXCEPT ![1].index = r.index + 1]]

\* Results that have not been written to register r.
Due(u, r) ==
    \/ \E i \in DOMAIN u.inputs : r \in u.inputs[i].base..(u.inputs[i].base + u.inputs[i].size - 1)
    \/ \E n \in Unit : \E i \in DOMAIN u.slots[n] :
           r \in (u.slots[n][i].base + u.slots[n][i].index)..(u.slots[n][i].base + u.slots[n][i].size - 1)
-----------------------------------------------------------------------------
(***************************************************************************)
(* The six stages of a core's pipeline, in both of the instruction sets     *)
(* (isa) with a different read stage.  c is the state of the core; a stage  *)
(* is an operator on it, and a cycle runs them from back to front as long   *)
(* as c.go holds.  Registers are written at the end of the cycle (upd), and *)
(* threads made ready are seen in the next cycle ("ready").                 *)
(*                                                                          *)
(* An operand is <<>> (a literal) or <<first register, registers>>.  Data   *)
(* are the number of the instruction that produced them.                    *)
(***************************************************************************)
CONSTANTS
    None,
    Local,      \* [Thread -> registers that are empty local ones and read as zero]
    MaxLen,     \* bound: instructions of a thread
    Length      \* [Thread -> instructions of its program]

Regs(o) == IF o = <<>> THEN {} ELSE o[1]..(o[1] + o[2] - 1)
NoOperand == [new |-> TRUE]
Number(t, pc) == t * MaxLen + pc

PipeValue(s, n) == [state |-> s, val |-> [i \in 1..n |-> 0], waiting |-> <<>>, mem |-> FALSE]
FullValue(n, v) == [PipeValue("FULL", n) EXCEPT !.val = [i \in 1..n |-> v]]
Nothing == PipeValue("INVALID", 0)
SizeOf(v) == Len(v.val)

Stop(c) == [c EXCEPT !.go = FALSE]
-----------------------------------------------------------------------------
\* WritebackStage: one register per cycle, then the fate of the thread.
WritebackValue(c, m, o) ==
    LET v == m.rcv
        old == c.reg[m.rc[1] + o]
        new == [state |-> v.state, val |-> IF v.state = "FULL" THEN v.val[o + 1] ELSE 0,
                waiting |-> <<>>, mem |-> v.mem /\ o = 0]
    IN  CASE v.state = "WAITING" -> [new EXCEPT !.waiting = <<m.tid>> \o old.waiting]
          [] v.state = "PENDING" /\ old.state = "WAITING" ->
                 [new EXCEPT !.state = "WAITING", !.waiting = old.waiting]
          [] OTHER -> new
\* The assertions on the waiting list.
WritebackAsserts(m, old) ==
    /\ m.suspend = "data"
    /\ m.rcv.waiting[1] = m.tid
    /\ m.rcv.waiting[2] = IF old.waiting # <<>> THEN Last(old.waiting) ELSE m.tid

AfterWriteback(c, m, suspend, mayReschedule) ==
    CASE ~m.swch -> [c EXCEPT !.mw = None, !.wb.offset = 0]
      [] m.kill -> [c EXCEPT !.mw = None, !.wb.offset = 0, !.thread[m.tid].state = "killed"]
      [] ~m.kill /\ suspend ->
             [c EXCEPT !.mw = None, !.wb.offset = 0,
                       !.thread[m.tid] = [state |-> "suspended", pc |-> m.pc]]
      [] ~m.kill /\ ~suspend /\ mayReschedule ->
             [c EXCEPT !.mw = None, !.wb.offset = 0,
                       !.thread[m.tid] = [state |-> "ready", pc |-> m.pc]]
      [] OTHER -> Stop(c)          \* the list was appended to in this cycle

\* The data to wait for came after the register was read.
ArrivedUnseen(v, old) == FALSE
Arrived(v, old) == v.state = "WAITING" /\ old.state = "FULL"
\* A load is going to write the register.
TargetBusy(v, old) == v.state # "WAITING" /\ old.state \in {"EMPTY", "PENDING"} /\ old.mem

WriteBack(c, m) ==
    LET o == c.wb.offset
        a == m.rc[1] + o
        old == c.reg[a]
        new == WritebackValue(c, m, o)
        arrived == Arrived(m.rcv, old)
        bad == (m.rcv.state = "WAITING" /\ ~WritebackAsserts(m, old)) \/ Refuses(old, new, FALSE)
        c1 == IF arrived THEN [c EXCEPT !.wb.offset = o + 1]
              ELSE [c EXCEPT !.upd[a] = new, !.wb.offset = o + 1, !.fault = @ \/ bad,
                             !.thread = [t \in Thread |-> IF t \in Woken(old, new)
                                             THEN [@[t] EXCEPT !.state = "ready"] ELSE @[t]]]
    IN  IF TargetBusy(m.rcv, old) THEN Stop([c EXCEPT !.wb.stall = TRUE])
        ELSE IF o + 1 < SizeOf(m.rcv) THEN Stop(c1)
        ELSE AfterWriteback(c1, m, m.suspend # "no" /\ ~arrived, Woken(old, new) = {})

Writeback(c, stalled) ==
    LET m == c.mw
    IN  CASE m = None -> c
          [] m # None /\ (c.wb.stall \/ stalled) -> Stop([c EXCEPT !.wb.stall = FALSE])
          [] m # None /\ ~c.wb.stall /\ ~stalled ->
                IF m.rcv.state # "INVALID" /\ m.rc # <<>> /\ c.wb.offset < SizeOf(m.rcv)
                THEN WriteBack(c, m)
                ELSE LET barred == m.suspend = "barrier" /\ c.writes[m.tid] # 0
                     IN  AfterWriteback(c, m, barred, TRUE)
-----------------------------------------------------------------------------
\* MemoryStage: a store goes to the cache, a load gets its data from it (hit)
\* or leaves a pending value.
Memory(c, stalled, hit) ==
    LET e == c.em
        out == [e EXCEPT !.rcv = CASE e.op = "store" -> Nothing
                                   [] e.op = "load" /\ hit -> FullValue(e.rc[2], e.id)
                                   [] e.op = "load" /\ ~hit -> [PipeValue("PENDING", e.rc[2]) EXCEPT !.mem = TRUE]
                                   [] OTHER -> @]
        c1 == [c EXCEPT !.mw = out, !.em = None]
    IN  CASE ~c.go \/ e = None -> c
          [] c.go /\ e # None /\ e.op \in {"load", "store"} /\ stalled -> Stop(c)
          [] c.go /\ e # None /\ e.op = "store" /\ ~stalled -> [c1 EXCEPT !.writes[e.tid] = @ + 1]
          [] c.go /\ e # None /\ e.op = "load" /\ ~stalled /\ ~hit ->
                 [c1 EXCEPT !.loads = @ \cup {[base |-> e.rc[1], size |-> e.rc[2], index |-> 0, val |-> e.id]}]
          [] OTHER -> c1
-----------------------------------------------------------------------------
\* Flush: the earlier stages lose the instructions of the thread.
Flushed(c, t) ==
    [c EXCEPT !.fd = IF @ # None /\ @.tid = t THEN None ELSE @,
              !.dr = IF @ # None /\ @.tid = t THEN None ELSE @,
              !.read.o1 = IF c.dr # None /\ c.dr.tid = t THEN NoOperand ELSE @,
              !.read.o2 = IF c.dr # None /\ c.dr.tid = t THEN NoOperand ELSE @,
              !.fetch.switched = @ \/ c.fetch.tid = t]

\* ExecuteStage.  e is what the stage puts out; arch is what the next
\* instruction should read.
Done(c, r, e) ==
    [c EXCEPT !.re = None, !.em = e, !.arch = [x \in Reg |-> IF x \in Regs(r.rc) THEN r.id ELSE @[x]]]
Issue(c, r, e) ==
    IF CanQueue(c.fpu)
    THEN [Done(c, r, [e EXCEPT !.rcv = PipeValue("PENDING", r.rc[2])])
             EXCEPT !.fpu = QueueOperation(@, r.op, r.rc[1], r.rc[2], r.id)]
    ELSE Stop(c)

\* A jump, whose target in this model is the next instruction, and a barrier
\* flush what has been fetched of the thread and switch; with writes under way
\* the barrier runs again when the thread goes on.
ExecuteInstruction(c, r, e) ==
    CASE r.op \in {"alu", "jump"} ->
            LET full == FullValue(IF r.rc = <<>> THEN 0 ELSE r.rc[2], r.id)
                done == Done(c, r, [e EXCEPT !.rcv = full])
            IN  IF r.op = "alu" THEN done
                ELSE Flushed([done EXCEPT !.em.swch = TRUE, !.em.kill = FALSE], r.tid)
      [] r.op = "load" -> Done(c, r, e)
      [] r.op = "store" -> Done(c, r, [e EXCEPT !.rcv = r.stored])
      [] r.op \in {"add", "div"} -> Issue(c, r, e)
      [] r.op = "barrier" ->
            LET again == c.writes[r.tid] # 0
                out == [e EXCEPT !.swch = TRUE, !.kill = FALSE, !.pc = IF again THEN r.pc ELSE @,
                                 !.suspend = IF again THEN "barrier" ELSE @]
            IN  Flushed(Done(c, r, out), r.tid)

\* An instruction with an operand that is not full goes on with the waiting
\* information, and switches.
Execute(c) ==
    LET r == c.re
        next == [tid |-> r.tid, id |-> r.id, op |-> r.op, pc |-> r.pc + 1, swch |-> r.swch, kill |-> r.kill,
                 suspend |-> "no", rc |-> r.rc, rcv |-> Nothing]
        missing == [next EXCEPT !.op = "none", !.pc = r.pc, !.swch = TRUE, !.kill = FALSE,
                                !.suspend = "data", !.rcv = r.rav]
    IN  CASE ~c.go \/ r = None -> c
          [] c.go /\ r # None /\ r.rav.state # "FULL" -> Flushed([c EXCEPT !.re = None, !.em = missing], r.tid)
          [] c.go /\ r # None /\ r.rav.state = "FULL" -> ExecuteInstruction(c, r, next)
-----------------------------------------------------------------------------
\* ReadStage.  The value of register r after the results in the later latches:
\* the register file is replayed with the latches, the oldest first.
Bypass(m, r) ==
    IF m = None \/ r \notin Regs(m.rc) THEN <<>>
    ELSE IF m.rcv.state # "INVALID" /\ r - m.rc[1] >= SizeOf(m.rcv) THEN <<>>
    ELSE <<[state |-> m.rcv.state, waiting |-> m.rcv.waiting, mem |-> m.rcv.mem,
            val |-> IF m.rcv.state = "FULL" THEN m.rcv.val[r - m.rc[1] + 1] ELSE 0]>>

Replayed(v, x) ==
    IF \/ x.state = "WAITING" /\ v.state = "FULL"
       \/ x.state = "PENDING" /\ v.state = "WAITING"
    THEN v ELSE x

RegToPipe(g, local) ==
    [state |-> IF g.state = "EMPTY" /\ local THEN "FULL" ELSE g.state, val |-> g.val, mem |-> g.mem,
     waiting |-> IF g.waiting = <<>> THEN <<>> ELSE <<Head(g.waiting), Last(g.waiting)>>]

ReadBypassesFromFront(c, r, local) ==
    FoldLeft(Replayed, RegToPipe(c.reg[r], local),
             Bypass(c.em, r) \o Bypass(c.mw, r) \o Bypass(c.wbBypass, r))
ReadBypasses(c, r, local) ==
    FoldLeft(Replayed, RegToPipe(c.reg[r], local),
             Bypass(c.wbBypass, r) \o Bypass(c.mw, r) \o Bypass(c.em, r))

\* A new operand is read from its highest register down, one per cycle; a
\* register that is not full ends the reading.
NewOperand(o) ==
    IF o = <<>> THEN [new |-> FALSE, addr |-> <<>>, offset |-> -1, value |-> PipeValue("FULL", 0)]
    ELSE [new |-> FALSE, addr |-> o, offset |-> o[2] - 1, value |-> PipeValue("FULL", o[2])]
Sourced(c, t, p) ==
    IF p.offset < 0 THEN p.value.state
    ELSE ReadBypasses(c, p.addr[1] + p.offset, p.addr[1] + p.offset \in Local[t]).state
ReadRegister(c, t, p) ==
    LET r == p.addr[1] + p.offset
        x == ReadBypasses(c, r, r \in Local[t])
    IN  IF p.offset < 0 THEN p
        ELSE IF x.state = "FULL"
        THEN [p EXCEPT !.value.val[p.offset + 1] = x.val, !.offset = @ - 1]
        ELSE [p EXCEPT !.addr = <<r, 1>>, !.offset = -1,
                       !.value = [PipeValue(x.state, 1) EXCEPT !.waiting = x.waiting, !.mem = x.mem]]

\* An operand to suspend on.
Waits(p) == p.value.state # "FULL"
Suspended(i, p, last) ==
    [i EXCEPT !.rc = p.addr,
              !.rav = [p.value EXCEPT !.state = "WAITING", !.waiting = <<i.tid, last>>]]
SuspendFirst(i, p) == Suspended(i, p, i.tid)
Suspend(i, p) == Suspended(i, p, IF p.value.state = "WAITING" THEN p.value.waiting[2] ELSE i.tid)

\* What the read stage does with the operands once they are read: notPending
\* holds if the first one is the target of a load, which only has to be free.
ReadOut(c, i, p1, p2, notPending, sparcMemory) ==
    LET q1 == IF notPending /\ p1.value.state = "EMPTY" THEN [p1 EXCEPT !.value = PipeValue("FULL", 1)] ELSE p1
        c1 == [c EXCEPT !.read.o1 = NoOperand, !.read.o2 = NoOperand,
                        !.fault = @ \/ (notPending /\ p1.value.state = "WAITING")]
        out(x) == [c1 EXCEPT !.re = x, !.dr = None]
        full == [i EXCEPT !.rav = q1.value, !.rbv = p2.value, !.stored = q1.value]
    IN  CASE Waits(q1) -> out(Suspend(i, q1))
          [] ~Waits(q1) /\ Waits(p2) -> out(Suspend(i, p2))
          [] ~Waits(q1) /\ ~Waits(p2) /\ sparcMemory ->
                 IF c.read.rsv = None THEN Stop([c1 EXCEPT !.read.rsv = q1.value])
                 ELSE [out([full EXCEPT !.stored = c.read.rsv]) EXCEPT !.read.rsv = None]
          [] OTHER -> out(full)

\* The operands to read: n.rs is the value to store or the target of a load,
\* which is read as well.  On the Alpha it takes the place of the first operand;
\* on the Sparc it is read first, and the address after that.
IsMemory(n) == n.op \in {"load", "store"}
AlphaOperands(n) == <<IF IsMemory(n) THEN n.rs ELSE n.ra, n.rb>>
SparcOperands(n, first) == IF first THEN <<n.rs, <<>>>> ELSE <<n.ra, n.rb>>

Read(c) ==
    LET d == c.dr
        n == c.prog[d.tid][d.pc]
        i == [tid |-> d.tid, pc |-> d.pc, id |-> Number(d.tid, d.pc), swch |-> d.swch, kill |-> d.kill, op |-> n.op,
              rc |-> n.rc, rav |-> Nothing, rbv |-> Nothing, stored |-> Nothing]
        sparcMemory == c.isa = "mtsparc" /\ IsMemory(n)
        first == sparcMemory /\ c.read.rsv = None
        ops == IF c.isa = "mtsparc" THEN SparcOperands(n, first) ELSE AlphaOperands(n)
        p1 == IF c.read.o1.new THEN NewOperand(ops[1]) ELSE c.read.o1
        p2 == IF c.read.o2.new THEN NewOperand(ops[2]) ELSE c.read.o2
        q1 == ReadRegister(c, d.tid, p1)
        q2 == ReadRegister(c, d.tid, p2)
    IN  CASE ~c.go \/ d = None -> c
          [] c.go /\ d # None /\ "INVALID" \in {Sourced(c, d.tid, p1), Sourced(c, d.tid, p2)} -> Stop(c)
          [] c.go /\ d # None /\ "INVALID" \notin {Sourced(c, d.tid, p1), Sourced(c, d.tid, p2)} ->
                 IF q1.offset >= 0 \/ q2.offset >= 0
                 THEN Stop([c EXCEPT !.read.o1 = q1, !.read.o2 = q2])
                 ELSE ReadOut(c, i, q1, q2, n.op = "load" /\ (first \/ ~sparcMemory), sparcMemory)
-----------------------------------------------------------------------------
\* DecodeStage and FetchStage.  Thread t is switched in when the last one was
\* switched out (None: there is none); its next instruction is n.
Decode(c) == IF ~c.go \/ c.fd = None THEN c ELSE [c EXCEPT !.dr = c.fd, !.fd = None]

Active(c) == {t \in Thread : c.thread[t].state = "active"}
Fetch(c, t, n) ==
    LET tid == IF c.fetch.switched THEN t ELSE c.fetch.tid
        pc == IF c.fetch.switched THEN c.thread[t].pc ELSE c.fetch.pc
        i == IF pc <= Len(c.prog[tid]) THEN c.prog[tid][pc] ELSE n
        kill == pc = Length[tid]
        swch == kill \/ i.tag = "line" \/ (i.tag = "switch" /\ Active(c) \ {tid} # {})
    IN  IF ~c.go \/ (c.fetch.switched /\ t = None) THEN c
        ELSE [c EXCEPT !.fd = [tid |-> tid, pc |-> pc, swch |-> swch, kill |-> kill],
                       !.prog[tid] = IF pc <= Len(@) THEN @ ELSE Append(@, n),
                       !.fetch = [switched |-> swch, tid |-> tid, pc |-> pc + 1],
                       !.thread[tid].state = "running"]
=============================================================================
