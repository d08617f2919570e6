---------------------------- MODULE Kernel ----------------------------
(*****************************************************************************)
(* The cycle-driven simulation kernel (src/sim): storages, arbitrated ports, *)
(* and the clocks and processes that use them.                               *)
(*****************************************************************************)
EXTENDS Integers, Sequences, SequencesExt, FiniteSets, FiniteSetsExt, Functions
-----------------------------------------------------------------------------
(***************************************************************************)
(* The storage elements of the simulator that carry items (src/sim): FIFO   *)
(* buffers and linked lists.  What a process does to one becomes visible    *)
(* when the storage is updated, at the end of a cycle of its clock; an      *)
(* update tells which notifications the sensitive process gets, in order    *)
(* (TRUE: Notify, FALSE: Unnotify).  A storage that can refuse an operation *)
(* has a guard for it; s is the state of a storage.                         *)
(***************************************************************************)

NewBuffer(size, pushes) ==
    [kind |-> "buffer", size |-> size, max |-> pushes, data |-> <<>>, new |-> <<>>, popped |-> FALSE]
NewList == [kind |-> "list", data |-> <<>>, new |-> <<>>, popped |-> FALSE]

Empty(s) == s.data = <<>>

\* Push of a buffer, Append of a list: a buffer may refuse.  One of a single
\* push per cycle refuses the second, which comes from another clock domain.
CanPut(s) ==
    s.kind = "buffer" => /\ Len(s.new) < s.max
                         /\ Len(s.data) + Len(s.new) + 1 <= s.size
Put(s, item) == [s EXCEPT !.new = Append(@, item)]
Take(s) == [s EXCEPT !.popped = TRUE]
-----------------------------------------------------------------------------
Told(filled, emptied) == (IF filled THEN <<TRUE>> ELSE <<>>) \o (IF emptied THEN <<FALSE>> ELSE <<>>)

\* Mutant: a push tells the process of a buffer that it has been told of
BufferUpdateAgain(s) ==
    LET all == s.data \o s.new
        left == IF s.popped THEN Tail(all) ELSE all
    IN  [next |-> [s EXCEPT !.data = left, !.new = <<>>, !.popped = FALSE],
         tells |-> Told(s.new # <<>>, s.popped /\ left = <<>>)]
\* A buffer pushes before it pops.
BufferUpdate(s) ==
    LET all == s.data \o s.new
        left == IF s.popped THEN Tail(all) ELSE all
    IN  [next |-> [s EXCEPT !.data = left, !.new = <<>>, !.popped = FALSE],
         tells |-> Told(Empty(s) /\ s.new # <<>>, s.popped /\ left = <<>>)]
\* A list pops before it pushes: its process may be taken off and put back.
ListUpdate(s) ==
    LET left == IF s.popped THEN Tail(s.data) ELSE s.data
    IN  [next |-> [s EXCEPT !.data = left \o s.new, !.new = <<>>, !.popped = FALSE],
         tells |-> Told(FALSE, s.popped /\ left = <<>>) \o Told(left = <<>> /\ s.new # <<>>, FALSE)]
Updated(s) == IF s.kind = "buffer" THEN BufferUpdate(s) ELSE ListUpdate(s)
-----------------------------------------------------------------------------
(***************************************************************************)
(* Arbitrated ports (src/sim/ports.h): who asks for a port in the acquire   *)
(* phase is a candidate, and one of them holds it for the rest of the       *)
(* cycle.  p is the state of a port.  Its candidates are the processes      *)
(* registered with it, in order: `list' has those of a priority or a cyclic *)
(* port, and of the priority processes of a port that has both; `cyclic'    *)
(* the others of the latter.                                                *)
(***************************************************************************)
NewPort(policy, list, cyclic) ==
    [policy |-> policy, list |-> list, cyclic |-> cyclic, requests |-> <<>>,
     selected |-> <<>>, last |-> 0, lastrequest |-> -1]

CanAccess(p, x) == Contains(p.list, x) \/ Contains(p.cyclic, x)
\* AddRequest.  A process of a faster clock than the arbitrator's may ask again
\* before it is answered, and is then asserted not to ask twice in one cycle.
AddRequest(p, x, cycle) ==
    IF Contains(p.requests, x) THEN p
    ELSE [p EXCEPT !.requests = Append(@, x), !.lastrequest = cycle]
AsksTwice(p, x, cycle) == Contains(p.requests, x) /\ cycle = p.lastrequest
HasAcquired(p, x) == p.selected = <<x>>
-----------------------------------------------------------------------------
\* Arbitrate.  Positions are counted from 0; a process that is not in the list
\* has the position after the last.
Position(list, x) == IF Contains(list, x) THEN SelectInSeq(list, LAMBDA y : y = x) - 1 ELSE Len(list)
Distance(p, list, x) == (Position(list, x) + Len(list) - p.last) % Len(list)

\* The earliest in the list.
ByPriority(p, S) == CHOOSE x \in S : \A y \in S : Position(p.list, x) <= Position(p.list, y)
\* The nearest after the one selected last, which comes last itself.
ByTurn(p, list, S) ==
    CHOOSE x \in S : Cardinality(S) = 1 \/ /\ Distance(p, list, x) # 0
                                           /\ \A y \in S : Distance(p, list, y) # 0 =>
                                                 Distance(p, list, x) <= Distance(p, list, y)
Granted(p, x, list) == [p EXCEPT !.selected = <<x>>, !.last = Position(list, x), !.requests = <<>>]

Arbitrated(p) ==
    LET asking == ToSet(p.requests)
        first == asking \cap ToSet(p.list)
    IN  CASE asking = {} -> [p EXCEPT !.selected = <<>>]
          [] asking # {} /\ p.policy = "priority" ->
                [p EXCEPT !.selected = <<ByPriority(p, asking)>>, !.requests = <<>>]
          [] asking # {} /\ p.policy = "cyclic" -> Granted(p, ByTurn(p, p.list, asking), p.list)
          [] asking # {} /\ p.policy = "both" /\ first # {} ->
                [p EXCEPT !.selected = <<ByPriority(p, first)>>, !.requests = <<>>]
          [] asking # {} /\ p.policy = "both" /\ first = {} ->
                Granted(p, ByTurn(p, p.cyclic, asking), p.cyclic)
-----------------------------------------------------------------------------
(***************************************************************************)
(* The cycle-driven simulation kernel (src/sim/kernel.cpp, clock.hpp,       *)
(* process.hpp): clocks of several frequencies, processes that run while a  *)
(* storage they are sensitive on holds something, and the phases of a       *)
(* cycle.  k is the kernel's state:                                         *)
(*   clk[c]   period, activated, due (m_cycle), and the processes, storages *)
(*            and arbitrators that are active, the one added last in front; *)
(*   active   the activated clocks, those due earliest first;               *)
(*   proc[p]  activations and state;                                        *)
(*   store, port, now (the master cycle)                                    *)
(* A handler is a sequence of operations on ports and storages, which the   *)
(* kernel calls in the acquire, the check and the commit phase.             *)
(***************************************************************************)
CONSTANTS
    Clock, Process, Storage, Port,
    StorageClock,       \* [Storage -> Clock]
    Sensitive,          \* [Storage -> Process]
    PortClock           \* [Port -> Clock]

\* The operations of a handler.
Invoke(port) == [op |-> "invoke", on |-> port]
Push(s, item) == [op |-> "push", on |-> s, item |-> item]
Pop(s) == [op |-> "pop", on |-> s]
-----------------------------------------------------------------------------
\* CreateClock: the periods, in cycles of the least common multiple of the
\* frequencies.
LCM(S) == CHOOSE m \in 1..FoldSet(LAMBDA x, y : x * y, 1, S) :
              /\ \A f \in S : m % f = 0
              /\ \A n \in 1..(m - 1) : \E f \in S : n % f # 0
Periods(frequency) ==
    LET master == LCM(Range(frequency)) IN [c \in DOMAIN frequency |-> master \div frequency[c]]

NewKernel(period, stores, ports) ==
    [clk |-> [c \in Clock |-> [period |-> period[c], activated |-> FALSE, due |-> 0,
                               procs |-> <<>>, storages |-> <<>>, arbitrators |-> <<>>]],
     active |-> <<>>, now |-> 0, store |-> stores, port |-> ports,
     proc |-> [p \in Process |-> [activations |-> 0, state |-> "IDLE"]]]
-----------------------------------------------------------------------------
\* ActivateClock: at its next edge, before the clocks due at the same time.
NextEdge(k, c) == (k.now \div k.clk[c].period + 1) * k.clk[c].period
ActivateClock(k, c) ==
    IF k.clk[c].activated THEN k
    ELSE [k EXCEPT !.clk[c].activated = TRUE, !.clk[c].due = NextEdge(k, c),
                   !.active = SelectSeq(@, LAMBDA d : k.clk[d].due < NextEdge(k, c)) \o <<c>>
                              \o SelectSeq(@, LAMBDA d : k.clk[d].due >= NextEdge(k, c))]

RegisterUpdate(k, s) ==
    LET c == StorageClock[s]
    IN  IF Contains(k.clk[c].storages, s) THEN k
        ELSE ActivateClock([k EXCEPT !.clk[c].storages = <<s>> \o @], c)
RequestArbitration(k, r) ==
    LET c == PortClock[r]
    IN  IF Contains(k.clk[c].arbitrators, r) THEN k
        ELSE ActivateClock([k EXCEPT !.clk[c].arbitrators = <<r>> \o @], c)

\* ActivateProcess and Deactivate: a process is in the list of the clock of the
\* storage that activated it as long as one storage holds something for it.
ActivateProcess(k, c, p) ==
    LET counted == [k EXCEPT !.proc[p].activations = @ + 1]
    IN  IF k.proc[p].activations # 0 THEN counted
        ELSE ActivateClock([counted EXCEPT !.clk[c].procs = <<p>> \o @, !.proc[p].state = "ACTIVE"], c)
Deactivate(k, c, p) ==
    LET counted == [k EXCEPT !.proc[p].activations = @ - 1]
    IN  IF k.proc[p].activations # 1 THEN counted
        ELSE [counted EXCEPT !.clk[c].procs = SelectSeq(@, LAMBDA q : q # p), !.proc[p].state = "IDLE"]
\* Notify and Unnotify of the process that is sensitive on storage s.
Notified(k, s, on) ==
    IF on THEN ActivateProcess(k, StorageClock[s], Sensitive[s])
    ELSE Deactivate(k, StorageClock[s], Sensitive[s])
-----------------------------------------------------------------------------
DueClocks(k) == SelectSeq(k.active, LAMBDA c : k.clk[c].due = k.now)
OfDueClocks(k, list(_)) == FlattenSeq([i \in DOMAIN DueClocks(k) |-> list(k.clk[DueClocks(k)[i]])])
DueProcesses(k) == OfDueClocks(k, LAMBDA c : c.procs)
DueStorages(k) == OfDueClocks(k, LAMBDA c : c.storages)
DueArbitrators(k) == OfDueClocks(k, LAMBDA c : c.arbitrators)

\* Whether an operation of process p succeeds: a port grants everything in the
\* acquire phase and tells afterwards whom it selected.
Succeeds(k, p, o, acquiring) ==
    CASE o.op = "invoke" -> acquiring \/ HasAcquired(k.port[o.on], p)
      [] o.op = "push"   -> CanPut(k.store[o.on])
      [] o.op = "pop"    -> TRUE
AllSucceed(k, p, ops, acquiring) == \A i \in DOMAIN ops : Succeeds(k, p, ops[i], acquiring)

\* Acquire phase: a handler that fails has asked for the ports before that.
Attempted(k, p, ops) == {i \in DOMAIN ops : \A j \in 1..i : Succeeds(k, p, ops[j], TRUE)}
Asked(k, p, o) ==
    IF o.op = "invoke" THEN RequestArbitration([k EXCEPT !.port[o.on] = AddRequest(@, p, k.now)], o.on) ELSE k
AcquireProcess(k, p, ops) ==
    LET asked == FoldLeft(LAMBDA j, o : Asked(j, p, o), k, SubSeq(ops, 1, Cardinality(Attempted(k, p, ops))))
    IN  [asked EXCEPT !.proc[p].state = IF AllSucceed(k, p, ops, TRUE) THEN "RUNNING" ELSE "DEADLOCK"]

\* Arbitrate phase.
ArbitrateAll(k) ==
    LET due == DueClocks(k) asked == DueArbitrators(k)
    IN  [k EXCEPT !.port = [r \in Port |-> IF Contains(asked, r) THEN Arbitrated(@[r]) ELSE @[r]],
                  !.clk = [c \in Clock |-> IF Contains(due, c) THEN [@[c] EXCEPT !.arbitrators = <<>>] ELSE @[c]]]

\* Check and commit phase of a process that is not deadlocked.
Done(k, o) ==
    CASE o.op = "invoke" -> k
      [] o.op = "push"   -> RegisterUpdate([k EXCEPT !.store[o.on] = Put(@, o.item)], o.on)
      [] o.op = "pop"    -> RegisterUpdate([k EXCEPT !.store[o.on] = Take(@)], o.on)
Commits(k, p, ops) == k.proc[p].state # "DEADLOCK" /\ AllSucceed(k, p, ops, FALSE)
CommitProcess(k, p, ops) == [FoldLeft(Done, k, ops) EXCEPT !.proc[p].state = "RUNNING"]
StallProcess(k, p) == [k EXCEPT !.proc[p].state = "DEADLOCK"]

\* UpdateStorages, for one of the storages; Deactivate of it.
UpdateStorage(k, s) ==
    LET u == Updated(k.store[s]) c == StorageClock[s]
        told == FoldLeft(LAMBDA j, on : Notified(j, s, on), [k EXCEPT !.store[s] = u.next], u.tells)
    IN  [told EXCEPT !.clk[c].storages = SelectSeq(@, LAMBDA x : x # s)]

\* The end of a cycle: the clocks that ran leave the queue, those that still
\* have active components are put in it again, and time advances.
Rescheduled(k, c) ==
    LET out == [k EXCEPT !.active = SelectSeq(@, LAMBDA d : d # c), !.clk[c].activated = FALSE]
    IN  IF k.clk[c].procs # <<>> \/ k.clk[c].storages # <<>> THEN ActivateClock(out, c) ELSE out
ToFirstClock(k) == IF k.active = <<>> THEN k ELSE [k EXCEPT !.now = k.clk[Head(k.active)].due]
Advanced(k) == ToFirstClock(FoldLeft(Rescheduled, k, DueClocks(k)))
\* Mutant: no work in this cycle, no work at all
NoFutureClock(k) == FALSE
HasFutureClock(k) == \E i \in DOMAIN k.active : k.clk[k.active[i]].due > k.now
=============================================================================
