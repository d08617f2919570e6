# TLA+ verification of MGSim

MGSim simulates the Microgrid, a many-core chip of multithreaded D-RISC cores,
cycle by cycle. This directory models the parts of it in which state is shared
between concurrently running processes, checks the models with TLC and proves
theorems about them with TLAPS. Paths below are relative to the repository
(`src/` in PROJECT.json).

- [1 The system](#1-the-system)
- [2 Inventory](#2-inventory)
- [3 The models](#3-the-models)
- [4 What the runs check](#4-what-the-runs-check)
- [5 What is proved](#5-what-is-proved)
- [6 Where the code deviates from what it says](#6-where-the-code-deviates-from-what-it-says)
- [7 What is not modelled](#7-what-is-not-modelled)
- [8 Plan](#8-plan)

## 1 The system

A simulation is a set of *processes* that run when a buffer, register or list
they are sensitive to is not empty (`sim/kernel.cpp`, `Kernel::Step`). In each
cycle a process runs an acquire pass (to request arbitrated ports), a check pass
and a commit pass. It returns `FAILED` in the check pass when any resource it
needs is not available, and then none of its changes happen. Buffers and
registers (`sim/buffer.hpp`, `sim/register.hpp`) apply their updates at the end
of the cycle; plain members of a component change at once.

All models but the one of the kernel use the consequence: **a process is an atomic action whose guard is
the absence of a `FAILED` return**. Processes of one cycle run one after the
other in an order that the models leave open, and a buffer's fill level at the
start of the cycle is a level the interleaving also passes through, so every
behaviour of the code is one of the model. Where a process tests the size of a
buffer that it also fills, the model tests the old size (`Fits` in `Place`).

The chip consists of cores (`arch/drisc`), a memory system (`arch/mem`), FPUs
shared between cores, and an I/O network with devices (`arch/dev`).

Of a memory the system is configured with one: a simple controller, banks, DDR
channels or one of the two CDMA networks. A load goes from the pipeline to the
data cache (through the TLB), from there to the memory, and its answer comes back
as a write of the register file that wakes the threads waiting there. The
allocator gives threads to the pipeline through the instruction cache and is told
of their ends by it; cores send each other messages about families.

## 2 Inventory

State, operations, partners, what is hard, and what makes it correct.

**CDMA memory network** (`arch/mem/cdma`). L2 caches on one ring, or on low
rings that directories connect to a top ring; root directories connect the top
ring to memory. State: line state, tokens, data, dirty flag and update count per
cache line; messages in bounded buffers; token counts per directory; the root
directory's entries and queues. Operations: client reads and writes, and one
handler per node kind and message type. Hard: requests, evictions and updates
of one line pass each other anywhere on the ring, answers merge with writes that
came meanwhile, all buffers are finite and everybody waits for the next one.
Correct when tokens are conserved, an exclusive writer is alone, every load and
every update ends, and no write is lost.

**Zero-latency CDMA** (`arch/mem/zlcdma`). The older coherence protocol, with
priority tokens and transient requests on the same topology. Same concerns.

**Memory controllers** (`arch/mem/*Memory.cpp`, `DDR.cpp`, `VirtualMemory.cpp`,
`BankSelector.cpp`). Queues of requests per client, bank or channel, a backing
store, callbacks to the clients. Hard: answers of different banks overtake each
other, snooped writes, acknowledgements that find their client busy, the row and
pipeline timing of DDR. Correct when they implement an atomic memory per client.

**Allocator, family table, thread table, register allocation unit**
(`arch/drisc/Allocator.cpp`, `FamilyTable.cpp`, `ThreadTable.cpp`, `RAUnit.cpp`).
State: family and thread entries, free lists, pools of normal, reserved and
exclusive contexts, the register block list, queues of requests, creates, thread
allocations and cleanups. Operations: allocate, create (nine stages), activate,
allocate a thread, recycle or clean it up, and the resolution of family and
thread dependencies that in the end frees an entry. Hard: five processes resolve
the dependencies of a family in any order; contexts are counted when reserved and
placed later; entries are recycled while messages that name them travel.

**Delegation network** (`Network.cpp`). Registers to the neighbouring cores (link
and allocation responses) and to any core (delegation). Operations: one handler
per message type. Hard: a family over several cores is a chain of entries that is
allocated forward, committed or unwound backward, created forward and
synchronized forward, while its parent sends properties, globals, syncs, breaks
and detaches.

**Pipeline, register file, I-cache, D-cache, thread scheduling, FPU**
(`Pipeline.cpp`, `*Stage.cpp`, `RegisterFile.cpp`, `ICache.cpp`, `DCache*.cpp`,
`FPU.cpp`). Registers are full, empty, pending or waited for by a list of
threads; cache lines hold references and lists of waiting threads or registers;
threads go from ready to active to running to waiting. Hard: an answer that
arrives between the test of a register and the suspension on it, a line that is
invalidated while it loads, completions for other clients' requests. Correct when
every suspended thread is woken exactly once, and a line is not reused while
someone refers to it.

**Core I/O** (`IOInterface.cpp` and the multiplexers, `IODirectCacheAccess.cpp`)
and **devices** (`arch/dev`, `IOMessageInterface.cpp`, `UnbufferedCrossbar.cpp`,
`arch/ic`). Memory-mapped requests to devices, responses and notifications back
to registers, DMA through the core's cache port. Hard: a notification that comes
before, with or after the read that waits for it; a device that answers while it
is written.

**MMU** (`arch/drisc/mmu`, with the page-table manager of `manager/`). TLB lookups,
lines that wait for a fill, invalidation against a pending fill. Hard: an answer
that names an entry which has been given to another page meanwhile. Correct when
the TLB agrees with the page tables and every load that waits has one answer coming.

**Kernel** (`sim/`). Process scheduling, arbitrated ports, storages, clocks with
periods, breakpoints and monitoring. Hard: a storage that is pushed and popped in
one cycle by processes of different clocks must leave its reader awake. Correct
when no process sleeps while its storage holds something.

**Start-up, configuration, inspection, command line, instruction sets**
(`arch/MGSystem.cpp`, `sim/config*`, `sim/inspect*`, `cli/`, `ISA.*`). Sequential
code without shared state.

## 3 The models

### The CDMA network

| Module | Code | State |
|---|---|---|
| `CDMANode` | `Node.{h,cpp}` | `net`: every buffer of messages |
| `CDMACache` | `Cache.{p.h,cpp}` | `lines`, `bus`, `unacked` |
| `CDMADirectory` | `Directory.{h,cpp}` | `ringTokens` |
| `CDMARoot` | `RootDirectory.{h,cpp}` | `dir`, `mem` |
| `CDMA` | `CDMA.{h,cpp}` | the composition; `latest` is a history of the writes |

One action per process, and inside it one disjunct per message type. A cache's
handlers are `DoRequests` (`MissEvict`, `MissLoad`, `ReadHit`,
`WriteHitExclusive`, `WriteHitShared`) and `DoReceive` (`ReceiveIgnored`,
`ReceiveRequest`, `ReceiveResponse`, `ReceiveEviction`, `ReceiveOwnUpdate`,
`ReceiveUpdate`). A root directory has `DoIncoming`, `DoMemory`,
`OnReadCompleted` and `DoResponses`. `NextNode` is the topology, so the same
modules are OneLevelCDMA and TwoLevelCDMA. The minimum space of `SendMessage`
(two slots to insert, one to forward) is kept, since it is what keeps a ring from
filling up.

Abstractions: a cache line is a function from a few bytes to a few values; the
victim of a replacement is any replaceable line (the code takes the least
recently used one); the way a line sits in is not represented; the DDR channel is
a queue that completes reads in order; the broadcast of answers to the clients
of a cache is left out, since clients only listen.

### The zero-latency CDMA network

| Module | Code | State |
|---|---|---|
| `ZLNode` | `zlcdma/Node.{h,cpp}`, the layout of `CDMA.cpp` | `net` and the other variables |
| `ZLCache` | `zlcdma/Cache.{p.h,cpp}` | `lines`, `bus`, `unacked` |
| `ZLCDMA`, `ZLProofs` | `zlcdma/Directory.cpp`, `RootDirectory.cpp`, and the composition | `dirs`, `roots` |

A read circulates until it has the whole line, a write until it has all tokens;
one of the tokens has priority. An assertion of the code that fails sets
`aborted` and ends the behaviour, and the invariants are stated for behaviours
in which none has: the assertions do fail (section 6).

### Families

| Module | Code |
|---|---|
| `RAUnit` | identifiers and pools of the tables; `RAUnit.cpp`: block list and pools |
| `RegisterAllocation`, `RegistersProofs` | the calls the allocator makes to it, in any order |
| `Tables` | the family and the thread table |
| `Allocator` | dependencies, thread allocation and cleanup, contexts, registers, the number of threads of an index space and their distribution in machine words |
| `Network` | the handlers of the network's messages |
| `Place` | cores, parents and the processes that connect them |

`Allocator` and `Network` are operators from the state of one core (a record) to
its state after the call; `Place` has the variables, one action per process of
each core, and the parents. A parent is a thread on a core outside the place; its
program is a script of the requests that `ExecuteStage.cpp` sends, and the state
of a parent stands for the register that a completion writes. `Commit` is the
commit of a process: it refuses what would write a full register or overflow a
buffer. Registers of threads carry no values. The pipeline is the actions that touch
the tables: `Kill`, `Load`/`LoadDone`, `Store`/`StoreDone` and `Break`.

Words have `IntegerWidth` bits: 4 in the runs, so that start, limit and step
wrap at small numbers.

### Thread scheduling

| Module | Code | State |
|---|---|---|
| `ICache` | `ICache.{h,cpp}` | `line`, its two buffers, whether its service is used in this cycle, and the reads at the memory |
| `Scheduler` | `Allocator.cpp` (lists, activation, suspension), the ends of the pipeline, `RegisterFile::WriteRegister`, `sim/linkedlist.hpp` | `thread`, `list`, `pipe`, `reg`, `create` |
| `SchedulerProofs` | proofs about the two | |

`ICache` has one action per outcome of `Fetch` (a hit, a line on its way, a miss)
and one per callback of the memory; `Scheduler` gives them their callers,
`DoThreadActivation` and `DoFamilyCreate`. Lists of threads are kept as the code
keeps them, as heads and tails over the one `next` field of the thread table, so
that a thread in two lists, or lost from one, is a state the model can reach. A
cycle matters here: the cache serves one process per cycle and prefers
`DoIncoming`, then activation, then creation. `incoming` is what the buffer of
loaded lines held when the cycle began, `arrived` what was pushed since, and
`Tick` ends the cycle once the entitled process has been served.

Abstractions: an address is a cache line, and a line's data are one bit of
history, `fresh`; any unreferenced line may be replaced (the code takes the least
recently used one). The pipeline is a queue of threads: `SwitchIn` is the fetch
stage, `Retire` the four ends of the writeback stage. Threads wait for their
stores and for one register, which stands for every register as to who is linked
to it and who is woken.

### The core

`Pipeline` has the register file, the FPU and the six stages for both
instruction sets; `Core` has the one variable, a record of the latches, the
register file, the FPU, the loads at the data cache and the threads, and the
actions: one is a cycle of the pipeline, in which the stages run from back to
front on the state the later ones leave; the others are the steps of the FPU, the
writeback of loaded data, the acknowledgement of stores and the end of the cycle.
The data in a register is the number of the instruction that produced it, so that
`OperandsInOrder` can compare an operand with what program order says. Programs
are chosen one instruction at a time, when they are fetched.

### Memories

| Module | Code |
|---|---|
| `DCache` | `DCache.cpp`, `DCache_naive.cpp`: operators on the state of a cache |
| `MemoryControllers` | `BankSelector.cpp`, `SerialMemory.cpp`, `ParallelMemory.cpp`, `BankedMemory.cpp`, `DDRMemory.cpp`, `DDR.cpp` |
| `MemorySystem` | cores with caches on one of them, chosen in `Init` |
| `MemoryService` | the abstract memory |
| `MemoryProofs`, `CopiesProofs` | proofs about them |

`MemoryService` is what a client may rely on: a request takes effect once,
between its acceptance and its answer, after the client's earlier writes to the
line that took the same way. There is one way, except to the DDR memory: there it is the
interface, which the code selects differently for the reads and the writes of a
line (section 6). `ServesMemory` is the refinement, with the requests that the servers
hold as the abstract requests under way.

### Address translation

`MMU`: the tables and messages of the TLB (`mmu/TLB.cpp`, `mmu/Table.cpp`), the tree
of page tables that `src/manager` builds and walks, the cache of
`DCache`, the program, the network to the manager and the manager. Memory holds
in every line its own number, so the data of a load tell which line it got.

### I/O

`IOInterface` (response and notification multiplexers, direct cache access),
`IODevices` (RPC, active ROM, clock) and `IOSystem`, which has the interconnect,
the memory behind the direct cache access, and threads that run scripts of
reads, writes and waits.

### The kernel

`Kernel` has storages, arbitrated ports, clocks and processes with the acquire,
check and commit passes; `KernelSystem` puts on it the path of a load between
cores and a serial memory in different clock domains, cycle by cycle, with a user
who steps, interrupts and resumes. `LoadQueue` is what the path promises, and
`AnswersInOrder` says that it is implemented: the other models take it as the
meaning of a process.

## 4 What the runs check

Each property is explained in a comment where it is defined, and each has at
least one mutant: an operator (marked `Mutant` in the modules) with a plausible
bug, that makes TLC report the property.

| Run | Configuration | Distinct states | Question |
|---|---|---|---|
| `tokens` | 2 caches on a ring below a directory, 2 root directories above, 2 lines in one set, lines of 2 bytes | 242,000 | Do tokens, requests, updates, masks and directories stay exact, and do loads keep completing? |
| `lost_writeback` | 2 caches and a root on one ring, with values | violated | Is a modified line written back? |
| `zlcdma` | 2 caches, a directory, a root directory, 2 lines in one set | 405,000 | Is every request answered once, and the priority token owned once? |
| `place` | 4 cores, 2 parents, 115 workloads | 327,000 | Is the life of families sound? |
| `place_ends` | 2 cores, 2 parents | 13,000 | Do allocations, syncs and detaches end? |
| `registers` | 3 families, 4 blocks per type | 55,000 | Can a reserved family always be placed? |
| `scheduling` | 2 threads and the family creation on a cache of one line, 2 addresses, buffers of 2 as configured | 653,000 | Is every thread in exactly one list, and does it run? |
| `core` | 2 threads, programs of up to 4 instructions, both instruction sets | 73,000 | Does an instruction get the operands of program order? |
| `memory` | 2 cores with a cache of one line on each of 4 controllers, 2 lines, one split between two DDR interfaces | 399,000 | Is every controller a memory, and do the caches agree with it? |
| `mmu` | 1 core, a TLB of 2 small and 2 large entries, 3 levels of tables | 97,000 | Are translations right, whatever changes while they are asked? |
| `io` | 1 core, 3 devices, 5 workloads | 491,000 | Do requests, answers, events and transfers find each other? |
| `kernel` | 2 cores and a memory, 8 configurations of clocks and ports | 142,000 | Does the kernel run what can run? |

**Bounds of `tokens`.** Two caches suffice for every pairing of handlers
(requester, holder, evictor); two lines that share a direct-mapped set force
evictions at any time; buffers of 2 messages are the smallest in which
`SendMessage` can insert at all. The first cache writes one line, which its write
misses load, and the second cache reads both lines, so that each evicts the other. One byte of two is
written so that a loading line is written in part; values matter only in
`lost_writeback`. `MaxUnacked` bounds the writes in progress of a cache's clients.
The low ring has both caches, so that requests stay below the directory or not,
and each line has a root directory of its own, so that messages pass the other
one, also the long way through its memory queues. `InputQueueSize` is 2: with one
slot in `m_responses`, messages that take the long way can keep the answers of
memory out for ever under weak fairness.

**Bounds of `zlcdma`.** As `tokens`, with one root directory; each cache reads the
line the other one does not, both write the first. `MaxTokens` bounds the tokens
that deviation *duplicated tokens* makes.

**Bounds of the family runs.** Two family entries (one is the exclusive one),
three thread entries, four register blocks: the smallest tables in which normal,
reserved and exclusive pools can all run out. The workloads (`MC_Place`) are
chosen in `Init`: one family over two cores with no threads, three threads or a
negative step, synchronized or abandoned; a family that breaks; families with
shared registers and block sizes 1 and 2; a bundle beside an exclusive or an
ordinary family; and all pairs of NORMAL and EXACT allocations, waiting or not, of
four or two cores from different cores of the place, and balanced ones
(`place_ends` has the balanced one that ends on a core it has passed). `MaxReads` and
`MaxWrites` bound outstanding loads of a family and stores of a thread. `Stale`
is what an uninitialized flag may hold; the runs use FALSE, and section 6 says
what TRUE does. The workload with shared registers and block size 2 reaches deviation
*chain loop*: at the assertion of the code that fails there the behaviour ends (`Aborted`),
and `ThreadsInOrder` holds up to it. No other invariant needs that qualification. In
`registers`, `FewReserved` keeps the counter of deviation *reserved
pool* finite.

**Bounds of `scheduling`.** One line and two addresses make every fetch a
conflict; two threads give lists of two, the shortest in which a tail, a head and a
lost link differ, and a third user of the line is the creation. `MaxRequests`
reads are at the memory at a time, `MaxEvents` invalidations and reads by other
clients happen, `MaxWrites` stores of a thread are outstanding, `Programs` are the
lines families start with. The buffers have two entries, as in `config.ini`. One event is
enough for deviation *early answer* (section 6), which `early` records and up to which
`WaitersAnswered` is stated. A cache of two ways was checked in the same way with two
events, no stores and buffers of one entry (1.8 million states, all properties hold), and with
three events, where the deviation loses an answer, for five million states without exhausting
them; both are too large for the run.

**Bounds of `core`.** Thread 0 has two registers of its own and programs of four
instructions, chosen from lists that put every producer (ALU, FPU units with and
without a pipeline, load hit and miss) before every consumer; thread 1 waits on a
register that thread 0 writes. On the Sparc operands are pairs of registers.
`MaxStalls` bounds refusals of the ports and the cache. Three restrictions keep
the run out of known deviations (section 6): a result is read before it is
overwritten (`WritesLive`), as compilers do that emit no dead writes; loads are one register
wide; addresses of stores on the Sparc are literals.

**Bounds of `memory`, `mmu`, `io` and `kernel`.** The caches have one line for two
addresses (two ways in `mmu`), all queues one or two entries, DDR bursts two beats
and timings of one cycle, so that every queue overflows and every timer matters.
`MaxStores` bounds stores. In `mmu` a page of the large size has the lines of
three small ones; the run ends in states where one of the accesses came between
that the code does not handle (section 6). Its two tables have two entries each, so that two
misses in one large page can leave two entries for it.
In `memory` lines are two addresses long and there are two interfaces, selected by the
address: reads of line 1 go to one, its writes to the other, while line 2 goes to one
interface only. Every core stores to line 2 and core 0 to line 1. In `io` the
workloads are a pair of
RPCs with arguments that straddle lines, an RPC while the data cache reads, a boot
with a copy, threads that wait for interrupts while channels are disabled, and a
thread that reads a device while the device fetches six lines, where with two entries in
the queue of the bus interface (`RequestBuffer`) and one in that of the direct cache access
(`RequestQueue`) requests and answers come to wait for each other (section 6). In
`kernel` the cores' clock is never faster than the memory's: a faster one makes
an assertion of the kernel fail (section 6).

**Deadlock** is checked where the system never stops: in `tokens`, `place`,
`scheduling` and `core`. Elsewhere the environment may stop, a parent may wait for
contexts that another keeps (`place_ends`; `place` covers it, with the explicit
final step `Finished`), or the behaviour ends (`zlcdma`, `mmu`). That `place` has no
deadlock shows that suspending allocations on overlapping places cannot block each
other: contexts are always acquired in the order of the cores.

**Fairness.** The kernel runs every process whose trigger is not empty in every
cycle, so a process that stays able to run does run: weak fairness of every
process. Arbitration between processes for a port gives no more than that, with
two exceptions: in `mmu` the lookup responses have strong fairness, because the
arbitrator of the cache's service prefers them (`DRISC.cpp:194`), and in `io` the
cyclic arbitration of the interconnect lets each
sender go in turn. The port of the direct cache access has priorities
(`IODirectCacheAccess.p.h:83`): `DoBusOutgoing` takes it as long as there is an answer for a
device, also when it then finds no room for it, and `DoMemoryOutgoing` waits. That is a
guard of `DoMemoryOutgoing`, not a matter of fairness. The further assumptions are on the surroundings: memory answers
a read it accepted, threads end or leave the pipeline (`Kill`, `Retire`),
and parents continue
(`Operate`, `Deliver`). Clients of a cache are not assumed to do anything.

What the passing runs do *not* claim: that a certain load or update of an L2
cache completes (in a two-level network one may starve under weak fairness while
others go on; `LoadsProgress` says that some load does), that a client's request leaves the
bus of an L2 cache, that a family creation gets the instruction cache (activation
has priority), and that copies agree on data in the CDMA networks (section 6).


## 5 What is proved

### The CDMA network

All eight safety properties that the run `tokens` checks of the CDMA network are
proved for every number of caches, directories, root directories, lines, bytes and
values, and for every buffer size and topology that satisfies the assumptions:

| theorem | states | in |
|---|---|---|
| `TypeCorrect` | `TypeOK` | `CDMAProofs` |
| `TokensFollowCopies` | `CopiesHaveTokens` | `CDMAProofs` |
| `LoadedOnly` | `AllLoaded` | `CDMACounting` |
| `TokensConserved` | `TokenConservation` | `CDMACounting` |
| `OneRequestEach` | `OneRequestPerLoadingLine` | `CDMACounting` |
| `ExclusiveAlone` | `SoleOwner` | `CDMACounting` |
| `WritesAcked` | `WritesAckedOnce` | `CDMACounting` |
| `DirectoriesCount` | `DirectoryCountsRing` | `CDMACounting` |

**Assumptions.** `NodeAssumption` (the caches are finitely many and no cache is a
root, `NextNode` stays among the nodes), `CacheAssumption` and `RootAssumption`
(sizes of queues, the mapping of addresses to sets and roots), `DirectoryAssumption`
(the ring below a directory is closed: a node has its successor on that ring exactly
when it is on it itself; the halves of directories are nodes of their own) and
`CDMAAssumption`. They are what the two `Initialize` functions of
`cdma/CDMA.cpp` build; TLC evaluates them in `tokens` and `lost_writeback`.

None of the properties is inductive. The argument goes up in layers, each using
the ones before it.

**`IInv == TypeOK /\ CopiesHaveTokens /\ ReadsInDDR`.** The root directory sets the
number of tokens of an answer only when it sends it, from the answer to a read that
is in the DDR channel; so the invariant has to say that a read in the DDR channel
is never a message that only passes through. There is one lemma per handler. Each
reduces to two questions: is the line that the handler stores well formed
(`LineOK`), and is the message that it sends (`RingOK`, `MsgOK`)? The lemmas on
channels (`TailOK`, `AppendOK` and those built on them) turn the second question
into a fact about all channels. `IsFiniteSet(Caches)` is used through
`TotalTokens > 0`: the tokens a root directory introduces are at least one.

**`LoadedInv`** says of every valid byte of a line, of every masked byte of an
update or a queued write, and of memory, that it is a value.

**Counting without sums.** The other properties add up tokens or messages over all
channels. A recursive sum needs induction that the prover cannot do, so a count is the cardinality of a set of marks: a weight `W` gives every
letter - a message together with the channel it is in - a natural number, and
`Marks(net, W)` has one element for every unit of weight of every message at every
place. Taking the front message of a channel removes its weight (`WithoutFlow`),
appending adds it (`WithFlow`). The lemmas rest on bijections between the marks
before and after the step, since a `Tail` moves every message by one place. For each
weight (tokens, tokens on a low ring, pending reads, requests, updates) the proof of a
handler is then addition.

**`TokenInv`**, the books of tokens and requests, for every line:

    tokens in caches + tokens moving + tokens in the root's entry
        = TotalTokens if the entry is full, 0 otherwise
    reads pending at memory = 1 if the entry is loading, 0 otherwise
    requests of a cache in the network = 1 if its line is loading, 0 otherwise

It is stronger than `TokenConservation` in what it says of the letters
(`LettersSound`): a request that was not answered carries no tokens, a read at
memory is that of the sender the entry was made for and goes to the right
root, and a writeback at memory is never answered. Without them the answer of the
memory could add tokens to a line that has all of them. The proof also needs
`IgnoredBelow`: between nodes, a message flagged to be ignored is only on a low
ring. So none reaches a root directory, which would make an entry for it and then
let it pass by memory without an answer.
`SoleOwner` follows from the books and `IInv`: a line with all tokens leaves none
for another copy, and every copy has one.

**`UpdateInv`** counts the updates of a line in the network against its lock, and
the writes that are not acknowledged against the queue of requests and the updates.
It needs that an empty line has none: a line with updates under way is not replaced.

**`RingInv`** counts the tokens on the ring below a directory. A message enters the
ring at the directory or is sent by a cache on it; that nothing else brings tokens
in is the closedness in `DirectoryAssumption`, and that ignored messages do not
count is carried by the weight. The tokens of an answer are counted when it
passes the directory downwards, so the proof follows every message through the two
halves.

### The register allocator

Both properties of the run `registers` are proved in `RegistersProofs`, for any
number of families, blocks per type and registers per block:

| theorem | states |
|---|---|
| `PoolsStayExact` | `PoolsExact` |
| `ReservationsHonoured` | `ReservationHonoured` |

**Assumptions.** `TableSizes` (the tables are not empty) and `BodyFits`: the
registers of one thread fit a block, which the constructor of `RAUnit` and the check
of the counts in `DoFamilyCreate` ensure. The physical block size a program
asks for is any number.

**`IInv == Types /\ \A i \in RegType : UnitOK(i)`** has three parts for every type.
`ListOK`: an area of the free list ends before the next one starts. Without it an area
that is freed could uncover a part of another one. `Owned`: every area belongs to
exactly one family, which is created, so that freeing the blocks of a family changes the
areas of no other. `Pooled`: the normal pool is what is neither occupied, reserved nor
exclusive; it is never negative, and the exclusive context is free unless the
exclusive family holds a block of the type. `AreasOwned` alone is not inductive: it
does not say that the start of an area is the one its owner remembers.
`ReservationHonoured` follows from `Pooled`: a reserved family leaves at least one block
unoccupied, and one block is enough for a body with one thread, wherever it lies, so
fragmentation does not matter. That argument fails for two blocks, and the code
relies on it too.

The first-fit search takes the least free area; that it exists is the
well-foundedness of the natural numbers (`MinIn`), as no induction over the list is
available.

### The scheduling of threads

`SchedulerProofs` proves, for any number of threads, addresses and cache lines, any
associativity and any sizes of buffers:

| theorem | states |
|---|---|
| `TypesKept` | `TypeOK` |
| `ListsStaySound` | `ListsSound` |
| `LinesStayHeld` | `LinesHeld` |

**Assumptions.** `ICacheAssumption` (finitely many threads, sets and lines in a set;
the bank selector maps every address to a set; `None` is not a thread, an address or
a number) and `SchedulerAssumption` (programs start at addresses, bounds are natural
numbers). They restrict neither the bound on invalidations nor that on stores.

**Lists.** The walk of `Chain` stops at the tail or after as many steps as there are
threads, so it cannot be reasoned about step by step. `Strung(next, h, t, S)` says
instead that there is an injective sequence of the threads of `S` from `h` to `t`
along the links; the lemmas say when it survives a change of links (`StrungKept`), and
what joining two lists, adding one thread and taking out the first give. `ChainWalks`
shows that the walk visits that sequence; its induction is `Climb`, from the
well-foundedness of the natural numbers, as the induction theorems of the library
cannot be used. `Queueing` and `Popping` are what
`QueueThreads` and `LinkedList::Pop` do.

**`IInv == Types /\ Lists /\ Piped /\ RegOK /\ Held`.** `Lists` is `ListsSound` with
`Strung` in the place of the walk. It is inductive only with `RegOK`, that the
register waits exactly when a thread hangs from it: a suspension decides by the state
of the register whether the tail is new. `Held` is `LinesHeld` with what
it needs: `ThreadsOK`, that a thread uses a line only in three states, waits at
the line of its address, has an address when it is ready or suspended, and waits for
its stores only while it is suspended, so that a store of a thread that runs on never
wakes it; `LinesOK`, that an unreferenced line is empty or
full, so that a line that is replaced or cleared has nobody waiting at it; and
`CreateOK`, that a family creation waits at one line, which has its address. The
exact count is what protects a line: a reader of it makes the count positive, so it is
neither a victim of a miss nor cleared by an invalidation, and the last `ReleaseCacheLine`
is by the last user. One lemma per action shows that it keeps `IInv`; those about
fetches share `TakingDisturbsNobody`, those about releases `Releasing`.

`WaitersAnswered` is not a theorem. It says that until an early answer (section 6) every line
that somebody waits for has its data coming; its proof would need an account of which of the
answers that other clients cause are early, which is left to TLC. `EarlyTyped` is what the
type invariant needs of that history bit.

### The memory controllers

`MemoryProofs` proves that the memories of `MemoryControllers`, with the caches and
cores of `MemorySystem` on them, implement `MemoryService`, for any number of clients,
lines, bytes, banks and interfaces, any sizes of buffers, any stores and any timing of the
DDR channels:

| theorem | states |
|---|---|
| `MemoryServes` | `ServesMemory`: `Spec => Service!Spec` |
| `RequestsInOrder` | the inductive invariant `IInv` |

**Assumptions.** `SystemAssumption` alone (the selector of banks or interfaces gives the
index of one, the values stored are values, the timings natural numbers). Nothing is assumed
of how the interfaces of the DDR memory are selected: what it promises, and the others with
it, is order among the requests of a client for a line *that take the same way*, and the way of a
DDR request is its interface. For a line that is not split that is every request, for one
whose reads and writes go to different interfaces a load may overtake a store (section 6).

**`IInv`.** The requests are in three queues of a server: those it was sent (`m_requests`
or the queue of a port), those it has at work, and the answers. `Queues` says that each has a number that
its client has used (`Numbered`), that no two have the same (`Unique`), that the numbers of
a client grow along the first two queues of a server, so that a request at work is
before the ones that wait (`Ordered`), and that each is with the server of its line or
client (`Placed`). `ServesMemory` follows from these for a server that performs the first request it
has: the earlier writes of its client to the line that took the same way are with the same
server (`Placed`, and `SameWay`), hence ahead of it (`Ordered`), and nothing is ahead of it. The DDR
memory performs a write when the channel takes it, while reads are still at work: its
requests pass each other, and that is allowed since only reads are overtaken.
`Working` says so: nothing but reads is at work at an interface, as many as
the channel has in its pipeline or is reading; it also says that a request that is
timed is still there, and that a bank has one at work. `Unique` is needed because the service
takes requests out of a set, where two equal ones would be one.

**Steps.** The lemmas about queues say what putting, dropping and moving a request does
to the four parts (`PutUnique` ... `MoveAsked`) and to the set `Asked`; those about a server
turn them into `RequestTaken`, `RequestStarted`, `RequestEnds`, `RequestDone` and
`ResponseSent`, and the handlers use one or two of these each. `AcceptStep` maps to
`Ask`, `FinishStep` to `PerformAndAnswer`, `PerformStep` to `Perform` and `AnswerStep` to
`Answer`; the other actions stutter. Of the caches only the type of their
outgoing buffers matters (`CacheOK`).

### Copies and memory

`CopiesProofs` proves that the caches of the cores agree with memory on every line whose
reads and writes take one way (`OneWay`), for any number of
clients, lines, bytes, sets and ways, any sizes of the buffers of caches and memories and
any stores:

| theorem | states |
|---|---|
| `CopiesAgree` | `CopiesMatchMemory` |

**Assumptions.** Those of `MemoryServes`, and `CacheAssumption`: the cache has sets and
lines, addresses are numbers, and the marks for no line and for a byte that is not there
are no line and no byte. The property excludes the parallel memory and the lines of the DDR
memory that its interfaces split, where it is false (section 6): every line of the serial and
the banked memory is included, and with several interfaces those lines of the DDR memory
for which `DDRMemory::Read` and `DDRMemory::Write` select the same one.

**`Copies`** is added to the `IInv` of `MemoryProofs`, which says where requests are and
that a server that performs a request has nothing but reads ahead of it. It has two
parts.

`Fine`, of each cache: a line of memory is in one line of the cache at most, in its set
(`Located`); a line that is full or whose answer has come is complete, and is at most once
in the queue of `DoReadResponses` (`Answered`); a write that waits in `m_outgoing` to a line
that is loading is ahead of the read of that line (`Queued`).

`Coherent`, of each cache and line of memory, with the requests `q` that the server of the
line has not performed and its answers `p`:

- `CopyIsNewest`: a byte that is present is what the last write to it in `q` says, or
  what memory holds if there is none, unless the core itself has yet to send a newer one.
- `AskedInTime`: a byte that is missing when the read of the line is still in `q` is
  written by nothing behind that read. This is what snooping is for: a write that is
  accepted after the read fills the byte in (`OnMemorySnooped`), so the answer, which
  is older, does not overwrite it (`OnMemoryReadCompleted` fills missing bytes only).
- `AnsweredInTime`: a byte that is missing when the answer is in `p` is written by nothing
  in `q`, and the answer has what memory holds.
- `OneRead`: a cache has at most one read of a line under way.

The parts about data are stated for lines with one way, `OneRead` for all: a server may
hold, beside what is at home there, writes of lines that are split (`SplitWrite`,
`SplitMemory` say that they disturb nobody).

None of these is inductive alone. The proof first says what each operation of a cache does
to its lines (`SnoopFine`, `ReadReceives`, ...), which of the others it leaves alone (`Alike`), then
what a queue does to `Coherent` when a request is added to it (`AppendOther`, `AppendWrite`,
`AppendRead`) or performed (`RemoveRead`, `RemoveWrite`), and then has one lemma per kind
of step. The steps of the four memories are those that the lemmas of `MemoryProofs`
sort them into (`MemoryDoes`): a request goes to work, is performed with or without an answer, or
its answer is sent.

### The zero-latency CDMA network

`ZLProofs` proves two of the three invariants of the run `zlcdma`, for any number of
caches, directories, root directories and lines, any ways, sets and sizes of buffers:

| theorem | states |
|---|---|
| `NetworkAccounted` | the inductive invariant `IInv` |
| `PendingLineHasOneRequest` | `OneRequestPerPendingLine` |
| `WriteIsAckedOnce` | `WritesAckedOnce` |

**Assumptions.** `ZLNodeAssumption` (at least one cache, cache per directory and root
directory; there is a value, for memory to hold at the start) and `ZLCacheAssumption`
(what the clients write are bytes with a mask).

**The rings are closed.** In this network the layout is part of the model: `NextNode`
follows the rings that `Initialize` builds, and the root directories are spread
over the top ring by a division. `NextNodeIsNode` proves that the successor of
every node is a node, also when the directories do not divide evenly among the
roots: no two roots take the same place (`Segment`), and at every place between
them there is a directory that exists (`RootsBeforeSegment`, `RingOfNodes`), and every
root and directory has its place (`RootOnRing`, `TopOnRing`). Without it `DoForward`
could push a message into a buffer that is not there.

**`IInv`.** Types (tokens are integers: nothing is said here about their number); that
only a message that passes through, a read or an eviction is in the request queue of
a root directory, since a request for tokens that went there would be taken for a
writeback and lost (`RootDoRequests`); that a line that waits is valid, and has
an ack queue only while it acquires tokens; and two accounts:

- `Booked`: for every cache and line, a `READ` (an `ACQUIRE_TOKENS`) with that source
  and address is in some buffer exactly if the line is reading (writing), and there are
  no two. It is stated by places, not by counting, so that a step that moves a message
  (`Moves`) or edits it where it is (`Changes`) keeps the account of every request at
  once: `Same` says that it does, and only sending a request (`RebookRead`,
  `RebookWrite`) and consuming it change the one account they are about.
- `Counted`: the writes of a cache that are not completed are the writes in its queue
  and the elements of `Waiting(c)`, one for each entry of an ack queue. `AcksMore` and
  `AcksLess` count it by a bijection.

A directory or root directory never adds or removes a request, a cache removes only
its own, and what other caches do to it on the way (data, tokens, priority, `ignore`)
leaves source, address and type alone (`EditOf`). The notification that a cache sends
ahead of a request it keeps is no request; `ChangesAndSends` treats the two at once.
The invariant holds in states where an assertion has failed, too: `Abort` changes
nothing else.

`OnePriorityToken` is not a theorem. It is true only as long as no assertion
fails, and tokens of a line can be duplicated (section 6), so that an invariant for
it has to say which of the copies of a token the assertions will catch.

### Only model-checked

The liveness properties (`LoadsProgress`, `ReadyRuns` and the others) stay with TLC:
fairness and `ENABLED` are outside TLAPS. Of the safety properties, `OnePriorityToken`
and `WaitersAnswered` have no proof, nor do
the refinement of the kernel's queue and the properties of `Place`, the core, the MMU,
the I/O system and the kernel (section 8).

## 6 Where the code deviates from what it says

One deviation is a run:

- **lost_writeback.** A dirty eviction that does not bring all tokens is merged
  into the root directory's count and its data dropped
  (`cdma/RootDirectory.cpp:184`), while the copy that remains received the write
  as an UPDATE, which does not set its dirty flag (`cdma/Cache.cpp:488`). When
  that copy is evicted, memory keeps the old data.

The others were met while modelling. Where a definition is named, a configuration
with it as INVARIANT reproduces them; the others are excluded by a restriction
of the model that is named here or in section 4.

**CDMA network**

- **stale copy** (`CDMA`, `CopiesCurrent`). An answer does not overwrite bytes that
  an UPDATE wrote into the loading line (`Cache.cpp:345`), although the answer may
  carry a later, exclusive write. Updates of two writers to the same byte can also
  be applied in different orders by different caches (`doc/arch/memory.tex:171`
  describes the crossing).
- **stale reintroduction** (`CDMA`, `ReintroducedDataCurrent`). A request that
  was given data and finds its line gone reintroduces it with that data
  (`RootDirectory.cpp:142`), although the line may have been modified and written
  back since the data was copied.
- **root overflow** (`CDMA`, `RootDirectoriesFit`, with one cache of two sets and
  two root directories). A request overtakes, on the shorter way, the eviction
  that makes room for it, and the root directory needs one entry more than the
  caches have lines (assertion `RootDirectory.cpp:34`).
- **starvation.** In a ring of rings a single update or load may go round for ever
  while others complete; weak fairness of the processes does not exclude it.

**Zero-latency CDMA** (`ZLCDMA`, `AssertionsHold`, `MemoryWhole`)

- **duplicated tokens.** `OnAcquireTokensRet` (`zlcdma/Cache.cpp:750`) can keep
  tokens that it also sends on; `MaxTokens` bounds what follows.
- **eviction while loading.** An eviction reaches a root directory whose line is
  loading, against its assertion.
- **partial writeback.** A dirty line of which only a part was ever filled is
  evicted and written back.
- Two messages may be sent in one cycle where one fits, a write notification is
  repeated when its acknowledgement is delayed, and an injected line never becomes valid.

**Families**

- **late break** (`Place`, `BreakFindsFamily`). A thread breaks its family and
  ends; the family may be over and its entry free or reused when the message is
  handled (`Network.cpp:643`).
- **break upstream** (`Place`, `BreakReachesAll`). A break goes to the thread's own
  core and forward on the link; cores before it keep creating threads
  (`ExecuteStage.cpp:370`; `doc/arch/familytable.tex:69`).
- **chain loop.** A family with shareds and block size 2 ends its first thread
  before the second is allocated. The recycled entry is linked to the family's
  last thread, which is itself (`Allocator.cpp:356`); the thread becomes its own
  predecessor and is cleaned up while it runs (assertion `Allocator.cpp:867`;
  `doc/arch/threadtable.tex:48`). The run `place` reaches it: a cleanup that meets
  such an entry ends the behaviour (`Aborted`), `ThreadsInOrder` holds up to there, and
  without `~Aborted` the run finds it violated.
- **empty share.** A core of a family that gets no threads, or whose family is
  broken before its first thread, never gives back the thread entry reserved
  for it (`Allocator.cpp:950`; `creation.tex:119`). `ReservedForFamilies` and
  `AllReturned` therefore exclude broken families, and the workloads of `place`
  give every core of a family a thread.
- **stray bundle** (`Place`, `BundlesSuspend`, with `Stale = BOOLEAN`). A balanced
  allocation is turned into an ordinary one without setting the flag that says
  whether it is a bundle (`Network.cpp:777`), so an allocation may be treated as
  one (`Allocator.cpp:1172`).
- **balanced one.** A balanced allocation on a place of one core reaches the
  allocation queue as balanced (`Network.cpp:532`, assertion `Allocator.cpp:1009`).
- **stale allocation** (`Place`, `AllocQueueCreated`). The thread allocation queue
  keeps a family that ended through cleanups meanwhile; the entry may belong to
  another family when it comes to the front (`Allocator.cpp:943`).
- **double write.** A break of a family that is over on this core writes the link
  register twice in a cycle when it also passes the token (`Network.cpp:465`,
  assertion `sim/register.hpp:55`).
- **reserved pool** (`RegisterAllocation`, `PoolsAddUp`). When a created family
  needs no registers of one type, its reserved block returns to the normal pool
  while the reserved count stays (`RAUnit.cpp:184`); the count grows for ever, and
  nothing reads it.
- **wide range** (`Allocator`). The number of threads of a range wider than half
  the word wraps: with 4-bit words, start -8, limit 2 and step 7 give no thread
  (`Allocator.cpp:1959`; `overview.tex:27`).

**Core**

- **stale line.** The data of a line have come in and wait in `m_incoming` when the
  memory takes the line back; `OnMemoryInvalidated` marks it, and `DoIncoming` makes
  it full without a look at the mark (`ICache.cpp:488`), so that it is not cleared
  after use as `ICache.cpp:447` says.
- **early answer.** The answer to another client's read is taken for a line that is
  in use and `INVALID` too, and queued in `m_incoming` (`ICache.cpp:395`). If its last
  user releases the line before `DoIncoming` comes to it, the entry is out of date. In
  a direct-mapped cache the line can have been taken for another address, whose
  waiting threads are then woken before their data are there; with two lines in a set,
  a thread that fetches the same address waits on the second one, `DoIncoming` makes
  the first one full, and the answer finds that one and is dropped.
  `WaitersAnswered` is therefore stated up to the first such answer (`early`): nothing
  else loses an answer. Without that qualification the run `scheduling`, which has such
  answers, finds it violated.
- On the Sparc the value of a store is read again only when its register is
  read afresh (`ReadStage.cpp:322`): with a register as address it can be stale.
- Writes that nothing reads: an FPU result may overwrite a later result, or find
  its shared register waited for and lose the mark that the writeback makes; a
  load, an ALU result and a second load of one register end in the assertion
  "Invalid reset of pending load". `WritesLive` excludes such programs.
- A message of an instruction is sent again when the writeback stage retries
  (`WritebackStage.cpp:34`); `FPU::OnCompletion` changes its bookkeeping outside the
  commit phase; the second register of a pending pair keeps size 0.

**Memory and address translation**

- Serial, parallel, banked and DDR memory show a write also to the client that
  made it (`SerialMemory.cpp:87`), where `doc/arch/dcache.tex:101` speaks of a write "made by
  another cache". While a newer store of the core waits in `m_outgoing`, an older one of its
  own undoes it in its cache, and a load reads the older value (`MemorySystem`,
  `OwnStoresVisible`, with one writer that may make three requests).
- `DDRMemory` picks the interface by the address for a read (`DDRMemory.cpp:311`) and by
  the number of the line for a write (`:356`). With several interfaces, which
  `config.ini:377` configures, and direct selection, a load can overtake an earlier store
  of its own core to the line and return the old data, and a core can read a line before an
  accepted write of another and keep what it read. With eight interfaces the lines whose number
  is a multiple of eight are not split. The run `memory` has two interfaces and a line that
  is split: `MemoryService` orders requests by way, and `CopiesMatchMemory` is about lines with
  one way (`OneWay`). If the service ignores the way, or `OneWay` is left out, TLC finds
  the property violated.
- In the DDR memory a write shortens the time a row must stay
  open (`DDR.cpp:133`), and `DCache_pre_nov.cpp` compares a tag with a whole address.
- In the MMU, a second access overwrites the reference to the line that waits, a
  store that misses locks its entry without a line; two misses for small pages of one large
  page are both stored in the larger table (`TLB.cpp:429`, `Table.cpp:112`), which then has
  two entries for the page, with the same translation (`TranslationsAgree` says that only
  the smallest pages have one entry each); `DCache_naive.cpp:336` tests `address && ~mask`; a message of
  the manager that is pushed while `doReceive` clears the flag of an empty queue
  (`TLB.cpp:87`, `:148`) waits for the next one.

**I/O and kernel**

- Requests and responses wait for each other when both sides are full
  (`doc/arch/io.tex:63` asks devices to avoid it): the answers of the direct cache access
  leave by the queue of the core's requests, whose first one waits for a device that waits for
  its answers (`IODirectCacheAccess.cpp:185`; `DoBusOutgoing` keeps the port meanwhile,
  `:138`, `:215`). The circle forms in the workload `ReadsDuringFetch` of the run `io`;
  `ScriptsEnd` says that a program has no other way not to end. A message to a device that cannot
  take it blocks the ones behind it; channel numbers are tested with `>` where the
  number of devices is already out of range.
- The RTC merges events that come before the last one was taken; RPC copies its
  argument latch late, takes a response that overlaps both argument areas for
  both of them (`RPC.cpp:475`); an active ROM that is told to start while it copies
  starts over; a direct access may take the answer to an earlier one.
- The assertion of `sim/ports.cpp:51` fires on a correct arbitration when the core's
  clock is faster than that of the component it talks to, against the comment above it.

## 7 What is not modelled

The computation of values by instructions, decoding and disassembly; the debug
access to memory and registers; statistics, sampling, tracing and inspection;
serialization; configuration, start-up and the command line; the graphical display
and the other devices that only move bytes to the host. They are sequential and
share no state with the rest. Between models, what a component may assume of its
neighbour is written down as actions of the neighbour (memory answers reads in
`Scheduler`, parents in `Place`), not composed; the three families of models that
meet at the core (`Place`, `Scheduler`, `Core`) are not one state space, because their
product is out of TLC's reach.


## 8 Plan

Proofs that are left, in this order: the type correctness of `Place`, and the answers of
the I/O system.
