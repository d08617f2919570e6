---------------------------- MODULE MemorySystem ----------------------------
(***************************************************************************)
(* Cores with their data caches on one of the memories.  A core issues      *)
(* loads into operands (one or more consecutive registers) and stores of    *)
(* single bytes; every stored value is new.                                 *)
(***************************************************************************)
EXTENDS MemoryControllers

CONSTANTS
    Kinds,          \* the memories to look at
    Operand, Size,  \* the operands of a core and their registers
    Writers,        \* [Addr -> the clients that store to it]
    Creators,       \* [Addr -> the clients that create bundles from it]
    MaxStores       \* bound: stores of all cores

ASSUME SystemAssumption ==
    /\ Kinds \subseteq {"serial", "parallel", "banked", "ddr"}
    /\ MaxStores \in Nat /\ 1..MaxStores \subseteq Val
    /\ InitLine \in [Byte -> Val]
    /\ NumClients \in Nat
    \* a selector gives the index of a bank or interface
    /\ "banked" \in Kinds => \A a \in Addr : BankOf(a) \in Bank
    /\ "ddr" \in Kinds =>
           \A a \in Addr, write \in BOOLEAN : InterfaceOf([write |-> write, address |-> a]) \in Interface
    /\ {Bursts, tRCD, tRP, tCL, tWR, tCCD, tCWL, tRAS} \subseteq Nat

ASSUME CacheAssumption ==
    /\ Addr \subseteq Nat /\ NumSets \in Nat \ {0} /\ Assoc \in Nat \ {0}
    /\ None \notin LineId /\ NoVal \notin Val

VARIABLES
    op,       \* [Client -> [Operand -> load]]
    stamp     \* stores so far; the value of the last one

vars == <<kind, store, server, ddr, cache, count, answer, op, stamp>>

Servers ==
    CASE kind = "serial"   -> {0}
      [] kind = "parallel" -> Client
      [] kind = "banked"   -> Bank
      [] kind = "ddr"      -> Interface

Idle == [state |-> "idle", written |-> 0]

Init ==
    /\ kind \in Kinds
    /\ store = [a \in Addr |-> InitLine]
    /\ server = [s \in Servers |-> NoServer]
    /\ ddr = [s \in Servers |-> InitChannel]
    /\ cache = [c \in Client |-> InitDCache]
    /\ count = [c \in Client |-> 0]
    /\ answer = <<>>
    /\ op = [c \in Client |-> [o \in Operand |-> Idle]]
    /\ stamp = 0
-----------------------------------------------------------------------------
\* The core.  A load that hits changes nothing here; the others leave the
\* operand in the list of a line, and the writeback stage marks the registers
\* pending only later (issued, then pending).
Bytes(off, o) == off..(off + Size[o] - 1)

LoadMiss(c, o, a, off) ==
    /\ op[c][o].state = "idle" /\ Bytes(off, o) \subseteq Byte
    /\ \/ /\ ReadJoins(cache[c], a, Bytes(off, o))
          /\ cache' = [cache EXCEPT ![c] = JoinLine(@, a, o)]
       \/ \E l \in LineId :
            /\ ReadMisses(cache[c], a, l)
            /\ count[c] + Len(cache[c].outgoing) < MaxRequests[c]
            /\ cache' = [cache EXCEPT ![c] = LoadLine(@, a, l, o)]
    /\ op' = [op EXCEPT ![c][o].state = "issued"]
    /\ UNCHANGED <<kind, store, server, ddr, count, answer, stamp>>

MarkPending(c, o) ==
    /\ op[c][o].state = "issued"
    /\ op' = [op EXCEPT ![c][o].state = "pending"]
    /\ UNCHANGED <<kind, store, server, ddr, cache, count, answer, stamp>>

\* The allocator reads the line of a bundle, one bundle at a time.
BundleRead(c, a) ==
    /\ \A l \in LineId : ~cache[c].line[l].create
    /\ c \in Creators[a]
    /\ \/ /\ ReadJoins(cache[c], a, Byte)
          /\ cache' = [cache EXCEPT ![c] = JoinLine(@, a, None)]
       \/ \E l \in LineId :
            /\ ReadMisses(cache[c], a, l)
            /\ count[c] + Len(cache[c].outgoing) < MaxRequests[c]
            /\ cache' = [cache EXCEPT ![c] = LoadLine(@, a, l, None)]
    /\ UNCHANGED <<kind, store, server, ddr, count, answer, op, stamp>>

Store(c, a, b) ==
    /\ stamp < MaxStores /\ c \in Writers[a]
    /\ CanWrite(cache[c], a)
    /\ count[c] + Len(cache[c].outgoing) < MaxRequests[c]
    /\ stamp' = stamp + 1
    /\ cache' = [cache EXCEPT ![c] = WriteLine(@, a, [NoData EXCEPT ![b] = stamp'], stamp')]
    /\ UNCHANGED <<kind, store, server, ddr, count, answer, op>>
-----------------------------------------------------------------------------
\* The processes of the cache that do not touch the memory.
ReadResponses(c) ==
    /\ CanDoReadResponses(cache[c])
    /\ cache' = [cache EXCEPT ![c] = DoReadResponses(@)]
    /\ UNCHANGED <<kind, store, server, ddr, count, answer, op, stamp>>

WriteResponses(c) ==
    /\ cache[c].writes # <<>>
    /\ cache' = [cache EXCEPT ![c].writes = Tail(@)]
    /\ UNCHANGED <<kind, store, server, ddr, count, answer, op, stamp>>

\* One register of the first operand in the list of the front writeback is
\* written per step, once the operand is marked pending.
ReadWritebacks(c) ==
    /\ cache[c].writebacks # <<>>
    /\ LET w == Head(cache[c].writebacks)
           o == Head(w.waiting)
           i == op[c][o].written + 1
           over == i = Size[o]
       IN  /\ op[c][o].state = "pending"
           /\ op' = [op EXCEPT ![c][o] = IF over THEN Idle ELSE [@ EXCEPT !.written = i]]
           /\ cache' = [cache EXCEPT ![c].writebacks =
                          IF ~over THEN @
                          ELSE IF Len(w.waiting) = 1 THEN Tail(@)
                          ELSE [@ EXCEPT ![1].waiting = Tail(@)]]
    /\ UNCHANGED <<kind, store, server, ddr, count, answer, stamp>>

\* DoOutgoingRequests: the front request is offered to the memory.
OutgoingRequests(c) ==
    /\ cache[c].outgoing # <<>>
    /\ SerialAccept(c) \/ ParallelAccept(c) \/ BankedAccept(c) \/ DDRAccept(c)
    /\ UNCHANGED <<op, stamp>>

MemoryStep(s) ==
    /\ \/ SerialDoRequests \/ ParallelDoRequests(s)
       \/ DoIncoming(s) \/ DoRequest(s) \/ DoOutgoing(s)
       \/ DDRDoRequests(s) \/ ChannelDoRequest(s) \/ DoPipeline(s) \/ DoResponses(s)
    /\ UNCHANGED <<op, stamp>>

Tick == DDRTick /\ UNCHANGED <<op, stamp>>

CacheStep(c) ==
    \/ ReadResponses(c) \/ WriteResponses(c) \/ ReadWritebacks(c) \/ OutgoingRequests(c)
    \/ \E o \in Operand : MarkPending(c, o)

Next ==
    \/ \E c \in Client :
        \/ CacheStep(c)
        \/ \E o \in Operand, a \in Addr, off \in Byte : LoadMiss(c, o, a, off)
        \/ \E a \in Addr : BundleRead(c, a)
        \/ \E a \in Addr, b \in Byte : Store(c, a, b)
    \/ \E s \in Servers : MemoryStep(s)
    \/ Tick

Spec == Init /\ [][Next]_vars

\* Every process of the simulator runs in every cycle in which its trigger is
\* set; the loads and stores of the program are not promised.
FairSpec ==
    /\ Spec
    /\ \A c \in Client :
        /\ WF_vars(ReadResponses(c)) /\ WF_vars(WriteResponses(c))
        /\ WF_vars(ReadWritebacks(c)) /\ WF_vars(OutgoingRequests(c))
        /\ \A o \in Operand : WF_vars(MarkPending(c, o))
    /\ \A s \in 0..(NumClients + NumBanks + NumInterfaces) : WF_vars(s \in Servers /\ MemoryStep(s))
    /\ WF_vars(Tick)
-----------------------------------------------------------------------------
\* The requests that the servers hold, as MemoryService sees them.  The memories
\* keep the requests of a client for a line in one queue; only the DDR memory
\* may take the reads through another interface than the writes.
Way == {0} \cup Interface
WayOf(r) == IF kind = "ddr" THEN InterfaceOf(r) ELSE 0
Seen(r, done) == [client |-> r.client, seq |-> r.seq, write |-> r.write, address |-> r.address,
                  data |-> r.data, way |-> WayOf(r), done |-> done]
Asked ==
    UNION {{Seen(r, FALSE) : r \in ToSet(server[s].requests) \cup ToSet(server[s].active)}
              \cup {Seen(r, TRUE) : r \in ToSet(server[s].responses)} : s \in Servers}

Service == INSTANCE MemoryService WITH asked <- Asked

\* Every memory serves its clients as MemoryService says: a request takes
\* effect once, between acceptance and answer, after the earlier writes of its
\* client to the line that took the same way, and is answered with what memory
\* held at that instant.
ServesMemory == Service!Spec

\* The reads and the writes of line a take the same way.
OneWay(a) ==
    \A v, w \in BOOLEAN : WayOf([write |-> v, address |-> a]) = WayOf([write |-> w, address |-> a])

\* Nothing that could still change line a, or a copy of it, is under way.
Settled(a) ==
    /\ \A s \in Servers : \A r \in ToSet(server[s].requests) \cup ToSet(server[s].active) :
           r.address = a => ~r.write
    /\ \A c \in Client : \A r \in ToSet(cache[c].outgoing) : r.address = a => ~r.write

\* When the writes to a line have reached memory, every core that has the line
\* sees what memory holds (OnMemorySnooped and OnMemoryReadCompleted together):
\* no copy missed a write or took the data of a read from before it.  The
\* ports of the parallel memory do not keep this, and neither do the interfaces
\* of the DDR memory for a line that they split: a core reads the line before
\* the accepted write of another, which waits at the other interface, and keeps
\* what it read.
CopiesMatchMemory ==
    kind # "parallel" =>
        \A a \in Addr : Settled(a) /\ OneWay(a) =>
            \A c \in Client, l \in LineId :
                LET line == cache[c].line[l]
                IN  line.state = "FULL" /\ line.tag = a => line.data = store[a]

\* A core reads the bytes it last stored, also while the stores wait in its own
\* cache to be sent (DCache_naive.cpp: "new reads should get the new data and not
\* the old").  Stated for lines with one writer.  The code does not keep this: a
\* core's own older store is snooped by its cache and undoes a newer one that
\* waits to be sent, until that is snooped too.
OwnStoresVisible ==
    \A c \in Client, l \in LineId, b \in Byte :
        LET line == cache[c].line[l]
            mine == SelectSeq(cache[c].outgoing,
                              LAMBDA r : r.write /\ r.address = line.tag /\ r.data[b] # NoVal)
        IN  line.state = "FULL" /\ mine # <<>> /\ Writers[line.tag] = {c} =>
                line.data[b] = mine[Len(mine)].data[b]

\* Every load ends: its registers are written, whatever the lists of the lines
\* and the buffers between the processes went through.
LoadsEnd == \A c \in Client, o \in Operand : op[c][o].state # "idle" ~> op[c][o].state = "idle"
=============================================================================
