-------------------------------- MODULE MMU --------------------------------
(***************************************************************************)
(* Loads and stores of a core whose addresses are translated: the data      *)
(* cache, the data TLB, the messages to the memory manager and the manager, *)
(* a program that walks its page tables (src/manager).  An address is the   *)
(* number of a cache line; memory holds in each line its own number, and a  *)
(* store writes what is there already.                                      *)
(***************************************************************************)
EXTENDS DCache, Integers, Sequences, SequencesExt, FiniteSetsExt, Folds, Bitwise

CONSTANTS
    Levels,        \* sections of an index into the page tables
    Section,       \* values of a section, 0..n-1
    MaxTables,     \* tables that fit in the reserved page
    PageLines,     \* lines in a page of the smallest size
    Context,       \* the context of the core (DCache::Read: always 0)
    TableOffset,   \* TABLE_OFFSET
    TablesAt,      \* the page that holds the page tables
    Mappings,      \* sequence of the arguments of write_entry
    Direct,        \* pages of local storage and of the old virtual memory
    LoadAddr, StoreAddr, \* what the program loads into an operand, and stores to
    Operand, Strategies,
    ChannelSize,   \* bound: parts in the manager's notification channel
    Invalidations  \* what is asked to be invalidated at the simulator's prompt

-----------------------------------------------------------------------------
(***************************************************************************)
(* One table of a TLB: the translations for one page size.  A line is free, *)
(* pending (locked, not present), normal, or present and locked.  t is the  *)
(* state of a table; its lines are numbered from 0.                         *)
(***************************************************************************)

FreeTableLine == [present |-> FALSE, locked |-> FALSE, accessed |-> FALSE, ctx |-> 0,
                  vAddr |-> 0, pAddr |-> 0, ref |-> 0, read |-> FALSE, write |-> FALSE]

\* What a line that is free, or not answered yet, holds from before is not read
\* again, except the accessed bit, which nothing clears.
Cleared(e) == [FreeTableLine EXCEPT !.accessed = e.accessed]

\* Lines in LRU order: the head was used last.
InitTable(strategy, n) ==
    [strategy |-> strategy, line |-> [i \in 0..(n - 1) |-> FreeTableLine],
     order |-> [i \in 1..n |-> i - 1]]

IsFree(e)    == ~e.present /\ ~e.locked
IsPending(e) == ~e.present /\ e.locked
IsNormal(e)  == e.present /\ ~e.locked

Lowest(S) == CHOOSE i \in S : \A j \in S : i <= j

Indexed(t, ctx, v) ==
    {i \in DOMAIN t.line : ~IsFree(t.line[i]) /\ t.line[i].ctx = ctx /\ t.line[i].vAddr = v}

\* setPrioHigh on the line a lookup finds.
SetPrioHigh(t, i) ==
    CASE t.strategy = "ACCESSED" -> [t EXCEPT !.line[i].accessed = TRUE]
      [] t.strategy = "LRU"      -> [t EXCEPT !.order = <<i>> \o Remove(@, i)]
      [] OTHER                   -> t
Looked(t, ctx, v) ==
    IF Indexed(t, ctx, v) = {} THEN t ELSE SetPrioHigh(t, Lowest(Indexed(t, ctx, v)))
-----------------------------------------------------------------------------
\* The line to use next, which may be locked: a free one, or a victim.
VictimRandom(t) == FoldFunction(LAMBDA e, r : r ^^ (e.vAddr % Cardinality(DOMAIN t.line)), 0, t.line)
VictimAccessed(t) ==
    LET unused == {i \in DOMAIN t.line : IsNormal(t.line[i]) /\ ~t.line[i].accessed}
    IN  IF unused = {} THEN VictimRandom(t) ELSE Lowest(unused)
PickDestination(t) ==
    LET free == {i \in DOMAIN t.line : IsFree(t.line[i])}
    IN  IF free # {} THEN Lowest(free)
        ELSE CASE t.strategy = "PSEUDO_RANDOM" -> VictimRandom(t)
               [] t.strategy = "ACCESSED"      -> VictimAccessed(t)
               [] t.strategy = "LRU"           -> Last(t.order)
\* Mutant: the victim may be locked
CanStoreAnywhere(t) == PickDestination(t) \in DOMAIN t.line
CanStore(t) == ~t.line[PickDestination(t)].locked

StorePending(t, ctx, v) ==
    [t EXCEPT !.line[PickDestination(t)] =
        [Cleared(@) EXCEPT !.locked = TRUE, !.ctx = ctx, !.vAddr = v]]
\* A line stored from the manager's answer stays locked until the cache reads it.
FillPending(t, i, p, read, write) ==
    [t EXCEPT !.line[i] = [@ EXCEPT !.present = TRUE, !.ref = 0, !.pAddr = p, !.read = read, !.write = write]]
StoreNormal(t, ctx, v, p, read, write) ==
    [t EXCEPT !.line[PickDestination(t)] =
        [Cleared(@) EXCEPT !.present = TRUE, !.locked = TRUE, !.ctx = ctx, !.vAddr = v, !.pAddr = p,
                            !.read = read, !.write = write]]
ReleasePending(t, i) == [t EXCEPT !.line[i] = Cleared(@)]

\* freeLines throws when it meets a locked line.
CanFree(t, S) == \A i \in S : ~t.line[i].locked
FreeLines(t, S) ==
    [t EXCEPT !.line = [i \in DOMAIN @ |-> IF i \in S THEN Cleared(@[i]) ELSE @[i]]]
-----------------------------------------------------------------------------
(***************************************************************************)
(* The data TLB of a core (drisc/mmu/TLB.cpp): its tables, one per page     *)
(* size, and the two-part messages it exchanges with the memory manager     *)
(* over the I/O network.  b is the state of a TLB; tables are numbered from *)
(* 1 here, the smallest pages first.  A part of a message is addressed to   *)
(* port 1 or 0 of the receiver; port 2 takes a message of one part.         *)
(***************************************************************************)
CONSTANTS
    TableLines,    \* sequence: lines of each table
    PageSize,      \* sequence: the size of their pages, in pages of the smallest
    OutFifo,       \* m_fifo_out
    InFifo         \* m_fifo_in

Table == DOMAIN TableLines
InitTLB(strategy) ==
    [enabled |-> FALSE,
     table |-> [n \in Table |-> InitTable(strategy, TableLines[n])],
     out |-> <<>>, in |-> <<>>, part1 |-> 0]

\* doLookup: the lines that have page v, pending ones included.  More than one
\* table having it makes the simulator throw.
Found(b, ctx, v) ==
    {<<n, Lowest(Indexed(b.table[n], ctx, v \div PageSize[n]))>> :
        n \in {m \in Table : Indexed(b.table[m], ctx, v \div PageSize[m]) # {}}}
LineAt(b, at) == b.table[at[1]].line[at[2]]
\* The lookup itself changes the order of the lines, whatever comes after.
LookedUp(b, ctx, v) ==
    [b EXCEPT !.table = [n \in Table |-> Looked(@[n], ctx, v \div PageSize[n])]]

Miss(b, ctx, v) == Found(b, ctx, v) = {}
Hit(b, ctx, v, at) == Found(b, ctx, v) = {at} /\ LineAt(b, at).present
Delayed(b, ctx, v, at) == Found(b, ctx, v) = {at} /\ ~LineAt(b, at).present

\* A miss takes a line of the first table and asks the manager.
CanRequest(b) == CanStore(b.table[1]) /\ Len(b.out) + 2 <= OutFifo
Request1(v) == [port |-> 1, body |-> [page |-> v]]
Request0(ctx, index) ==
    [port |-> 0, body |-> [type |-> "MISS", index |-> index, ctx |-> ctx]]
RequestPage(b, ctx, v) ==
    LET i == PickDestination(b.table[1])
    IN  [b EXCEPT !.table[1] = StorePending(@, ctx, v),
                  !.out = @ \o <<Request1(v), Request0(ctx, i)>>]
\* setDCacheReference: whoever asks last gets the answer.
SetReference(b, at, ref) == [b EXCEPT !.table[at[1]].line[at[2]].ref = ref]

\* getLine: the cache takes the translation out of a line that is locked for it.
Unlock(b, at) == [b EXCEPT !.table[at[1]].line[at[2]].locked = FALSE]
-----------------------------------------------------------------------------
\* doReceive.  The first part of a message waits in m_mgtMsgBuffer.
Incoming(b) == Head(b.in)
IsMessage(b, type) == b.in # <<>> /\ Incoming(b).port # 1 /\ Incoming(b).body.type = type
Popped(b) == [b EXCEPT !.in = Tail(@), !.part1 = 0]
BufferPart(b) == [Popped(b) EXCEPT !.part1 = Incoming(b).body]

\* onPropertyMsg
SetProperty(b) ==
    IF Incoming(b).body.property = "MGT_ADDR" THEN Popped(b)
    ELSE [Popped(b) EXCEPT !.enabled = Incoming(b).body.val]

\* onStoreMsg: the answer names the pending line by its index, and the table by
\* its distance from the last one.  The translation replaces the pending line in
\* the first table, or goes to the table of its page size, where a locked victim
\* makes the message wait.
TableOf(msg) == Len(TableLines) - msg.table
\* Mutant: a line is sought in the first table too
CanStoreAnyAnswer(b) ==
    LET msg == Incoming(b).body
    IN  msg.present => CanStore(b.table[TableOf(msg)])
CanStoreAnswer(b) ==
    LET msg == Incoming(b).body
    IN  msg.present /\ TableOf(msg) # 1 => CanStore(b.table[TableOf(msg)])
Answered(b) == b.table[1].line[Incoming(b).body.index]
PlaceOf(b) ==
    LET msg == Incoming(b).body
    IN  IF TableOf(msg) = 1 THEN <<1, msg.index>>
        ELSE <<TableOf(msg), PickDestination(b.table[TableOf(msg)])>>
\* Mutant: the page number is not scaled to the pages of the table
StoreAnswerUnscaled(b) ==
    LET msg == Incoming(b).body
        n == TableOf(msg)
        e == Answered(b)
    IN  IF ~msg.present THEN Popped(b)
        ELSE IF n = 1
        THEN [Popped(b) EXCEPT !.table[1] = FillPending(@, msg.index, b.part1, msg.read, msg.write)]
        ELSE [Popped(b) EXCEPT
                !.table[n] = StoreNormal(@, e.ctx, e.vAddr, b.part1, msg.read, msg.write),
                !.table[1] = ReleasePending(@, msg.index)]
StoreAnswer(b) ==
    LET msg == Incoming(b).body
        n == TableOf(msg)
        e == Answered(b)
    IN  IF ~msg.present THEN Popped(b)
        ELSE IF n = 1
        THEN [Popped(b) EXCEPT !.table[1] = FillPending(@, msg.index, b.part1, msg.read, msg.write)]
        ELSE [Popped(b) EXCEPT
                !.table[n] = StoreNormal(@, e.ctx, e.vAddr \div PageSize[n], b.part1, msg.read, msg.write),
                !.table[1] = ReleasePending(@, msg.index)]

\* onInvalidateMsg: everything, or what belongs to a context or to a page of it.
\* The address is compared in the unit of each table.
Invalidated(b, n, ctx, filter, v) ==
    CASE filter = "all"     -> DOMAIN b.table[n].line
      [] filter = "context" -> {i \in DOMAIN b.table[n].line :
                                    ~IsFree(b.table[n].line[i]) /\ b.table[n].line[i].ctx = ctx}
      [] filter = "page"    -> Indexed(b.table[n], ctx, v \div PageSize[n])
CanInvalidate(b, ctx, filter, v) ==
    \A n \in Table : CanFree(b.table[n], Invalidated(b, n, ctx, filter, v))
Invalidate(b, ctx, filter, v) ==
    [b EXCEPT !.table = [n \in Table |-> FreeLines(@[n], Invalidated(b, n, ctx, filter, v))]]
-----------------------------------------------------------------------------
(* The page tables: a tree of tables of entries, one level per section of an *)
(* index.  An index is the context section followed by the sections of the  *)
(* virtual page number, the most significant first.  ts is the reserved     *)
(* memory: the tables built in it, numbered from 1 (the root), and how many *)
(* more fit.                                                                *)

Radix == CHOOSE n \in 1..512 : Section = 0..(n - 1)

\* calculate_pt_index and get_index_section.  v is the number of a page of the
\* smallest size.
SectionOf(ctx, v, i) == IF i = Levels THEN ctx ELSE (v \div Radix^(i - 1)) % Radix
PtIndex(ctx, v) == [i \in 1..Levels |-> SectionOf(ctx, v, Levels + 1 - i)]

NoEntry == [p |-> FALSE, t |-> FALSE, r |-> FALSE, w |-> FALSE, addr |-> 0]
NoTables == [free |-> MaxTables, entries |-> <<>>]

\* construct_pt: the next table, all entries absent.
ConstructPt(ts) ==
    [ts EXCEPT !.free = @ - 1, !.entries = Append(@, [s \in Section |-> NoEntry])]
Built(ts) == Len(ts.entries)

\* write_entry, from the root down to the section of the page size; s.at is the
\* table of the level, 0 once the call has returned.  The leaf takes a table out
\* of the reserve too, and does not look whether one is left.
Returns(s, result) == [s EXCEPT !.at = 0, !.result = result]
SetEntry(ts, at, section, entry) == [ts EXCEPT !.entries[at][section] = entry]
Leaf(s, section, dst, r, w) ==
    IF s.ts.entries[s.at][section].p THEN Returns(s, -32)
    ELSE [Returns(s, 1) EXCEPT !.ts = SetEntry(ConstructPt(s.ts), s.at, section,
                                    [p |-> TRUE, t |-> FALSE, r |-> r, w |-> w, addr |-> dst])]
Branch(s, section) ==
    LET entry == s.ts.entries[s.at][section]
        new == Built(s.ts) + 1
    IN  CASE entry.p -> [s EXCEPT !.at = entry.addr]
          [] ~entry.p /\ s.ts.free = 0 -> Returns(s, 0)
          [] ~entry.p /\ s.ts.free # 0 ->
                [s EXCEPT !.at = new,
                          !.ts = SetEntry(ConstructPt(s.ts), s.at, section,
                                    [NoEntry EXCEPT !.p = TRUE, !.t = TRUE, !.addr = new])]
WriteEntry(ts, index, dst, size, r, w) ==
    FoldLeftDomain(LAMBDA s, i : CASE s.at = 0 -> s
                                   [] s.at # 0 /\ i = Levels - size -> Leaf(s, index[i], dst, r, w)
                                   [] OTHER -> Branch(s, index[i]),
                   [ts |-> ts, at |-> 1, result |-> 1], SubSeq(index, 1, Levels - size))

\* init_pt_set: the root, and the entry of the first page that holds the tables (a
\* comment there says 2 MiB are reserved; the entry is one of 4 KiB).
InitPtSet(ctx, base) ==
    WriteEntry(ConstructPt(NoTables), PtIndex(ctx, base), base, 0, TRUE, TRUE).ts

\* walkPageTable: the entry where the walk ends, and the levels it took.
Walk(ts, index) ==
    FoldLeftDomain(LAMBDA s, i :
            IF s.over THEN s
            ELSE LET e == ts.entries[s.at][index[i]]
                 IN  [entry |-> e, levels |-> i, over |-> ~(e.p /\ e.t),
                      at |-> IF e.p /\ e.t THEN e.addr ELSE 0],
        [entry |-> NoEntry, levels |-> 0, over |-> FALSE, at |-> 1], index)
-----------------------------------------------------------------------------
VARIABLES
    pt,        \* the page tables
    cache, tlb,
    boot,      \* SET messages the start-up program has sent
    channel,   \* parts on their way to the manager
    mgr,       \* the manager's dispatcher
    op,        \* [Operand -> load]
    stopped,   \* why the simulator has thrown, or "no"
    lost       \* an access came between a load and its answer

vars == <<pt, cache, tlb, boot, channel, mgr, op, stopped, lost>>

\* The page tables, built before the core starts (main, createPageEntries).
Tables ==
    FoldLeft(LAMBDA tables, m : WriteEntry(tables, PtIndex(Context, m.page), m.frame, m.size, m.r, m.w).ts,
             InitPtSet(Context, TablesAt), Mappings)
Idle == [state |-> "idle", addr |-> 0, direct |-> FALSE]

Init ==
    /\ pt = Tables
    /\ cache = InitDCache
    /\ \E s \in Strategies : tlb = InitTLB(s)
    /\ boot = 0
    /\ channel = <<>>
    /\ mgr = [pc |-> "part1", part1 |-> 0, msg |-> None]
    /\ op = [o \in Operand |-> Idle]
    /\ stopped = "no"
    /\ lost = FALSE
-----------------------------------------------------------------------------
PageOf(a) == a \div PageLines
IsDirect(a) == ~tlb.enabled \/ PageOf(a) \in Direct

\* The physical address: the number in the entry counts pages of the table's
\* size, not of the smallest.  A delayed load forgets the line within the page.
\* Mutant: the frame number is not turned into an address
PhysicalPageUnscaled(at) == LineAt(tlb, at).pAddr * PageSize[at[1]]
PhysicalPage(at) == LineAt(tlb, at).pAddr * PageSize[at[1]] * PageLines
Physical(at, a) == PhysicalPage(at) + (a % (PageSize[at[1]] * PageLines))

TableLine == UNION {{<<n, i>> : i \in 0..(TableLines[n] - 1)} : n \in Table}
\* The entry that translates address a (None: the address is used as it is).
Translation(a) ==
    IF IsDirect(a) THEN {None}
    ELSE {at \in TableLine : Hit(tlb, Context, PageOf(a), at)}
PhysicalOf(at, a) == IF at = None THEN a ELSE Physical(at, a)
Readable(at) == at # None => LineAt(tlb, at).read
Writable(at) == at # None => LineAt(tlb, at).write
LookupOf(a) == IF IsDirect(a) THEN tlb ELSE LookedUp(tlb, Context, PageOf(a))

Stop(why) ==
    /\ stopped' = why
    /\ UNCHANGED <<cache, tlb, boot, channel, mgr, op, lost>>

Issue(o, a) == op' = [op EXCEPT ![o] = [state |-> "waits", addr |-> a, direct |-> IsDirect(a)]]
-----------------------------------------------------------------------------
\* The program starts when the start-up program is done, which does not wait for
\* the TLB.  Bound of the model: it ends with an access that comes between.
MayAccess == boot = 2 /\ ~lost

\* DCacheNaive::Read2 and Write2.  The lookup moves the entry it finds also
\* when the access stalls afterwards.
LoadTranslated(o, a) ==
    /\ MayAccess /\ op[o].state = "idle"
    /\ \E at \in Translation(a) :
        LET p == PhysicalOf(at, a)
        IN  \/ ~Readable(at) /\ Stop("not readable")
            \/ /\ Readable(at)
               /\ tlb' = LookupOf(a)
               /\ \/ ReadHits(cache, p, Byte) /\ UNCHANGED <<cache, op>>
                  \/ /\ ReadJoins(cache, p, Byte)
                     /\ cache' = JoinLine(cache, p, o)
                     /\ Issue(o, a)
                  \/ \E l \in LineId :
                        /\ ReadMisses(cache, p, l)
                        /\ cache' = LoadLine(cache, p, l, o)
                        /\ Issue(o, a)
                  \/ /\ ~Present(cache, p)
                     /\ \A l \in LineId : ~ReadMisses(cache, p, l)
                     /\ UNCHANGED <<cache, op>>
               /\ UNCHANGED <<boot, channel, mgr, stopped, lost>>

\* The page is being asked for already: this load takes the answer over.
LoadJoinsLookup(o, a) ==
    /\ MayAccess /\ op[o].state = "idle" /\ ~IsDirect(a)
    /\ \E at \in TableLine, l \in LineId :
        /\ Delayed(tlb, Context, PageOf(a), at)
        /\ ReadWaitsForLookup(cache, a, l)
        /\ tlb' = SetReference(LookupOf(a), at, l)
        /\ cache' = LookupLine(cache, l, o)
    /\ Issue(o, a)
    /\ lost' = TRUE
    /\ UNCHANGED <<boot, channel, mgr, stopped>>

LoadMissesTLB(o, a) ==
    /\ MayAccess /\ op[o].state = "idle" /\ ~IsDirect(a)
    /\ Miss(tlb, Context, PageOf(a)) /\ CanRequest(tlb)
    /\ \E l \in LineId :
        /\ ReadWaitsForLookup(cache, a, l)
        /\ tlb' = SetReference(RequestPage(tlb, Context, PageOf(a)), <<1, PickDestination(tlb.table[1])>>, l)
        /\ cache' = LookupLine(cache, l, o)
    /\ Issue(o, a)
    /\ UNCHANGED <<boot, channel, mgr, stopped, lost>>

StoreTranslated(a) ==
    /\ MayAccess
    /\ \E at \in Translation(a) :
        LET p == PhysicalOf(at, a)
        IN  \/ ~Writable(at) /\ Stop("not writable")
            \/ /\ Writable(at) /\ CanWrite(cache, p)
               /\ tlb' = LookupOf(a)
               /\ cache' = WriteLine(cache, p, [b \in Byte |-> p], None)
               /\ UNCHANGED <<boot, channel, mgr, op, stopped, lost>>

\* A store whose page is not there makes the thread try again when it is
\* scheduled next; the answer is for nobody, also if a load waited for it, and
\* nobody unlocks the entry.
StoreDelayed(a) ==
    /\ MayAccess /\ ~IsDirect(a)
    /\ \/ \E at \in TableLine :
            /\ Delayed(tlb, Context, PageOf(a), at)
            /\ tlb' = SetReference(LookupOf(a), at, None)
       \/ /\ Miss(tlb, Context, PageOf(a)) /\ CanRequest(tlb)
          /\ tlb' = SetReference(RequestPage(tlb, Context, PageOf(a)),
                                 <<1, PickDestination(tlb.table[1])>>, None)
    /\ lost' = TRUE
    /\ UNCHANGED <<cache, boot, channel, mgr, op, stopped>>

TwoTables(a) ==
    /\ MayAccess /\ ~IsDirect(a) /\ Cardinality(Found(tlb, Context, PageOf(a))) > 1
    /\ Stop("two tables")
-----------------------------------------------------------------------------
\* The processes of the cache.
LookupResponse ==
    /\ cache.lookups # <<>>
    /\ LET r == Head(cache.lookups)
           p == PhysicalPage(r.ref)
           other == FindLine(cache, p, {r.cid})
       IN  \/ ~r.present /\ Stop("page fault")
           \/ /\ r.present /\ r.cid = None
              /\ cache' = DropLookupResponse(cache)
              /\ UNCHANGED <<tlb, boot, channel, mgr, op, stopped, lost>>
           \/ /\ r.present /\ r.cid # None
              /\ \/ ~Readable(r.ref) /\ Stop("not readable")
                 \/ /\ Readable(r.ref) /\ CanDoLookupResponses(cache, p)
                    /\ cache' = DoLookupResponses(cache, p)
                    /\ tlb' = Unlock(tlb, r.ref)
                    /\ lost' = (lost \/ (other # None /\ cache.line[other].state = "LOADING"))
                    /\ UNCHANGED <<boot, channel, mgr, op, stopped>>

ReadResponses ==
    /\ CanDoReadResponses(cache)
    /\ cache' = DoReadResponses(cache)
    /\ UNCHANGED <<tlb, boot, channel, mgr, op, stopped, lost>>

ReadWritebacks ==
    /\ cache.writebacks # <<>>
    /\ LET w == Head(cache.writebacks)
       IN  /\ op' = [op EXCEPT ![Head(w.waiting)] = Idle]
           /\ cache' = [cache EXCEPT !.writebacks = IF Len(w.waiting) = 1 THEN Tail(@)
                                                   ELSE [@ EXCEPT ![1].waiting = Tail(@)]]
    /\ UNCHANGED <<tlb, boot, channel, mgr, stopped, lost>>

\* The memory takes the front request and answers a read.
Memory ==
    /\ cache.outgoing # <<>>
    /\ LET r == Head(cache.outgoing)
           rest == [cache EXCEPT !.outgoing = Tail(@)]
       IN  /\ r.write \/ CanReadComplete(rest, r.address)
           /\ cache' = IF r.write THEN rest
                       ELSE OnMemoryReadCompleted(rest, r.address, [b \in Byte |-> r.address])
    /\ UNCHANGED <<tlb, boot, channel, mgr, op, stopped, lost>>
-----------------------------------------------------------------------------
\* TLB::doTransmit, and the network: parts stay in order.
Transmit ==
    /\ tlb.out # <<>> /\ Len(channel) < ChannelSize
    /\ channel' = Append(channel, Head(tlb.out).body)
    /\ tlb' = [tlb EXCEPT !.out = Tail(@)]
    /\ UNCHANGED <<cache, boot, mgr, op, stopped, lost>>

\* TLB::doReceive.  A completion that finds the cache's buffer full is dropped:
\* OnTLBLookupCompleted says so, and onStoreMsg does not listen.
ReceivePart ==
    /\ tlb.in # <<>> /\ Incoming(tlb).port = 1
    /\ tlb' = BufferPart(tlb)
    /\ UNCHANGED <<cache, boot, channel, mgr, op, stopped, lost>>
ReceiveSet ==
    /\ IsMessage(tlb, "SET")
    /\ tlb' = SetProperty(tlb)
    /\ UNCHANGED <<cache, boot, channel, mgr, op, stopped, lost>>
ReceiveAnswer ==
    /\ IsMessage(tlb, "REFILL") /\ CanStoreAnswer(tlb)
    /\ LET full == Len(cache.lookups) = LookupBuffer
       IN  /\ cache' = IF full THEN cache
                       ELSE OnTLBLookupCompleted(cache, Answered(tlb).ref, PlaceOf(tlb), Incoming(tlb).body.present)
           /\ lost' = (lost \/ full)
    /\ tlb' = StoreAnswer(tlb)
    /\ UNCHANGED <<boot, channel, mgr, op, stopped>>

\* An invalidation asked at the simulator's prompt.  The manager sends none.
InvalidateTLB(filter, v) ==
    /\ \/ /\ CanInvalidate(tlb, Context, filter, v)
          /\ tlb' = Invalidate(tlb, Context, filter, v)
          /\ UNCHANGED stopped
       \/ /\ ~CanInvalidate(tlb, Context, filter, v)
          /\ stopped' = "locked line"
          /\ UNCHANGED tlb
    /\ UNCHANGED <<cache, boot, channel, mgr, op, lost>>
-----------------------------------------------------------------------------
\* tlbEnable: where the manager is, then the switch.
SendSet ==
    /\ boot < 2 /\ Len(tlb.in) < InFifo
    /\ boot' = boot + 1
    /\ tlb' = [tlb EXCEPT !.in = Append(@, [port |-> 2, body |->
                [type |-> "SET", property |-> IF boot = 0 THEN "MGT_ADDR" ELSE "STATE", val |-> TRUE]])]
    /\ UNCHANGED <<cache, channel, mgr, op, stopped, lost>>

\* The dispatcher reads the two parts of a message from the channel, waits for
\* the handler (an exclusive family), and the handler sends two parts back.
ReceiveNetMsg ==
    /\ mgr.pc \in {"part1", "part0"} /\ channel # <<>>
    /\ channel' = Tail(channel)
    /\ mgr' = IF mgr.pc = "part1" THEN [mgr EXCEPT !.pc = "part0", !.part1 = Head(channel).page]
              ELSE [mgr EXCEPT !.pc = "handle", !.msg = Head(channel)]
    /\ UNCHANGED <<cache, tlb, boot, op, stopped, lost>>

HandleMiss ==
    /\ mgr.pc = "handle"
    /\ LET walk == Walk(pt, PtIndex(mgr.msg.ctx, mgr.part1))
           e == walk.entry
       IN  mgr' = [pc |-> "send1", part1 |-> IF e.p THEN e.addr ELSE mgr.part1,
                   msg |-> [type |-> "REFILL", index |-> mgr.msg.index, present |-> e.p,
                            table |-> IF e.p THEN walk.levels - TableOffset ELSE 0,
                            read |-> e.r, write |-> e.w]]
    /\ UNCHANGED <<cache, tlb, boot, channel, op, stopped, lost>>

SendNetMsg ==
    /\ mgr.pc \in {"send1", "send0"} /\ Len(tlb.in) < InFifo
    /\ tlb' = [tlb EXCEPT !.in = Append(@, IF mgr.pc = "send1" THEN [port |-> 1, body |-> mgr.part1]
                                           ELSE [port |-> 0, body |-> mgr.msg])]
    /\ mgr' = IF mgr.pc = "send1" THEN [mgr EXCEPT !.pc = "send0"]
              ELSE [pc |-> "part1", part1 |-> 0, msg |-> None]
    /\ UNCHANGED <<cache, boot, channel, op, stopped, lost>>
-----------------------------------------------------------------------------
\* The simulator stops at an exception; the tables do not change.
Runs == stopped = "no" /\ UNCHANGED pt

Next ==
    \/ \E o \in Operand : \E a \in LoadAddr[o] :
        \/ Runs /\ LoadTranslated(o, a)
        \/ Runs /\ LoadJoinsLookup(o, a)
        \/ Runs /\ LoadMissesTLB(o, a)
    \/ \E a \in StoreAddr : Runs /\ StoreTranslated(a)
    \/ \E a \in StoreAddr : Runs /\ StoreDelayed(a)
    \/ \E a \in StoreAddr \cup UNION Range(LoadAddr) : Runs /\ TwoTables(a)
    \/ Runs /\ LookupResponse
    \/ Runs /\ ReadResponses
    \/ Runs /\ ReadWritebacks
    \/ Runs /\ Memory
    \/ Runs /\ Transmit
    \/ Runs /\ ReceivePart
    \/ Runs /\ ReceiveSet
    \/ Runs /\ ReceiveAnswer
    \/ Runs /\ SendSet
    \/ Runs /\ ReceiveNetMsg
    \/ Runs /\ HandleMiss
    \/ Runs /\ SendNetMsg
    \/ \E i \in Invalidations : Runs /\ InvalidateTLB(i.filter, i.page)

Spec == Init /\ [][Next]_vars

\* Processes and the manager's threads run; loads and stores are not promised.
\* The arbitrator of the line to memory prefers the cache's own process to the
\* pipeline (p_service in DRISC.cpp), so a stream of accesses cannot starve it.
FairSpec ==
    /\ Spec
    /\ SF_vars(Runs /\ LookupResponse) /\ WF_vars(Runs /\ ReadResponses)
    /\ WF_vars(Runs /\ ReadWritebacks) /\ WF_vars(Runs /\ Memory)
    /\ WF_vars(Runs /\ Transmit)
    /\ WF_vars(Runs /\ (ReceivePart \/ ReceiveSet \/ ReceiveAnswer))
    /\ WF_vars(Runs /\ (ReceiveNetMsg \/ HandleMiss \/ SendNetMsg))
-----------------------------------------------------------------------------
\* The page-table entry of page v, as the manager's walk finds it, and the
\* table of the TLB whose pages are of its size.
EntryOf(v) == Walk(pt, PtIndex(Context, v)).entry
SizeOf(v) == Levels + 1 - Walk(pt, PtIndex(Context, v)).levels

\* What the TLB says of a page is what the page tables say, in the table of the
\* page's size, whichever answers arrived while its lines were given to other
\* pages; and no page of the smallest size has two entries. A larger page may
\* have: two misses for small pages in it are two pending entries, and each
\* answer is stored in the larger table without a look (storeNormal,
\* Table.cpp:112, called at TLB.cpp:429). What they say is the same.
TranslationsAgree ==
    stopped = "no" =>
        \A n \in Table : \A i \in DOMAIN tlb.table[n].line :
            LET e == tlb.table[n].line[i]
                v == e.vAddr * PageSize[n]
            IN  /\ e.present => /\ EntryOf(v).p /\ SizeOf(v) = n
                                /\ e.pAddr = EntryOf(v).addr
                                /\ e.read = EntryOf(v).r /\ e.write = EntryOf(v).w
                /\ n = 1 /\ ~IsFree(e) => Cardinality(Indexed(tlb.table[n], e.ctx, e.vAddr)) = 1

\* What is under way for pending entry i, in all the places a message can be.
Messages(i) ==
    LET parts == {<<"out", j>> : j \in {k \in DOMAIN tlb.out : tlb.out[k].port = 0 /\ tlb.out[k].body.index = i}}
        asked == {<<"chan", j>> : j \in {k \in DOMAIN channel :
                      "index" \in DOMAIN channel[k] /\ channel[k].index = i}}
        held == IF mgr.msg # None /\ mgr.msg.index = i THEN {<<"mgr", 0>>} ELSE {}
        back == {<<"in", j>> : j \in {k \in DOMAIN tlb.in : tlb.in[k].port = 0 /\ tlb.in[k].body.index = i}}
    IN  parts \cup asked \cup held \cup back

\* Every line of the cache that loads has one answer coming, of its lookup or of
\* memory: as long as no access came between, an answer that went to another
\* line would leave it, and the registers in its list, waiting for ever.
OneAnswerComing ==
    stopped = "no" /\ ~lost /\ (\A j \in DOMAIN cache.lookups : cache.lookups[j].present) =>
        \A l \in LineId : cache.line[l].state = "LOADING" =>
            LET asked == {i \in DOMAIN tlb.table[1].line :
                            IsPending(tlb.table[1].line[i]) /\ tlb.table[1].line[i].ref = l}
                found == {j \in DOMAIN cache.lookups : cache.lookups[j].cid = l}
                sent == {j \in DOMAIN cache.outgoing :
                            ~cache.outgoing[j].write /\ FindLine(cache, cache.outgoing[j].address, {}) = l}
                here == {j \in DOMAIN cache.reads : cache.reads[j] = l}
            IN  /\ Cardinality(asked) + Cardinality(found) + Cardinality(sent) + Cardinality(here) = 1
                /\ \A i \in asked : Cardinality(Messages(i)) = 1

\* A register gets the line its address stands for.  Stated for pages of the
\* smallest size and addresses that the program asks on their first line when
\* the translation is delayed.
LoadsGetTheirLine ==
    ~lost => \A j \in DOMAIN cache.writebacks : \A o \in ToSet(cache.writebacks[j].waiting) :
        LET a == op[o].addr
            p == IF op[o].direct THEN a ELSE EntryOf(PageOf(a)).addr * PageLines + (a % PageLines)
        IN  /\ op[o].state = "waits"
                /\ (op[o].direct \/ SizeOf(PageOf(a)) = 1) => cache.writebacks[j].data = [b \in Byte |-> p]

\* Every load that waits has its answer coming and it is the right one.
AnswersSound == OneAnswerComing /\ LoadsGetTheirLine

\* A load ends unless the simulator stops, or one of the accesses came between
\* that the code cannot answer: a second access to a page that is being asked
\* for, a store to one that is not there, two lists that meet in one line, more
\* answers than the cache's buffer holds.
LoadsEnd ==
    \A o \in Operand : op[o].state # "idle" ~> op[o].state = "idle" \/ stopped # "no" \/ lost
=============================================================================
