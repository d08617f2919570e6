------------------------------- MODULE DCache -------------------------------
(***************************************************************************)
(* The L1 data cache of a core (DCacheNaive, the configured cache): write   *)
(* through, no allocation on a write, loads that return later.  k is the    *)
(* cache's state.  An operation is described by its guard (the conditions   *)
(* under which the code does not return FAILED) and by the state it leaves: *)
(* a simulated process that fails changes nothing.  An address is the       *)
(* number of a line; tag and set index together are that number.            *)
(***************************************************************************)
EXTENDS Integers, Sequences, SequencesExt, FiniteSets

CONSTANTS
    Byte,           \* the bytes of a line, 0..n
    NoVal,          \* a byte that is not there: a clear bit of valid[] or mask[]
    None,
    NumSets, Assoc, \* geometry of the cache
    LookupBuffer, ReadBuffer, WriteBuffer, WritebackBuffer, OutgoingBuffer

LineId == 0..(NumSets * Assoc - 1)
SetIndex(a) == a % NumSets
LinesOf(a) == (SetIndex(a) * Assoc)..(SetIndex(a) * Assoc + Assoc - 1)

NoData == [b \in Byte |-> NoVal]
\* line::blit under the mask of the source, and line::blitnot under the valid
\* bits of the destination.
Blit(dst, src) == [b \in Byte |-> IF src[b] = NoVal THEN dst[b] ELSE src[b]]
BlitNot(dst, src) == [b \in Byte |-> IF dst[b] = NoVal THEN src[b] ELSE dst[b]]

EmptyLine == [state |-> "EMPTY", tag |-> None, data |-> NoData, waiting |-> <<>>,
              processing |-> FALSE, create |-> FALSE]

InitDCache == [line |-> [l \in LineId |-> EmptyLine], lookups |-> <<>>, reads |-> <<>>,
               writes |-> <<>>, writebacks |-> <<>>, outgoing |-> <<>>]
-----------------------------------------------------------------------------
\* The lines findLine may return for address a; `ignore' is left out.
Matching(k, a, ignore) ==
    {l \in LinesOf(a) \ ignore : k.line[l].state # "EMPTY" /\ k.line[l].tag = a}
FindLine(k, a, ignore) ==
    IF Matching(k, a, ignore) = {} THEN None
    ELSE CHOOSE l \in Matching(k, a, ignore) : \A m \in Matching(k, a, ignore) : l <= m

HasData(line, bytes) == line.state = "FULL" \/ \A b \in bytes : line.data[b] # NoVal

\* getEmptyLine: the first empty line of the set, or else the full line used
\* longest ago; which one that is, is left open.
Victims(k, a) ==
    LET empty == {l \in LinesOf(a) : k.line[l].state = "EMPTY"}
    IN  IF empty # {} THEN {CHOOSE l \in empty : \A m \in empty : l <= m}
        ELSE {l \in LinesOf(a) : k.line[l].state = "FULL"}
ResetLine(line) == [line EXCEPT !.processing = FALSE, !.tag = None, !.waiting = <<>>, !.data = NoData]

\* PushRegister: the register goes to the head of the line's list; a read
\* without a register is the one of a bundle creation.
PushRegister(line, reg) ==
    IF reg = None THEN [line EXCEPT !.create = TRUE] ELSE [line EXCEPT !.waiting = <<reg>> \o @]

Request(write, a, data, wid) == [write |-> write, address |-> a, data |-> data, wid |-> wid]
-----------------------------------------------------------------------------
\* Read2 when the translation of the address is known: the data are there ...
Present(k, a) == FindLine(k, a, {}) # None /\ k.line[FindLine(k, a, {})].state # "INVALID"
ReadHits(k, a, bytes) == Present(k, a) /\ HasData(k.line[FindLine(k, a, {})], bytes)
ReadData(k, a) == k.line[FindLine(k, a, {})].data
\* ... or they are on their way ...
ReadJoins(k, a, bytes) == Present(k, a) /\ ~HasData(k.line[FindLine(k, a, {})], bytes)
JoinLine(k, a, reg) == [k EXCEPT !.line[FindLine(k, a, {})] = PushRegister(@, reg)]
\* ... or a line l of the set is taken and requested.
ReadMisses(k, a, l) == ~Present(k, a) /\ l \in Victims(k, a) /\ Len(k.outgoing) < OutgoingBuffer
LoadLine(k, a, l, reg) ==
    [k EXCEPT !.line[l] = PushRegister([ResetLine(@) EXCEPT !.state = "LOADING", !.tag = a], reg),
              !.outgoing = Append(@, Request(FALSE, a, NoData, None))]

\* Read2 when the translation is being looked up: the line waits with tag zero,
\* which is the first address of its set.  The code keeps no more of the address
\* than whether it is zero (address && mask): the line within the page is
\* forgotten here.
ReadWaitsForLookup(k, a, l) == l \in Victims(k, a)
LookupLine(k, l, reg) ==
    [k EXCEPT !.line[l] = PushRegister([ResetLine(@) EXCEPT !.state = "LOADING", !.tag = l \div Assoc], reg)]

\* Write2: stalls on a line that is being loaded, updates one that is full and
\* sends the bytes on.
CanWrite(k, a) ==
    /\ FindLine(k, a, {}) # None => k.line[FindLine(k, a, {})].state = "FULL"
    /\ Len(k.outgoing) < OutgoingBuffer
WriteLine(k, a, data, wid) ==
    LET l == FindLine(k, a, {})
        k1 == IF l = None THEN k ELSE [k EXCEPT !.line[l].data = Blit(@, data)]
    IN  [k1 EXCEPT !.outgoing = Append(@, Request(TRUE, a, data, wid))]
-----------------------------------------------------------------------------
\* IMemoryCallback.  A read completion is for the line that is being loaded;
\* bytes written meanwhile are kept, and so are writes not sent yet.
OutgoingWrites(k, a, data) ==
    [b \in Byte |->
        LET over == {i \in DOMAIN k.outgoing : /\ k.outgoing[i].write /\ k.outgoing[i].address = a
                                               /\ k.outgoing[i].data[b] # NoVal}
        IN  IF over = {} THEN data[b]
            ELSE k.outgoing[CHOOSE i \in over : \A j \in over : j <= i].data[b]]
Awaits(k, a) ==
    LET l == FindLine(k, a, {}) IN l # None /\ k.line[l].state # "FULL" /\ ~k.line[l].processing
CanReadComplete(k, a) == Awaits(k, a) => Len(k.reads) < ReadBuffer
OnMemoryReadCompleted(k, a, data) ==
    LET l == FindLine(k, a, {})
    IN  IF ~Awaits(k, a) THEN k
        ELSE [k EXCEPT !.line[l].data = BlitNot(@, OutgoingWrites(k, a, data)),
                       !.line[l].processing = TRUE,
                       !.reads = Append(@, l)]
CanWriteComplete(k) == Len(k.writes) < WriteBuffer
OnMemoryWriteCompleted(k, wid) == [k EXCEPT !.writes = Append(@, wid)]
\* Mutant: the data of a snooped write are dropped while the line is loading
SnoopedWhenFull(k, a, data) ==
    LET l == FindLine(k, a, {})
    IN  IF l = None \/ k.line[l].state # "FULL" THEN k ELSE [k EXCEPT !.line[l].data = Blit(@, data)]
OnMemorySnooped(k, a, data) ==
    LET l == FindLine(k, a, {})
    IN  IF l = None THEN k ELSE [k EXCEPT !.line[l].data = Blit(@, data)]
OnMemoryInvalidated(k, a) ==
    LET l == FindLine(k, a, {})
    IN  IF l = None THEN k
        ELSE [k EXCEPT !.line[l].state = CASE @ = "FULL"    -> "EMPTY"
                                           [] @ = "LOADING" -> "INVALID"
                                           [] OTHER         -> @]
-----------------------------------------------------------------------------
\* initiateWriteback: a bundle creation that waits for the line gets it, and
\* the waiting registers are queued with a copy of the data.
CanWriteback(k, line) == line.waiting = <<>> \/ Len(k.writebacks) < WritebackBuffer
\* Mutant: the list of waiting registers is not handed over
InitiateWritebackLost(k, l) == [k EXCEPT !.line[l].create = FALSE]
InitiateWriteback(k, l) ==
    LET line == k.line[l]
        k1 == [k EXCEPT !.line[l].create = FALSE]
    IN  IF line.waiting = <<>> THEN k1
        ELSE [k1 EXCEPT !.writebacks = Append(@, [data |-> line.data, waiting |-> line.waiting])]

CanDoReadResponses(k) == k.reads # <<>> /\ CanWriteback(k, k.line[Head(k.reads)])
DoReadResponses(k) ==
    LET l == Head(k.reads)
    IN  [InitiateWriteback(k, l) EXCEPT
            !.line[l].waiting = <<>>,
            !.line[l].state = IF @ = "INVALID" THEN "EMPTY" ELSE "FULL",
            !.reads = Tail(@)]

\* DoLookupResponses for the front response.  `a' is the first line of the
\* page the translation gives.  When another line has the address, its list is
\* replaced by the one of this line (PushRegister with the address of a list),
\* and if it has the data its list is queued but not cleared.
CanDoLookupResponses(k, a) ==
    LET l == Head(k.lookups).cid
        other == FindLine(k, a, {l})
    IN  IF other # None
        THEN HasData(k.line[other], Byte) => Len(k.writebacks) < WritebackBuffer
        ELSE Len(k.outgoing) < OutgoingBuffer
DoLookupResponses(k, a) ==
    LET l == Head(k.lookups).cid
        list == k.line[l].waiting
        other == FindLine(k, a, {l})
        moved == [k EXCEPT !.line[other].waiting = IF list = <<>> THEN @ ELSE list,
                           !.line[other].create = @ \/ list = <<>>,
                           !.line[l].waiting = <<>>, !.line[l].state = "EMPTY"]
        k1 == IF other = None
              THEN [k EXCEPT !.line[l].tag = (a \div NumSets) * NumSets + l \div Assoc,
                             !.outgoing = Append(@, Request(FALSE, a, NoData, None))]
              ELSE IF HasData(k.line[other], Byte) THEN InitiateWriteback(moved, other) ELSE moved
    IN  [k1 EXCEPT !.lookups = Tail(@)]
\* A response without a line (a write asked) is dropped.
DropLookupResponse(k) == [k EXCEPT !.lookups = Tail(@)]
OnTLBLookupCompleted(k, cid, ref, present) ==
    [k EXCEPT !.lookups = Append(@, [cid |-> cid, ref |-> ref, present |-> present])]
=============================================================================
