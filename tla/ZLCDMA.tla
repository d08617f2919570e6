------------------------------- MODULE ZLCDMA -------------------------------
(***************************************************************************)
(* The zero-latency CDMA network: the caches with the directories between   *)
(* two rings and the root directories, under clients that read and write at *)
(* any time.                                                                *)
(***************************************************************************)
EXTENDS ZLCache
-----------------------------------------------------------------------------
(***************************************************************************)
(* The directory between a ring of caches and the top ring: it counts the   *)
(* permanent tokens below it.                                              *)
(***************************************************************************)

Lacks(d, a) == dirs[d][a] = None
\* AllocateLine finds a way: m_assoc * numCachesPerDir of them in a set.
CanAllocate(d, a) ==
    Cardinality({x \in Addrs : SetOf[x] = SetOf[a] /\ ~Lacks(d, x)}) < Assoc * CachesPerDir

\* OnMessageReceivedBottom: tokens leave the group, unless the message only
\* passes through or the tokens are transient.
Leaving(m) == IF m.ignore \/ m.transient THEN 0 ELSE m.tokens
DoInBottom(d) ==
    LET from == incoming(Bottom(d))
        m == At(from)
        notified == m.type = LOCALDIR_NOTIFICATION /\ ~m.ignore
    IN  /\ Waits(from)
        /\ IF \/ notified /\ Lacks(d, m.addr)
              \/ ~notified /\ Leaving(m) > 0 /\ Lacks(d, m.addr)
              \/ m.type = EVICTION /\ ~m.ignore /\ (m.tokens = 0 \/ m.transient \/ ~IsBelow(d, m.source))
           THEN Abort
           ELSE /\ IF notified
                   THEN /\ net' = Dropped(from)
                        /\ dirs' = [dirs EXCEPT ![d][m.addr] = @ + m.tokens]
                   ELSE /\ CanSend(Top(d), MINSPACE_FORWARD)
                        /\ net' = Passed(from, outgoing(Top(d)), [m EXCEPT !.ignore = FALSE])
                        /\ dirs' = IF Leaving(m) = 0 THEN dirs
                                   ELSE [dirs EXCEPT ![d][m.addr] = IF @ = Leaving(m) THEN None ELSE @ - Leaving(m)]
                /\ UNCHANGED <<lines, bus, unacked, roots, mem, aborted>>

\* OnMessageReceivedTop: a request of the group, or one for a line that the
\* group has, goes down; everything else stays on the top ring if it can.
\* AllocateLine is outside COMMIT: it takes effect although nothing is sent.
DoInTop(d) ==
    LET from == incoming(Top(d))
        m == At(from)
        mine == IsBelow(d, m.source)
        wanted == m.type # EVICTION /\ (mine \/ ~Lacks(d, m.addr))
        counted == IF mine /\ ~m.transient THEN m.tokens ELSE 0
        entry == IF Lacks(d, m.addr) THEN 0 ELSE dirs[d][m.addr]
    IN  /\ Waits(from)
        /\ IF \/ wanted /\ Lacks(d, m.addr) /\ ~CanAllocate(d, m.addr)
              \/ m.type = LOCALDIR_NOTIFICATION
              \/ m.type = EVICTION /\ mine
           THEN Abort
           ELSE /\ IF wanted
                   THEN IF CanSend(Bottom(d), MINSPACE_FORWARD)
                        THEN /\ dirs' = [dirs EXCEPT ![d][m.addr] = entry + counted]
                             /\ net' = Passed(from, outgoing(Bottom(d)), m)
                        ELSE /\ Lacks(d, m.addr)
                             /\ dirs' = [dirs EXCEPT ![d][m.addr] = 0]
                             /\ UNCHANGED net
                   ELSE /\ IF CanSend(Top(d), MINSPACE_SHORTCUT)
                           THEN net' = Passed(from, outgoing(Top(d)), m)
                           ELSE /\ CanSend(Bottom(d), MINSPACE_FORWARD)
                                /\ net' = Passed(from, outgoing(Bottom(d)), [m EXCEPT !.ignore = TRUE])
                        /\ UNCHANGED dirs
                /\ UNCHANGED <<lines, bus, unacked, roots, mem, aborted>>
-----------------------------------------------------------------------------
(***************************************************************************)
(* The root directory: it introduces all tokens of a line with the first    *)
(* request, reads the data when a read wants them, and ends the evictions.  *)
(***************************************************************************)
CONSTANTS OutputQueueSize, InputQueueSize

RootOf(a) == a % NumRoots

NoEntry == [valid |-> FALSE, loading |-> FALSE, data |-> FALSE, tokens |-> 0, priority |-> FALSE]
Introduced == [NoEntry EXCEPT !.valid = TRUE]

HasEmptyLine(a) ==
    Cardinality({x \in Addrs : SetOf[x] = SetOf[a] /\ RootOf(x) = RootOf(a) /\ roots[x].valid})
        < Assoc * CachesPerDir * NumDirs

\* The request leaves with the tokens of the directory, or with all of them
\* when the line enters the system.
WithAll(m) == [m EXCEPT !.tokens = TotalTokens, !.priority = TRUE]
WithTokens(m, e) == [m EXCEPT !.tokens = @ + e.tokens, !.priority = @ \/ e.priority]
\* Mutant: the directory keeps the priority token it gave away
WithoutTokens(e) == [e EXCEPT !.tokens = 0]
Without(e) == [e EXCEPT !.tokens = 0, !.priority = FALSE]

\* OnMessageReceived: to the next node, or the long way through the queues.
Forward(r, m, e) ==
    /\ roots' = [roots EXCEPT ![m.addr] = e]
    /\ IF CanSend(Root(r), MINSPACE_SHORTCUT)
       THEN net' = Passed(incoming(Root(r)), outgoing(Root(r)), m)
       ELSE /\ HasSpace(requests(r), OutputQueueSize, 1)
            /\ net' = Passed(incoming(Root(r)), requests(r), [m EXCEPT !.ignore = TRUE])
Fetch(r, m, e) ==
    /\ roots' = [roots EXCEPT ![m.addr] = e]
    /\ HasSpace(requests(r), OutputQueueSize, 1)
    /\ net' = Passed(incoming(Root(r)), requests(r), m)

RootRead(r, m, e) ==
    IF ~e.valid THEN Fetch(r, WithAll(m), [Introduced EXCEPT !.loading = TRUE])
    ELSE IF e.loading THEN Forward(r, m, e)
    ELSE IF Complete(m.data) THEN Forward(r, WithTokens(m, e), [Without(e) EXCEPT !.data = TRUE])
    ELSE IF ~e.data THEN Fetch(r, WithTokens(m, e), [Without(e) EXCEPT !.loading = TRUE])
    ELSE Forward(r, WithTokens(m, e), Without(e))

RootAcquire(r, m, e) ==
    IF m.transient THEN Forward(r, m, e)
    ELSE IF ~e.valid THEN Forward(r, WithAll(m), Introduced)
    ELSE IF e.tokens > 0 THEN Forward(r, WithTokens(m, e), Without(e))
    ELSE Forward(r, m, e)

RootEviction(r, m, e) ==
    LET e1 == [e EXCEPT !.tokens = @ + m.tokens, !.priority = @ \/ m.priority]
    IN  /\ roots' = [roots EXCEPT ![m.addr] = IF e1.tokens = TotalTokens THEN NoEntry ELSE e1]
        /\ IF m.dirty
           THEN /\ HasSpace(requests(r), OutputQueueSize, 1)
                /\ net' = Passed(incoming(Root(r)), requests(r), m)
           ELSE net' = Dropped(incoming(Root(r)))

RootAsserts(m, e) ==
    /\ m.type \in {READ, ACQUIRE_TOKENS, EVICTION}
    /\ m.type = READ => ~m.transient
    /\ m.type # EVICTION /\ ~e.valid /\ ~m.transient =>
           HasEmptyLine(m.addr) /\ m.tokens = 0 /\ ~m.priority
    /\ m.type = EVICTION =>
           /\ e.valid /\ ~e.loading /\ m.tokens > 0
           /\ e.tokens + m.tokens = TotalTokens => e.priority \/ m.priority

DoIncoming(r) ==
    LET m == At(incoming(Root(r)))
        e == roots[m.addr]
    IN  /\ Waits(incoming(Root(r)))
        /\ IF RootOf(m.addr) # r THEN Forward(r, m, e) /\ UNCHANGED <<lines, bus, unacked, dirs, mem, aborted>>
           ELSE IF ~RootAsserts(m, e) THEN Abort
           ELSE /\ CASE m.type = READ           -> RootRead(r, m, e)
                     [] m.type = ACQUIRE_TOKENS -> RootAcquire(r, m, e)
                     [] m.type = EVICTION       -> RootEviction(r, m, e)
                /\ UNCHANGED <<lines, bus, unacked, dirs, mem, aborted>>

\* DoRequests: to the DDR channel and back, or straight back.  A writeback
\* stores the whole line, the bytes the evicted line lacked included.
RootDoRequests(r) ==
    LET m == At(requests(r))
    IN  /\ Waits(requests(r))
        /\ IF m.ignore
           THEN /\ HasSpace(responses(r), InputQueueSize, 1)
                /\ net' = Passed(requests(r), responses(r), m) /\ UNCHANGED mem
           ELSE IF m.type = READ
           THEN net' = Passed(requests(r), active(r), m) /\ UNCHANGED mem
           ELSE net' = Dropped(requests(r)) /\ mem' = [mem EXCEPT ![m.addr] = m.data]
        /\ UNCHANGED <<lines, bus, unacked, dirs, roots, aborted>>

OnReadCompleted(r) ==
    LET m == At(active(r))
    IN  /\ Waits(active(r)) /\ HasSpace(responses(r), InputQueueSize, 1)
        /\ net' = Passed(active(r), responses(r),
                         [m EXCEPT !.data = Fill(@, mem[m.addr]), !.dirty = FALSE])
        /\ UNCHANGED <<lines, bus, unacked, dirs, roots, mem, aborted>>

DoResponses(r) ==
    LET m == At(responses(r))
        e == roots[m.addr]
    IN  /\ Waits(responses(r))
        /\ IF ~m.ignore /\ ~(e.valid /\ e.loading) THEN Abort
           ELSE /\ CanSend(Root(r), MINSPACE_FORWARD)
                /\ net' = Passed(responses(r), outgoing(Root(r)), [m EXCEPT !.ignore = FALSE])
                /\ roots' = IF m.ignore THEN roots
                            ELSE [roots EXCEPT ![m.addr].loading = FALSE, ![m.addr].data = TRUE]
                /\ UNCHANGED <<lines, bus, unacked, dirs, mem, aborted>>
-----------------------------------------------------------------------------

Init ==
    /\ net = [ch \in Channels |-> <<>>]
    /\ lines = [c \in Caches |-> [a \in Addrs |-> NoLine]]
    /\ bus = [c \in Caches |-> <<>>]
    /\ unacked = [c \in Caches |-> 0]
    /\ dirs = [d \in Directories |-> [a \in Addrs |-> None]]
    /\ roots = [a \in Addrs |-> NoEntry]
    /\ mem = [a \in Addrs |-> [b \in Bytes |-> CHOOSE v \in Values : TRUE]]
    /\ aborted = FALSE

Next ==
    \/ \E c \in Caches, a \in Addrs : ClientRead(c, a) \/ \E w \in Writes : ClientWrite(c, a, w)
    \/ \E n \in Nodes : DoForward(n)
    \/ \E c \in Caches : DoRequests(c) \/ DoReceive(c)
    \/ \E d \in Directories : DoInBottom(d) \/ DoInTop(d)
    \/ \E r \in Roots : DoIncoming(r) \/ RootDoRequests(r) \/ OnReadCompleted(r) \/ DoResponses(r)

Spec == Init /\ [][Next]_zlVars
-----------------------------------------------------------------------------
Under(a, type) == {p \in Places : Msg(p).addr = a /\ Msg(p).type = type}
Written(p) == p[1][1] = "requests" /\ Msg(p).type = EVICTION /\ ~Msg(p).ignore

\* A line waits for a read, or for the tokens of a write, exactly while one
\* such request of its cache is on the rings (the assertions at its return).
OneRequestPerPendingLine ==
    \A c \in Caches, a \in Addrs :
        LET mine(type) == Cardinality({p \in Under(a, type) : Msg(p).source = c})
        IN  /\ mine(READ) = IF lines[c][a].reading THEN 1 ELSE 0
            /\ mine(ACQUIRE_TOKENS) = IF lines[c][a].writing THEN 1 ELSE 0

\* Every write is completed once: it waits on the bus or in the ack_queue of a
\* line that is acquiring tokens.
Waiting(c) == UNION {{a} \X (1..lines[c][a].acks) : a \in Addrs}
WritesAckedOnce ==
    \A c \in Caches :
        /\ \A a \in Addrs : lines[c][a].acks > 0 => lines[c][a].writing
        /\ unacked[c] = Cardinality({k \in DOMAIN bus[c] : bus[c][k].write}) + Cardinality(Waiting(c))

\* The priority token of a line in the system has one owner, the cache of the
\* line or of the request that carries it, an eviction or the root directory:
\* it decides who wins when two writers meet.
Owners(a) ==
    {<<"cache", c>> : c \in {c \in Caches :
        \/ lines[c][a].priority
        \/ \E p \in Under(a, READ) \cup Under(a, ACQUIRE_TOKENS) : Msg(p).priority /\ Msg(p).source = c}}
    \cup {p \in Under(a, EVICTION) : Msg(p).priority /\ ~Written(p)}
    \cup {<<"root", x>> : x \in {x \in {a} : roots[x].priority}}
OnePriorityToken ==
    ~aborted => \A a \in Addrs : Cardinality(Owners(a)) = IF roots[a].valid THEN 1 ELSE 0

-----------------------------------------------------------------------------
(* What the code says of itself and does not keep: the README tells how.     *)

\* The simulator's own assertions hold.
AssertionsHold == ~aborted

\* No write ends in memory with bytes that were never loaded or written.
MemoryWhole == \A a \in Addrs : Complete(mem[a])
=============================================================================
