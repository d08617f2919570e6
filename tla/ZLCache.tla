------------------------------ MODULE ZLCache -------------------------------
(***************************************************************************)
(* The L2 cache of the zero-latency network.  A read circulates until it    *)
(* has the whole line; a write acquires all tokens, and two requests that   *)
(* meet exchange data and tokens.  lines[c][a] is the valid line with the   *)
(* address, or NoLine.                                                     *)
(***************************************************************************)
EXTENDS ZLNode, Functions

CONSTANTS
    Inject,              \* EnableCacheInjection
    RequestBufferSize,
    Readers, Writers,    \* [Addrs -> caches whose clients read, write the line]
    Writes,              \* what the clients write
    MaxUnacked,          \* bound: writes of a cache not completed
    MaxTokens            \* bound: tokens of a line, those given twice included

ASSUME ZLCacheAssumption == Writes \subseteq Data

NoLine == [valid |-> FALSE, data |-> NoData, tokens |-> 0, priority |-> FALSE, dirty |-> FALSE,
           transient |-> FALSE, reading |-> FALSE, writing |-> FALSE, acks |-> 0]
NewLine == [NoLine EXCEPT !.valid = TRUE]

\* Read and Write: the request is queued.
ClientRead(c, a) ==
    /\ ~aborted /\ c \in Readers[a] /\ Len(bus[c]) < RequestBufferSize
    /\ bus' = [bus EXCEPT ![c] = Append(@, [write |-> FALSE, addr |-> a, data |-> NoData])]
    /\ UNCHANGED <<net, lines, unacked, dirs, roots, mem, aborted>>
ClientWrite(c, a, w) ==
    /\ ~aborted /\ c \in Writers[a] /\ Len(bus[c]) < RequestBufferSize /\ unacked[c] < MaxUnacked
    /\ bus' = [bus EXCEPT ![c] = Append(@, [write |-> TRUE, addr |-> a, data |-> w])]
    /\ unacked' = [unacked EXCEPT ![c] = @ + 1]
    /\ UNCHANGED <<net, lines, dirs, roots, mem, aborted>>

\* The lines of the set; GetReplacementLine prefers an empty way, then the
\* clean line used longest ago, then the dirty one (which one is left open).
InSet(c, a) == {x \in Addrs : SetOf[x] = SetOf[a] /\ lines[c][x].valid}
HasEmptyWay(c, a) == Cardinality(InSet(c, a)) < Assoc
\* Mutant: a line that waits for tokens may be replaced
ReplaceableWriting(c, a) ==
    LET idle == {x \in InSet(c, a) : ~lines[c][x].reading}
        clean == {x \in idle : ~lines[c][x].dirty}
    IN  IF clean # {} THEN clean ELSE idle
Replaceable(c, a) ==
    LET idle == {x \in InSet(c, a) : ~lines[c][x].reading /\ ~lines[c][x].writing}
        clean == {x \in idle : ~lines[c][x].dirty}
    IN  IF clean # {} THEN clean ELSE idle

Evicted(c, x) ==
    LET l == lines[c][x]
    IN  [NewMessage(EVICTION, x, c) EXCEPT !.priority = l.priority, !.dirty = l.dirty,
                                           !.tokens = l.tokens, !.data = l.data]
\* EvictLine, and the request is tried again (DELAYED).
EvictLine(c, a) ==
    /\ ~HasEmptyWay(c, a) /\ CanSend(Cache(c), MINSPACE_FORWARD)
    /\ \E x \in Replaceable(c, a) :
        /\ net' = Sent(outgoing(Cache(c)), Evicted(c, x))
        /\ lines' = [lines EXCEPT ![c][x] = NoLine]
    /\ UNCHANGED <<bus, unacked, dirs, roots, mem, aborted>>

\* Mutant: the request stays in the buffer
ServeAgain(c) == UNCHANGED bus
Serve(c) == bus' = [bus EXCEPT ![c] = Tail(@)]

\* OnReadRequest: a full line is returned, a line that is being read drops the
\* request, and otherwise a READ is sent.
OnReadRequest(c, a) ==
    LET l == lines[c][a]
    IN  IF ~l.valid /\ ~HasEmptyWay(c, a) THEN EvictLine(c, a)
        ELSE /\ Serve(c)
             /\ IF Complete(l.data) \/ l.reading THEN UNCHANGED <<net, lines>>
                ELSE /\ CanSend(Cache(c), MINSPACE_INSERTION)
                     /\ net' = Sent(outgoing(Cache(c)), NewMessage(READ, a, c))
                     /\ lines' = [lines EXCEPT ![c][a] = [(IF l.valid THEN l ELSE NewLine) EXCEPT !.reading = TRUE]]
             /\ UNCHANGED <<unacked, dirs, roots, mem, aborted>>

\* OnWriteRequest: the bytes are written; with all tokens the write is over,
\* otherwise it waits for a request that acquires them.  The priority token
\* travels with the request.
OnWriteRequest(c, a, data) ==
    LET old == lines[c][a]
        l == [(IF old.valid THEN old ELSE NewLine) EXCEPT !.data = Blit(@, data), !.dirty = TRUE]
        exclusive == old.valid /\ ~l.transient /\ l.tokens = TotalTokens
        given == IF l.priority THEN 1 ELSE 0
    IN  IF ~old.valid /\ ~HasEmptyWay(c, a) THEN EvictLine(c, a)
        ELSE IF exclusive /\ ~l.priority THEN Abort
        ELSE /\ Serve(c)
             /\ IF exclusive
                THEN /\ lines' = [lines EXCEPT ![c][a] = l]
                     /\ unacked' = [unacked EXCEPT ![c] = @ - 1] /\ UNCHANGED net
                ELSE IF l.writing
                THEN /\ lines' = [lines EXCEPT ![c][a] = [l EXCEPT !.acks = @ + 1]]
                     /\ UNCHANGED <<net, unacked>>
                ELSE /\ CanSend(Cache(c), MINSPACE_INSERTION)
                     /\ net' = Sent(outgoing(Cache(c)),
                            [NewMessage(ACQUIRE_TOKENS, a, c) EXCEPT
                                !.data = l.data, !.tokens = given, !.priority = l.priority])
                     /\ lines' = [lines EXCEPT ![c][a] =
                            [l EXCEPT !.acks = @ + 1, !.writing = TRUE, !.priority = FALSE, !.tokens = @ - given]]
                     /\ UNCHANGED unacked
             /\ UNCHANGED <<dirs, roots, mem, aborted>>

DoRequests(c) ==
    /\ ~aborted /\ bus[c] # <<>>
    /\ LET req == Head(bus[c])
       IN  IF req.write THEN OnWriteRequest(c, req.addr, req.data) ELSE OnReadRequest(c, req.addr)
-----------------------------------------------------------------------------
\* A message that another cache sent: what it and the line become.
Pass(c, m, l) ==
    /\ CanSend(Cache(c), MINSPACE_FORWARD)
    /\ net' = Passed(incoming(Cache(c)), outgoing(Cache(c)), m)
    /\ lines' = [lines EXCEPT ![c][m.addr] = l]
    /\ UNCHANGED <<bus, unacked, dirs, roots, mem, aborted>>

Notification(c, a, n) == [NewMessage(LOCALDIR_NOTIFICATION, a, c) EXCEPT !.tokens = n]

\* OnAcquireTokensRem, after the exchange of data.
OnAcquireTokensRem(c, m0) ==
    LET l0 == lines[c][m0.addr]
        m == [m0 EXCEPT !.data = Fill(@, l0.data)]
        l == [l0 EXCEPT !.data = Fill(@, m0.data)]
        all == [m EXCEPT !.tokens = @ + l.tokens]
    IN  IF l.reading
        THEN IF ~m.transient \/ l.priority
             THEN Pass(c, [all EXCEPT !.priority = @ \/ l.priority, !.transient = FALSE],
                          [l EXCEPT !.tokens = 0, !.priority = FALSE])
             ELSE Pass(c, m, l)
        ELSE IF ~l.writing
        THEN IF l.tokens = 0 \/ l.transient THEN Abort
             ELSE Pass(c, [all EXCEPT !.priority = @ \/ l.priority, !.transient = @ /\ ~l.priority], NoLine)
        ELSE IF m.priority
        THEN IF m.transient \/ l.priority THEN Abort ELSE Pass(c, all, [l EXCEPT !.tokens = 0])
        ELSE IF l.priority
        THEN LET taken == [l EXCEPT !.tokens = @ + m.tokens]
                 empty == [m EXCEPT !.tokens = 0, !.transient = FALSE]
             IN  IF l.transient \/ (m.transient /\ m.tokens = 0) THEN Abort
                 ELSE IF ~m.transient THEN Pass(c, empty, taken)
                 ELSE \* the notification goes first, the message stays (DELAYED)
                      /\ CanSend(Cache(c), MINSPACE_FORWARD)
                      /\ net' = [net EXCEPT ![incoming(Cache(c))][1] = empty,
                                            ![outgoing(Cache(c))] = Append(@, Notification(c, m.addr, m.tokens))]
                      /\ lines' = [lines EXCEPT ![c][m.addr] = taken]
                      /\ UNCHANGED <<bus, unacked, dirs, roots, mem, aborted>>
        ELSE IF ~m.transient /\ ~l.transient
        THEN Pass(c, [all EXCEPT !.transient = TRUE], [l EXCEPT !.tokens = all.tokens, !.transient = TRUE])
        ELSE Pass(c, m, l)

\* A request that is sent again keeps the tokens it gave to the line.
TokensNow(a) ==
    SumFunction([c \in Caches |-> lines[c][a].tokens])
        + SumFunction([p \in {q \in Places : Msg(q).addr = a} |-> Msg(p).tokens])

\* OnAcquireTokensRet.  Two messages cannot be sent in one cycle: the second
\* push fails when the first is already done.  While writes are left to
\* acknowledge the message stays (DELAYED), one write a cycle, and what has
\* been done to the line so far is done.
OnAcquireTokensRet(c, m) ==
    LET l0 == lines[c][m.addr]
        takes == ~m.transient \/ l0.priority
        tokens == (IF l0.transient /\ ~m.priority THEN 0 ELSE l0.tokens) + (IF takes THEN m.tokens ELSE 0)
        l == [l0 EXCEPT !.data = Fill(@, m.data), !.transient = FALSE,
                        !.priority = @ \/ (takes /\ m.priority)]
        notify == takes /\ m.transient /\ m.tokens > 0
        out == outgoing(Cache(c))
        noted == IF notify THEN Sent(out, Notification(c, m.addr, m.tokens)) ELSE net
    IN  IF ~(l0.valid /\ l0.writing /\ l0.dirty) \/ (l0.transient /\ l0.priority) THEN Abort
        ELSE IF tokens < TotalTokens
        THEN IF notify THEN CanSend(Cache(c), MINSPACE_FORWARD) /\ Abort
             ELSE /\ TokensNow(m.addr) + tokens - l.tokens <= MaxTokens
                  /\ Pass(c, m, [l EXCEPT !.tokens = tokens])
        ELSE /\ notify => CanSend(Cache(c), MINSPACE_FORWARD)
             /\ IF l.acks > 0
                THEN /\ net' = noted
                     /\ lines' = [lines EXCEPT ![c][m.addr] = [l EXCEPT !.acks = @ - 1]]
                     /\ unacked' = [unacked EXCEPT ![c] = @ - 1]
                ELSE /\ net' = [noted EXCEPT ![incoming(Cache(c))] = Tail(@)]
                     /\ lines' = [lines EXCEPT ![c][m.addr] = [l EXCEPT !.tokens = tokens, !.writing = FALSE]]
                     /\ UNCHANGED unacked
             /\ UNCHANGED <<bus, dirs, roots, mem, aborted>>

\* OnReadRem changes the line and the message outside COMMIT: also when the
\* message cannot be sent on yet.
OnReadRem(c, m0) ==
    LET l0 == lines[c][m0.addr]
        m == [m0 EXCEPT !.data = Blit(@, l0.data)]
        l == [l0 EXCEPT !.data = Fill(@, m0.data)]
        steals == l.writing /\ (~l.transient \/ m.priority)
        grabs == ~l.writing /\ m.tokens = 0 /\ l.tokens > 1
        m1 == IF steals THEN [m EXCEPT !.tokens = 0, !.priority = FALSE]
              ELSE IF grabs THEN [m EXCEPT !.tokens = 1] ELSE m
        l1 == IF steals
              THEN [l EXCEPT !.tokens = @ + m.tokens, !.priority = @ \/ m.priority, !.transient = FALSE]
              ELSE IF grabs THEN [l EXCEPT !.tokens = @ - 1] ELSE l
    IN  IF m.transient THEN Abort
        ELSE IF CanSend(Cache(c), MINSPACE_FORWARD) THEN Pass(c, m1, l1)
        ELSE /\ net' = Changed(incoming(Cache(c)), m1)
             /\ lines' = [lines EXCEPT ![c][m.addr] = l1]
             /\ UNCHANGED <<bus, unacked, dirs, roots, mem, aborted>>

\* OnReadRet: the line gets data and tokens; the request goes round again
\* while bytes are missing.
OnReadRet(c, m) ==
    LET l0 == lines[c][m.addr]
        l == [l0 EXCEPT !.data = Fill(@, m.data), !.tokens = @ + m.tokens, !.priority = @ \/ m.priority]
    IN  IF m.transient \/ ~l0.valid \/ ~l0.reading THEN Abort
        ELSE IF ~Complete(l.data) THEN Pass(c, [m EXCEPT !.tokens = 0, !.priority = FALSE], l)
        ELSE /\ net' = Dropped(incoming(Cache(c)))
             /\ lines' = [lines EXCEPT ![c][m.addr] = [l EXCEPT !.reading = FALSE]]
             /\ UNCHANGED <<bus, unacked, dirs, roots, mem, aborted>>

\* OnEviction: merged into the line, or passed on.  An injected line is never
\* marked valid: its message ends in an empty way.
OnEviction(c, m) ==
    LET l == lines[c][m.addr]
        kept == l.valid /\ ~l.transient
        injected == ~l.valid /\ Inject /\ HasEmptyWay(c, m.addr)
    IN  IF ~kept /\ ~injected THEN Pass(c, m, l)
        ELSE /\ net' = Dropped(incoming(Cache(c)))
             /\ lines' = IF injected THEN lines
                         ELSE [lines EXCEPT ![c][m.addr] =
                                [l EXCEPT !.data = Fill(@, m.data), !.tokens = @ + m.tokens,
                                          !.priority = @ \/ m.priority, !.dirty = @ \/ m.dirty]]
             /\ UNCHANGED <<bus, unacked, dirs, roots, mem, aborted>>

\* OnMessageReceived
DoReceive(c) ==
    /\ Waits(incoming(Cache(c)))
    /\ LET m == At(incoming(Cache(c)))
           l == lines[c][m.addr]
       IN  IF m.ignore \/ m.type = LOCALDIR_NOTIFICATION
           THEN IF ~m.ignore /\ m.source = c THEN Abort ELSE Pass(c, m, l)
           ELSE IF m.type = EVICTION THEN OnEviction(c, m)
           ELSE IF m.source = c
           THEN IF m.type = READ THEN OnReadRet(c, m) ELSE OnAcquireTokensRet(c, m)
           ELSE IF ~l.valid THEN Pass(c, m, l)
           ELSE IF m.type = READ THEN OnReadRem(c, m) ELSE OnAcquireTokensRem(c, m)
=============================================================================
