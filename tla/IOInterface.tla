---------------------------- MODULE IOInterface ----------------------------
(*****************************************************************************)
(* The I/O interface of a core (src/arch/drisc): what its threads and the    *)
(* devices on the interconnect use to reach each other.                      *)
(*****************************************************************************)
EXTENDS Integers, Sequences
-----------------------------------------------------------------------------
(***************************************************************************)
(* The read response multiplexer of a core's I/O interface.  Per device the *)
(* registers that wait for an answer are queued in the order of the reads;  *)
(* the answers themselves arrive in one queue.  r is its state.             *)
(***************************************************************************)
CONSTANTS
    Device, WritebackQueue, IncomingQueue

InitResponses == [wb |-> [d \in Device |-> <<>>], incoming |-> <<>>]

CanQueueWriteBackAddress(r, dev) == Len(r.wb[dev]) < WritebackQueue
QueueWriteBackAddress(r, dev, reg) == [r EXCEPT !.wb[dev] = Append(@, reg)]

CanReceiveResponse(r) == Len(r.incoming) < IncomingQueue
OnReadResponseReceived(r, from, data) ==
    [r EXCEPT !.incoming = Append(@, [device |-> from, data |-> data])]

\* DoReceivedReadResponses: the first answer belongs to the first register of
\* its device.  Mutant: the register queued last
LastRegister(r) == LET q == r.wb[Head(r.incoming).device] IN q[Len(q)]
AnsweredRegister(r) == Head(r.wb[Head(r.incoming).device])
AnswerData(r) == Head(r.incoming).data
\* ... which the pipeline must have marked as pending.
CanDoReceivedReadResponses(r, pending) ==
    r.incoming # <<>> /\ AnsweredRegister(r) \in pending
DoReceivedReadResponses(r) ==
    [r EXCEPT !.wb[Head(r.incoming).device] = Tail(@), !.incoming = Tail(@)]
-----------------------------------------------------------------------------
(***************************************************************************)
(* The notification multiplexer of a core's I/O interface.  A channel has   *)
(* an enable bit, one register that waits for an event, a latch for         *)
(* interrupts and a queue of notification tags.  n is its state.            *)
(***************************************************************************)
CONSTANTS
    NumChannels, NotificationQueue, None

Channel == 0..(NumChannels - 1)

\* The channels in `enabled' have been enabled by the program before.
InitNotifications(enabled) ==
    [mask |-> [c \in Channel |-> c \in enabled], wb |-> [c \in Channel |-> None],
     intr |-> [c \in Channel |-> FALSE], tags |-> [c \in Channel |-> <<>>], last |-> 0]

ConfigureChannel(n, c, mode) == [n EXCEPT !.mask[c] = mode]

\* SetWriteBackAddress: one listener at a time.
CanSetWriteBackAddress(n, c) == n.wb[c] = None
SetWriteBackAddress(n, c, reg) == [n EXCEPT !.wb[c] = reg]

\* Events of a disabled channel are dropped; interrupts share one latch.
OnInterruptRequestReceived(n, c) == IF n.mask[c] THEN [n EXCEPT !.intr[c] = TRUE] ELSE n
CanReceiveNotification(n, c) == n.mask[c] => Len(n.tags[c]) < NotificationQueue
OnNotificationReceived(n, c, tag) ==
    IF n.mask[c] THEN [n EXCEPT !.tags[c] = Append(@, tag)] ELSE n
-----------------------------------------------------------------------------
HasEvent(n, c) == n.intr[c] \/ n.tags[c] # <<>>

\* A channel DoReceivedNotifications stops at: an event and a listener, an
\* event to drain, or a listener of a disabled channel to release.
\* Mutant: the listener of a disabled channel is left alone
NotifiableWithEvent(n, c) == HasEvent(n, c) /\ (~n.mask[c] \/ n.wb[c] # None)
Notifiable(n, c) ==
    \/ HasEvent(n, c) /\ (~n.mask[c] \/ n.wb[c] # None)
    \/ ~HasEvent(n, c) /\ ~n.mask[c] /\ n.wb[c] # None
\* The search is circular and starts at the channel served last.
Distance(n, c) == (c - n.last + NumChannels) % NumChannels
IsNext(n, c) ==
    /\ Notifiable(n, c)
    /\ \A d \in Channel : Notifiable(n, d) => Distance(n, c) <= Distance(n, d)

\* An interrupt goes before a notification; a released listener reads 0.
EventValue(n, c) == IF n.intr[c] \/ n.tags[c] = <<>> THEN 0 ELSE Head(n.tags[c])
Drain(n, c) ==
    [n EXCEPT !.intr[c] = FALSE, !.tags[c] = IF @ = <<>> THEN @ ELSE Tail(@), !.last = c]
Notify(n, c) ==
    [n EXCEPT !.wb[c] = None, !.intr[c] = FALSE,
              !.tags[c] = IF n.intr[c] \/ @ = <<>> THEN @ ELSE Tail(@), !.last = c]
-----------------------------------------------------------------------------
(***************************************************************************)
(* The direct cache access of a core's I/O interface: reads and writes of   *)
(* devices in the core's memory, and flushes (a read of nothing at address  *)
(* 0) that are answered when no write is left.  One read or flush is         *)
(* outstanding at a time; the others wait in the queue.  d is its state.     *)
(***************************************************************************)
CONSTANTS
    LineSize, RequestQueue, ResponseQueue

Nothing == <<>>         \* no data: size 0

InitDCA == [requests |-> <<>>, responses |-> <<>>, writes |-> 0,
            outstanding |-> None, flushing |-> FALSE]

LineOf(addr) == addr - (addr % LineSize)

\* OnReadRequestReceived and OnWriteRequestReceived of the bus interface.
Read(client, addr, size) ==
    [type |-> IF addr = 0 /\ size = 0 THEN "FLUSH" ELSE "READ",
     client |-> client, address |-> addr, size |-> size, data |-> Nothing]
Write(client, addr, data) ==
    [type |-> "WRITE", client |-> client, address |-> addr, size |-> Len(data), data |-> data]

CanQueueRequest(d) == Len(d.requests) < RequestQueue
QueueRequest(d, req) == [d EXCEPT !.requests = Append(@, req)]

\* Completions of the memory, which reports every read of the cache to all
\* of its clients, and a write only with the id its client gave.
Response(addr, data) == [address |-> addr, data |-> data]
CanComplete(d) == Len(d.responses) < ResponseQueue
OnMemoryReadCompleted(d, line, data) == [d EXCEPT !.responses = Append(@, Response(line, data))]
OnMemoryWriteCompleted(d) == [d EXCEPT !.responses = Append(@, Response(0, Nothing))]
-----------------------------------------------------------------------------
\* DoMemoryOutgoing.  A flush without writes answers itself.
Outstanding(req) == [client |-> req.client, address |-> req.address, size |-> req.size]
NextRequest(d) == Head(d.requests)
CanFlush(d) ==
    /\ d.requests # <<>> /\ NextRequest(d).type = "FLUSH"
    /\ d.outstanding = None
    /\ d.writes = 0 => Len(d.responses) < ResponseQueue
Flush(d) ==
    LET d1 == [d EXCEPT !.flushing = TRUE, !.outstanding = Outstanding(NextRequest(d)),
                        !.requests = Tail(@)]
    IN  IF d.writes > 0 THEN d1
        ELSE [d1 EXCEPT !.writes = 1, !.responses = Append(@, Response(0, Nothing))]
CanReadMemory(d) ==
    d.requests # <<>> /\ NextRequest(d).type = "READ" /\ d.outstanding = None
ReadMemory(d) == [d EXCEPT !.outstanding = Outstanding(NextRequest(d)), !.requests = Tail(@)]
CanWriteMemory(d) == d.requests # <<>> /\ NextRequest(d).type = "WRITE"
WriteMemory(d) == [d EXCEPT !.writes = @ + 1, !.requests = Tail(@)]
-----------------------------------------------------------------------------
\* DoBusOutgoing.  A write's completion is counted; the last one before a
\* flush is answered, and so is a response that holds the outstanding read.
IsWriteCompletion(res) == res = Response(0, Nothing)
EndsFlush(d) == d.writes = 1 /\ d.flushing
Covers(res, o) ==
    /\ res.address <= o.address
    /\ res.address + Len(res.data) >= o.address + o.size
\* Mutant: the last write before the flush is not waited for
AnswersEarly(d) ==
    LET res == Head(d.responses)
    IN  d.outstanding # None /\ Covers(res, d.outstanding)
Answers(d) ==
    LET res == Head(d.responses)
    IN  /\ d.outstanding # None
        /\ IsWriteCompletion(res) => EndsFlush(d)
        /\ Covers(res, d.outstanding)
AnswerTo(d) == d.outstanding.client
AnswerBytes(d) ==
    LET res == Head(d.responses)
        o == d.outstanding
    IN  SubSeq(res.data, o.address - res.address + 1, o.address - res.address + o.size)
DoBusOutgoing(d) ==
    [d EXCEPT !.writes = IF IsWriteCompletion(Head(d.responses)) THEN @ - 1 ELSE @,
              !.flushing = IF IsWriteCompletion(Head(d.responses)) /\ EndsFlush(d) THEN FALSE ELSE @,
              !.outstanding = IF Answers(d) THEN None ELSE @,
              !.responses = Tail(@)]
=============================================================================
