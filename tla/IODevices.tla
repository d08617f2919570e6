---------------------------- MODULE IODevices ----------------------------
(*****************************************************************************)
(* Devices on the I/O interconnect (src/arch/dev).                           *)
(*****************************************************************************)
EXTENDS Integers, Sequences, SequencesExt, FiniteSetsExt
-----------------------------------------------------------------------------
(***************************************************************************)
(* The RPC device.  A program fills latches over the bus and starts a       *)
(* request; the device reads the arguments from memory through a core's     *)
(* direct cache access, has the service performed, writes the results back, *)
(* flushes them and notifies the core.  Four processes joined by queues;    *)
(* p is the device's state.                                                 *)
(***************************************************************************)
CONSTANTS
    LineSize,
    MaxArg1, MaxArg2,       \* RPCBufferSize1 and RPCBufferSize2
    RPCQueue,               \* size of each of the four queues
    NoByte                  \* a byte of an argument buffer not written yet

EmptyLatch == [dca |-> 0, channel |-> 0, procedure |-> 0, tag |-> 0, arg1 |-> 0, arg2 |-> 0,
               size1 |-> 0, size2 |-> 0, res1 |-> 0, res2 |-> 0]

InitRPC ==
    [latch |-> EmptyLatch, enabled |-> FALSE,
     incoming |-> <<>>, ready |-> <<>>, completed |-> <<>>, notifications |-> <<>>,
     fetch |-> "READING1", offset |-> 0, pending |-> 0, fetchAsleep |-> FALSE,
     data1 |-> [i \in 1..MaxArg1 |-> NoByte], data2 |-> [i \in 1..MaxArg2 |-> NoByte],
     writeback |-> "WRITING1", written |-> 0, writeAsleep |-> FALSE]
-----------------------------------------------------------------------------
\* OnWriteRequestReceived.  The two words of an address or tag are one here.
Cap(max, n) == Min({max, n})
RPCWriteRequest(p, word, value) ==
    CASE word = 0  -> [p EXCEPT !.enabled = TRUE]
      [] word = 1  -> [p EXCEPT !.latch.dca = value.dca, !.latch.channel = value.channel]
      [] word = 2  -> [p EXCEPT !.latch.procedure = value]
      [] word = 4  -> [p EXCEPT !.latch.tag = value]
      [] word = 6  -> [p EXCEPT !.latch.size1 = Cap(MaxArg1, value)]
      [] word = 7  -> [p EXCEPT !.latch.size2 = Cap(MaxArg1, value)]
      [] word = 8  -> [p EXCEPT !.latch.arg1 = value]
      [] word = 10 -> [p EXCEPT !.latch.arg2 = value]
      [] word = 14 -> [p EXCEPT !.latch.res1 = value]
      [] word = 16 -> [p EXCEPT !.latch.res2 = value]
\* OnReadRequestReceived: the busy flag, the latches and the queue sizes.
RPCReadWord(p, word) ==
    CASE word = 0  -> IF p.enabled THEN 1 ELSE 0
      [] word = 2  -> p.latch.procedure
      [] word = 4  -> p.latch.tag
      [] word = 6  -> p.latch.size1
      [] word = 7  -> p.latch.size2
      [] word = 8  -> p.latch.arg1
      [] word = 10 -> p.latch.arg2
      [] word = 14 -> p.latch.res1
      [] word = 16 -> p.latch.res2
      [] word = 64 -> MaxArg1
      [] word = 65 -> MaxArg2
      [] word = 68 -> Len(p.incoming)
      [] word = 70 -> Len(p.ready)
      [] word = 72 -> Len(p.completed)
      [] word = 74 -> Len(p.notifications)

CanDoQueue(p) == p.enabled /\ Len(p.incoming) < RPCQueue
DoQueue(p) == [p EXCEPT !.incoming = Append(@, p.latch), !.enabled = FALSE]
-----------------------------------------------------------------------------
\* The part of `total' bytes at `base' that a transfer from `offset' on takes:
\* it does not cross a line.
RPCTransfer(base, offset, total) ==
    Min({total - offset, LineSize, LineSize - ((base + offset) % LineSize)})

\* DoArgumentFetch, reading.
Reads(p) == p.incoming # <<>> /\ ~p.fetchAsleep /\ p.fetch \in {"READING1", "READING2"}
FetchBase(p) == IF p.fetch = "READING1" THEN Head(p.incoming).arg1 ELSE Head(p.incoming).arg2
FetchTotal(p) == IF p.fetch = "READING1" THEN Head(p.incoming).size1 ELSE Head(p.incoming).size2
FetchSize(p) == RPCTransfer(FetchBase(p), p.offset, FetchTotal(p))
FetchAddress(p) == FetchBase(p) + p.offset
DoArgumentFetch(p) ==
    LET pending == IF FetchSize(p) > 0 THEN p.pending + 1 ELSE p.pending
    IN  IF p.offset + FetchSize(p) < FetchTotal(p)
        THEN [p EXCEPT !.pending = pending, !.offset = @ + FetchSize(p)]
        ELSE IF p.fetch = "READING1"
        THEN [p EXCEPT !.pending = pending, !.offset = 0, !.fetch = "READING2"]
        ELSE [p EXCEPT !.pending = pending, !.fetch = "FINALIZE", !.fetchAsleep = pending > 0]

\* DoArgumentFetch, when all is there.
CanFinalize(p) ==
    p.incoming # <<>> /\ ~p.fetchAsleep /\ p.fetch = "FINALIZE" /\ Len(p.ready) < RPCQueue
Finalize(p) ==
    LET req == Head(p.incoming)
    IN  [p EXCEPT !.ready = Append(@, [req |-> req, data1 |-> SubSeq(p.data1, 1, req.size1),
                                                    data2 |-> SubSeq(p.data2, 1, req.size2)]),
                  !.fetch = "READING1", !.offset = 0, !.pending = 0, !.incoming = Tail(@)]

\* OnReadResponseReceived: the bytes of an argument, or the end of a flush.
\* The end of the first argument also cuts what is copied to the second.
InArgument(base, size, addr) == addr \in base..(base + size - 1)
Kept(base, size, addr, data) ==
    IF InArgument(base, size, addr) THEN SubSeq(data, 1, Min({Len(data), base + size - addr})) ELSE data
Place(buffer, base, size, addr, data) ==
    [i \in DOMAIN buffer |->
        LET j == base + i - addr
        IN  IF InArgument(base, size, addr) /\ j \in DOMAIN Kept(base, size, addr, data)
            THEN data[j] ELSE buffer[i]]
RPCReadResponse(p, addr, data) ==
    IF data = <<>> THEN [p EXCEPT !.writeAsleep = FALSE]
    ELSE LET req == Head(p.incoming)
         IN  [p EXCEPT !.data1 = Place(@, req.arg1, req.size1, addr, data),
                       !.data2 = Place(@, req.arg2, req.size2, addr,
                                        Kept(req.arg1, req.size1, addr, data)),
                       !.pending = @ - 1,
                       !.fetchAsleep = IF p.fetch = "FINALIZE" /\ p.pending = 1 THEN FALSE ELSE @]
-----------------------------------------------------------------------------
\* DoProcessRequests.  The service is outside; here it returns its arguments.
Service(r) == [data1 |-> r.data1, data2 |-> r.data2]
CanProcess(p) == p.ready # <<>> /\ Len(p.completed) < RPCQueue
DoProcessRequests(p) ==
    LET r == Head(p.ready)
    IN  [p EXCEPT !.completed = Append(@, [req |-> r.req, data1 |-> Service(r).data1,
                                                          data2 |-> Service(r).data2]),
                  !.ready = Tail(@)]

\* DoWriteResponse: results without data or with address 0 are skipped.
HasResult1(c) == c.data1 # <<>> /\ c.req.res1 # 0
HasResult2(c) == c.data2 # <<>> /\ c.req.res2 # 0
Phase(p) ==
    LET c == Head(p.completed)
    IN  CASE p.writeback = "WRITING1" /\ ~HasResult1(c) -> IF HasResult2(c) THEN "WRITING2" ELSE "FINALIZE"
          [] p.writeback = "WRITING2" /\ ~HasResult2(c) -> "BARRIER"
          [] OTHER -> p.writeback
InPhase(p, phases) == p.completed # <<>> /\ ~p.writeAsleep /\ Phase(p) \in phases

ResultBase(p) == LET c == Head(p.completed) IN IF Phase(p) = "WRITING1" THEN c.req.res1 ELSE c.req.res2
ResultData(p) == LET c == Head(p.completed) IN IF Phase(p) = "WRITING1" THEN c.data1 ELSE c.data2
ResultSize(p) == RPCTransfer(ResultBase(p), p.written, Len(ResultData(p)))
ResultBytes(p) == SubSeq(ResultData(p), p.written + 1, p.written + ResultSize(p))
WriteResult(p) ==
    IF p.written + ResultSize(p) < Len(ResultData(p)) THEN [p EXCEPT !.written = @ + ResultSize(p)]
    ELSE IF Phase(p) = "WRITING1" /\ HasResult2(Head(p.completed))
    THEN [p EXCEPT !.written = 0, !.writeback = "WRITING2"]
    ELSE [p EXCEPT !.writeback = "BARRIER"]
Barrier(p) == [p EXCEPT !.writeback = "FINALIZE", !.writeAsleep = TRUE]
CanNotify(p) == InPhase(p, {"FINALIZE"}) /\ Len(p.notifications) < RPCQueue
NotifyCompletion(p) ==
    [p EXCEPT !.notifications = Append(@, Head(p.completed).req),
              !.writeback = "WRITING1", !.written = 0, !.completed = Tail(@)]

\* DoSendCompletionNotifications.
Completion(p) == Head(p.notifications)
CompletionSent(p) == [p EXCEPT !.notifications = Tail(@)]
-----------------------------------------------------------------------------
(***************************************************************************)
(* The active ROM: it copies the loadable ranges of its image into memory   *)
(* through a core's direct cache access, flushes, and then boots the core   *)
(* or notifies it.  Three flags drive its processes.  a is its state; a     *)
(* range is [vaddr, offset, size].                                          *)
(***************************************************************************)
CONSTANT Image       \* the contents, a sequence

\* Initialize: a bootable ROM starts loading, or boots at once if its image
\* has been put into memory beforehand.
InitROM(ranges, bootable, preloaded) ==
    [loading |-> bootable /\ ~preloaded, flushing |-> FALSE, notifying |-> bootable /\ preloaded,
     booting |-> bootable, client |-> 0, channel |-> 0, ranges |-> ranges, current |-> 1, offset |-> 0]
\* A ROM that was written to has a range; an unset size is zero.
EmptyRange == [vaddr |-> 0, offset |-> 0, size |-> 0]

\* OnWriteRequestReceived.  Word 0 starts a load, the others set its place.
ROMWriteRequest(a, word, value) ==
    LET a1 == IF a.ranges = <<>> THEN [a EXCEPT !.ranges = <<EmptyRange>>] ELSE a
    IN  CASE word = 0 -> [a1 EXCEPT !.notifying = FALSE, !.flushing = FALSE, !.loading = TRUE]
          [] word = 1 -> [a1 EXCEPT !.client = value.dca, !.channel = value.channel]
          [] word = 2 -> [a1 EXCEPT !.ranges[1].offset = value]
          [] word = 4 -> [a1 EXCEPT !.ranges[1].vaddr = value]
          [] word = 6 -> [a1 EXCEPT !.ranges[1].size = value]
\* OnReadRequestReceived: the image itself can be read.
ROMReadWord(addr) == Image[addr + 1]

\* DoLoad.
CurrentRange(a) == a.ranges[a.current]
ROMTransfer(a) ==
    Min({CurrentRange(a).size - a.offset, LineSize, LineSize - ((CurrentRange(a).vaddr + a.offset) % LineSize)})
LoadAddress(a) == CurrentRange(a).vaddr + a.offset
LoadBytes(a) ==
    LET from == CurrentRange(a).offset + a.offset IN SubSeq(Image, from + 1, from + ROMTransfer(a))
DoLoad(a) ==
    IF a.offset + ROMTransfer(a) < CurrentRange(a).size THEN [a EXCEPT !.offset = @ + ROMTransfer(a)]
    ELSE IF a.current < Len(a.ranges) THEN [a EXCEPT !.current = @ + 1, !.offset = 0]
    ELSE [a EXCEPT !.flushing = TRUE, !.loading = FALSE, !.current = 1, !.offset = 0]

\* DoFlush, the flush's answer, and DoNotify.
Flushed(a) == [a EXCEPT !.flushing = FALSE]
ROMReadResponse(a) == [a EXCEPT !.notifying = TRUE]
ROMNotified(a) == [a EXCEPT !.notifying = FALSE, !.booting = FALSE]
-----------------------------------------------------------------------------
(***************************************************************************)
(* The real-time clock.  Real time goes by outside of the simulation; the   *)
(* clock compares it with the time of the last interrupt and raises one     *)
(* when the delay has passed.  t is its state; `elapsed' is the difference   *)
(* of the two times.                                                        *)
(***************************************************************************)
CONSTANT MaxElapsed     \* bound: the clock is never behind by more

InitRTC == [elapsed |-> 0, delay |-> 0, all |-> TRUE,
            enabled |-> FALSE, ticked |-> FALSE, notify |-> FALSE, channel |-> 0]

\* OnWriteRequestReceived: a delay of 0 stops the clock and takes back an
\* interrupt that has not been sent.
RTCWriteRequest(t, word, value) ==
    CASE word = 1 /\ value # 0 -> [t EXCEPT !.elapsed = 0, !.enabled = TRUE, !.delay = value]
      [] word = 1 /\ value = 0 -> [t EXCEPT !.notify = FALSE, !.enabled = FALSE, !.delay = 0]
      [] word = 2 -> [t EXCEPT !.channel = value]
      [] word = 3 -> [t EXCEPT !.all = value # 0]
RTCReadWord(t, word) ==
    CASE word = 1 -> t.delay
      [] word = 2 -> t.channel
      [] word = 3 -> IF t.all THEN 1 ELSE 0

\* The host's timer signals that time has passed.
RTCTick(t) == [t EXCEPT !.elapsed = Min({@ + 1, MaxElapsed}), !.ticked = TRUE]

\* DoCheckTime looks once per tick.  Events that come due while the flag is
\* set are merged, whether or not all are to be delivered.
CanCheckTime(t) == t.enabled /\ t.ticked
DoCheckTime(t) ==
    LET t1 == [t EXCEPT !.ticked = FALSE]
    IN  IF t.delay <= t.elapsed
        THEN [t1 EXCEPT !.notify = TRUE, !.elapsed = IF t.all THEN @ - t.delay ELSE 0]
        ELSE t1

\* DoNotifyTime
RTCNotified(t) == [t EXCEPT !.notify = FALSE]
=============================================================================
