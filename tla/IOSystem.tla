------------------------------ MODULE IOSystem ------------------------------
(***************************************************************************)
(* The I/O side of one core: its threads, its I/O interface (bus interface, *)
(* response and notification multiplexers, direct cache access), the        *)
(* interconnect, and an RPC device, an active ROM and a clock on it.  The    *)
(* core's memory serves the operations of the direct cache access in any     *)
(* order between lines, and reports reads of the data cache as well.         *)
(***************************************************************************)
EXTENDS Integers, Sequences, FiniteSets, SequencesExt, FiniteSetsExt
-----------------------------------------------------------------------------
(***************************************************************************)
(* The I/O interconnect and its messages.  Every endpoint receives through *)
(* a buffer; the endpoints in Buffered also send through one, the others    *)
(* (the cores, which queue their requests themselves) put a message straight *)
(* into the destination's buffer.  b is the state of the interconnect.  The *)
(* arbitration of the medium or of the endpoint's port decides which of the *)
(* waiting senders goes next; here any of them may.                         *)
(***************************************************************************)
CONSTANTS
    Device,                     \* device identifiers on the bus
    Buffered,                   \* the endpoints with IOSourceBufferingEnabled
    TakesInterrupts,            \* the receivers of broadcasts: the cores
    InBuffer, OutBuffer         \* BufferSize of an endpoint's two buffers

ASSUME EndpointsAssumption == Buffered \subseteq Device /\ TakesInterrupts \subseteq Device

ReadRequest(from, addr, size) == [type |-> "READ_REQUEST", from |-> from, addr |-> addr, size |-> size]
ReadResponse(from, addr, data) == [type |-> "READ_RESPONSE", from |-> from, addr |-> addr, data |-> data]
WriteRequest(from, addr, data) == [type |-> "WRITE_REQUEST", from |-> from, addr |-> addr, data |-> data]
InterruptRequest(chan) == [type |-> "INTERRUPT_REQUEST", channel |-> chan]
Notification(chan, tag) == [type |-> "NOTIFICATION", channel |-> chan, tag |-> tag]
ActiveMessage(pc) == [type |-> "ACTIVE_MESSAGE", pc |-> pc]

InitBus == [in |-> [d \in Device |-> <<>>], out |-> [d \in Buffered |-> <<>>]]
-----------------------------------------------------------------------------
\* ReceiveMessage of the destination's buffer; a broadcast needs a place at
\* every receiver of interrupts at once.
CanReach(b, dsts) == \A d \in dsts : Len(b.in[d]) < InBuffer
Reach(b, dsts, msg) ==
    [b EXCEPT !.in = [d \in Device |-> IF d \in dsts THEN Append(@[d], msg) ELSE @[d]]]

\* SendMessage and SendBroadcast: into the sender's buffer if it has one.
CanSend(b, src, dsts) ==
    IF src \in Buffered THEN Len(b.out[src]) < OutBuffer ELSE CanReach(b, dsts)
Send(b, src, dsts, msg) ==
    IF src \in Buffered THEN [b EXCEPT !.out[src] = Append(@, [dsts |-> dsts, msg |-> msg])]
    ELSE Reach(b, dsts, msg)

\* DoSend of the sender's buffer.
CanDoSend(b, src) == b.out[src] # <<>> /\ CanReach(b, Head(b.out[src]).dsts)
DoSend(b, src) ==
    LET m == Head(b.out[src]) IN [Reach(b, m.dsts, m.msg) EXCEPT !.out[src] = Tail(@)]

\* DoReceive: the message is removed once the client's handler has accepted it.
Arrives(b, dst, type) == b.in[dst] # <<>> /\ Head(b.in[dst]).type = type
DoReceive(b, dst) == [b EXCEPT !.in[dst] = Tail(@)]
-----------------------------------------------------------------------------
CONSTANTS
    CPU, RPCDev, ROMDev, RTCDev,    \* the identifiers of the four devices
    Thread, Reg, Addr, None, NoByte,
    Workloads,          \* sequence of [script, enabled, ticks, others, boots, preloaded, ranges, image, results]
    RequestBuffer,      \* OutgoingRequestQueueSize of the bus interface
    WritebackQueue, IncomingQueue, NumChannels, NotificationQueue,
    RequestQueue, ResponseQueue, LineSize, MaxArg1, MaxArg2, RPCQueue, Image,
    MaxElapsed          \* bound: ticks the clock may be behind

ASSUME DevicesAssumption == {CPU, RPCDev, ROMDev, RTCDev} \subseteq Device

CIF == INSTANCE IOInterface
Dev == INSTANCE IODevices

VARIABLES
    load,       \* the workload
    bus,        \* the interconnect
    busif,      \* m_outgoing_reqs of the bus interface
    rrmux, nmux, dca,
    mem,        \* [cell, ops]: contents and the operations under way
    reg,        \* per register [state, value, asked]
    reads,      \* outstanding reads of the threads' family
    pc,         \* per thread the index of its next operation
    booted,     \* the core has been told to start
    rpc, rom, rtc,
    others      \* bound: the lines the data cache will still read

vars == <<load, bus, busif, rrmux, nmux, dca, mem, reg, reads, pc, booted, rpc, rom, rtc, others>>
core == <<rrmux, nmux, reg, reads, pc, booted>>
devices == <<rpc, rom, rtc>>
env == <<load, others>>

W == Workloads[load]
Script(t) == W.script[t]

\* The contents PrepareRanges has put at address a.
Loaded(a) == {p[2] : p \in {q \in W.image : q[1] = a}}

Init ==
    /\ load \in DOMAIN Workloads
    /\ bus = InitBus /\ busif = <<>>
    /\ rrmux = CIF!InitResponses /\ nmux = CIF!InitNotifications(W.enabled) /\ dca = CIF!InitDCA
    /\ mem = [cell |-> [a \in Addr |-> IF W.preloaded /\ Loaded(a) # {} THEN CHOOSE v \in Loaded(a) : TRUE
                                        ELSE a],
              ops |-> <<>>]
    /\ reg = [r \in Reg |-> [state |-> "FULL", value |-> None, asked |-> None]]
    /\ reads = 0
    /\ pc = [t \in Thread |-> 1]
    /\ booted = ~W.boots
    /\ rpc = Dev!InitRPC /\ rom = Dev!InitROM(W.ranges, W.boots, W.preloaded) /\ rtc = Dev!InitRTC
    /\ others = W.others
-----------------------------------------------------------------------------
\* The threads.  An operation of the asynchronous I/O or of the notification
\* interface returns at once; the pipeline marks the register afterwards.
Running(t) == booted /\ pc[t] <= Len(Script(t))
Op(t) == Script(t)[pc[t]]
Doing(t, op) == Running(t) /\ Op(t).op = op
Advance(t) == pc' = [pc EXCEPT ![t] = @ + 1]

CanRequest == Len(busif) < RequestBuffer
Request(dev, msg) == busif' = Append(busif, [dev |-> dev, msg |-> msg])
Free(r) == reg[r].state = "FULL"
Issue(r, asked) ==
    /\ reg' = [reg EXCEPT ![r] = [@ EXCEPT !.state = "ISSUED", !.asked = asked]]
    /\ reads' = reads + 1

IORead(t) ==
    /\ Doing(t, "read") /\ Free(Op(t).reg)
    /\ CIF!CanQueueWriteBackAddress(rrmux, Op(t).dev) /\ CanRequest
    /\ rrmux' = CIF!QueueWriteBackAddress(rrmux, Op(t).dev, Op(t).reg)
    /\ Request(Op(t).dev, ReadRequest(CPU, Op(t).word, 1))
    /\ Issue(Op(t).reg, [dev |-> Op(t).dev, word |-> Op(t).word])
    /\ Advance(t)
    /\ UNCHANGED <<bus, nmux, dca, mem, booted, devices, env>>

IOWrite(t) ==
    /\ Doing(t, "write") /\ CanRequest
    /\ Request(Op(t).dev, WriteRequest(CPU, Op(t).word, <<Op(t).value>>))
    /\ Advance(t)
    /\ UNCHANGED <<bus, rrmux, nmux, dca, mem, reg, reads, booted, devices, env>>

WaitForNotification(t) ==
    /\ Doing(t, "wait") /\ Free(Op(t).reg)
    /\ CIF!CanSetWriteBackAddress(nmux, Op(t).chan)
    /\ nmux' = CIF!SetWriteBackAddress(nmux, Op(t).chan, Op(t).reg)
    /\ Issue(Op(t).reg, [channel |-> Op(t).chan])
    /\ Advance(t)
    /\ UNCHANGED <<bus, busif, rrmux, dca, mem, booted, devices, env>>

ConfigureNotificationChannel(t) ==
    /\ Doing(t, "configure")
    /\ nmux' = CIF!ConfigureChannel(nmux, Op(t).chan, Op(t).value)
    /\ Advance(t)
    /\ UNCHANGED <<bus, busif, rrmux, dca, mem, reg, reads, booted, devices, env>>

MarkPending(r) ==
    /\ reg[r].state = "ISSUED"
    /\ reg' = [reg EXCEPT ![r].state = "PENDING"]
    /\ UNCHANGED <<bus, busif, rrmux, nmux, dca, mem, reads, pc, booted, devices, env>>

\* The thread needs the register; a poll goes back until it has read 0.
Use(t) ==
    /\ Doing(t, "use") /\ Free(Op(t).reg) /\ Advance(t)
    /\ UNCHANGED <<bus, busif, rrmux, nmux, dca, mem, reg, reads, booted, devices, env>>
Poll(t) ==
    /\ Doing(t, "poll") /\ Free(Op(t).reg)
    /\ IF reg[Op(t).reg].value.value = 0 THEN Advance(t) ELSE pc' = [pc EXCEPT ![t] = @ - 1]
    /\ UNCHANGED <<bus, busif, rrmux, nmux, dca, mem, reg, reads, booted, devices, env>>
-----------------------------------------------------------------------------
\* DoOutgoingRequests, and the buffers of the interconnect.
DoOutgoingRequests ==
    /\ busif # <<>> /\ CanSend(bus, CPU, {Head(busif).dev})
    /\ bus' = Send(bus, CPU, {Head(busif).dev}, Head(busif).msg)
    /\ busif' = Tail(busif)
    /\ UNCHANGED <<core, dca, mem, devices, env>>
DoBusSend(d) ==
    /\ CanDoSend(bus, d) /\ bus' = DoSend(bus, d)
    /\ UNCHANGED <<busif, core, dca, mem, devices, env>>

\* The core receives.
Msg(d) == Head(bus.in[d])
CoreReceivesRequest ==
    /\ (Arrives(bus, CPU, "READ_REQUEST") \/ Arrives(bus, CPU, "WRITE_REQUEST"))
    /\ CIF!CanQueueRequest(dca)
    /\ dca' = CIF!QueueRequest(dca, IF Msg(CPU).type = "READ_REQUEST"
                                    THEN CIF!Read(Msg(CPU).from, Msg(CPU).addr, Msg(CPU).size)
                                    ELSE CIF!Write(Msg(CPU).from, Msg(CPU).addr, Msg(CPU).data))
    /\ bus' = DoReceive(bus, CPU)
    /\ UNCHANGED <<busif, core, mem, devices, env>>
CoreReceivesResponse ==
    /\ Arrives(bus, CPU, "READ_RESPONSE") /\ CIF!CanReceiveResponse(rrmux)
    /\ rrmux' = CIF!OnReadResponseReceived(rrmux, Msg(CPU).from, Msg(CPU).data)
    /\ bus' = DoReceive(bus, CPU)
    /\ UNCHANGED <<busif, nmux, reg, reads, pc, booted, dca, mem, devices, env>>
CoreReceivesEvent ==
    /\ \/ /\ Arrives(bus, CPU, "INTERRUPT_REQUEST")
          /\ nmux' = CIF!OnInterruptRequestReceived(nmux, Msg(CPU).channel)
       \/ /\ Arrives(bus, CPU, "NOTIFICATION")
          /\ CIF!CanReceiveNotification(nmux, Msg(CPU).channel)
          /\ nmux' = CIF!OnNotificationReceived(nmux, Msg(CPU).channel, Msg(CPU).tag)
    /\ bus' = DoReceive(bus, CPU)
    /\ UNCHANGED <<busif, rrmux, reg, reads, pc, booted, dca, mem, devices, env>>
CoreBoots ==
    /\ Arrives(bus, CPU, "ACTIVE_MESSAGE")
    /\ booted' = TRUE
    /\ bus' = DoReceive(bus, CPU)
    /\ UNCHANGED <<busif, rrmux, nmux, reg, reads, pc, dca, mem, devices, env>>

Pending == {r \in Reg : reg[r].state = "PENDING"}
Complete(r, value) ==
    /\ reg' = [reg EXCEPT ![r] = [@ EXCEPT !.state = "FULL", !.value = value]]
    /\ reads' = reads - 1
DoReceivedReadResponses ==
    /\ CIF!CanDoReceivedReadResponses(rrmux, Pending)
    /\ Complete(CIF!AnsweredRegister(rrmux), Head(CIF!AnswerData(rrmux)))
    /\ rrmux' = CIF!DoReceivedReadResponses(rrmux)
    /\ UNCHANGED <<bus, busif, nmux, pc, booted, dca, mem, devices, env>>
DoReceivedNotifications ==
    \E c \in CIF!Channel :
        /\ CIF!IsNext(nmux, c)
        /\ IF nmux.wb[c] = None
           THEN nmux' = CIF!Drain(nmux, c) /\ UNCHANGED <<reg, reads>>
           ELSE /\ nmux.wb[c] \in Pending
                /\ Complete(nmux.wb[c], [of |-> [channel |-> c], value |-> CIF!EventValue(nmux, c)])
                /\ nmux' = CIF!Notify(nmux, c)
        /\ UNCHANGED <<bus, busif, rrmux, pc, booted, dca, mem, devices, env>>
-----------------------------------------------------------------------------
\* The direct cache access and the memory behind it.  p_service is a priority port
\* that DoBusOutgoing takes first, also when it then cannot send its answer: the
\* oldest request waits until no response is queued.
DoMemoryOutgoing ==
    /\ dca.responses = <<>>
    /\ \/ CIF!CanFlush(dca) /\ dca' = CIF!Flush(dca) /\ UNCHANGED mem
       \/ /\ CIF!CanReadMemory(dca)
          /\ mem' = [mem EXCEPT !.ops = Append(@, CIF!NextRequest(dca))]
          /\ dca' = CIF!ReadMemory(dca)
       \/ /\ CIF!CanWriteMemory(dca)
          /\ mem' = [mem EXCEPT !.ops = Append(@, CIF!NextRequest(dca))]
          /\ dca' = CIF!WriteMemory(dca)
    /\ UNCHANGED <<bus, busif, core, devices, env>>

LineData(line) == [i \in 1..LineSize |-> mem.cell[line + i - 1]]
Written(op) ==
    [a \in Addr |-> IF a - op.address + 1 \in DOMAIN op.data THEN op.data[a - op.address + 1]
                    ELSE mem.cell[a]]
MemoryServes(i) ==
    LET op == mem.ops[i]
        line == CIF!LineOf(op.address)
    IN  /\ \A j \in 1..(i - 1) : CIF!LineOf(mem.ops[j].address) # line
        /\ CIF!CanComplete(dca)
        /\ IF op.type = "READ"
           THEN /\ dca' = CIF!OnMemoryReadCompleted(dca, line, LineData(line))
                /\ mem' = [mem EXCEPT !.ops = RemoveAt(@, i)]
           ELSE /\ dca' = CIF!OnMemoryWriteCompleted(dca)
                /\ mem' = [cell |-> Written(op), ops |-> RemoveAt(mem.ops, i)]
        /\ UNCHANGED <<bus, busif, core, devices, env>>
OtherReadCompletes ==
    /\ CIF!CanComplete(dca)
    /\ \E line \in others :
           /\ dca' = CIF!OnMemoryReadCompleted(dca, line, LineData(line))
           /\ others' = others \ {line}
    /\ UNCHANGED <<load, bus, busif, core, mem, devices>>

DoBusOutgoing ==
    /\ dca.responses # <<>>
    /\ IF CIF!Answers(dca)
       THEN /\ CanRequest
            /\ Request(CIF!AnswerTo(dca), ReadResponse(CPU, dca.outstanding.address, CIF!AnswerBytes(dca)))
       ELSE UNCHANGED busif
    /\ dca' = CIF!DoBusOutgoing(dca)
    /\ UNCHANGED <<bus, core, mem, devices, env>>
-----------------------------------------------------------------------------
\* A device is read or written by a program: a read is answered within the
\* handler, and accepted only if the answer can be sent.
Answer(d, value) ==
    /\ CanSend(bus, d, {Msg(d).from})
    /\ bus' = Send(DoReceive(bus, d), d, {Msg(d).from},
                   ReadResponse(d, Msg(d).addr, <<[of |-> [dev |-> d, word |-> Msg(d).addr], value |-> value]>>))
DeviceRead(d) ==
    /\ Arrives(bus, d, "READ_REQUEST")
    /\ Answer(d, CASE d = RPCDev -> Dev!RPCReadWord(rpc, Msg(d).addr)
                   [] d = ROMDev -> Dev!ROMReadWord(Msg(d).addr)
                   [] d = RTCDev -> Dev!RTCReadWord(rtc, Msg(d).addr))
    /\ UNCHANGED <<busif, core, dca, mem, devices, env>>
DeviceWritten(d) ==
    /\ Arrives(bus, d, "WRITE_REQUEST")
    /\ \/ d = RPCDev /\ rpc' = Dev!RPCWriteRequest(rpc, Msg(d).addr, Msg(d).data[1]) /\ UNCHANGED <<rom, rtc>>
       \/ d = ROMDev /\ rom' = Dev!ROMWriteRequest(rom, Msg(d).addr, Msg(d).data[1]) /\ UNCHANGED <<rpc, rtc>>
       \/ d = RTCDev /\ rtc' = Dev!RTCWriteRequest(rtc, Msg(d).addr, Msg(d).data[1]) /\ UNCHANGED <<rpc, rom>>
    /\ bus' = DoReceive(bus, d)
    /\ UNCHANGED <<busif, core, dca, mem, env>>
DeviceAnswered(d) ==
    /\ Arrives(bus, d, "READ_RESPONSE")
    /\ \/ d = RPCDev /\ rpc' = Dev!RPCReadResponse(rpc, Msg(d).addr, Msg(d).data) /\ UNCHANGED rom
       \/ d = ROMDev /\ rom' = Dev!ROMReadResponse(rom) /\ UNCHANGED rpc
    /\ bus' = DoReceive(bus, d)
    /\ UNCHANGED <<rtc, busif, core, dca, mem, env>>

\* A device's process sends a message.
Sends(d, dsts, msg) == CanSend(bus, d, dsts) /\ bus' = Send(bus, d, dsts, msg)
RPCOnly == UNCHANGED <<busif, core, dca, mem, rom, rtc, env>>
RPCQueues == Dev!CanDoQueue(rpc) /\ rpc' = Dev!DoQueue(rpc) /\ UNCHANGED bus /\ RPCOnly
RPCFetches ==
    /\ Dev!Reads(rpc)
    /\ IF Dev!FetchSize(rpc) > 0
       THEN Sends(RPCDev, {Head(rpc.incoming).dca},
                  ReadRequest(RPCDev, Dev!FetchAddress(rpc), Dev!FetchSize(rpc)))
       ELSE UNCHANGED bus
    /\ rpc' = Dev!DoArgumentFetch(rpc)
    /\ RPCOnly
RPCFinalizes == Dev!CanFinalize(rpc) /\ rpc' = Dev!Finalize(rpc) /\ UNCHANGED bus /\ RPCOnly
RPCProcesses == Dev!CanProcess(rpc) /\ rpc' = Dev!DoProcessRequests(rpc) /\ UNCHANGED bus /\ RPCOnly
RPCWrites ==
    /\ Dev!InPhase(rpc, {"WRITING1", "WRITING2"})
    /\ Sends(RPCDev, {Head(rpc.completed).req.dca},
             WriteRequest(RPCDev, Dev!ResultBase(rpc) + rpc.written, Dev!ResultBytes(rpc)))
    /\ rpc' = Dev!WriteResult(rpc)
    /\ RPCOnly
RPCFlushes ==
    /\ Dev!InPhase(rpc, {"BARRIER"})
    /\ Sends(RPCDev, {Head(rpc.completed).req.dca}, ReadRequest(RPCDev, 0, 0))
    /\ rpc' = Dev!Barrier(rpc)
    /\ RPCOnly
RPCCompletes == Dev!CanNotify(rpc) /\ rpc' = Dev!NotifyCompletion(rpc) /\ UNCHANGED bus /\ RPCOnly
RPCNotifies ==
    /\ rpc.notifications # <<>>
    /\ Sends(RPCDev, {Dev!Completion(rpc).dca},
             Notification(Dev!Completion(rpc).channel, Dev!Completion(rpc).tag))
    /\ rpc' = Dev!CompletionSent(rpc)
    /\ RPCOnly

ROMOnly == UNCHANGED <<busif, core, dca, mem, rpc, rtc, env>>
ROMLoads ==
    /\ rom.loading
    /\ Sends(ROMDev, {rom.client}, WriteRequest(ROMDev, Dev!LoadAddress(rom), Dev!LoadBytes(rom)))
    /\ rom' = Dev!DoLoad(rom)
    /\ ROMOnly
ROMFlushes ==
    /\ rom.flushing /\ Sends(ROMDev, {rom.client}, ReadRequest(ROMDev, 0, 0))
    /\ rom' = Dev!Flushed(rom)
    /\ ROMOnly
ROMNotifies ==
    /\ rom.notifying
    /\ Sends(ROMDev, {rom.client}, IF rom.booting THEN ActiveMessage("start")
                                   ELSE Notification(rom.channel, ROMDev))
    /\ rom' = Dev!ROMNotified(rom)
    /\ ROMOnly

\* The host's timer ticks; the clock looks at the time and interrupts.
Tick ==
    /\ W.ticks /\ rtc.enabled /\ rtc' = Dev!RTCTick(rtc)
    /\ UNCHANGED <<bus, busif, core, dca, mem, rpc, rom, env>>
RTCChecks ==
    /\ Dev!CanCheckTime(rtc) /\ rtc' = Dev!DoCheckTime(rtc)
    /\ UNCHANGED <<bus, busif, core, dca, mem, rpc, rom, env>>
RTCNotifies ==
    /\ rtc.notify /\ Sends(RTCDev, TakesInterrupts, InterruptRequest(rtc.channel))
    /\ rtc' = Dev!RTCNotified(rtc)
    /\ UNCHANGED <<busif, core, dca, mem, rpc, rom, env>>
-----------------------------------------------------------------------------
ThreadStep(t) ==
    \/ IORead(t) \/ IOWrite(t) \/ WaitForNotification(t) \/ ConfigureNotificationChannel(t)
    \/ Use(t) \/ Poll(t)
CoreReceives == CoreReceivesRequest \/ CoreReceivesResponse \/ CoreReceivesEvent \/ CoreBoots
DeviceReceives(d) == d # CPU /\ (DeviceRead(d) \/ DeviceWritten(d) \/ DeviceAnswered(d))
FetchProcess == RPCFetches \/ RPCFinalizes
WriteProcess == RPCWrites \/ RPCFlushes \/ RPCCompletes

Next ==
    \/ \E t \in Thread : ThreadStep(t)
    \/ \E r \in Reg : MarkPending(r)
    \/ DoOutgoingRequests
    \/ \E d \in Buffered : DoBusSend(d)
    \/ CoreReceives
    \/ DoReceivedReadResponses \/ DoReceivedNotifications
    \/ DoMemoryOutgoing \/ DoBusOutgoing \/ OtherReadCompletes
    \/ \E i \in DOMAIN mem.ops : MemoryServes(i)
    \/ \E d \in Device : DeviceReceives(d)
    \/ RPCQueues \/ FetchProcess \/ RPCProcesses \/ WriteProcess \/ RPCNotifies
    \/ ROMLoads \/ ROMFlushes \/ ROMNotifies
    \/ Tick \/ RTCChecks \/ RTCNotifies

Spec == Init /\ [][Next]_vars

\* Every process runs in every cycle it can, and the arbitration of the
\* interconnect lets each endpoint go in turn.  Within the direct cache access
\* DoBusOutgoing has priority, which is in the guard of DoMemoryOutgoing.
Fairness ==
    /\ \A t \in Thread : WF_vars(ThreadStep(t))
    /\ \A r \in Reg : WF_vars(MarkPending(r))
    /\ WF_vars(DoOutgoingRequests)
    /\ \A d \in Buffered : WF_vars(DoBusSend(d))
    /\ WF_vars(CoreReceives)
    /\ WF_vars(DoReceivedReadResponses) /\ WF_vars(DoReceivedNotifications)
    /\ WF_vars(DoMemoryOutgoing) /\ WF_vars(DoBusOutgoing)
    /\ WF_vars(\E i \in DOMAIN mem.ops : MemoryServes(i))
    /\ \A d \in Device : WF_vars(DeviceReceives(d))
    /\ WF_vars(RPCQueues) /\ WF_vars(FetchProcess) /\ WF_vars(RPCProcesses)
    /\ WF_vars(WriteProcess) /\ WF_vars(RPCNotifies)
    /\ WF_vars(ROMLoads) /\ WF_vars(ROMFlushes) /\ WF_vars(ROMNotifies)
    /\ WF_vars(Tick) /\ WF_vars(RTCChecks) /\ WF_vars(RTCNotifies)
FairSpec == Spec /\ Fairness
-----------------------------------------------------------------------------
Holds(cells) == \A p \in cells : mem.cell[p[1]] = p[2]

(* What a device wrote is in memory when the core learns that it is done:  *)
(* the results of an RPC when its tag is in the notification queue or in a  *)
(* register, the image of a boot ROM when the core has been started.        *)
CompletionMeansWritten ==
    /\ \A r \in Reg : Free(r) /\ reg[r].value # None =>
           \A done \in W.results : reg[r].value = [of |-> [channel |-> done.chan], value |-> done.tag] => Holds(done.cells)
    /\ \A done \in W.results : done.tag \in ToSet(nmux.tags[done.chan]) => Holds(done.cells)
    /\ booted => Holds(W.image)

(* A register gets the answer to the read it was given to, or an event of   *)
(* the channel it waits for, though answers carry no address that is        *)
(* compared and the registers of a device are matched by their order.       *)
AnswersMatch == \A r \in Reg : Free(r) /\ reg[r].asked # None => reg[r].value.of = reg[r].asked

(* The direct cache access cannot answer a device, because the requests of  *)
(* the core are full; the first of them cannot reach the device, which      *)
(* holds an earlier read it cannot answer; for on the way from the device   *)
(* to the core a request of the device waits, and the direct cache access   *)
(* has no room for it.                                                      *)
Requests == {"READ_REQUEST", "WRITE_REQUEST"}
CircleOfFullBuffers ==
    /\ dca.responses # <<>> /\ CIF!Answers(dca) /\ ~CanRequest
    /\ LET d == Head(busif).dev IN
        /\ ~CanReach(bus, {d}) /\ Arrives(bus, d, "READ_REQUEST")
        /\ ~CanSend(bus, d, {CPU}) /\ ~CanReach(bus, {CPU})
    /\ Msg(CPU).type \in Requests /\ ~CIF!CanQueueRequest(dca)

(* Every thread gets to the end of its program and the family's outstanding *)
(* reads to zero, unless the requests and answers of the core and of one    *)
(* device come to wait for each other: a program has no other way not to    *)
(* end, and no request, answer, event or listener is lost.  (The code lets  *)
(* that circle form, for the core's requests and its answers share a queue, *)
(* IODirectCacheAccess.cpp:185, and a device that cannot answer refuses     *)
(* what is behind; it forms in the workload ReadsDuringFetch.)              *)
ScriptsEnd ==
    <>(\/ reads = 0 /\ \A t \in Thread : pc[t] > Len(Script(t))
       \/ CircleOfFullBuffers)
=============================================================================
