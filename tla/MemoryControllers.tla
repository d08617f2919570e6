---------------------------- MODULE MemoryControllers ----------------------------
(*****************************************************************************)
(* The memory controllers a system can be configured with (src/arch/mem):    *)
(* what they have in common, the serial, the parallel, the banked and the    *)
(* DDR memory.  The variable `kind' tells which one it is.                   *)
(*****************************************************************************)
EXTENDS DCache
-----------------------------------------------------------------------------
(***************************************************************************)
(* The mappings of a line number to a bank, set or interface.  A selector   *)
(* splits the number into a tag and an index and puts it together again.    *)
(* The rotation mix works on 64-bit words, which are the sets of their      *)
(* 1-bits.                                                                  *)
(***************************************************************************)
WordBits == 64

BitsOf(n) == {i \in 0..29 : (n \div 2^i) % 2 = 1}
Rotated(w, d) == {(i + d) % WordBits : i \in w}
Xored(v, w) == (v \ w) \cup (w \ v)
\* 2^i modulo n for every bit of a word: 2^i itself does not fit TLC's integers.
PowerMod(n) == LET p[i \in 0..(WordBits - 1)] == IF i = 0 THEN 1 % n ELSE (2 * p[i - 1]) % n IN p
WordMod(w, n) == MapThenSumSet(LAMBDA i : PowerMod(n)[i], w) % n

RotationMix(a) ==
    LET w0 == BitsOf(a)
        w1 == Xored(w0, Rotated(w0, 32))
        w2 == Xored(w1, Rotated(w1, 48))
        w3 == Xored(w2, Rotated(w2, 56))
    IN  Xored(w3, Rotated(w3, 60))

\* The loops of XORFold and AddFold: they stop as soon as the rest is at most
\* the number of banks, so the last digit is left out.
NumberOf(w) == MapThenSumSet(LAMBDA i : 2^i, w)
Xor(a, b) == NumberOf(Xored(BitsOf(a), BitsOf(b)))
XorFold(a, n) ==
    LET fold[x \in 0..a] == IF x \div n > n THEN Xor(x, fold[x \div n]) ELSE x IN fold[a]
AddFold(a, n) ==
    LET fold[x \in 0..a] == IF x \div n > n THEN x + fold[x \div n] ELSE x IN fold[a]

Selectors == {"ZERO", "DIRECT", "RMIX", "XORFOLD", "ADDFOLD", "XORLSB", "ADDLSB"}

\* makeSelector: one bank needs no selection.
Chosen(name, n) == IF n = 1 THEN "ZERO" ELSE name

MapIndex(name, n, a) ==
    CASE Chosen(name, n) = "ZERO"    -> 0
      [] Chosen(name, n) = "DIRECT"  -> a % n
      [] Chosen(name, n) = "RMIX"    -> WordMod(RotationMix(a), n)
      [] Chosen(name, n) = "XORLSB"  -> Xor(a, a \div n) % n
      [] Chosen(name, n) = "ADDLSB"  -> (a + (a \div n)) % n
      [] Chosen(name, n) = "XORFOLD" -> XorFold(a, n) % n
      [] Chosen(name, n) = "ADDFOLD" -> AddFold(a, n) % n
MapTag(name, n, a) == IF Chosen(name, n) = "DIRECT" THEN a \div n ELSE a
Unmap(name, n, tag, index) == IF Chosen(name, n) = "DIRECT" THEN tag * n + index ELSE tag
-----------------------------------------------------------------------------
(***************************************************************************)
(* What the memory controllers have in common: the contents of memory, the  *)
(* clients' caches, and the servers (the queue of the serial memory, the    *)
(* ports of the parallel one, banks, DDR interfaces) that hold requests.    *)
(* seq numbers the requests of a client; the code identifies a write by its *)
(* wid and a read by its address.                                           *)
(***************************************************************************)
CONSTANTS NumClients, Addr, Val, InitLine,
          BufferSize,     \* requests a server takes
          MaxRequests     \* bound: [Client -> requests]

Client == 0..(NumClients - 1)

VARIABLES
    kind,     \* the configured memory
    store,    \* [Addr -> line]: VirtualMemory
    server,   \* [server -> its queues]
    ddr,      \* [server -> DDR channel behind it]
    cache,    \* [Client -> D-cache]
    count,    \* [Client -> requests accepted]
    answer    \* the last answer of the memory

memVars == <<kind, store, server, ddr, cache, count, answer>>

NoServer == [requests |-> <<>>, timing |-> FALSE, active |-> <<>>, responses |-> <<>>]

\* VirtualMemory::Read and Write of one line.
Contents(r) == store[r.address]
Stored(r) == IF r.write THEN [store EXCEPT ![r.address] = Blit(@, r.data)] ELSE store

\* The callbacks of the client that asked, with the data of the line.
CanCall(r) ==
    IF r.write THEN CanWriteComplete(cache[r.client]) ELSE CanReadComplete(cache[r.client], r.address)
Called(r, data) ==
    [cache EXCEPT ![r.client] = IF r.write THEN OnMemoryWriteCompleted(@, r.wid)
                                           ELSE OnMemoryReadCompleted(@, r.address, data)]
AnswerOf(r, data) == <<r.client, r.seq, data>>

\* A client's request at the front of its outgoing buffer goes to server s; a
\* write is first snooped by all clients, the writer included.
Snooped(f, r) == [c \in Client |-> OnMemorySnooped(f[c], r.address, r.data)]
Accept(c, s) ==
    LET r == Head(cache[c].outgoing)
        sent == [cache EXCEPT ![c].outgoing = Tail(@)]
    IN  /\ Len(server[s].requests) < BufferSize
        /\ count[c] < MaxRequests[c]
        /\ server' = [server EXCEPT ![s].requests = Append(@,
                        [client |-> c, seq |-> count[c], write |-> r.write, address |-> r.address,
                         data |-> r.data, wid |-> r.wid])]
        /\ cache' = IF r.write THEN Snooped(sent, r) ELSE sent
        /\ count' = [count EXCEPT ![c] = @ + 1]
        /\ UNCHANGED <<kind, store, ddr, answer>>

\* A server that handles the request at its front in place: it is timed, and
\* when the time is over performed and answered in one step.
StartTiming(s) ==
    /\ server[s].requests # <<>> /\ ~server[s].timing
    /\ server' = [server EXCEPT ![s].timing = TRUE]
    /\ UNCHANGED <<kind, store, ddr, cache, count, answer>>
FinishTimed(s) ==
    LET r == Head(server[s].requests)
        data == IF r.write THEN r.data ELSE Contents(r)
    IN  /\ server[s].timing /\ CanCall(r)
        /\ store' = Stored(r)
        /\ cache' = Called(r, data)
        /\ answer' = AnswerOf(r, data)
        /\ server' = [server EXCEPT ![s].requests = Tail(@), ![s].timing = FALSE]
        /\ UNCHANGED <<kind, ddr, count>>
-----------------------------------------------------------------------------
(* One queue for all clients. *)
SerialAccept(c) == kind = "serial" /\ Accept(c, 0)
SerialDoRequests == kind = "serial" /\ (StartTiming(0) \/ FinishTimed(0))
-----------------------------------------------------------------------------
(* One port, with its own queue, for every client. *)
ParallelAccept(c) == kind = "parallel" /\ Accept(c, c)
ParallelDoRequests(c) == kind = "parallel" /\ (StartTiming(c) \/ FinishTimed(c))
-----------------------------------------------------------------------------
(***************************************************************************)
(* Banks behind a network.  A message takes an arbitrary time but does not  *)
(* overtake the one before it in its queue; a bank handles one request at a *)
(* time and sends it back through its own queue.                            *)
(***************************************************************************)
CONSTANTS NumBanks, BankSelection

Bank == 0..(NumBanks - 1)
BankOf(a) == MapIndex(BankSelection, NumBanks, a)

\* Mutant: reads and writes of a line go to different banks
BankedAcceptByKind(c) ==
    kind = "banked" /\ Accept(c, IF Head(cache[c].outgoing).write THEN 0 ELSE NumBanks - 1)
BankedAccept(c) == kind = "banked" /\ Accept(c, BankOf(Head(cache[c].outgoing).address))

DoIncoming(i) ==
    /\ kind = "banked"
    /\ server[i].requests # <<>> /\ server[i].active = <<>>
    /\ server' = [server EXCEPT ![i].active = <<Head(server[i].requests)>>,
                                ![i].requests = Tail(@)]
    /\ UNCHANGED <<kind, store, ddr, cache, count, answer>>

DoRequest(i) ==
    /\ kind = "banked"
    /\ server[i].active # <<>> /\ Len(server[i].responses) < BufferSize
    /\ LET r == Head(server[i].active)
       IN  /\ store' = Stored(r)
           /\ server' = [server EXCEPT ![i].active = <<>>,
                 ![i].responses = Append(@, IF r.write THEN r ELSE [r EXCEPT !.data = Contents(r)])]
    /\ UNCHANGED <<kind, ddr, cache, count, answer>>

DoOutgoing(i) ==
    /\ kind = "banked"
    /\ server[i].responses # <<>> /\ CanCall(Head(server[i].responses))
    /\ LET r == Head(server[i].responses)
       IN  cache' = Called(r, r.data) /\ answer' = AnswerOf(r, r.data)
    /\ server' = [server EXCEPT ![i].responses = Tail(@)]
    /\ UNCHANGED <<kind, store, ddr, count>>
-----------------------------------------------------------------------------
(***************************************************************************)
(* Interfaces to DDR channels.  A write is performed and answered when the  *)
(* channel takes it; a read is performed when its last burst arrives.  The  *)
(* times of a channel are the cycles left until they have passed.           *)
(***************************************************************************)
CONSTANTS
    NumInterfaces, InterfaceSelection,
    LineSize,                       \* bytes of a line, the unit of addresses
    RowOf,                          \* [Addr -> row], in one bank
    Bursts,                         \* bursts of a line
    ResponseBuffer,
    tRCD, tRP, tCL, tWR, tCCD, tCWL, tRAS

Interface == 0..(NumInterfaces - 1)
\* DDRMemory::Read selects by the address, DDRMemory::Write by the line.
InterfaceOf(r) ==
    MapIndex(InterfaceSelection, NumInterfaces, IF r.write THEN r.address ELSE r.address * LineSize)

Before(t) == IF t = 0 THEN 0 ELSE t - 1

InitChannel == [request |-> <<>>, pipeline |-> <<>>, row |-> None, command |-> 0, precharge |-> 0]

DDRAccept(c) == kind = "ddr" /\ Accept(c, InterfaceOf(Head(cache[c].outgoing)))

\* DDRChannel::Read and Write take a request unless they are busy.
Taken(ch, r) == [ch EXCEPT !.request = <<[write |-> r.write, row |-> RowOf[r.address], left |-> Bursts]>>]

\* Interface::DoRequests.
DDRDoRequests(i) ==
    /\ kind = "ddr"
    /\ server[i].requests # <<>> /\ ddr[i].request = <<>>
    /\ LET r == Head(server[i].requests)
       IN  /\ ddr' = [ddr EXCEPT ![i] = Taken(@, r)]
           /\ IF r.write
              THEN /\ CanCall(r)
                   /\ store' = Stored(r)
                   /\ cache' = Called(r, r.data)
                   /\ answer' = AnswerOf(r, r.data)
                   /\ server' = [server EXCEPT ![i].requests = Tail(@)]
              ELSE /\ server' = [server EXCEPT ![i].requests = Tail(@), ![i].active = Append(@, r)]
                   /\ UNCHANGED <<store, cache, answer>>
    /\ UNCHANGED <<kind, count>>

\* DDRChannel::DoRequest: close the wrong row, open the right one, or transfer
\* one burst; a read that is complete enters the pipeline.
Precharge(i) ==
    /\ ddr[i].row # None /\ ddr[i].row # Head(ddr[i].request).row
    /\ ddr' = [ddr EXCEPT ![i].command = ddr[i].precharge + tRP, ![i].row = None]
Activate(i) ==
    /\ ddr[i].row = None
    /\ ddr' = [ddr EXCEPT ![i].command = tRCD, ![i].precharge = tRAS, ![i].row = Head(ddr[i].request).row]
\* A burst of a request is transferred; the last one ends it.
AfterBurst(q) == IF q[1].left = 1 THEN <<>> ELSE <<[q[1] EXCEPT !.left = @ - 1]>>
WriteBurst(i) ==
    /\ ddr[i].row = Head(ddr[i].request).row /\ Head(ddr[i].request).write
    /\ ddr' = [ddr EXCEPT ![i].command = tCWL, ![i].precharge = tWR,
                          ![i].request = AfterBurst(@)]
ReadBurst(i) ==
    /\ ddr[i].row = Head(ddr[i].request).row /\ ~Head(ddr[i].request).write
    /\ IF Head(ddr[i].request).left > 1
       THEN ddr' = [ddr EXCEPT ![i].command = tCCD, ![i].request = AfterBurst(@)]
       ELSE /\ Len(ddr[i].pipeline) < tCL
            /\ ddr' = [ddr EXCEPT ![i].command = tCCD, ![i].request = <<>>,
                                  ![i].pipeline = Append(@, tCL)]
ChannelDoRequest(i) ==
    /\ kind = "ddr"
    /\ ddr[i].request # <<>> /\ ddr[i].command = 0
    /\ Precharge(i) \/ Activate(i) \/ WriteBurst(i) \/ ReadBurst(i)
    /\ UNCHANGED <<kind, store, server, cache, count, answer>>

\* DDRChannel::DoPipeline and Interface::OnReadCompleted.
DoPipeline(i) ==
    /\ kind = "ddr"
    /\ ddr[i].pipeline # <<>> /\ Head(ddr[i].pipeline) = 0
    /\ Len(server[i].responses) < ResponseBuffer
    /\ LET r == Head(server[i].active)
       IN  server' = [server EXCEPT ![i].active = Tail(@),
                         ![i].responses = Append(@, [r EXCEPT !.data = Contents(r)])]
    /\ ddr' = [ddr EXCEPT ![i].pipeline = Tail(@)]
    /\ UNCHANGED <<kind, store, cache, count, answer>>

DoResponses(i) ==
    /\ kind = "ddr"
    /\ server[i].responses # <<>> /\ CanCall(Head(server[i].responses))
    /\ LET r == Head(server[i].responses)
       IN  cache' = Called(r, r.data) /\ answer' = AnswerOf(r, r.data)
    /\ server' = [server EXCEPT ![i].responses = Tail(@)]
    /\ UNCHANGED <<kind, store, ddr, count>>

\* A cycle passes.
DDRTick ==
    /\ kind = "ddr"
    /\ ddr' = [i \in DOMAIN ddr |->
                [ddr[i] EXCEPT !.command = Before(@), !.precharge = Before(@),
                               !.pipeline = [p \in DOMAIN @ |-> Before(@[p])]]]
    /\ ddr' # ddr
    /\ UNCHANGED <<kind, store, server, cache, count, answer>>
=============================================================================
