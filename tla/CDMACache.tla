----------------------------- MODULE CDMACache -----------------------------
(***************************************************************************)
(* The L2 cache of the CDMA network (arch/mem/cdma/Cache.{p.h,cpp}).        *)
(*                                                                         *)
(* lines[c][a] is the line of cache c whose tag is the one of address a,    *)
(* EmptyLine when FindLine returns NULL.  Which way of its set a line sits  *)
(* in is not observable, so a set is full when m_assoc of the addresses     *)
(* that map to it have a line.  The access time of a line only selects the *)
(* victim of a replacement; here any line that may be replaced is chosen.   *)
(*                                                                         *)
(* The callbacks to the clients on the bus can delay a handler but change   *)
(* nothing in the network; only the write completions are recorded, in     *)
(* unacked.                                                                *)
(***************************************************************************)
EXTENDS CDMANode

CONSTANTS
  Assoc,              \* m_assoc
  SetOf,              \* the set IBankSelector::Map selects for an address
  RequestBufferSize,  \* capacity of m_requests
  Readers,            \* the caches whose clients read a line
  Writers,            \* the caches whose clients write to a line
  MaxUnacked          \* bound: writes in progress of the clients of a cache

ASSUME CacheAssumption ==
  /\ Assoc \in Nat \ {0}
  /\ DOMAIN SetOf = Addrs
  /\ RequestBufferSize \in Nat \ {0}
  /\ Readers \in [Addrs -> SUBSET Caches]
  /\ Writers \in [Addrs -> SUBSET Caches]
  /\ MaxUnacked \in Nat

LINE_EMPTY   == "empty"
LINE_LOADING == "loading"
LINE_FULL    == "full"

Line ==
  [state : {LINE_EMPTY, LINE_LOADING, LINE_FULL}, tokens : Nat,
   dirty : BOOLEAN, updating : Int, data : Data, valid : SUBSET Bytes]

EmptyLine ==
  [state |-> LINE_EMPTY, tokens |-> 0, dirty |-> FALSE, updating |-> 0,
   data |-> NoData, valid |-> {}]

LoadingLine == [EmptyLine EXCEPT !.state = LINE_LOADING]

Request ==
  [write : BOOLEAN, addr : Addrs, data : Data, mask : SUBSET Bytes]

InitCache ==
  /\ lines   = [c \in Caches |-> [a \in Addrs |-> EmptyLine]]
  /\ bus     = [c \in Caches |-> <<>>]
  /\ unacked = [c \in Caches |-> 0]

-----------------------------------------------------------------------------
(* Requests of the clients: Cache::Read and Cache::Write queue them.       *)

CanQueue(c) == Len(bus[c]) < RequestBufferSize

Read(c, a) ==
  /\ c \in Readers[a]
  /\ CanQueue(c)
  /\ bus' = [bus EXCEPT ![c] =
       Append(@, [write |-> FALSE, addr |-> a, data |-> NoData, mask |-> {}])]
  /\ UNCHANGED <<net, lines, unacked, dir, ringTokens, mem, latest>>

Write(c, a, data, mask) ==
  /\ c \in Writers[a]
  /\ CanQueue(c)
  /\ unacked[c] < MaxUnacked
  /\ bus' = [bus EXCEPT ![c] =
       Append(@, [write |-> TRUE, addr |-> a, data |-> data, mask |-> mask])]
  /\ unacked' = [unacked EXCEPT ![c] = @ + 1]
  /\ UNCHANGED <<net, lines, dir, ringTokens, mem, latest>>

-----------------------------------------------------------------------------
(* Lines                                                                   *)

HasEmptyWay(c, a) ==
  Cardinality({x \in Addrs : /\ SetOf[x] = SetOf[a]
                             /\ lines[c][x].state # LINE_EMPTY}) < Assoc

\* Mutant: loading lines are candidates too
ReplaceableLoading(c, a) ==
  {x \in Addrs : /\ SetOf[x] = SetOf[a]
                 /\ lines[c][x].state # LINE_EMPTY
                 /\ lines[c][x].updating = 0}

Replaceable(c, a) ==
  {x \in Addrs : /\ SetOf[x] = SetOf[a]
                 /\ lines[c][x].state = LINE_FULL
                 /\ lines[c][x].updating = 0}

RequestMsg(c, a) ==
  [type |-> REQUEST, addr |-> a, sender |-> c, ignore |-> FALSE,
   dirty |-> FALSE, data |-> NoData, mask |-> {}, tokens |-> 0]

EvictionMsg(c, a) ==
  [RequestMsg(c, a) EXCEPT !.type = EVICTION, !.tokens = lines[c][a].tokens,
                           !.dirty = lines[c][a].dirty, !.data = lines[c][a].data]

UpdateMsg(c, req) ==
  [RequestMsg(c, req.addr) EXCEPT !.type = UPDATE, !.data = req.data,
                                  !.mask = req.mask]

SetLine(c, a, line) == lines' = [lines EXCEPT ![c][a] = line]

\* EvictLine: the line leaves the cache with its tokens
EvictLine(c, victim) ==
  /\ CanSend(c, MINSPACE_INSERTION)
  /\ Put(outgoing(c), EvictionMsg(c, victim))
  /\ SetLine(c, victim, EmptyLine)

-----------------------------------------------------------------------------
(* DoRequests: the front request of the bus, by OnReadRequest or            *)
(* OnWriteRequest.                                                         *)

PopRequest(c) == bus' = [bus EXCEPT ![c] = Tail(@)]

\* A miss with no empty way: evict a line and try again (DELAYED).
MissEvict(c) ==
  /\ bus[c] # <<>>
  /\ LET a == Head(bus[c]).addr IN
       /\ lines[c][a].state = LINE_EMPTY
       /\ ~ HasEmptyWay(c, a)
       /\ \E victim \in Replaceable(c, a) : EvictLine(c, victim)
  /\ UNCHANGED <<bus, unacked, dir, ringTokens, mem, latest>>

\* A miss with an empty way: allocate the line and send a read request.
\* A write is tried again on the loading line; a read is done.
MissLoad(c) ==
  /\ bus[c] # <<>>
  /\ LET req == Head(bus[c]) IN
       /\ lines[c][req.addr].state = LINE_EMPTY
       /\ HasEmptyWay(c, req.addr)
       /\ CanSend(c, MINSPACE_INSERTION)
       /\ Put(outgoing(c), RequestMsg(c, req.addr))
       /\ SetLine(c, req.addr, LoadingLine)
       /\ IF req.write THEN bus' = bus ELSE PopRequest(c)
  /\ UNCHANGED <<unacked, dir, ringTokens, mem, latest>>

\* A read hit: a full line answers, a loading one will when it completes.
ReadHit(c) ==
  /\ bus[c] # <<>>
  /\ ~ Head(bus[c]).write
  /\ lines[c][Head(bus[c]).addr].state # LINE_EMPTY
  /\ PopRequest(c)
  /\ UNCHANGED <<net, lines, unacked, dir, ringTokens, mem, latest>>

\* The write into the line, common to both kinds of write hit
Written(line, req) ==
  [line EXCEPT !.data = blit(@, req.data, req.mask),
               !.valid = @ \cup req.mask, !.dirty = TRUE]

\* Mutant: the tokens do not matter
IsExclusiveFull(line) == line.state = LINE_FULL

IsExclusive(line) == line.state = LINE_FULL /\ line.tokens = TotalTokens

\* A write hit on the only copy is complete at once.
WriteHitExclusive(c) ==
  /\ bus[c] # <<>>
  /\ LET req  == Head(bus[c])
         line == lines[c][req.addr]
     IN  /\ req.write
         /\ IsExclusive(line)
         /\ SetLine(c, req.addr, Written(line, req))
         /\ latest' = [latest EXCEPT ![req.addr] = blit(@, req.data, req.mask)]
  /\ unacked' = [unacked EXCEPT ![c] = @ - 1]
  /\ PopRequest(c)
  /\ UNCHANGED <<net, dir, ringTokens, mem>>

\* Any other write hit sends an update around and locks the line until the
\* update is back.
WriteHitShared(c) ==
  /\ bus[c] # <<>>
  /\ LET req  == Head(bus[c])
         line == lines[c][req.addr]
     IN  /\ req.write
         /\ line.state # LINE_EMPTY
         /\ ~ IsExclusive(line)
         /\ CanSend(c, MINSPACE_INSERTION)
         /\ Put(outgoing(c), UpdateMsg(c, req))
         /\ SetLine(c, req.addr, [Written(line, req) EXCEPT !.updating = @ + 1])
         /\ latest' = [latest EXCEPT ![req.addr] = blit(@, req.data, req.mask)]
  /\ PopRequest(c)
  /\ UNCHANGED <<unacked, dir, ringTokens, mem>>

DoRequests(c) ==
  \/ MissEvict(c) \/ MissLoad(c)
  \/ ReadHit(c) \/ WriteHitExclusive(c) \/ WriteHitShared(c)

-----------------------------------------------------------------------------
(* DoReceive: the front message of the ring, by OnMessageReceived.          *)

HasMessage(n) == net[incoming(n)] # <<>>
Front(n)      == Head(net[incoming(n)])

\* Push the message, as modified, on the outgoing buffer
Forward(c, msg) ==
  /\ CanSend(c, MINSPACE_FORWARD)
  /\ Pass(incoming(c), outgoing(c), msg)

ReceiveIgnored(c) ==
  /\ HasMessage(c)
  /\ \/ Front(c).ignore
     \/ Front(c).type = REQUEST_DATA_TOKEN /\ Front(c).sender # c
  /\ Forward(c, Front(c))
  /\ UNCHANGED <<lines, bus, unacked, dir, ringTokens, mem, latest>>

\* The message and the line after a read request meets the line: a copy with
\* more than one token gives one away, any other full copy gives its data.
\* Mutants: the last token is given away; one is, whatever the line holds
GivesLastToken(line) == line.state = LINE_FULL /\ line.tokens > 0
GivesAnyToken(line)  == line.state # LINE_EMPTY

GivesToken(line)       == line.state = LINE_FULL /\ line.tokens > 1
GivesData(line, msg)   == line.state = LINE_FULL /\ msg.type = REQUEST

Answered(msg, line) ==
  IF GivesToken(line)
  THEN [msg EXCEPT !.type = REQUEST_DATA_TOKEN, !.tokens = 1,
                   !.dirty = line.dirty, !.data = line.data]
  ELSE IF GivesData(line, msg)
  THEN [msg EXCEPT !.type = REQUEST_DATA, !.dirty = line.dirty, !.data = line.data]
  ELSE msg

ReceiveRequest(c) ==
  /\ HasMessage(c)
  /\ LET msg  == Front(c)
         line == lines[c][msg.addr]
     IN  /\ ~ msg.ignore /\ msg.type \in {REQUEST, REQUEST_DATA}
         /\ Forward(c, Answered(msg, line))
         /\ SetLine(c, msg.addr,
              IF GivesToken(line) THEN [line EXCEPT !.tokens = @ - 1] ELSE line)
  /\ UNCHANGED <<bus, unacked, dir, ringTokens, mem, latest>>

\* The answer to this cache's own request: bytes written meanwhile stay
\* Mutant: a line with any valid byte keeps all its bytes
FilledCoarse(line, msg) ==
  [line EXCEPT !.state = LINE_FULL, !.tokens = msg.tokens,
               !.dirty = @ \/ msg.dirty,
               !.data = IF line.valid = {} THEN msg.data ELSE @, !.valid = Bytes]

Filled(line, msg) ==
  [line EXCEPT !.state = LINE_FULL, !.tokens = msg.tokens,
               !.dirty = @ \/ msg.dirty,
               !.data = blit(msg.data, @, line.valid), !.valid = Bytes]

ReceiveResponse(c) ==
  /\ HasMessage(c)
  /\ LET msg == Front(c) IN
       /\ ~ msg.ignore /\ msg.type = REQUEST_DATA_TOKEN /\ msg.sender = c
       /\ SetLine(c, msg.addr, Filled(lines[c][msg.addr], msg))
  /\ Take(incoming(c))
  /\ UNCHANGED <<bus, unacked, dir, ringTokens, mem, latest>>

\* An eviction merges with a full copy, or is stored in an empty way, or goes on
Merged(line, msg) ==
  [line EXCEPT !.tokens = @ + msg.tokens, !.dirty = @ \/ msg.dirty]

Stored(msg) ==
  [EmptyLine EXCEPT !.state = LINE_FULL, !.tokens = msg.tokens,
                    !.dirty = msg.dirty, !.data = msg.data, !.valid = Bytes]

IsEviction(c) == HasMessage(c) /\ ~ Front(c).ignore /\ Front(c).type = EVICTION
CanMerge(c)   == lines[c][Front(c).addr].state = LINE_FULL
CanStore(c)   == /\ lines[c][Front(c).addr].state = LINE_EMPTY
                 /\ HasEmptyWay(c, Front(c).addr)

ReceiveEviction(c) ==
  /\ IsEviction(c)
  /\ LET msg == Front(c) IN
       \/ /\ CanMerge(c)
          /\ SetLine(c, msg.addr, Merged(lines[c][msg.addr], msg))
          /\ Take(incoming(c))
       \/ /\ CanStore(c)
          /\ SetLine(c, msg.addr, Stored(msg))
          /\ Take(incoming(c))
       \/ /\ ~ CanMerge(c) /\ ~ CanStore(c)
          /\ Forward(c, msg)
          /\ lines' = lines
  /\ UNCHANGED <<bus, unacked, dir, ringTokens, mem, latest>>

\* An update that came full circle completes the write of this cache's client
\* Mutant: the line stays locked
OwnUpdateKeepsLock(c) ==
  /\ HasMessage(c)
  /\ ~ Front(c).ignore /\ Front(c).type = UPDATE /\ Front(c).sender = c
  /\ unacked' = [unacked EXCEPT ![c] = @ - 1]
  /\ Take(incoming(c))
  /\ UNCHANGED <<lines, bus, dir, ringTokens, mem, latest>>

ReceiveOwnUpdate(c) ==
  /\ HasMessage(c)
  /\ LET msg == Front(c) IN
       /\ ~ msg.ignore /\ msg.type = UPDATE /\ msg.sender = c
       /\ lines' = [lines EXCEPT ![c][msg.addr].updating = @ - 1]
  /\ unacked' = [unacked EXCEPT ![c] = @ - 1]
  /\ Take(incoming(c))
  /\ UNCHANGED <<bus, dir, ringTokens, mem, latest>>

\* Any other update is written into the line, loading or full, and goes on
Updated(line, msg) ==
  IF line.state = LINE_EMPTY THEN line
  ELSE [line EXCEPT !.data = blit(@, msg.data, msg.mask), !.valid = @ \cup msg.mask]

ReceiveUpdate(c) ==
  /\ HasMessage(c)
  /\ LET msg == Front(c) IN
       /\ ~ msg.ignore /\ msg.type = UPDATE /\ msg.sender # c
       /\ SetLine(c, msg.addr, Updated(lines[c][msg.addr], msg))
       /\ Forward(c, msg)
  /\ UNCHANGED <<bus, unacked, dir, ringTokens, mem, latest>>

DoReceive(c) ==
  \/ ReceiveIgnored(c) \/ ReceiveRequest(c) \/ ReceiveResponse(c)
  \/ ReceiveEviction(c) \/ ReceiveOwnUpdate(c) \/ ReceiveUpdate(c)
=============================================================================
