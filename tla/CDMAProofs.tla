----------------------------- MODULE CDMAProofs -----------------------------
(***************************************************************************)
(* Proofs about the CDMA network for any number of caches, directories,     *)
(* root directories, lines and buffer slots.                               *)
(***************************************************************************)
EXTENDS CDMA, FiniteSetTheorems, TLAPS

-----------------------------------------------------------------------------
(* The channels                                                            *)

LEMMA NodeChannels ==
  /\ \A n \in Nodes : incoming(n) \in Channels /\ outgoing(n) \in Channels
  /\ \A r \in Roots : /\ requests(r) \in Channels
                      /\ responses(r) \in Channels
                      /\ active(r) \in Channels
  /\ Caches \subseteq Nodes /\ Roots \subseteq Nodes
  /\ \A d \in Directories : Top(d) \in Nodes /\ Bottom(d) \in Nodes
  BY DEF Channels, Nodes, Top, Bottom, incoming, outgoing, requests, responses, active

\* What is known of a message m in channel ch; a read in the DDR channel is
\* never one that only passes through
InPlace(ch, m) == HasItsTokens(ch, m) /\ (ch[1] = "active" => ~ m.ignore)

MsgOK(ch, m) == m \in Message /\ InPlace(ch, m)

NetOK(n) ==
  /\ n \in [Channels -> Seq(Message)]
  /\ \A ch \in Channels : \A k \in 1..Len(n[ch]) : InPlace(ch, n[ch][k])

\* What is known of a message on a ring
RingOK(m) == m \in Message /\ (m.type \in CarriesTokens => m.tokens > 0)

LEMMA RingMessage ==
  /\ \A m, n : RingOK(m) => /\ MsgOK(incoming(n), m) /\ MsgOK(outgoing(n), m)
                            /\ MsgOK(requests(n), m) /\ MsgOK(responses(n), m)
  /\ \A m, n : MsgOK(incoming(n), m) => RingOK(m)
  /\ \A m, n : MsgOK(outgoing(n), m) => RingOK(m)
  BY DEF RingOK, MsgOK, InPlace, HasItsTokens, MemoryPipe, incoming, outgoing, requests,
         responses

LEMMA FrontOK ==
  ASSUME NetOK(net), NEW ch \in Channels, net[ch] # <<>>
  PROVE  Head(net[ch]) \in Message /\ InPlace(ch, Head(net[ch]))
  BY DEF NetOK

\* A channel after a message left it, or joined it
LEMMA TailOK ==
  ASSUME NEW ch, NEW s \in Seq(Message), s # <<>>,
         \A k \in 1..Len(s) : InPlace(ch, s[k])
  PROVE  /\ Tail(s) \in Seq(Message)
         /\ \A k \in 1..Len(Tail(s)) : InPlace(ch, Tail(s)[k])
  <1>1. Len(Tail(s)) = Len(s) - 1 /\ \A k \in 1..Len(Tail(s)) : Tail(s)[k] = s[k + 1]
    OBVIOUS
  <1>2. \A k \in 1..Len(Tail(s)) : k + 1 \in 1..Len(s)
    BY <1>1
  <1> QED
    BY <1>1, <1>2

LEMMA AppendOK ==
  ASSUME NEW ch, NEW s \in Seq(Message), NEW m, MsgOK(ch, m),
         \A k \in 1..Len(s) : InPlace(ch, s[k])
  PROVE  /\ Append(s, m) \in Seq(Message)
         /\ \A k \in 1..Len(Append(s, m)) : InPlace(ch, Append(s, m)[k])
  <1>1. Append(s, m) \in Seq(Message)
    BY DEF MsgOK
  <1>2. ASSUME NEW k \in 1..Len(Append(s, m))
        PROVE  InPlace(ch, Append(s, m)[k])
    <2>1. CASE k = Len(s) + 1
      BY <2>1 DEF MsgOK
    <2>2. CASE k \in 1..Len(s)
      BY <2>2
    <2> QED
      BY <2>1, <2>2
  <1> QED
    BY <1>1, <1>2

LEMMA TakeOK ==
  ASSUME NetOK(net), NEW ch \in Channels, net[ch] # <<>>, Take(ch)
  PROVE  NetOK(net')
  <1>1. net' \in [Channels -> Seq(Message)]
    BY TailOK DEF NetOK, Take
  <1>2. ASSUME NEW x \in Channels
        PROVE  \A k \in 1..Len(net'[x]) : InPlace(x, net'[x][k])
    <2>1. CASE x = ch
      <3>1. net'[x] = Tail(net[ch])
        BY <2>1 DEF Take, NetOK
      <3> QED
        BY <2>1, <3>1, TailOK DEF NetOK
    <2>2. CASE x # ch
      BY <2>2 DEF Take, NetOK
    <2> QED
      BY <2>1, <2>2
  <1> QED
    BY <1>1, <1>2 DEF NetOK

LEMMA PutOK ==
  ASSUME NetOK(net), NEW ch \in Channels, NEW m, MsgOK(ch, m), Put(ch, m)
  PROVE  NetOK(net')
  <1>1. net' \in [Channels -> Seq(Message)]
    BY AppendOK DEF NetOK, Put
  <1>2. ASSUME NEW x \in Channels
        PROVE  \A k \in 1..Len(net'[x]) : InPlace(x, net'[x][k])
    <2>1. CASE x = ch
      <3>1. net'[x] = Append(net[ch], m)
        BY <2>1 DEF Put, NetOK
      <3> QED
        BY <2>1, <3>1, AppendOK DEF NetOK
    <2>2. CASE x # ch
      BY <2>2 DEF Put, NetOK
    <2> QED
      BY <2>1, <2>2
  <1> QED
    BY <1>1, <1>2 DEF NetOK

LEMMA PassOK ==
  ASSUME NetOK(net), NEW from \in Channels, net[from] # <<>>, NEW to \in Channels,
         from # to, NEW m, MsgOK(to, m), Pass(from, to, m)
  PROVE  NetOK(net')
  <1>1. net'[from] = Tail(net[from]) /\ net'[to] = Append(net[to], m)
    BY DEF NetOK, Pass
  <1>2. \A x \in Channels \ {from, to} : net'[x] = net[x]
    BY DEF NetOK, Pass
  <1>3. net' \in [Channels -> Seq(Message)]
    BY TailOK, AppendOK DEF NetOK, Pass
  <1>4. ASSUME NEW x \in Channels
        PROVE  \A k \in 1..Len(net'[x]) : InPlace(x, net'[x][k])
    <2>1. CASE x = from
      BY <2>1, <1>1, TailOK DEF NetOK
    <2>2. CASE x = to
      BY <2>2, <1>1, AppendOK DEF NetOK
    <2>3. CASE x \notin {from, to}
      BY <2>3, <1>2 DEF NetOK
    <2> QED
      BY <2>1, <2>2, <2>3
  <1> QED
    BY <1>3, <1>4 DEF NetOK

-----------------------------------------------------------------------------
(* Lines and messages                                                      *)

LineOK(l) == l \in Line /\ (l.tokens > 0 <=> l.state = LINE_FULL)

LinesOK(ls) ==
  /\ ls \in [Caches -> [Addrs -> Line]]
  /\ \A c \in Caches, a \in Addrs : LineOK(ls[c][a])

LEMMA SetLineOK ==
  ASSUME LinesOK(lines), NEW c \in Caches, NEW a \in Addrs, NEW l, LineOK(l),
         SetLine(c, a, l)
  PROVE  LinesOK(lines')
  BY DEF LinesOK, LineOK, SetLine

LEMMA BlitType ==
  ASSUME NEW dst \in Data, NEW src \in Data, NEW mask
  PROVE  blit(dst, src, mask) \in Data
  BY DEF blit, Data

LEMMA EmptyLineOK == LineOK(EmptyLine) /\ LineOK(LoadingLine)
  <1>1. NoData \in Data
    BY DEF NoData, Data
  <1>2. LineOK(EmptyLine)
    BY <1>1 DEF LineOK, EmptyLine, Line, LINE_EMPTY, LINE_FULL
  <1>3. LoadingLine \in Line /\ LoadingLine.tokens = 0 /\ LoadingLine.state = LINE_LOADING
    BY <1>2 DEF LineOK, Line, LoadingLine, EmptyLine
  <1> QED
    BY <1>2, <1>3 DEF LineOK, LINE_LOADING, LINE_FULL

LEMMA RequestMsgOK ==
  ASSUME NEW c \in Caches, NEW a \in Addrs
  PROVE  RingOK(RequestMsg(c, a))
  <1>1. NoData \in Data
    BY DEF NoData, Data
  <1>2. RequestMsg(c, a) \in Message
    BY <1>1 DEF RequestMsg, Message, MsgType
  <1>3. RequestMsg(c, a).type \notin CarriesTokens
    BY DEF RequestMsg, CarriesTokens, REQUEST, REQUEST_DATA_TOKEN, EVICTION
  <1> QED
    BY <1>2, <1>3 DEF RingOK

LEMMA EvictionMsgOK ==
  ASSUME LinesOK(lines), NEW c \in Caches, NEW a \in Addrs,
         lines[c][a].state = LINE_FULL
  PROVE  RingOK(EvictionMsg(c, a))
  <1>1. lines[c][a] \in Line /\ lines[c][a].tokens > 0
    BY DEF LinesOK, LineOK
  <1>2. RequestMsg(c, a) \in Message
    BY RequestMsgOK DEF RingOK
  <1>3. EvictionMsg(c, a) \in Message /\ EvictionMsg(c, a).tokens = lines[c][a].tokens
    BY <1>1, <1>2 DEF EvictionMsg, Message, MsgType, Line
  <1> QED
    BY <1>1, <1>3 DEF RingOK

LEMMA UpdateMsgOK ==
  ASSUME NEW c \in Caches, NEW req \in Request
  PROVE  RingOK(UpdateMsg(c, req))
  <1>1. RequestMsg(c, req.addr) \in Message
    BY RequestMsgOK DEF RingOK, Request
  <1>2. UpdateMsg(c, req) \in Message /\ UpdateMsg(c, req).type = UPDATE
    BY <1>1 DEF UpdateMsg, Message, MsgType, Request
  <1> QED
    BY <1>2 DEF RingOK, CarriesTokens, REQUEST_DATA_TOKEN, EVICTION, UPDATE

LEMMA WrittenOK ==
  ASSUME NEW l, LineOK(l), NEW req \in Request
  PROVE  LineOK(Written(l, req)) /\ LineOK([Written(l, req) EXCEPT !.updating = @ + 1])
  <1>1. blit(l.data, req.data, req.mask) \in Data
    BY BlitType DEF LineOK, Line, Request
  <1>2. LineOK(Written(l, req))
    BY <1>1 DEF LineOK, Line, Written, Request
  <1>3. LineOK([Written(l, req) EXCEPT !.updating = @ + 1])
    BY <1>2 DEF LineOK, Line
  <1> QED
    BY <1>2, <1>3

LEMMA AnsweredOK ==
  ASSUME NEW l, LineOK(l), NEW msg, RingOK(msg),
         msg.type \in {REQUEST, REQUEST_DATA}
  PROVE  RingOK(Answered(msg, l))
  <1>1. CASE GivesToken(l)
    <2>1. Answered(msg, l) \in Message /\ Answered(msg, l).tokens = 1
      BY <1>1 DEF Answered, RingOK, Message, MsgType, LineOK, Line
    <2> QED
      BY <2>1 DEF RingOK
  <1>2. CASE ~ GivesToken(l) /\ GivesData(l, msg)
    <2>1. Answered(msg, l) \in Message /\ Answered(msg, l).type = REQUEST_DATA
      BY <1>2 DEF Answered, RingOK, Message, MsgType, LineOK, Line
    <2> QED
      BY <2>1 DEF RingOK, CarriesTokens, REQUEST_DATA,
                  REQUEST_DATA_TOKEN, EVICTION
  <1>3. CASE ~ GivesToken(l) /\ ~ GivesData(l, msg)
    BY <1>3 DEF Answered
  <1> QED
    BY <1>1, <1>2, <1>3

LEMMA FilledOK ==
  ASSUME NEW l, LineOK(l), NEW msg \in Message, msg.tokens > 0
  PROVE  LineOK(Filled(l, msg))
  <1>1. blit(msg.data, l.data, l.valid) \in Data
    BY BlitType DEF LineOK, Line, Message
  <1> QED
    BY <1>1 DEF LineOK, Line, Filled, Message

LEMMA MergedOK ==
  ASSUME NEW l, LineOK(l), l.state = LINE_FULL, NEW msg \in Message
  PROVE  LineOK(Merged(l, msg))
  <1>1. l.tokens + msg.tokens \in Nat /\ l.tokens + msg.tokens > 0
    BY DEF LineOK, Line, Message
  <1>2. (l.dirty \/ msg.dirty) \in BOOLEAN
    OBVIOUS
  <1>3. /\ Merged(l, msg) \in Line
        /\ Merged(l, msg).tokens = l.tokens + msg.tokens
        /\ Merged(l, msg).state = LINE_FULL
    BY <1>1, <1>2 DEF LineOK, Line, Merged
  <1> QED
    BY <1>1, <1>3 DEF LineOK

LEMMA StoredOK ==
  ASSUME NEW msg \in Message, msg.tokens > 0
  PROVE  LineOK(Stored(msg))
  <1>1. EmptyLine \in Line
    BY EmptyLineOK DEF LineOK
  <1>2. /\ Stored(msg) \in Line
        /\ Stored(msg).tokens = msg.tokens
        /\ Stored(msg).state = LINE_FULL
    BY <1>1 DEF Stored, Line, Message
  <1> QED
    BY <1>2 DEF LineOK

LEMMA UpdatedOK ==
  ASSUME NEW l, LineOK(l), NEW msg \in Message
  PROVE  LineOK(Updated(l, msg))
  <1>1. blit(l.data, msg.data, msg.mask) \in Data
    BY BlitType DEF LineOK, Line, Message
  <1> QED
    BY <1>1 DEF LineOK, Line, Updated, Message

-----------------------------------------------------------------------------
(* The inductive invariant, split into channels, lines and the rest         *)

\* A message that only passes through never goes to the DDR channel
ReadsInDDR ==
  \A ch \in Channels : \A k \in 1..Len(net[ch]) : ch[1] = "active" => ~ net[ch][k].ignore

IInv == TypeOK /\ CopiesHaveTokens /\ ReadsInDDR

Others ==
  /\ bus \in [Caches -> Seq(Request)]
  /\ unacked \in [Caches -> Int]
  /\ dir \in [Roots -> [Addrs -> Entry]]
  /\ ringTokens \in [Directories -> [Addrs -> Int]]
  /\ mem \in [Addrs -> Data]
  /\ latest \in [Addrs -> Data]

LEMMA Parts ==
  /\ IInv <=> NetOK(net) /\ LinesOK(lines) /\ Others
  /\ IInv' <=> NetOK(net') /\ LinesOK(lines') /\ Others'
  BY DEF IInv, TypeOK, CopiesHaveTokens, ReadsInDDR, InPlace, NetOK, LinesOK, LineOK,
         Others

LEMMA BusHead ==
  ASSUME Others, NEW c \in Caches, bus[c] # <<>>
  PROVE  Head(bus[c]) \in Request
  BY DEF Others

LEMMA PopOK ==
  ASSUME Others, NEW c \in Caches, bus[c] # <<>>, PopRequest(c)
  PROVE  bus' \in [Caches -> Seq(Request)]
  BY DEF Others, PopRequest

LEMMA DistinctChannels ==
  \A n, m : /\ incoming(n) # outgoing(m) /\ incoming(n) # requests(m)
            /\ requests(n) # responses(m) /\ requests(n) # active(m)
            /\ active(n) # responses(m) /\ responses(n) # outgoing(m)
  BY DEF incoming, outgoing, requests, responses, active

-----------------------------------------------------------------------------
(* Every step preserves it                                                 *)

LEMMA ReadStep ==
  ASSUME IInv, NEW c \in Caches, NEW a \in Addrs, Read(c, a)
  PROVE  IInv'
  <1>1. NoData \in Data
    BY DEF NoData, Data
  <1>2. [write |-> FALSE, addr |-> a, data |-> NoData, mask |-> {}] \in Request
    BY <1>1 DEF Request
  <1>3. bus' \in [Caches -> Seq(Request)]
    BY <1>2, Parts DEF Read, Others
  <1> QED
    BY <1>3, Parts DEF Read, Others

LEMMA WriteStep ==
  ASSUME IInv, NEW c \in Caches, NEW a \in Addrs, NEW w \in Writes,
         Write(c, a, WriteData(w), w.mask)
  PROVE  IInv'
  <1>1. w.mask \in SUBSET Bytes /\ w.value \in Values
    BY CDMAAssumption
  <1>2. WriteData(w) \in Data
    BY <1>1 DEF WriteData, Data
  <1>3. [write |-> TRUE, addr |-> a, data |-> WriteData(w), mask |-> w.mask] \in Request
    BY <1>1, <1>2 DEF Request
  <1>4. bus' \in [Caches -> Seq(Request)] /\ unacked' \in [Caches -> Int]
    BY <1>3, Parts DEF Write, Others
  <1> QED
    BY <1>4, Parts DEF Write, Others

LEMMA ForwardStep ==
  ASSUME IInv, NEW n \in Nodes, DoForward(n)
  PROVE  IInv'
  <1> DEFINE m == Head(net[outgoing(n)])
  <1>1. /\ outgoing(n) \in Channels /\ incoming(NextNode[n]) \in Channels
        /\ outgoing(n) # incoming(NextNode[n])
    BY NodeChannels, NodeAssumption, DistinctChannels
  <1>2. MsgOK(outgoing(n), m)
    BY <1>1, FrontOK, Parts DEF DoForward, MsgOK
  <1>3. MsgOK(incoming(NextNode[n]), m)
    BY <1>2, RingMessage
  <1>4. NetOK(net')
    BY <1>1, <1>3, PassOK, Parts DEF DoForward
  <1> QED
    BY <1>4, Parts DEF DoForward, Others

LEMMA MissEvictStep ==
  ASSUME IInv, NEW c \in Caches, MissEvict(c)
  PROVE  IInv'
  <1>1. PICK v \in Addrs : lines[c][v].state = LINE_FULL /\ EvictLine(c, v)
    BY DEF MissEvict, Replaceable
  <1>2. NetOK(net')
    BY <1>1, Parts, EvictionMsgOK, RingMessage, PutOK, NodeChannels DEF EvictLine
  <1>3. LinesOK(lines')
    BY <1>1, Parts, SetLineOK, EmptyLineOK DEF EvictLine
  <1> QED
    BY <1>2, <1>3, Parts DEF MissEvict, Others

LEMMA MissLoadStep ==
  ASSUME IInv, NEW c \in Caches, MissLoad(c)
  PROVE  IInv'
  <1> DEFINE req == Head(bus[c])
  <1>1. req \in Request /\ req.addr \in Addrs
    BY Parts, BusHead DEF MissLoad, Request
  <1>2. NetOK(net')
    BY <1>1, Parts, RequestMsgOK, RingMessage, PutOK, NodeChannels DEF MissLoad
  <1>3. LinesOK(lines')
    BY <1>1, Parts, SetLineOK, EmptyLineOK DEF MissLoad
  <1>4. bus' \in [Caches -> Seq(Request)]
    BY Parts, PopOK DEF MissLoad, Others
  <1> QED
    BY <1>2, <1>3, <1>4, Parts DEF MissLoad, Others

LEMMA ReadHitStep ==
  ASSUME IInv, NEW c \in Caches, ReadHit(c)
  PROVE  IInv'
  BY Parts, PopOK DEF ReadHit, Others

LEMMA WriteHitStep ==
  ASSUME IInv, NEW c \in Caches, WriteHitExclusive(c) \/ WriteHitShared(c)
  PROVE  IInv'
  <1> DEFINE req  == Head(bus[c])
             line == lines[c][req.addr]
  <1>0. bus[c] # <<>> /\ PopRequest(c)
    BY DEF WriteHitExclusive, WriteHitShared
  <1>1. req \in Request /\ req.addr \in Addrs /\ req.data \in Data
    BY <1>0, Parts, BusHead DEF Request
  <1>2. LineOK(line)
    BY <1>1, Parts DEF LinesOK
  <1>3. bus' \in [Caches -> Seq(Request)]
    BY <1>0, Parts, PopOK
  <1>4. latest' \in [Addrs -> Data]
    <2>1. latest[req.addr] \in Data
      BY <1>1, Parts DEF Others
    <2>2. blit(latest[req.addr], req.data, req.mask) \in Data
      BY <1>1, <2>1, BlitType
    <2>3. latest' = [latest EXCEPT ![req.addr] = blit(latest[req.addr], req.data, req.mask)]
      BY DEF WriteHitExclusive, WriteHitShared
    <2> QED
      BY <2>2, <2>3, Parts DEF Others
  <1>5. CASE WriteHitExclusive(c)
    <2>1. LinesOK(lines')
      BY <1>1, <1>2, <1>5, Parts, WrittenOK, SetLineOK DEF WriteHitExclusive
    <2>2. unacked' \in [Caches -> Int]
      BY <1>5, Parts DEF WriteHitExclusive, Others
    <2> QED
      BY <1>3, <1>4, <1>5, <2>1, <2>2, Parts DEF WriteHitExclusive, Others
  <1>6. CASE WriteHitShared(c)
    <2>1. LinesOK(lines')
      BY <1>1, <1>2, <1>6, Parts, WrittenOK, SetLineOK DEF WriteHitShared
    <2>2. NetOK(net')
      BY <1>1, <1>6, Parts, UpdateMsgOK, RingMessage, PutOK, NodeChannels DEF WriteHitShared
    <2> QED
      BY <1>3, <1>4, <1>6, <2>1, <2>2, Parts DEF WriteHitShared, Others
  <1> QED
    BY <1>5, <1>6

\* The front message of a node's incoming buffer, and where it may go
LEMMA NodeFront ==
  ASSUME IInv, NEW n \in Nodes, net[incoming(n)] # <<>>
  PROVE  RingOK(Head(net[incoming(n)]))
  <1>1. incoming(n) \in Channels
    BY NodeChannels
  <1>2. MsgOK(incoming(n), Head(net[incoming(n)]))
    BY <1>1, FrontOK, Parts DEF MsgOK
  <1> QED
    BY <1>2, RingMessage

LEMMA ForwardOK ==
  ASSUME IInv, NEW c \in Caches, NEW m, HasMessage(c), RingOK(m), Forward(c, m)
  PROVE  NetOK(net')
  BY Parts, NodeChannels, DistinctChannels, PassOK, RingMessage DEF Forward, HasMessage

LEMMA ReceiveStep ==
  ASSUME IInv, NEW c \in Caches, DoReceive(c)
  PROVE  IInv'
  <1> DEFINE msg  == Front(c)
             line == lines[c][msg.addr]
  <1>0. c \in Nodes /\ incoming(c) \in Channels /\ HasMessage(c)
    BY NodeChannels DEF DoReceive, ReceiveIgnored, ReceiveRequest, ReceiveResponse,
       ReceiveEviction, IsEviction, ReceiveOwnUpdate, ReceiveUpdate
  <1>1. msg \in Message /\ RingOK(msg)
    BY <1>0, NodeFront DEF HasMessage, Front, RingOK
  <1>2. msg.addr \in Addrs /\ LineOK(line)
    BY <1>1, Parts DEF Message, LinesOK
  <1>3. msg.type \in {REQUEST_DATA_TOKEN, EVICTION} => msg.tokens > 0
    BY <1>1 DEF RingOK, CarriesTokens
  <1>4. Take(incoming(c)) => NetOK(net')
    BY <1>0, TakeOK, Parts DEF HasMessage
  <1>5. CASE ReceiveIgnored(c)
    <2>1. NetOK(net')
      BY <1>0, <1>1, <1>5, ForwardOK DEF ReceiveIgnored
    <2> QED
      BY <1>5, <2>1, Parts DEF ReceiveIgnored, Others
  <1>6. CASE ReceiveRequest(c)
    <2>1. NetOK(net')
      <3>1. RingOK(Answered(msg, line))
        BY <1>1, <1>2, <1>6, AnsweredOK DEF ReceiveRequest
      <3> QED
        BY <1>0, <1>6, <3>1, ForwardOK DEF ReceiveRequest
    <2>2. LinesOK(lines')
      <3>1. GivesToken(line) => LineOK([line EXCEPT !.tokens = @ - 1])
        BY <1>2 DEF LineOK, Line, GivesToken
      <3> QED
        BY <1>2, <1>6, <3>1, SetLineOK, Parts DEF ReceiveRequest
    <2> QED
      BY <1>6, <2>1, <2>2, Parts DEF ReceiveRequest, Others
  <1>7. CASE ReceiveResponse(c)
    <2>1. msg.tokens > 0
      BY <1>3, <1>7 DEF ReceiveResponse
    <2>2. LinesOK(lines')
      BY <1>1, <1>2, <1>7, <2>1, FilledOK, SetLineOK, Parts DEF ReceiveResponse
    <2> QED
      BY <1>4, <1>7, <2>2, Parts DEF ReceiveResponse, Others
  <1>8. CASE ReceiveEviction(c)
    <2>1. msg.tokens > 0
      BY <1>3, <1>8 DEF ReceiveEviction, IsEviction
    <2>2. CASE CanMerge(c) /\ SetLine(c, msg.addr, Merged(line, msg)) /\ Take(incoming(c))
      <3>1. LinesOK(lines')
        BY <1>1, <1>2, <2>2, MergedOK, SetLineOK, Parts DEF CanMerge
      <3> QED
        BY <1>4, <1>8, <2>2, <3>1, Parts DEF ReceiveEviction, Others
    <2>3. CASE SetLine(c, msg.addr, Stored(msg)) /\ Take(incoming(c))
      <3>1. LinesOK(lines')
        BY <1>1, <1>2, <2>1, <2>3, StoredOK, SetLineOK, Parts
      <3> QED
        BY <1>4, <1>8, <2>3, <3>1, Parts DEF ReceiveEviction, Others
    <2>4. CASE Forward(c, msg) /\ lines' = lines
      <3>1. NetOK(net')
        BY <1>0, <1>1, <2>4, ForwardOK
      <3> QED
        BY <1>8, <2>4, <3>1, Parts DEF ReceiveEviction, Others
    <2> QED
      BY <1>8, <2>2, <2>3, <2>4 DEF ReceiveEviction
  <1>9. CASE ReceiveOwnUpdate(c)
    <2>1. lines' = [lines EXCEPT ![c][msg.addr].updating = line.updating - 1]
      BY <1>9 DEF ReceiveOwnUpdate
    <2>2. LineOK([line EXCEPT !.updating = line.updating - 1])
      BY <1>2 DEF LineOK, Line
    <2>3. LinesOK(lines')
      BY <1>2, <2>1, <2>2, Parts DEF LinesOK, LineOK
    <2>4. unacked' \in [Caches -> Int]
      BY <1>9, Parts DEF ReceiveOwnUpdate, Others
    <2> QED
      BY <1>4, <1>9, <2>3, <2>4, Parts DEF ReceiveOwnUpdate, Others
  <1>10. CASE ReceiveUpdate(c)
    <2>1. NetOK(net')
      BY <1>0, <1>1, <1>10, ForwardOK DEF ReceiveUpdate
    <2>2. LinesOK(lines')
      BY <1>1, <1>2, <1>10, UpdatedOK, SetLineOK, Parts DEF ReceiveUpdate
    <2> QED
      BY <1>10, <2>1, <2>2, Parts DEF ReceiveUpdate, Others
  <1> QED
    BY <1>5, <1>6, <1>7, <1>8, <1>9, <1>10 DEF DoReceive

LEMMA IgnoreOK ==
  ASSUME NEW m, RingOK(m), NEW i \in BOOLEAN
  PROVE  RingOK([m EXCEPT !.ignore = i])
  <1>1. /\ [m EXCEPT !.ignore = i] \in Message
        /\ [m EXCEPT !.ignore = i].type = m.type
        /\ [m EXCEPT !.ignore = i].tokens = m.tokens
    BY DEF Message, RingOK
  <1> QED
    BY <1>1 DEF RingOK

LEMMA DirectoryTypes ==
  ASSUME IInv, NEW d \in Directories, NEW a \in Addrs, NEW k \in Int,
         ringTokens' = [ringTokens EXCEPT ![d][a] = k]
  PROVE  ringTokens' \in [Directories -> [Addrs -> Int]]
  BY Parts DEF Others

LEMMA DirectoryStepOK ==
  ASSUME IInv, NEW d \in Directories, DirectoryStep(d)
  PROVE  IInv'
  <1>1. CASE DoInBottom(d)
    <2> DEFINE msg == Head(net[incoming(Bottom(d))])
    <2>1. /\ Bottom(d) \in Nodes /\ incoming(Bottom(d)) \in Channels
          /\ Top(d) \in Nodes /\ outgoing(Top(d)) \in Channels
          /\ net[incoming(Bottom(d))] # <<>>
      BY <1>1, NodeChannels DEF DoInBottom
    <2>2. msg \in Message /\ RingOK(msg)
      BY <2>1, NodeFront DEF RingOK
    <2>3. MsgOK(outgoing(Top(d)), [msg EXCEPT !.ignore = FALSE])
      BY <2>2, IgnoreOK, RingMessage
    <2>4. NetOK(net')
      BY <1>1, <2>1, <2>3, PassOK, DistinctChannels, Parts DEF DoInBottom
    <2>5. ringTokens' \in [Directories -> [Addrs -> Int]]
      <3>1. /\ msg.addr \in Addrs
            /\ ringTokens[d][msg.addr] - msg.tokens \in Int
            /\ ringTokens[d][msg.addr] + msg.tokens \in Int
        BY <2>2, Parts DEF Message, Others
      <3>2. \/ ringTokens' = ringTokens
            \/ ringTokens' = [ringTokens EXCEPT ![d][msg.addr] =
                                ringTokens[d][msg.addr] - msg.tokens]
        BY <1>1 DEF DoInBottom
      <3> QED
        BY <3>1, <3>2, DirectoryTypes, Parts DEF Others
    <2> QED
      BY <1>1, <2>4, <2>5, Parts DEF DoInBottom, Others
  <1>2. CASE DoInTop(d)
    <2> DEFINE msg == Head(net[incoming(Top(d))])
    <2>1. /\ Bottom(d) \in Nodes /\ outgoing(Bottom(d)) \in Channels
          /\ Top(d) \in Nodes /\ outgoing(Top(d)) \in Channels
          /\ incoming(Top(d)) \in Channels
          /\ net[incoming(Top(d))] # <<>>
      BY <1>2, NodeChannels DEF DoInTop
    <2>2. msg \in Message /\ RingOK(msg)
      BY <2>1, NodeFront DEF RingOK
    <2>3. RingOK([msg EXCEPT !.ignore = TRUE])
      BY <2>2, IgnoreOK
    <2>4. NetOK(net')
      <3>1. \/ Pass(incoming(Top(d)), outgoing(Bottom(d)), msg)
            \/ Pass(incoming(Top(d)), outgoing(Top(d)), msg)
            \/ Pass(incoming(Top(d)), outgoing(Bottom(d)), [msg EXCEPT !.ignore = TRUE])
        BY <1>2 DEF DoInTop
      <3> QED
        BY <2>1, <2>2, <2>3, <3>1, PassOK, RingMessage, DistinctChannels, Parts
    <2>5. ringTokens' \in [Directories -> [Addrs -> Int]]
      <3>1. /\ msg.addr \in Addrs
            /\ ringTokens[d][msg.addr] - msg.tokens \in Int
            /\ ringTokens[d][msg.addr] + msg.tokens \in Int
        BY <2>2, Parts DEF Message, Others
      <3>2. \/ ringTokens' = ringTokens
            \/ ringTokens' = [ringTokens EXCEPT ![d][msg.addr] =
                                ringTokens[d][msg.addr] + msg.tokens]
        BY <1>2 DEF DoInTop
      <3> QED
        BY <3>1, <3>2, DirectoryTypes, Parts DEF Others
    <2> QED
      BY <1>2, <2>4, <2>5, Parts DEF DoInTop, Others
  <1> QED
    BY <1>1, <1>2 DEF DirectoryStep

\* Forwarding by a root directory keeps the message's tokens
LEMMA ForwardRootOK ==
  ASSUME IInv, NEW r \in Roots, net[incoming(r)] # <<>>,
         NEW m, RingOK(m), ForwardRoot(r, m)
  PROVE  NetOK(net')
  <1>1. /\ incoming(r) \in Channels /\ outgoing(r) \in Channels
        /\ requests(r) \in Channels
    BY NodeChannels
  <1>2. MsgOK(requests(r), [m EXCEPT !.ignore = TRUE]) /\ MsgOK(outgoing(r), m)
    BY IgnoreOK, RingMessage
  <1> QED
    BY <1>1, <1>2, PassOK, DistinctChannels, Parts DEF ForwardRoot

LEMMA SetEntry ==
  ASSUME IInv, NEW r \in Roots, NEW a \in Addrs, NEW e \in Entry,
         dir' = [dir EXCEPT ![r][a] = e]
  PROVE  dir' \in [Roots -> [Addrs -> Entry]]
  BY Parts DEF Others

LEMMA TotalTokensType == TotalTokens \in Nat /\ TotalTokens > 0
  <1>1. IsFiniteSet(Caches) /\ Caches # {}
    BY NodeAssumption
  <1> QED
    BY <1>1, FS_CardinalityType, FS_EmptySet DEF TotalTokens

LEMMA RootIncomingStep ==
  ASSUME IInv, NEW r \in Roots, DoIncoming(r)
  PROVE  IInv'
  <1> DEFINE msg   == Head(net[incoming(r)])
             entry == dir[r][msg.addr]
  <1>0. /\ r \in Nodes /\ net[incoming(r)] # <<>>
        /\ incoming(r) \in Channels /\ requests(r) \in Channels
    BY NodeChannels DEF DoIncoming, RootPass, RootRequest, RootRequestData,
                        RootEviction, AtRoot
  <1>1. msg \in Message /\ RingOK(msg)
    BY <1>0, NodeFront DEF RingOK
  <1>2. /\ msg.addr \in Addrs /\ msg.tokens \in Nat /\ msg.sender \in Caches
        /\ entry \in Entry /\ entry.tokens \in Nat
    BY <1>1, Parts DEF Message, Others, Entry
  <1>3. Pass(incoming(r), requests(r), msg) => NetOK(net')
    BY <1>0, <1>1, PassOK, RingMessage, DistinctChannels, Parts
  <1>4. Take(incoming(r)) => NetOK(net')
    BY <1>0, TakeOK, Parts
  <1>5. ForwardRoot(r, msg) => NetOK(net')
    BY <1>0, <1>1, ForwardRootOK
  <1>6. CASE RootPass(r)
    BY <1>5, <1>6, Parts DEF RootPass, Others
  <1>7. CASE RootRequest(r)
    <2>1. NetOK(net')
      BY <1>3, <1>5, <1>7 DEF RootRequest
    <2>2. [state |-> DIR_LOADING, tokens |-> 0, sender |-> msg.sender] \in Entry
      BY <1>2 DEF Entry
    <2>3. dir' \in [Roots -> [Addrs -> Entry]]
      BY <1>2, <1>7, <2>2, SetEntry, Parts DEF RootRequest, Others
    <2> QED
      BY <1>7, <2>1, <2>3, Parts DEF RootRequest, Others
  <1>8. CASE RootRequestData(r)
    <2> DEFINE give == IF entry.state = DIR_EMPTY THEN TotalTokens ELSE entry.tokens
               ans  == [msg EXCEPT !.type = REQUEST_DATA_TOKEN, !.tokens = give]
               st   == IF entry.state = DIR_EMPTY THEN DIR_FULL ELSE entry.state
    <2>1. \/ /\ give > 0 /\ ForwardRoot(r, ans)
             /\ dir' = [dir EXCEPT ![r][msg.addr].tokens = 0, ![r][msg.addr].state = st]
          \/ ForwardRoot(r, msg) /\ dir' = dir
      BY <1>8, <1>2, Parts DEF RootRequestData, Others
    <2>2. give \in Nat
      BY <1>2, TotalTokensType
    <2>3. ans \in Message /\ ans.tokens = give
      <3> HIDE DEF give
      <3> QED
        BY <1>1, <2>2 DEF Message, MsgType
    <2>4. give > 0 => RingOK(ans)
      BY <2>3 DEF RingOK
    <2>5. NetOK(net')
      <3> HIDE DEF ans, st, give
      <3> QED
        BY <1>0, <1>5, <2>1, <2>4, ForwardRootOK
    <2>6. dir' \in [Roots -> [Addrs -> Entry]]
      <3>1. st \in {DIR_EMPTY, DIR_LOADING, DIR_FULL}
        BY <1>2 DEF Entry
      <3> HIDE DEF ans, st, give
      <3>2. [entry EXCEPT !.tokens = 0, !.state = st] \in Entry
        BY <1>2, <3>1 DEF Entry
      <3>3. \/ dir' = dir
            \/ dir' = [dir EXCEPT ![r][msg.addr] = [entry EXCEPT !.tokens = 0, !.state = st]]
        BY <1>2, <2>1, Parts DEF Others
      <3> QED
        BY <1>2, <3>2, <3>3, SetEntry, Parts DEF Others
    <2> QED
      BY <1>8, <2>5, <2>6, Parts DEF RootRequestData, Others
  <1>9. CASE RootEviction(r)
    <2>1. NetOK(net')
      BY <1>3, <1>4, <1>9 DEF RootEviction
    <2>2. NoEntry \in Entry
      BY <1>2 DEF NoEntry, Entry
    <2>3. dir' \in [Roots -> [Addrs -> Entry]]
      <3> DEFINE sum == msg.tokens + entry.tokens
      <3>1. sum \in Nat /\ [entry EXCEPT !.tokens = sum] \in Entry
        BY <1>2 DEF Entry
      <3>2. \/ dir' = [dir EXCEPT ![r][msg.addr] = [entry EXCEPT !.tokens = sum]]
            \/ dir' = [dir EXCEPT ![r][msg.addr] = NoEntry]
        BY <1>2, <1>9, Parts DEF RootEviction, Others
      <3> QED
        BY <1>2, <2>2, <3>1, <3>2, SetEntry
    <2> QED
      BY <1>9, <2>1, <2>3, Parts DEF RootEviction, Others
  <1> QED
    BY <1>6, <1>7, <1>8, <1>9 DEF DoIncoming

LEMMA PipeFront ==
  ASSUME IInv, NEW ch \in Channels, net[ch] # <<>>
  PROVE  MsgOK(ch, Head(net[ch])) /\ Head(net[ch]).addr \in Addrs
  BY FrontOK, Parts DEF Message, MsgOK

LEMMA DoMemoryStep ==
  ASSUME IInv, NEW r \in Roots, DoMemory(r)
  PROVE  IInv'
  <1> DEFINE msg == Head(net[requests(r)])
  <1>0. /\ net[requests(r)] # <<>>
        /\ requests(r) \in Channels /\ responses(r) \in Channels /\ active(r) \in Channels
    BY NodeChannels DEF DoMemory
  <1>1. MsgOK(requests(r), msg) /\ msg.addr \in Addrs
    BY <1>0, PipeFront
  <1>2. MsgOK(responses(r), msg) /\ (~ msg.ignore => MsgOK(active(r), msg))
    BY <1>1 DEF MsgOK, InPlace, HasItsTokens, MemoryPipe, requests, responses, active
  <1>3. NetOK(net')
    <2>1. \/ Pass(requests(r), responses(r), msg)
          \/ ~ msg.ignore /\ Pass(requests(r), active(r), msg)
          \/ Take(requests(r))
      BY DEF DoMemory
    <2> QED
      BY <1>0, <1>2, <2>1, PassOK, TakeOK, DistinctChannels, Parts
  <1>4. mem' \in [Addrs -> Data]
    BY <1>1, Parts DEF DoMemory, Others, Message, MsgOK
  <1> QED
    BY <1>3, <1>4, Parts DEF DoMemory, Others

LEMMA OnReadCompletedStep ==
  ASSUME IInv, NEW r \in Roots, OnReadCompleted(r)
  PROVE  IInv'
  <1> DEFINE msg == Head(net[active(r)])
             ans == [msg EXCEPT !.type = REQUEST_DATA_TOKEN, !.dirty = FALSE,
                                !.data = mem[msg.addr]]
  <1>0. /\ net[active(r)] # <<>>
        /\ active(r) \in Channels /\ responses(r) \in Channels
    BY NodeChannels DEF OnReadCompleted
  <1>1. MsgOK(active(r), msg) /\ msg.addr \in Addrs
    BY <1>0, PipeFront
  <1>2. mem[msg.addr] \in Data
    BY <1>1, Parts DEF Others
  <1>3. ans \in Message /\ ~ ans.ignore
    BY <1>1, <1>2 DEF MsgOK, InPlace, Message, MsgType, active
  <1>4. MsgOK(responses(r), ans)
    BY <1>3 DEF MsgOK, InPlace, HasItsTokens, MemoryPipe, responses
  <1>5. NetOK(net')
    BY <1>0, <1>4, PassOK, DistinctChannels, Parts DEF OnReadCompleted
  <1> QED
    BY <1>5, Parts DEF OnReadCompleted, Others

LEMMA DoResponsesStep ==
  ASSUME IInv, NEW r \in Roots, DoResponses(r)
  PROVE  IInv'
  <1> DEFINE msg   == Head(net[responses(r)])
             entry == dir[r][msg.addr]
             ans   == [msg EXCEPT !.tokens = TotalTokens, !.sender = entry.sender]
  <1>0. /\ net[responses(r)] # <<>> /\ r \in Nodes
        /\ responses(r) \in Channels /\ outgoing(r) \in Channels
    BY NodeChannels DEF DoResponses
  <1>1. MsgOK(responses(r), msg) /\ msg.addr \in Addrs
    BY <1>0, PipeFront
  <1>2. entry \in Entry /\ entry.sender \in Caches
    BY <1>1, Parts DEF Others, Entry
  <1>3. ans \in Message /\ ans.tokens = TotalTokens
    BY <1>1, <1>2, TotalTokensType DEF MsgOK, Message
  <1>4. RingOK(ans)
    BY <1>2, <1>3, TotalTokensType DEF RingOK
  <1>5. msg.ignore => RingOK([msg EXCEPT !.ignore = FALSE])
    <2>1. msg.ignore => RingOK(msg)
      BY <1>1 DEF RingOK, MsgOK, InPlace, HasItsTokens
    <2> QED
      BY <2>1, IgnoreOK
  <1>6. NetOK(net')
    <2>1. \/ msg.ignore /\ Pass(responses(r), outgoing(r), [msg EXCEPT !.ignore = FALSE])
          \/ Pass(responses(r), outgoing(r), ans)
      BY DEF DoResponses
    <2> HIDE DEF ans
    <2> QED
      BY <1>0, <1>4, <1>5, <2>1, PassOK, RingMessage, DistinctChannels, Parts
  <1>7. dir' \in [Roots -> [Addrs -> Entry]]
    <2>1. [entry EXCEPT !.state = DIR_FULL] \in Entry
      BY <1>2 DEF Entry
    <2>2. \/ dir' = dir
          \/ dir' = [dir EXCEPT ![r][msg.addr] = [entry EXCEPT !.state = DIR_FULL]]
      BY <1>1, Parts DEF DoResponses, Others
    <2> QED
      BY <1>1, <2>1, <2>2, SetEntry, Parts DEF Others
  <1> QED
    BY <1>6, <1>7, Parts DEF DoResponses, Others

-----------------------------------------------------------------------------
LEMMA InitOK == Init => IInv
  <1> SUFFICES ASSUME Init PROVE IInv
    OBVIOUS
  <1>1. NetOK(net)
    BY DEF Init, NetOK
  <1>2. LinesOK(lines)
    BY EmptyLineOK DEF Init, InitCache, LinesOK, LineOK
  <1>3. Memory \in [Addrs -> Data]
    BY CDMAAssumption DEF Memory, Data
  <1>4. NoEntry \in Entry
    BY NodeAssumption DEF NoEntry, Entry
  <1>5. Others
    BY <1>3, <1>4 DEF Init, InitCache, InitRoot, InitDirectory, Others
  <1> QED
    BY <1>1, <1>2, <1>5, Parts

LEMMA StutterOK == IInv /\ UNCHANGED vars => IInv'
  BY Parts DEF vars, Others

LEMMA NextOK == IInv /\ [Next]_vars => IInv'
  <1> SUFFICES ASSUME IInv, [Next]_vars PROVE IInv'
    OBVIOUS
  <1>1. CASE ClientRead
    BY <1>1, ReadStep DEF ClientRead
  <1>2. CASE ClientWrite
    BY <1>2, WriteStep DEF ClientWrite
  <1>3. CASE \E n \in Nodes : DoForward(n)
    BY <1>3, ForwardStep
  <1>4. CASE \E c \in Caches : CacheStep(c)
    BY <1>4, MissEvictStep, MissLoadStep, ReadHitStep, WriteHitStep, ReceiveStep
       DEF CacheStep, DoRequests
  <1>5. CASE \E d \in Directories : DirectoryStep(d)
    BY <1>5, DirectoryStepOK
  <1>6. CASE \E r \in Roots : RootStep(r)
    BY <1>6, RootIncomingStep, DoMemoryStep, OnReadCompletedStep, DoResponsesStep
       DEF RootStep
  <1>7. CASE UNCHANGED vars
    BY <1>7, StutterOK
  <1> QED
    BY <1>1, <1>2, <1>3, <1>4, <1>5, <1>6, <1>7 DEF Next

(* Every variable of the network keeps its type, whatever the clients do.   *)
THEOREM TypeCorrect == Spec => []TypeOK
  <1>1. IInv => TypeOK
    BY DEF IInv
  <1> QED
    BY <1>1, InitOK, NextOK, PTL DEF Spec

(* Every copy of a line, in a cache or on its way, holds a token, and an     *)
(* empty or loading line holds none: the assertions of Cache.cpp on the      *)
(* tokens of answers, evictions and loading lines never fail.               *)
THEOREM TokensFollowCopies == Spec => []CopiesHaveTokens
  <1>1. IInv => CopiesHaveTokens
    BY DEF IInv
  <1> QED
    BY <1>1, InitOK, NextOK, PTL DEF Spec
=============================================================================
