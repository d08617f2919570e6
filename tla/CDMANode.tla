------------------------------ MODULE CDMANode ------------------------------
(***************************************************************************)
(* The ring of the CDMA memory network (arch/mem/cdma/Node.{h,cpp}): the    *)
(* messages, the bounded buffers between nodes, and the process that moves *)
(* a message from one node's outgoing buffer to the next node's incoming    *)
(* buffer.  Caches, directories and root directories are all nodes; their  *)
(* handlers are in CDMACache, CDMADirectory and CDMARoot, which share the   *)
(* state declared here.                                                    *)
(*                                                                         *)
(* A process of the simulator runs at most once per cycle and either       *)
(* commits all of its changes or none (sim/kernel.cpp, Kernel::Step), so a *)
(* process is one atomic action whose guard is the absence of a FAILED     *)
(* return.                                                                 *)
(***************************************************************************)
EXTENDS Integers, Sequences, FiniteSets

CONSTANTS
  Caches,          \* the L2 caches
  Directories,     \* directories between a low ring and the top ring
  Roots,           \* root directories (memory controllers)
  Addrs,           \* addresses of cache lines
  Bytes,           \* byte offsets inside a line
  Values,          \* values a byte can hold
  NoVal,           \* content of a byte that was never loaded or written
  NodeBufferSize,  \* capacity of m_incoming and m_outgoing
  NextNode         \* m_next of every node

Top(d)    == <<"top", d>>        \* the half of a directory on the upper ring
Bottom(d) == <<"bottom", d>>     \* the half of a directory on the lower ring

Nodes ==
  Caches \cup Roots \cup {Top(d) : d \in Directories}
         \cup {Bottom(d) : d \in Directories}

ASSUME NodeAssumption ==
  /\ NodeBufferSize \in Nat \ {0}
  /\ NextNode \in [Nodes -> Nodes]
  /\ Caches \cap Roots = {}
  /\ IsFiniteSet(Caches) /\ Caches # {}
  /\ NoVal \notin Values
  /\ Addrs # {} /\ Bytes # {} /\ Values # {}

(***************************************************************************)
(* Message::Type and the message record.  A field that the message's type  *)
(* leaves unset has a fixed default.                                       *)
(***************************************************************************)
REQUEST            == "RR"
REQUEST_DATA       == "RD"
REQUEST_DATA_TOKEN == "RDT"
EVICTION           == "EV"
UPDATE             == "UP"

MsgType == {REQUEST, REQUEST_DATA, REQUEST_DATA_TOKEN, EVICTION, UPDATE}
Data    == [Bytes -> Values \cup {NoVal}]
NoData  == [b \in Bytes |-> NoVal]

TotalTokens == Cardinality(Caches)      \* CDMA::GetTotalTokens

Message ==
  [type : MsgType, addr : Addrs, sender : Caches, ignore : BOOLEAN,
   dirty : BOOLEAN, data : Data, mask : SUBSET Bytes, tokens : Nat]

\* line::blit: the bytes of src selected by mask overwrite those of dst
blit(dst, src, mask) == [b \in Bytes |-> IF b \in mask THEN src[b] ELSE dst[b]]

(***************************************************************************)
(* Every buffer that holds messages is a channel.  net[<<"incoming", n>>]  *)
(* and net[<<"outgoing", n>>] are the buffers of node n; a root directory  *)
(* also has m_requests, m_responses and m_active.                          *)
(***************************************************************************)
incoming(n)  == <<"incoming", n>>
outgoing(n)  == <<"outgoing", n>>
requests(r)  == <<"requests", r>>
responses(r) == <<"responses", r>>
active(r)    == <<"active", r>>

Channels ==
  ({"incoming", "outgoing"} \X Nodes)
    \cup ({"requests", "responses", "active"} \X Roots)

VARIABLES
  net,        \* [Channels -> Seq(Message)]
  lines,      \* Cache::m_lines, one entry for every address a cache may hold
  bus,        \* Cache::m_requests, the clients' requests to a cache
  unacked,    \* writes a cache's clients issued and saw no completion of
  dir,        \* RootDirectory::m_dir
  ringTokens, \* Directory::m_dir: tokens in the ring below a directory
  mem,        \* the backing store (VirtualMemory)
  latest      \* history: the last value written to every byte of a line

vars == <<net, lines, bus, unacked, dir, ringTokens, mem, latest>>

MINSPACE_INSERTION == 2    \* a node that inserts or shortcuts a message
MINSPACE_SHORTCUT  == 2
MINSPACE_FORWARD   == 1

\* Buffer::Push succeeds: min_space slots are free before the push
HasSpace(ch, capacity, min_space) == Len(net[ch]) + min_space <= capacity

\* Node::SendMessage succeeds
CanSend(n, min_space) == HasSpace(outgoing(n), NodeBufferSize, min_space)

\* What a handler does to the channels: take the front message of one,
\* append a message to another, or both.
Take(from)        == net' = [net EXCEPT ![from] = Tail(@)]
Put(to, m)        == net' = [net EXCEPT ![to] = Append(@, m)]
Pass(from, to, m) == net' = [net EXCEPT ![from] = Tail(@), ![to] = Append(@, m)]

\* Node::DoForward
DoForward(n) ==
  /\ net[outgoing(n)] # <<>>
  /\ HasSpace(incoming(NextNode[n]), NodeBufferSize, 1)
  /\ Pass(outgoing(n), incoming(NextNode[n]), Head(net[outgoing(n)]))
  /\ UNCHANGED <<lines, bus, unacked, dir, ringTokens, mem, latest>>
=============================================================================
