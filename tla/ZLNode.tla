------------------------------- MODULE ZLNode -------------------------------
(***************************************************************************)
(* The rings of the zero-latency CDMA network (arch/mem/zlcdma): messages   *)
(* that carry tokens and data round a ring of caches, the directory between *)
(* that ring and the top ring, and the bounded buffers of the nodes.  The   *)
(* rings are the ones ZLCDMA::Initialize lays out.                          *)
(***************************************************************************)
EXTENDS Integers, Sequences, FiniteSets, FiniteSetsExt

CONSTANTS
    NumCaches, CachesPerDir, NumRoots,
    Addrs, Bytes, Values,
    NoVal,              \* a byte whose bitmask bit is clear
    None,
    NodeBufferSize,     \* m_incoming and m_outgoing
    Assoc, SetOf        \* ways of a cache, and the set of an address

ASSUME ZLNodeAssumption ==
    /\ NumCaches \in Nat \ {0} /\ CachesPerDir \in Nat \ {0} /\ NumRoots \in Nat \ {0}
    /\ NoVal \notin Values /\ Values # {}

NumDirs == (NumCaches + CachesPerDir - 1) \div CachesPerDir
Caches == 0..(NumCaches - 1)
Directories == 0..(NumDirs - 1)
Roots == 0..(NumRoots - 1)
TotalTokens == NumCaches

Cache(i) == <<"cache", i>>
Bottom(d) == <<"bottom", d>>
Top(d) == <<"top", d>>
Root(r) == <<"root", r>>
Nodes == {Cache(i) : i \in Caches} \cup {Root(r) : r \in Roots}
            \cup {Bottom(d) : d \in Directories} \cup {Top(d) : d \in Directories}

\* The top ring: root r stands at RootPosition(r), directories fill the gaps.
RootPosition(r) == (r * NumDirs) \div NumRoots + r
TopRing == [p \in 0..(NumDirs + NumRoots - 1) |->
    LET before == {r \in Roots : RootPosition(r) < p}
        here == {r \in Roots : RootPosition(r) = p}
    IN  IF here # {} THEN Root(CHOOSE r \in here : TRUE) ELSE Top(p - Cardinality(before))]

NextNode(n) ==
    CASE n[1] = "cache"  -> IF n[2] % CachesPerDir = 0 THEN Bottom(n[2] \div CachesPerDir) ELSE Cache(n[2] - 1)
      [] n[1] = "bottom" -> Cache(Min({(n[2] + 1) * CachesPerDir, NumCaches}) - 1)
      [] OTHER -> LET p == CHOOSE q \in DOMAIN TopRing : TopRing[q] = n
                  IN  TopRing[(p + NumDirs + NumRoots - 1) % (NumDirs + NumRoots)]

IsBelow(d, c) == c \div CachesPerDir = d
-----------------------------------------------------------------------------
READ                  == "READ"
ACQUIRE_TOKENS        == "AT"
EVICTION              == "EV"
LOCALDIR_NOTIFICATION == "LN"

Data == [Bytes -> Values \cup {NoVal}]
NoData == [b \in Bytes |-> NoVal]
\* Bytes that `dst' lacks are taken from `src'.
Fill(dst, src) == [b \in Bytes |-> IF dst[b] = NoVal THEN src[b] ELSE dst[b]]
Blit(dst, src) == Fill(src, dst)
Complete(data) == \A b \in Bytes : data[b] # NoVal

\* A fresh message; fields that the code leaves unset in a notification are
\* never read.
NewMessage(type, a, c) ==
    [type |-> type, addr |-> a, source |-> c, ignore |-> FALSE, dirty |-> FALSE, data |-> NoData,
     tokens |-> 0, priority |-> FALSE, transient |-> FALSE]

incoming(n) == <<"incoming", n>>
outgoing(n) == <<"outgoing", n>>
requests(r) == <<"requests", Root(r)>>
active(r) == <<"active", Root(r)>>
responses(r) == <<"responses", Root(r)>>
Channels == ({"incoming", "outgoing"} \X Nodes)
               \cup ({"requests", "active", "responses"} \X {Root(r) : r \in Roots})

VARIABLES
    net,      \* [Channels -> Seq(message)]
    lines,    \* [Caches -> [Addrs -> line of Cache::m_lines]]
    bus,      \* [Caches -> requests of the clients]
    unacked,  \* [Caches -> writes issued and not completed]
    dirs,     \* [Directories -> [Addrs -> tokens of the entry, or None]]
    roots,    \* [Addrs -> entry at its root directory]
    mem,      \* [Addrs -> data]: VirtualMemory
    aborted   \* an assertion of the simulator has failed

zlVars == <<net, lines, bus, unacked, dirs, roots, mem, aborted>>

MINSPACE_INSERTION == 2
MINSPACE_SHORTCUT == 2
MINSPACE_FORWARD == 1

HasSpace(ch, capacity, min_space) == Len(net[ch]) + min_space <= capacity
CanSend(n, min_space) == HasSpace(outgoing(n), NodeBufferSize, min_space)

At(ch) == Head(net[ch])
Waits(ch) == ~aborted /\ net[ch] # <<>>
\* What a handler makes of the message at the front of `from'.
Dropped(from) == [net EXCEPT ![from] = Tail(@)]
Passed(from, to, m) == [net EXCEPT ![from] = Tail(@), ![to] = Append(@, m)]
Sent(to, m) == [net EXCEPT ![to] = Append(@, m)]
Changed(from, m) == [net EXCEPT ![from][1] = m]

Abort == aborted' = TRUE /\ UNCHANGED <<net, lines, bus, unacked, dirs, roots, mem>>

\* The messages under way.
Places == UNION {{<<ch, k>> : k \in DOMAIN net[ch]} : ch \in Channels}
Msg(p) == net[p[1]][p[2]]

\* Node::DoForward
DoForward(n) ==
    /\ Waits(outgoing(n))
    /\ HasSpace(incoming(NextNode(n)), NodeBufferSize, 1)
    /\ net' = Passed(outgoing(n), incoming(NextNode(n)), At(outgoing(n)))
    /\ UNCHANGED <<lines, bus, unacked, dirs, roots, mem, aborted>>
=============================================================================
