-------------------------------- MODULE CDMA --------------------------------
(***************************************************************************)
(* The CDMA memory network (arch/mem/cdma): the caches, directories and     *)
(* root directories of the modules it extends, connected by NextNode into   *)
(* one ring (OneLevelCDMA, Directories = {}) or a ring of rings             *)
(* (TwoLevelCDMA), under clients that read and write at any time.           *)
(***************************************************************************)
EXTENDS CDMACache, CDMADirectory, CDMARoot

CONSTANTS
  InitValue,   \* content of memory before the first write
  Writes       \* the writes clients make: which bytes, and the value

ASSUME CDMAAssumption ==
  /\ InitValue \in Values
  /\ Writes \subseteq [mask : SUBSET Bytes, value : Values]

Memory == [a \in Addrs |-> [b \in Bytes |-> InitValue]]

Init ==
  /\ net = [ch \in Channels |-> <<>>]
  /\ InitCache
  /\ InitRoot
  /\ InitDirectory
  /\ mem = Memory
  /\ latest = Memory

\* Bytes outside the mask are not part of a write
WriteData(w) == [b \in Bytes |-> IF b \in w.mask THEN w.value ELSE NoVal]

ClientRead  == \E c \in Caches, a \in Addrs : Read(c, a)
ClientWrite == \E c \in Caches, a \in Addrs, w \in Writes :
                 Write(c, a, WriteData(w), w.mask)

CacheStep(c)     == DoRequests(c) \/ DoReceive(c)
DirectoryStep(d) == DoInBottom(d) \/ DoInTop(d)
RootStep(r)      == DoIncoming(r) \/ DoMemory(r) \/ OnReadCompleted(r) \/ DoResponses(r)

Next ==
  \/ ClientRead
  \/ ClientWrite
  \/ \E n \in Nodes : DoForward(n)
  \/ \E c \in Caches : CacheStep(c)
  \/ \E d \in Directories : DirectoryStep(d)
  \/ \E r \in Roots : RootStep(r)

Spec == Init /\ [][Next]_vars

(* The kernel runs every process whose buffer is not empty in every cycle    *)
(* and the DDR channel completes every read it accepted, so a process that  *)
(* stays able to run does run.  Nothing makes the clients issue requests.    *)
Fairness ==
  /\ \A n \in Nodes : WF_vars(DoForward(n))
  /\ \A c \in Caches : WF_vars(DoRequests(c)) /\ WF_vars(DoReceive(c))
  /\ \A d \in Directories : WF_vars(DoInBottom(d)) /\ WF_vars(DoInTop(d))
  /\ \A r \in Roots : /\ WF_vars(DoIncoming(r)) /\ WF_vars(DoMemory(r))
                     /\ WF_vars(OnReadCompleted(r)) /\ WF_vars(DoResponses(r))

FairSpec == Spec /\ Fairness

-----------------------------------------------------------------------------
(* Safety                                                                  *)

(* The counters that the code decrements without a test are integers here;   *)
(* that they stay natural follows from WritesAckedOnce and                  *)
(* DirectoryCountsRing.                                                     *)
TypeOK ==
  /\ net \in [Channels -> Seq(Message)]
  /\ lines \in [Caches -> [Addrs -> Line]]
  /\ bus \in [Caches -> Seq(Request)]
  /\ unacked \in [Caches -> Int]
  /\ dir \in [Roots -> [Addrs -> Entry]]
  /\ ringTokens \in [Directories -> [Addrs -> Int]]
  /\ mem \in [Addrs -> Data]
  /\ latest \in [Addrs -> Data]

\* Where a message is, and the messages in the network
Places     == UNION {{<<ch, k>> : k \in DOMAIN net[ch]} : ch \in Channels}
At(p)      == net[p[1]][p[2]]
InFlight(a, types) == {p \in Places : At(p).addr = a /\ At(p).type \in types}

\* Tokens of line a, one element for each: in caches, in messages, at the root
\* (a writeback on its way to memory carries data only: its tokens are spent)
IsWriteback(p) == p[1][1] = "requests" /\ At(p).type = EVICTION /\ ~ At(p).ignore

CarriesTokens == {EVICTION, REQUEST_DATA_TOKEN}

TokensInCaches(a) ==
  UNION {{<<c, i>> : i \in 1..lines[c][a].tokens} : c \in Caches}
TokensInFlight(a) ==
  UNION {{<<p, i>> : i \in 1..At(p).tokens} :
           p \in {q \in InFlight(a, CarriesTokens) : ~ IsWriteback(q)}}

Tokens(a) ==
  Cardinality(TokensInCaches(a)) + Cardinality(TokensInFlight(a))
    + dir[RootOf[a]][a].tokens

(* While the root directory has a line as introduced (FULL), exactly one    *)
(* token per cache exists for it, in caches, messages and the directory;    *)
(* before that and after its removal there is none (RootDirectory.cpp,      *)
(* GetTotalTokens).  A token written back twice, or reintroduced while      *)
(* copies exist, would let two caches write exclusively.                    *)
TokenConservation ==
  \A a \in Addrs :
    Tokens(a) = IF dir[RootOf[a]][a].state = DIR_FULL THEN TotalTokens ELSE 0

(* A line is loading exactly while one read request of its cache for it is  *)
(* in the network, in whatever form; the assertions of Cache.cpp at the     *)
(* arrival of a response (line found, loading, without tokens) and of        *)
(* RootDirectory.cpp in DoResponses rest on it.                             *)
RequestTypes == {REQUEST, REQUEST_DATA, REQUEST_DATA_TOKEN}

OneRequestPerLoadingLine ==
  \A c \in Caches, a \in Addrs :
    Cardinality({p \in InFlight(a, RequestTypes) : At(p).sender = c})
      = IF lines[c][a].state = LINE_LOADING THEN 1 ELSE 0

(* The updating count of a line is the number of its updates in the         *)
(* network, and every write not yet acknowledged to the clients of a cache  *)
(* is either queued on the bus or one of these updates: each write is       *)
(* acknowledged exactly once (Cache.cpp, OnWriteRequest and UPDATE).         *)
UpdatesOf(c, a) == {p \in InFlight(a, {UPDATE}) : At(p).sender = c}

WritesAckedOnce ==
  \A c \in Caches :
    /\ \A a \in Addrs : lines[c][a].updating = Cardinality(UpdatesOf(c, a))
    /\ unacked[c] = Cardinality({k \in DOMAIN bus[c] : bus[c][k].write})
                    + Cardinality(UNION {UpdatesOf(c, a) : a \in Addrs})

(* A directory counts exactly the tokens of the ring below it: those of its  *)
(* caches and those of messages on the ring that are not passing through    *)
(* ignored (Directory.cpp, both OnMessageReceived).  Too low a count keeps  *)
(* requests and updates from the copies below, and underflows when the      *)
(* tokens leave; too high a one never lets the entry go.                    *)
RingChannels(d) == {incoming(n) : n \in LowRing(d)} \cup {outgoing(n) : n \in LowRing(d)}

DirectoryCountsRing ==
  \A d \in Directories, a \in Addrs :
    ringTokens[d][a] =
      Cardinality({t \in TokensInCaches(a) : IsBelow(d, t[1])})
      + Cardinality({t \in TokensInFlight(a) :
                       t[1][1] \in RingChannels(d) /\ ~ At(t[1]).ignore})

(* A root directory has at most one entry for every line the caches can hold: *)
(* the assertion of AllocateLine in RootDirectory.cpp, with m_maxNumLines    *)
(* summed over the caches by Initialize.                                    *)
NumLines(cs) == Cardinality(cs) * Assoc * Cardinality({SetOf[a] : a \in Addrs})

RootDirectoriesFit ==
  \A r \in Roots :
    Cardinality({a \in Addrs : dir[r][a].state # DIR_EMPTY}) <= NumLines(Caches)

(* Every copy has a token and nothing else has: a full line, an eviction and  *)
(* an answer with data always hold at least one, an empty or loading line    *)
(* none (the assertions on tokens at the arrival of answers and evictions    *)
(* in Cache.cpp).  A copy without a token would outlive the root directory's *)
(* entry; a loading line with tokens would lose them when the answer sets    *)
(* its count.  An answer gets its tokens when the root directory sends it.   *)
MemoryPipe == {"requests", "responses", "active"}

HasItsTokens(ch, m) ==
  m.type \in CarriesTokens => m.tokens > 0 \/ (ch[1] \in MemoryPipe /\ ~ m.ignore)

CopiesHaveTokens ==
  /\ \A c \in Caches, a \in Addrs :
       lines[c][a].tokens > 0 <=> lines[c][a].state = LINE_FULL
  /\ \A ch \in Channels : \A k \in 1..Len(net[ch]) : HasItsTokens(ch, net[ch][k])

(* A cache that may write without telling anyone (IsExclusive, Cache.cpp,    *)
(* OnWriteRequest) holds the only copy: no other cache has the line and no   *)
(* answer or eviction carries it.                                           *)
SoleOwner ==
  \A a \in Addrs :
    LET holders == {c \in Caches : lines[c][a].state = LINE_FULL}
        moving  == {p \in InFlight(a, CarriesTokens) : ~ IsWriteback(p)}
    IN  \A c \in holders :
          IsExclusive(lines[c][a]) => holders = {c} /\ moving = {}

(* No byte that was never loaded or written reaches a full line, a message  *)
(* with data or memory, whatever the order in which partial writes, updates *)
(* and the response meet a loading line (the validity mask of Cache.cpp).   *)
AllLoaded ==
  /\ \A c \in Caches, a \in Addrs :
       lines[c][a].state = LINE_FULL => lines[c][a].data \in [Bytes -> Values]
  /\ \A p \in Places :
       At(p).type \in {REQUEST_DATA, REQUEST_DATA_TOKEN, EVICTION}
         => At(p).data \in [Bytes -> Values]
  /\ mem \in [Addrs -> [Bytes -> Values]]

-----------------------------------------------------------------------------
(* Liveness, under FairSpec                                                *)

(* The network makes progress: whatever evictions and other requests the    *)
(* requests meet on the rings, loads keep completing as long as some line    *)
(* is loading (Cache::OnReadCompleted).  One load may starve: another cache  *)
(* can evict and reload the line for ever.                                  *)
Loading == \E c \in Caches, a \in Addrs : lines[c][a].state = LINE_LOADING
LoadCompletes ==
  \E c \in Caches, a \in Addrs :
    lines[c][a].state = LINE_LOADING /\ lines'[c][a].state = LINE_FULL

LoadsProgress == <>[](~ Loading) \/ []<><<LoadCompletes>>_vars

-----------------------------------------------------------------------------
(* What the documentation says of the data, and the code does not keep      *)

(* Every write becomes visible: once no write to a line is on its way, all  *)
(* its full copies hold the last value written (memory.tex, line 3).        *)
CopiesCurrent ==
  \A c \in Caches, a \in Addrs :
    (lines[c][a].state = LINE_FULL /\ InFlight(a, {UPDATE}) = {})
      => lines[c][a].data = latest[a]

(* An eviction that is not dirty has nothing to write back: when it brings  *)
(* the last tokens to the root directory, memory has its data.             *)
CleanEvictionMatchesMemory ==
  \A r \in Roots :
    LET msg == Head(net[incoming(r)]) IN
      (/\ AtRoot(r, {EVICTION})
       /\ ~ msg.dirty
       /\ msg.tokens + dir[r][msg.addr].tokens = TotalTokens)
        => msg.data = mem[msg.addr]

(* A request with data that finds its line gone from the system carries the *)
(* data memory has (RootDirectory.cpp: "no need to read it from memory").   *)
ReintroducedDataCurrent ==
  \A r \in Roots :
    LET msg == Head(net[incoming(r)]) IN
      (/\ AtRoot(r, {REQUEST_DATA})
       /\ dir[r][msg.addr].state = DIR_EMPTY
       /\ {p \in Places : At(p).addr = msg.addr /\ IsWriteback(p)} = {})
        => msg.data = mem[msg.addr]
=============================================================================
