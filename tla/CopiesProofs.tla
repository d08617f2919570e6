---------------------------- MODULE CopiesProofs ----------------------------
(***************************************************************************)
(* The copies of a line in the data caches of all cores agree with memory   *)
(* once the writes to the line have reached it: CopiesMatchMemory, for the  *)
(* lines whose reads and writes reach memory through one queue.             *)
(***************************************************************************)
EXTENDS MemoryProofs, WellFoundedInduction

(* A cache. *)
LineFields == {"state", "tag", "data", "waiting", "processing", "create"}
LineOK(x) ==
    /\ DOMAIN x = LineFields /\ x.state \in {"EMPTY", "LOADING", "FULL"}
    /\ x.data \in Data /\ x.processing \in BOOLEAN
Typed(k) ==
    /\ CacheOK(k) /\ k.reads \in Seq(LineId)
    /\ DOMAIN k.line = LineId /\ \A l \in LineId : LineOK(k.line[l])

Holds(k, l, a) == k.line[l].state # "EMPTY" /\ k.line[l].tag = a
\* Line l waits for the answer to a read of line a of memory.
Loads(k, l, a) == k.line[l].state = "LOADING" /\ k.line[l].tag = a /\ ~k.line[l].processing
Complete(k, l) == \A b \in Byte : k.line[l].data[b] # NoVal

\* What a queue holds: a write of byte b of a, a read of a (by client c).
WritesTo(x, a, b) == x.write /\ x.address = a /\ x.data[b] # NoVal
WriteOf(x, a) == x.write /\ x.address = a
Reads(x, a) == ~x.write /\ x.address = a
ReadOf(x, c, a) == ~x.write /\ x.client = c /\ x.address = a

\* A line of memory has one line of the cache, in its set.
Located(k) ==
    /\ \A l \in LineId : k.line[l].state # "EMPTY" => k.line[l].tag \in Addr /\ l \in LinesOf(k.line[l].tag)
    /\ \A l, j \in LineId : k.line[l].state # "EMPTY" /\ k.line[j].state # "EMPTY"
                              /\ k.line[l].tag = k.line[j].tag => l = j
\* A line whose answer has come is complete, and waits in m_read_responses once.
Answered(k) ==
    /\ \A i \in 1..Len(k.reads) : k.line[k.reads[i]].state = "LOADING" /\ k.line[k.reads[i]].processing
    /\ \A i, j \in 1..Len(k.reads) : k.reads[i] = k.reads[j] => i = j
    /\ \A l \in LineId : k.line[l].state = "FULL" => Complete(k, l)
    /\ \A l \in LineId : k.line[l].state = "LOADING" /\ k.line[l].processing => Complete(k, l)
\* A write is sent before the read of the line that is being loaded.
Queued(k) ==
    /\ \A l \in LineId, i \in 1..Len(k.outgoing) :
         k.line[l].state = "LOADING" /\ WriteOf(k.outgoing[i], k.line[l].tag) =>
            \E j \in (i + 1)..Len(k.outgoing) : Reads(k.outgoing[j], k.line[l].tag)
    /\ \A i \in 1..Len(k.outgoing) : ~k.outgoing[i].write => \E l \in LineId : Loads(k, l, k.outgoing[i].address)
    /\ \A i, j \in 1..Len(k.outgoing) :
         ~k.outgoing[i].write /\ Reads(k.outgoing[j], k.outgoing[i].address) => i = j
Fine(k) == Typed(k) /\ Located(k) /\ Answered(k) /\ Queued(k)
-----------------------------------------------------------------------------
(* The copy that the cache k of client c has of line a, where q are the      *)
(* requests not performed yet and p the answers of the server of a, and m    *)
(* is the line in memory.                                                    *)

\* v is what byte b of a will be when the writes in q are performed.
Newest(v, q, m, a, b) ==
    \/ \E i \in 1..Len(q) : /\ WritesTo(q[i], a, b) /\ v = q[i].data[b]
                            /\ \A j \in (i + 1)..Len(q) : ~WritesTo(q[j], a, b)
    \/ v = m[b] /\ \A j \in 1..Len(q) : ~WritesTo(q[j], a, b)
\* No write of byte b of a is sent or has been accepted from position i on.
Unsent(k, a, b) == \A i \in 1..Len(k.outgoing) : ~WritesTo(k.outgoing[i], a, b)
Behind(q, i, a, b) == \A j \in i..Len(q) : ~WritesTo(q[j], a, b)
\* The cache has asked for a and has not been answered.
Asking(k, a) ==
    /\ \E l \in LineId : Loads(k, l, a)
    /\ \A i \in 1..Len(k.outgoing) : ~Reads(k.outgoing[i], a)
Missing(k, l, a, b) == Loads(k, l, a) /\ k.line[l].data[b] = NoVal

\* The bytes present are the newest, unless the core itself is to send a newer one.
CopyIsNewest(k, a, q, m) ==
    OneWay(a) => \A l \in LineId, b \in Byte :
        Holds(k, l, a) /\ k.line[l].data[b] # NoVal /\ Unsent(k, a, b) =>
            Newest(k.line[l].data[b], q, m, a, b)
\* A read is answered with what is newest when it is answered.
AskedInTime(k, c, a, q) ==
    \A i \in 1..Len(q) : ReadOf(q[i], c, a) =>
        /\ Asking(k, a)
        /\ OneWay(a) => \A l \in LineId, b \in Byte : Missing(k, l, a, b) => Behind(q, i, a, b)
\* The data d bring what is missing, and nothing in q changes it.
Brings(k, a, q, d, m) ==
    \A l \in LineId, b \in Byte : Missing(k, l, a, b) =>
        d[b] # NoVal /\ (OneWay(a) => Behind(q, 1, a, b) /\ d[b] = m[b])
AnsweredInTime(k, c, a, q, p, m) ==
    \A i \in 1..Len(p) : ReadOf(p[i], c, a) => Asking(k, a) /\ Brings(k, a, q, p[i].data, m)
\* At most one read is on its way.
OneRead(c, a, q, p) ==
    /\ \A i, j \in 1..Len(q) : ReadOf(q[i], c, a) /\ ReadOf(q[j], c, a) => i = j
    /\ \A i, j \in 1..Len(p) : ReadOf(p[i], c, a) /\ ReadOf(p[j], c, a) => i = j
    /\ \A i \in 1..Len(q), j \in 1..Len(p) : ~(ReadOf(q[i], c, a) /\ ReadOf(p[j], c, a))
Coherent(k, c, a, q, p, m) ==
    CopyIsNewest(k, a, q, m) /\ AskedInTime(k, c, a, q) /\ AnsweredInTime(k, c, a, q, p, m) /\ OneRead(c, a, q, p)

\* The server that takes the reads of line a, and the writes too if they take
\* the same way.
Home(a) == ServerFor(kind, [client |-> 0, write |-> FALSE, address |-> a])
Waiting(s) == server[s].active \o server[s].requests
CInv ==
    /\ \A a \in Addr : \A b \in Byte : store[a][b] # NoVal
    /\ \A c \in Client : Fine(cache[c])
    /\ \A c \in Client, a \in Addr :
         Coherent(cache[c], c, a, Waiting(Home(a)), server[Home(a)].responses, store[a])
Copies == kind # "parallel" => CInv
-----------------------------------------------------------------------------
(***************************************************************************)
(* Queues: an element is added at the end, or the one at position n leaves.  *)
(***************************************************************************)
RemovedAt(q, g, n) ==
    /\ n \in 1..Len(q) /\ Len(g) = Len(q) - 1
    /\ \A i \in 1..Len(g) : g[i] = IF i < n THEN q[i] ELSE q[i + 1]

LEMMA TailRemoves ==
  ASSUME NEW S, NEW q \in Seq(S), q # <<>>
  PROVE  RemovedAt(q, Tail(q), 1) /\ q[1] = Head(q) /\ Tail(q) \in Seq(S)
<1>1. /\ Len(q) \in Nat /\ Len(q) >= 1 /\ Len(Tail(q)) = Len(q) - 1
      /\ \A i \in 1..(Len(q) - 1) : Tail(q)[i] = q[i + 1]
  BY TailAt
<1>2. q[1] = Head(q) /\ Tail(q) \in Seq(S)
  OBVIOUS
<1>. QED  BY <1>1, <1>2 DEF RemovedAt

\* Where an element of a shorter queue was, and where one of a longer goes.
LEMMA RemovedFrom ==
  ASSUME NEW q, NEW g, NEW n, Len(q) \in Nat, Len(g) \in Nat, RemovedAt(q, g, n)
  PROVE  /\ n \in 1..Len(q) /\ Len(g) = Len(q) - 1
         /\ \A i \in 1..Len(g) : i < n => i \in 1..Len(q) /\ g[i] = q[i]
         /\ \A i \in 1..Len(g) : i >= n => i + 1 \in 1..Len(q) /\ g[i] = q[i + 1]
         /\ \A i \in 1..Len(q) : i < n => i \in 1..Len(g) /\ g[i] = q[i]
         /\ \A i \in 1..Len(q) : i > n => i - 1 \in 1..Len(g) /\ g[i - 1] = q[i]
  BY DEF RemovedAt

\* The requests of a server that are not performed.
LEMMA ConcatAt ==
  ASSUME NEW S, NEW p \in Seq(S), NEW q \in Seq(S)
  PROVE  /\ p \o q \in Seq(S) /\ Len(p) \in Nat /\ Len(q) \in Nat /\ Len(p \o q) = Len(p) + Len(q)
         /\ \A i \in 1..Len(p) : (p \o q)[i] = p[i]
         /\ \A i \in (Len(p) + 1)..(Len(p) + Len(q)) : (p \o q)[i] = q[i - Len(p)]
  OBVIOUS

LEMMA ConcatAppends ==
  ASSUME NEW S, NEW p \in Seq(S), NEW q \in Seq(S), NEW x \in S
  PROVE  p \o Append(q, x) = Append(p \o q, x)
  OBVIOUS

LEMMA ConcatShifts ==
  ASSUME NEW S, NEW p \in Seq(S), NEW q \in Seq(S), q # <<>>
  PROVE  Append(p, Head(q)) \o Tail(q) = p \o q
<1>. DEFINE f == Append(p, Head(q)) \o Tail(q)
            g == p \o q
<1>1. Head(q) \in S /\ Tail(q) \in Seq(S) /\ Head(q) = q[1]
  BY TailAt
<1>2. /\ Len(p) \in Nat /\ Len(q) \in Nat /\ Len(q) >= 1 /\ Len(Tail(q)) = Len(q) - 1
      /\ \A i \in 1..(Len(q) - 1) : Tail(q)[i] = q[i + 1]
  BY TailAt
<1>3. /\ Append(p, Head(q)) \in Seq(S) /\ Len(Append(p, Head(q))) = Len(p) + 1
      /\ \A i \in 1..Len(p) : Append(p, Head(q))[i] = p[i]
      /\ Append(p, Head(q))[Len(p) + 1] = Head(q)
  BY <1>1, AppendedAt
<1>4. f \in Seq(S) /\ g \in Seq(S) /\ Len(f) = Len(g) /\ Len(g) = Len(p) + Len(q)
  BY <1>1, <1>2, <1>3, ConcatAt
<1>5. ASSUME NEW i \in 1..Len(g) PROVE f[i] = g[i]
  <2>1. CASE i <= Len(p)
    BY <1>1, <1>2, <1>3, <1>4, <2>1, ConcatAt
  <2>2. CASE i = Len(p) + 1
    BY <1>1, <1>2, <1>3, <1>4, <2>2, ConcatAt
  <2>3. CASE i > Len(p) + 1
    <3>1. f[i] = Tail(q)[i - (Len(p) + 1)]
      BY <1>1, <1>2, <1>3, <1>4, <2>3, ConcatAt
    <3>2. g[i] = q[i - Len(p)]
      BY <1>2, <1>4, <2>3, ConcatAt
    <3>. QED  BY <1>2, <1>4, <2>3, <3>1, <3>2
  <2>. QED  BY <1>2, <1>4, <2>1, <2>2, <2>3
<1>. HIDE DEF f, g
<1>6. f = g
  BY <1>4, <1>5
<1>. QED  BY <1>6 DEF f, g

LEMMA ConcatRemoves ==
  ASSUME NEW S, NEW p \in Seq(S), NEW q \in Seq(S)
  PROVE  /\ q # <<>> => RemovedAt(p \o q, p \o Tail(q), Len(p) + 1) /\ (p \o q)[Len(p) + 1] = Head(q)
         /\ p # <<>> => RemovedAt(p \o q, Tail(p) \o q, 1) /\ (p \o q)[1] = Head(p)
<1>0. Len(p) \in Nat /\ Len(q) \in Nat
  OBVIOUS
<1>1. ASSUME q # <<>>
      PROVE  RemovedAt(p \o q, p \o Tail(q), Len(p) + 1) /\ (p \o q)[Len(p) + 1] = Head(q)
  <2>1. /\ Tail(q) \in Seq(S) /\ Len(q) >= 1 /\ Len(Tail(q)) = Len(q) - 1 /\ q[1] = Head(q)
        /\ \A i \in 1..(Len(q) - 1) : Tail(q)[i] = q[i + 1]
    BY <1>1, TailAt
  <2>2. /\ \A i \in 1..Len(p) : (p \o Tail(q))[i] = p[i] /\ (p \o q)[i] = p[i]
        /\ \A i \in (Len(p) + 1)..(Len(p) + Len(q)) : (p \o q)[i] = q[i - Len(p)]
        /\ \A i \in (Len(p) + 1)..(Len(p) + Len(q) - 1) : (p \o Tail(q))[i] = Tail(q)[i - Len(p)]
        /\ Len(p \o q) = Len(p) + Len(q) /\ Len(p \o Tail(q)) = Len(p) + Len(q) - 1
    BY <1>0, <2>1, ConcatAt
  <2>3. ASSUME NEW i \in 1..Len(p \o Tail(q))
        PROVE  (p \o Tail(q))[i] = IF i < Len(p) + 1 THEN (p \o q)[i] ELSE (p \o q)[i + 1]
    BY <1>0, <2>1, <2>2
  <2>. QED  BY <1>0, <2>1, <2>2, <2>3 DEF RemovedAt
<1>2. ASSUME p # <<>>
      PROVE  RemovedAt(p \o q, Tail(p) \o q, 1) /\ (p \o q)[1] = Head(p)
  <2>1. /\ Tail(p) \in Seq(S) /\ Len(p) >= 1 /\ Len(Tail(p)) = Len(p) - 1 /\ p[1] = Head(p)
        /\ \A i \in 1..(Len(p) - 1) : Tail(p)[i] = p[i + 1]
    BY <1>2, TailAt
  <2>2. /\ \A i \in 1..Len(p) : (p \o q)[i] = p[i]
        /\ \A i \in 1..(Len(p) - 1) : (Tail(p) \o q)[i] = Tail(p)[i]
        /\ \A i \in (Len(p) + 1)..(Len(p) + Len(q)) : (p \o q)[i] = q[i - Len(p)]
        /\ \A i \in Len(p)..(Len(p) + Len(q) - 1) : (Tail(p) \o q)[i] = q[i - (Len(p) - 1)]
        /\ Len(p \o q) = Len(p) + Len(q) /\ Len(Tail(p) \o q) = Len(p) + Len(q) - 1
    BY <1>0, <2>1, ConcatAt
  <2>3. ASSUME NEW i \in 1..Len(Tail(p) \o q)
        PROVE  (Tail(p) \o q)[i] = (p \o q)[i + 1]
    BY <1>0, <2>1, <2>2
  <2>. QED  BY <1>0, <2>1, <2>2, <2>3 DEF RemovedAt
<1>. QED  BY <1>1, <1>2
-----------------------------------------------------------------------------
(* What the operations of a cache do to its lines and queues. *)
LEMMA Geometry ==
  /\ LineId \subseteq Nat /\ None \notin LineId
  /\ \A a \in Addr : LinesOf(a) \subseteq LineId
<1>1. Addr \subseteq Nat /\ NumSets \in Nat \ {0} /\ Assoc \in Nat \ {0} /\ None \notin LineId
  BY CacheAssumption DEF CacheAssumption
<1>2. NumSets * Assoc \in Nat
  BY <1>1
<1>3. LineId \subseteq Nat
  BY <1>2 DEF LineId
<1>4. ASSUME NEW a \in Addr PROVE LinesOf(a) \subseteq LineId
  <2>. DEFINE s == a % NumSets
  <2>1. s \in 0..(NumSets - 1)
    BY <1>1
  <2>. HIDE DEF s
  <2>2. s * Assoc \in Nat /\ (NumSets - 1 - s) * Assoc >= 0
    BY <1>1, <2>1
  <2>3. (NumSets - 1 - s) * Assoc = NumSets * Assoc - Assoc - s * Assoc
    BY <1>1, <2>1
  <2>4. s * Assoc + Assoc - 1 <= NumSets * Assoc - 1
    BY <1>1, <1>2, <2>2, <2>3
  <2>. QED  BY <1>1, <1>2, <2>2, <2>4 DEF LinesOf, SetIndex, LineId, s
<1>. QED  BY <1>1, <1>3, <1>4

\* findLine finds the line that holds a, if there is one.
FoundLine(k, a) == FindLine(k, a, {})
LEMMA FindLineIs ==
  ASSUME NEW k, Located(k), NEW a \in Addr
  PROVE  /\ FoundLine(k, a) = None => \A l \in LineId : ~Holds(k, l, a)
         /\ FoundLine(k, a) # None => FoundLine(k, a) \in LineId /\ Holds(k, FoundLine(k, a), a)
         /\ \A l \in LineId : Holds(k, l, a) => l = FoundLine(k, a) /\ FoundLine(k, a) # None
<1>. DEFINE S == Matching(k, a, {})
<1>1. S = {l \in LineId : Holds(k, l, a)}
  BY Geometry DEF Matching, Holds, Located
<1>2. ASSUME NEW l \in S PROVE S = {l} /\ l \in LineId /\ l \in Nat /\ Holds(k, l, a)
  BY <1>1, Geometry DEF Located, Holds
<1>. HIDE DEF S
<1>3. ASSUME NEW l \in S PROVE FoundLine(k, a) = l
  <2>1. FoundLine(k, a) = CHOOSE x \in S : \A y \in S : x <= y
    BY <1>3 DEF FoundLine, FindLine, S
  <2>2. S = {l} /\ l <= l
    BY <1>2, <1>3
  <2>. QED  BY <2>1, <2>2
<1>4. S = {} => FoundLine(k, a) = None
  BY DEF FoundLine, FindLine, S
<1>. QED  BY <1>1, <1>2, <1>3, <1>4, Geometry

\* The lines but l, and the queues, are as they were.
OtherLines(k, m, l) == \A j \in LineId : j # l => m.line[j] = k.line[j]
LineLooks(x, y) ==
    y.state = x.state /\ y.tag = x.tag /\ y.data = x.data /\ y.processing = x.processing
\* What a copy depends on is as it was.
SameLook(k, m) ==
    /\ Typed(m) /\ m.outgoing = k.outgoing /\ m.reads = k.reads
    /\ \A l \in LineId : LineLooks(k.line[l], m.line[l])

LEMMA LineChanges ==
  ASSUME NEW k, Typed(k), NEW l \in LineId, NEW x, LineOK(x)
  PROVE  /\ Typed([k EXCEPT !.line[l] = x]) /\ [k EXCEPT !.line[l] = x].line[l] = x
         /\ OtherLines(k, [k EXCEPT !.line[l] = x], l)
         /\ [k EXCEPT !.line[l] = x].reads = k.reads
         /\ [k EXCEPT !.line[l] = x].outgoing = k.outgoing
  BY DEF Typed, CacheOK, Fields, OtherLines

LEMMA Appends ==
  ASSUME NEW k, Typed(k), NEW r \in Sent
  PROVE  /\ Typed([k EXCEPT !.outgoing = Append(@, r)])
         /\ [k EXCEPT !.outgoing = Append(@, r)].outgoing = Append(k.outgoing, r)
         /\ [k EXCEPT !.outgoing = Append(@, r)].line = k.line
         /\ [k EXCEPT !.outgoing = Append(@, r)].reads = k.reads
  BY DEF Typed, CacheOK, Fields

LEMMA PushedLooks ==
  ASSUME NEW x, LineOK(x), NEW reg
  PROVE  LineOK(PushRegister(x, reg)) /\ LineLooks(x, PushRegister(x, reg))
  BY DEF PushRegister, LineOK, LineLooks, LineFields

LEMMA JoinLooks ==
  ASSUME NEW k, Fine(k), NEW a \in Addr, NEW reg, Present(k, a)
  PROVE  SameLook(k, JoinLine(k, a, reg))
<1>. DEFINE l == FoundLine(k, a)
            x == PushRegister(k.line[l], reg)
<1>1. l \in LineId /\ Typed(k)
  BY FindLineIs DEF Present, Fine, FoundLine
<1>2. LineOK(k.line[l])
  BY <1>1 DEF Typed
<1>3. LineOK(x) /\ LineLooks(k.line[l], x)
  BY <1>2, PushedLooks
<1>4. JoinLine(k, a, reg) = [k EXCEPT !.line[l] = x]
  BY DEF JoinLine, FoundLine
<1>. HIDE DEF x, l
<1>. QED  BY <1>1, <1>3, <1>4, LineChanges DEF SameLook, OtherLines, LineLooks

\* Line l is taken for a.
Taking(k, m, l, a) ==
    /\ Typed(m) /\ OtherLines(k, m, l) /\ m.reads = k.reads
    /\ m.line[l].state = "LOADING" /\ m.line[l].tag = a /\ m.line[l].data = NoData /\ ~m.line[l].processing
    /\ m.outgoing = Append(k.outgoing, Request(FALSE, a, NoData, None))

LEMMA LoadTakes ==
  ASSUME NEW k, Typed(k), NEW a \in Addr, NEW l \in LineId, NEW reg
  PROVE  Taking(k, LoadLine(k, a, l, reg), l, a)
<1>. DEFINE r == Request(FALSE, a, NoData, None)
            y == [ResetLine(k.line[l]) EXCEPT !.state = "LOADING", !.tag = a]
            x == PushRegister(y, reg)
            m == [k EXCEPT !.line[l] = x]
<1>1. LineOK(k.line[l])
  BY DEF Typed
<1>2. LineOK(y) /\ y.state = "LOADING" /\ y.tag = a /\ y.data = NoData /\ y.processing = FALSE
  BY <1>1 DEF ResetLine, LineOK, LineFields, NoData, Data
<1>. HIDE DEF y
<1>3. LineOK(x) /\ LineLooks(y, x)
  BY <1>2, PushedLooks
<1>4. r \in Sent
  BY ReadSent
<1>. HIDE DEF x, r
<1>5. Typed(m) /\ m.line[l] = x /\ OtherLines(k, m, l) /\ m.reads = k.reads /\ m.outgoing = k.outgoing
  BY <1>3, LineChanges
<1>6. LoadLine(k, a, l, reg) = [m EXCEPT !.outgoing = Append(@, r)]
  BY DEF LoadLine, Typed, CacheOK, Fields, x, y, r
<1>. HIDE DEF m
<1>7. /\ Typed(LoadLine(k, a, l, reg)) /\ LoadLine(k, a, l, reg).outgoing = Append(m.outgoing, r)
      /\ LoadLine(k, a, l, reg).line = m.line /\ LoadLine(k, a, l, reg).reads = m.reads
  BY <1>4, <1>5, <1>6, Appends
<1>. QED  BY <1>2, <1>3, <1>5, <1>7 DEF Taking, OtherLines, LineLooks, r
LEMMA LeastIn ==
  ASSUME NEW S \in SUBSET Nat, S # {}
  PROVE  \E x \in S : \A y \in S : x <= y
<1>. DEFINE R == {p \in Nat \X Nat : p[1] < p[2]}
<1>1. IsWellFoundedOn(R, Nat)
  BY NatLessThanWellFounded, Zenon DEF OpToRel
<1>. HIDE DEF R
<1>2. PICK x \in S : \A y \in S : ~(<<y, x>> \in R)
  BY <1>1, WFMin
<1>3. \A y, z \in Nat : <<y, z>> \in R <=> y < z
  BY DEF R
<1>4. ASSUME NEW y \in S PROVE x <= y
  <2>1. x \in Nat /\ y \in Nat /\ ~(y < x)
    BY <1>2, <1>3
  <2>. QED  BY <2>1
<1>. QED  BY <1>4

\* getEmptyLine takes a line of the set that is empty or full.
LEMMA VictimIs ==
  ASSUME NEW k, NEW a \in Addr, NEW l \in Victims(k, a)
  PROVE  l \in LinesOf(a) /\ l \in LineId /\ k.line[l].state \in {"EMPTY", "FULL"}
<1>. DEFINE S == {x \in LinesOf(a) : k.line[x].state = "EMPTY"}
<1>1. LinesOf(a) \subseteq LineId /\ LineId \subseteq Nat
  BY Geometry
<1>2. CASE S # {}
  <2>1. \E x \in S : \A y \in S : x <= y
    BY <1>1, <1>2, LeastIn
  <2>2. l = CHOOSE x \in S : \A y \in S : x <= y
    BY <1>2 DEF Victims
  <2>. HIDE DEF S
  <2>3. l \in S
    BY <2>1, <2>2
  <2>. QED  BY <1>1, <2>3 DEF S
<1>3. CASE S = {}
  BY <1>1, <1>3 DEF Victims
<1>. QED  BY <1>2, <1>3

LEMMA MissTakes ==
  ASSUME NEW k, Fine(k), NEW a \in Addr, NEW l \in LineId, ReadMisses(k, a, l)
  PROVE  /\ \A j \in LineId : ~Holds(k, j, a)
         /\ l \in LinesOf(a) /\ k.line[l].state \in {"EMPTY", "FULL"}
<1>1. l \in Victims(k, a) /\ ~Present(k, a)
  BY DEF ReadMisses
<1>2. FoundLine(k, a) = None
  <2>1. \A j \in LineId : k.line[j].state # "INVALID"
    BY DEF Fine, Typed, LineOK
  <2>2. FoundLine(k, a) # None => FoundLine(k, a) \in LineId
    BY FindLineIs DEF Fine
  <2>. QED  BY <1>1, <2>1, <2>2 DEF Present, FoundLine
<1>. QED  BY <1>1, <1>2, FindLineIs, VictimIs DEF Fine

LEMMA LookFine ==
  ASSUME NEW k, Fine(k), NEW m, SameLook(k, m)
  PROVE  Fine(m)
<1>1. Typed(m) /\ m.outgoing = k.outgoing /\ m.reads = k.reads /\ \A l \in LineId : LineLooks(k.line[l], m.line[l])
  BY DEF SameLook
<1>2. k.reads \in Seq(LineId) /\ \A i \in 1..Len(k.reads) : k.reads[i] \in LineId
  BY DEF Fine, Typed
<1>3. Located(m)
  BY <1>1 DEF Fine, Located, LineLooks
<1>4. Answered(m)
  BY <1>1, <1>2 DEF Fine, Answered, LineLooks, Complete
<1>5. Queued(m)
  BY <1>1 DEF Fine, Queued, LineLooks, Loads, WriteOf, Reads
<1>. QED  BY <1>1, <1>3, <1>4, <1>5 DEF Fine

LEMMA TakeFine ==
  ASSUME NEW k, Fine(k), NEW a \in Addr, NEW l \in LinesOf(a), \A j \in LineId : ~Holds(k, j, a),
         k.line[l].state \in {"EMPTY", "FULL"}, NEW m, Taking(k, m, l, a)
  PROVE  Fine(m)
<1>1. Typed(m) /\ l \in LineId
  BY Geometry DEF Taking
<1>2. Located(m)
  BY <1>1 DEF Fine, Located, Taking, OtherLines, Holds
<1>3. Answered(m)
  <2>1. \A i \in 1..Len(k.reads) : k.reads[i] \in LineId /\ k.reads[i] # l
    BY DEF Fine, Typed, Answered
  <2>. QED  BY <1>1, <2>1 DEF Fine, Answered, Taking, OtherLines, Complete
<1>. DEFINE r == Request(FALSE, a, NoData, None)
            n == Len(k.outgoing)
<1>4. /\ n \in Nat /\ Len(m.outgoing) = n + 1 /\ m.outgoing[n + 1] = r
      /\ \A i \in 1..n : m.outgoing[i] = k.outgoing[i]
  <2>1. k.outgoing \in Seq(Sent) /\ r \in Sent
    BY ReadSent DEF Fine, Typed, CacheOK
  <2>2. m.outgoing = Append(k.outgoing, r)
    BY DEF Taking
  <2>. HIDE DEF r
  <2>. QED  BY <2>1, <2>2, AppendedAt
<1>5. ~r.write /\ r.address = a
  BY DEF Request
<1>6. \A j \in LineId : j # l => m.line[j] = k.line[j]
  BY DEF Taking, OtherLines
<1>. HIDE DEF r, n
<1>7. ASSUME NEW j \in LineId, NEW i \in 1..Len(m.outgoing), m.line[j].state = "LOADING",
             WriteOf(m.outgoing[i], m.line[j].tag)
      PROVE  \E x \in (i + 1)..Len(m.outgoing) : Reads(m.outgoing[x], m.line[j].tag)
  <2>1. i \in 1..n
    BY <1>4, <1>5, <1>7 DEF WriteOf
  <2>2. CASE j = l
    <3>1. Reads(m.outgoing[n + 1], m.line[j].tag)
      BY <1>4, <1>5, <2>2 DEF Taking, Reads
    <3>2. n + 1 \in (i + 1)..Len(m.outgoing)
      BY <1>4, <2>1
    <3>. QED  BY <3>1, <3>2
  <2>3. CASE j # l
    <3>1. PICK x \in (i + 1)..n : Reads(k.outgoing[x], k.line[j].tag)
      BY <1>4, <1>6, <1>7, <2>1, <2>3 DEF Fine, Queued, n
    <3>. QED  BY <1>4, <1>6, <2>1, <2>3, <3>1
  <2>. QED  BY <2>2, <2>3
<1>8. ASSUME NEW i \in 1..Len(m.outgoing), ~m.outgoing[i].write
      PROVE  \E j \in LineId : Loads(m, j, m.outgoing[i].address)
  <2>1. CASE i = n + 1
    BY <1>1, <1>4, <1>5, <2>1 DEF Taking, Loads
  <2>2. CASE i \in 1..n
    <3>1. PICK j \in LineId : Loads(k, j, k.outgoing[i].address)
      BY <1>4, <1>8, <2>2 DEF Fine, Queued, n
    <3>2. j # l
      BY <3>1 DEF Loads
    <3>. QED  BY <1>4, <1>6, <2>2, <3>1, <3>2 DEF Loads
  <2>. QED  BY <1>4, <2>1, <2>2
<1>9. \A i \in 1..n : ~Reads(k.outgoing[i], a)
  BY DEF Fine, Queued, n, Reads, Loads, Holds
<1>10. ASSUME NEW i \in 1..Len(m.outgoing), NEW j \in 1..Len(m.outgoing), ~m.outgoing[i].write,
              Reads(m.outgoing[j], m.outgoing[i].address)
       PROVE  i = j
  <2>1. CASE i \in 1..n /\ j \in 1..n
    BY <1>4, <1>10, <2>1 DEF Fine, Queued, n
  <2>2. CASE i = n + 1 \/ j = n + 1
    BY <1>4, <1>5, <1>9, <1>10, <2>2 DEF Reads
  <2>. QED  BY <1>4, <2>1, <2>2
<1>11. Queued(m)
  BY <1>7, <1>8, <1>10 DEF Queued
<1>. QED  BY <1>1, <1>2, <1>3, <1>11 DEF Fine
\* The bytes d are written into the line that holds a, if there is one.
Overwritten(k, m, a, d) ==
    \A l \in LineId :
        /\ m.line[l].state = k.line[l].state /\ m.line[l].tag = k.line[l].tag
        /\ m.line[l].processing = k.line[l].processing
        /\ m.line[l].data = IF Holds(k, l, a) THEN Blit(k.line[l].data, d) ELSE k.line[l].data

LEMMA BlitIs ==
  ASSUME NEW x \in Data, NEW d \in Data
  PROVE  /\ Blit(x, d) \in Data
         /\ \A b \in Byte : Blit(x, d)[b] = IF d[b] = NoVal THEN x[b] ELSE d[b]
  BY DEF Blit, Data

LEMMA SnoopIs ==
  ASSUME NEW k, Fine(k), NEW a \in Addr, NEW d \in Data
  PROVE  /\ Typed(OnMemorySnooped(k, a, d)) /\ Overwritten(k, OnMemorySnooped(k, a, d), a, d)
         /\ OnMemorySnooped(k, a, d).reads = k.reads /\ OnMemorySnooped(k, a, d).outgoing = k.outgoing
<1>. DEFINE l == FoundLine(k, a)
            m == OnMemorySnooped(k, a, d)
<1>0. Typed(k) /\ Located(k)
  BY DEF Fine
<1>1. CASE l = None
  <2>1. m = k
    BY <1>1 DEF OnMemorySnooped, FoundLine
  <2>2. \A j \in LineId : ~Holds(k, j, a)
    BY <1>0, <1>1, FindLineIs
  <2>. QED  BY <1>0, <2>1, <2>2 DEF Overwritten
<1>2. CASE l # None
  <2>. DEFINE x == [k.line[l] EXCEPT !.data = Blit(@, d)]
  <2>1. l \in LineId /\ Holds(k, l, a) /\ \A j \in LineId : j # l => ~Holds(k, j, a)
    BY <1>0, <1>2, FindLineIs
  <2>2. LineOK(k.line[l])
    BY <1>0, <2>1 DEF Typed
  <2>3. /\ LineOK(x) /\ x.state = k.line[l].state /\ x.tag = k.line[l].tag
        /\ x.processing = k.line[l].processing /\ x.data = Blit(k.line[l].data, d)
    BY <2>2, BlitIs DEF LineOK, LineFields
  <2>4. m = [k EXCEPT !.line[l] = x]
    BY <1>2 DEF OnMemorySnooped, FoundLine
  <2>. HIDE DEF x, l, m
  <2>5. Typed(m) /\ m.line[l] = x /\ OtherLines(k, m, l) /\ m.reads = k.reads /\ m.outgoing = k.outgoing
    BY <1>0, <2>1, <2>3, <2>4, LineChanges
  <2>6. Overwritten(k, m, a, d)
    BY <2>1, <2>3, <2>5 DEF Overwritten, OtherLines
  <2>. QED  BY <2>5, <2>6 DEF m
<1>. QED  BY <1>1, <1>2

LEMMA OverwriteFine ==
  ASSUME NEW k, Fine(k), NEW a, NEW d \in Data, NEW m, Typed(m), Overwritten(k, m, a, d),
         m.reads = k.reads, m.outgoing = k.outgoing
  PROVE  Fine(m)
<1>1. Located(m)
  BY DEF Fine, Located, Overwritten
<1>2. \A l \in LineId : Complete(k, l) => Complete(m, l)
  <2>1. ASSUME NEW l \in LineId, Complete(k, l), NEW b \in Byte
        PROVE  m.line[l].data[b] # NoVal
    <3>1. k.line[l].data \in Data /\ k.line[l].data[b] # NoVal
      BY <2>1 DEF Fine, Typed, LineOK, Complete
    <3>2. m.line[l].data = k.line[l].data \/ m.line[l].data = Blit(k.line[l].data, d)
      BY DEF Overwritten
    <3>. QED  BY <3>1, <3>2, BlitIs
  <2>. QED  BY <2>1 DEF Complete
<1>3. \A i \in 1..Len(k.reads) : k.reads[i] \in LineId
  BY DEF Fine, Typed
<1>4. Answered(m)
  BY <1>2, <1>3 DEF Fine, Answered, Overwritten
<1>5. Queued(m)
  BY DEF Fine, Queued, Overwritten, Loads
<1>. QED  BY <1>1, <1>4, <1>5 DEF Fine

LEMMA SnoopFine ==
  ASSUME NEW k, Fine(k), NEW a \in Addr, NEW d \in Data
  PROVE  Fine(OnMemorySnooped(k, a, d))
  BY SnoopIs, OverwriteFine

\* A write is queued while its line is not being loaded.
LEMMA AppendFine ==
  ASSUME NEW k, Fine(k), NEW r \in Sent, r.write,
         \A l \in LineId : Holds(k, l, r.address) => k.line[l].state = "FULL"
  PROVE  Fine([k EXCEPT !.outgoing = Append(@, r)])
<1>. DEFINE m == [k EXCEPT !.outgoing = Append(@, r)]
            n == Len(k.outgoing)
<1>1. Typed(m) /\ m.outgoing = Append(k.outgoing, r) /\ m.line = k.line /\ m.reads = k.reads
  BY Appends DEF Fine
<1>. HIDE DEF m
<1>2. /\ n \in Nat /\ Len(m.outgoing) = n + 1 /\ m.outgoing[n + 1] = r
      /\ \A i \in 1..n : m.outgoing[i] = k.outgoing[i]
  <2>1. k.outgoing \in Seq(Sent)
    BY DEF Fine, Typed, CacheOK
  <2>. QED  BY <1>1, <2>1, AppendedAt
<1>3. Located(m) /\ Answered(m)
  BY <1>1 DEF Fine, Located, Answered, Complete
<1>. HIDE DEF n
<1>4. ASSUME NEW j \in LineId, NEW i \in 1..Len(m.outgoing), m.line[j].state = "LOADING",
             WriteOf(m.outgoing[i], m.line[j].tag)
      PROVE  \E x \in (i + 1)..Len(m.outgoing) : Reads(m.outgoing[x], m.line[j].tag)
  <2>1. i # n + 1
    BY <1>1, <1>2, <1>4 DEF WriteOf, Holds
  <2>2. PICK x \in (i + 1)..n : Reads(k.outgoing[x], k.line[j].tag)
    BY <1>1, <1>2, <1>4, <2>1 DEF Fine, Queued, n
  <2>. QED  BY <1>1, <1>2, <2>1, <2>2
<1>5. ASSUME NEW i \in 1..Len(m.outgoing), ~m.outgoing[i].write
      PROVE  \E j \in LineId : Loads(m, j, m.outgoing[i].address)
  <2>1. i \in 1..n
    BY <1>2, <1>5
  <2>2. PICK j \in LineId : Loads(k, j, k.outgoing[i].address)
    BY <1>2, <1>5, <2>1 DEF Fine, Queued, n
  <2>. QED  BY <1>1, <1>2, <2>1, <2>2 DEF Loads
<1>6. ASSUME NEW i \in 1..Len(m.outgoing), NEW j \in 1..Len(m.outgoing), ~m.outgoing[i].write,
             Reads(m.outgoing[j], m.outgoing[i].address)
      PROVE  i = j
  <2>1. i \in 1..n /\ j \in 1..n
    BY <1>2, <1>6 DEF Reads
  <2>. QED  BY <1>2, <1>6, <2>1 DEF Fine, Queued, n
<1>7. Queued(m)
  BY <1>4, <1>5, <1>6 DEF Queued
<1>. QED  BY <1>1, <1>3, <1>7 DEF Fine, m

\* A core stores bytes d of a.
Storing(k, m, a, d, r) ==
    /\ Typed(m) /\ Overwritten(k, m, a, d) /\ m.outgoing = Append(k.outgoing, r)
    /\ \A l \in LineId : Holds(k, l, a) => k.line[l].state = "FULL"

LEMMA WriteStores ==
  ASSUME NEW k, Fine(k), NEW a \in Addr, NEW d \in Data, NEW wid \in Wid, CanWrite(k, a)
  PROVE  /\ Storing(k, WriteLine(k, a, d, wid), a, d, Request(TRUE, a, d, wid))
         /\ Fine(WriteLine(k, a, d, wid))
<1>. DEFINE m == OnMemorySnooped(k, a, d)
            r == Request(TRUE, a, d, wid)
<1>1. Fine(m) /\ Typed(m) /\ Overwritten(k, m, a, d) /\ m.outgoing = k.outgoing
  BY SnoopIs, SnoopFine
<1>2. r \in Sent /\ r.write /\ r.address = a
  BY DEF Request, Sent
<1>3. \A l \in LineId : Holds(k, l, a) => k.line[l].state = "FULL"
  <2>1. ASSUME NEW l \in LineId, Holds(k, l, a) PROVE k.line[l].state = "FULL"
    <3>1. FoundLine(k, a) = l /\ FoundLine(k, a) # None
      BY <2>1, FindLineIs DEF Fine
    <3>. QED  BY <3>1 DEF CanWrite, FoundLine
  <2>. QED  BY <2>1
<1>4. \A l \in LineId : Holds(m, l, a) => m.line[l].state = "FULL"
  BY <1>1, <1>3 DEF Overwritten, Holds
<1>5. WriteLine(k, a, d, wid) = [m EXCEPT !.outgoing = Append(@, r)]
  BY DEF WriteLine, OnMemorySnooped
<1>. HIDE DEF m, r
<1>6. /\ Fine(WriteLine(k, a, d, wid)) /\ Typed(WriteLine(k, a, d, wid))
      /\ WriteLine(k, a, d, wid).outgoing = Append(k.outgoing, r) /\ WriteLine(k, a, d, wid).line = m.line
  BY <1>1, <1>2, <1>4, <1>5, AppendFine, Appends
<1>. QED  BY <1>1, <1>3, <1>6 DEF Storing, Overwritten, r
\* The front request is sent.
Popped(k) == [k EXCEPT !.outgoing = Tail(@)]
LEMMA SentFine ==
  ASSUME NEW k, Fine(k), k.outgoing # <<>>
  PROVE  /\ Fine(Popped(k)) /\ Popped(k).outgoing = Tail(k.outgoing) /\ Popped(k).line = k.line
         /\ Head(k.outgoing) \in Sent
         /\ RemovedAt(k.outgoing, Popped(k).outgoing, 1) /\ k.outgoing[1] = Head(k.outgoing)
<1>. DEFINE m == Popped(k)
            n == Len(k.outgoing)
<1>1. k.outgoing \in Seq(Sent)
  BY DEF Fine, Typed, CacheOK
<1>2. m.outgoing = Tail(k.outgoing) /\ m.line = k.line /\ m.reads = k.reads /\ DOMAIN m = DOMAIN k
  BY DEF Fine, Typed, CacheOK, Fields, Popped
<1>3. Typed(m)
  BY <1>1, <1>2, TailAt DEF Fine, Typed, CacheOK
<1>. HIDE DEF m
<1>4. /\ n \in Nat /\ Len(m.outgoing) = n - 1 /\ Head(k.outgoing) \in Sent
      /\ \A i \in 1..Len(m.outgoing) : m.outgoing[i] = k.outgoing[i + 1] /\ i + 1 \in 1..n
      /\ k.outgoing[1] = Head(k.outgoing)
  BY <1>1, <1>2, TailAt
<1>5. Located(m) /\ Answered(m)
  BY <1>2 DEF Fine, Located, Answered, Complete
<1>6. ASSUME NEW j \in LineId, NEW i \in 1..Len(m.outgoing), m.line[j].state = "LOADING",
             WriteOf(m.outgoing[i], m.line[j].tag)
      PROVE  \E x \in (i + 1)..Len(m.outgoing) : Reads(m.outgoing[x], m.line[j].tag)
  <2>1. PICK x \in (i + 1 + 1)..n : Reads(k.outgoing[x], k.line[j].tag)
    BY <1>2, <1>4, <1>6 DEF Fine, Queued, n
  <2>2. x - 1 \in (i + 1)..Len(m.outgoing) /\ x - 1 \in 1..Len(m.outgoing) /\ x - 1 + 1 = x
    BY <1>4, <2>1
  <2>3. Reads(m.outgoing[x - 1], m.line[j].tag)
    BY <1>2, <1>4, <2>1, <2>2
  <2>. QED  BY <2>2, <2>3
<1>7. ASSUME NEW i \in 1..Len(m.outgoing), ~m.outgoing[i].write
      PROVE  \E j \in LineId : Loads(m, j, m.outgoing[i].address)
  BY <1>2, <1>4, <1>7 DEF Fine, Queued, Loads
<1>8. ASSUME NEW i \in 1..Len(m.outgoing), NEW j \in 1..Len(m.outgoing), ~m.outgoing[i].write,
             Reads(m.outgoing[j], m.outgoing[i].address)
      PROVE  i = j
  <2>1. i + 1 = j + 1
    BY <1>4, <1>8 DEF Fine, Queued
  <2>. QED  BY <1>4, <2>1
<1>9. Queued(m)
  BY <1>6, <1>7, <1>8 DEF Queued
<1>10. RemovedAt(k.outgoing, m.outgoing, 1)
  BY <1>1, <1>2, TailRemoves
<1>. QED  BY <1>2, <1>3, <1>4, <1>5, <1>9, <1>10 DEF Fine, m

\* The answer to the read of a arrives.
Receiving(k, m, l, a, d) ==
    /\ Typed(m) /\ OtherLines(k, m, l) /\ m.reads = Append(k.reads, l) /\ m.outgoing = k.outgoing
    /\ m.line[l].state = "LOADING" /\ m.line[l].tag = a /\ m.line[l].processing
    /\ \A b \in Byte : m.line[l].data[b] = IF k.line[l].data[b] = NoVal THEN d[b] ELSE k.line[l].data[b]

LEMMA AskingIs ==
  ASSUME NEW k, Fine(k), NEW a \in Addr, Asking(k, a)
  PROVE  /\ FoundLine(k, a) \in LineId /\ FoundLine(k, a) # None /\ Loads(k, FoundLine(k, a), a)
         /\ \A l \in LineId : Holds(k, l, a) => l = FoundLine(k, a)
         /\ \A i \in 1..Len(k.outgoing) : ~WriteOf(k.outgoing[i], a)
<1>1. PICK l \in LineId : Loads(k, l, a)
  BY DEF Asking
<1>2. Holds(k, l, a) /\ k.line[l].state = "LOADING" /\ k.line[l].tag = a
  BY <1>1 DEF Loads, Holds
<1>3. FoundLine(k, a) = l /\ FoundLine(k, a) # None /\ \A j \in LineId : Holds(k, j, a) => j = l
  BY <1>2, FindLineIs DEF Fine
<1>4. ASSUME NEW i \in 1..Len(k.outgoing), WriteOf(k.outgoing[i], a) PROVE FALSE
  <2>1. PICK x \in (i + 1)..Len(k.outgoing) : Reads(k.outgoing[x], a)
    BY <1>2, <1>4 DEF Fine, Queued
  <2>2. x \in 1..Len(k.outgoing)
    <3>1. Len(k.outgoing) \in Nat
      BY DEF Fine, Typed, CacheOK
    <3>. QED  BY <2>1, <3>1
  <2>. QED  BY <2>1, <2>2 DEF Asking
<1>. QED  BY <1>1, <1>3, <1>4

LEMMA ReadReceives ==
  ASSUME NEW k, Fine(k), NEW a \in Addr, Asking(k, a), NEW d \in Data
  PROVE  Receiving(k, OnMemoryReadCompleted(k, a, d), FoundLine(k, a), a, d)
<1>. DEFINE l == FoundLine(k, a)
            e == OutgoingWrites(k, a, d)
            x == [k.line[l] EXCEPT !.data = BlitNot(@, e), !.processing = TRUE]
            m == [k EXCEPT !.line[l] = x]
            g == OnMemoryReadCompleted(k, a, d)
<1>1. /\ Typed(k) /\ l \in LineId /\ l # None /\ Loads(k, l, a)
      /\ \A i \in 1..Len(k.outgoing) : ~WriteOf(k.outgoing[i], a)
  BY AskingIs DEF Fine
<1>2. e = d
  <2>1. DOMAIN k.outgoing = 1..Len(k.outgoing)
    BY <1>1 DEF Typed, CacheOK
  <2>2. \A b \in Byte : e[b] = d[b]
    BY <1>1, <2>1 DEF OutgoingWrites, WriteOf
  <2>3. e = [b \in Byte |-> e[b]] /\ d = [b \in Byte |-> d[b]]
    BY DEF OutgoingWrites, Data
  <2>. HIDE DEF e
  <2>. QED  BY <2>2, <2>3
<1>3. LineOK(k.line[l])
  BY <1>1 DEF Typed
<1>4. BlitNot(k.line[l].data, e) \in Data
  BY <1>2, <1>3 DEF BlitNot, Data, LineOK
<1>5. /\ LineOK(x) /\ x.state = "LOADING" /\ x.tag = a /\ x.processing = TRUE /\ x.data = BlitNot(k.line[l].data, e)
  BY <1>1, <1>3, <1>4 DEF LineOK, LineFields, Loads
<1>6. \A b \in Byte : x.data[b] = IF k.line[l].data[b] = NoVal THEN d[b] ELSE k.line[l].data[b]
  BY <1>2, <1>5 DEF BlitNot
<1>7. Awaits(k, a)
  BY <1>1 DEF Awaits, FoundLine, Loads
<1>8. g = [k EXCEPT !.line[l].data = BlitNot(@, e), !.line[l].processing = TRUE, !.reads = Append(@, l)]
  BY <1>7 DEF OnMemoryReadCompleted, FoundLine
<1>. HIDE DEF e, l
<1>9. g = [m EXCEPT !.reads = Append(@, l)]
  BY <1>1, <1>3, <1>8 DEF Typed, CacheOK, Fields, LineOK, LineFields
<1>. HIDE DEF x, g
<1>10. Typed(m) /\ m.line[l] = x /\ OtherLines(k, m, l) /\ m.reads = k.reads /\ m.outgoing = k.outgoing
  BY <1>1, <1>5, LineChanges
<1>. HIDE DEF m
<1>11. /\ g.line = m.line /\ g.outgoing = m.outgoing /\ g.reads = Append(m.reads, l) /\ Typed(g)
  <2>1. Append(m.reads, l) \in Seq(LineId)
    BY <1>1, <1>10 DEF Typed
  <2>. QED  BY <1>9, <1>10, <2>1 DEF Typed, CacheOK, Fields
<1>. QED  BY <1>5, <1>6, <1>10, <1>11 DEF Receiving, OtherLines, l, g

LEMMA ReceiveFine ==
  ASSUME NEW k, Fine(k), NEW a \in Addr, Asking(k, a), NEW l \in LineId, Loads(k, l, a), NEW d \in Data,
         \A b \in Byte : Missing(k, l, a, b) => d[b] # NoVal,
         NEW m, Receiving(k, m, l, a, d)
  PROVE  Fine(m)
<1>. DEFINE n == Len(k.reads)
<1>1. \A j \in LineId : m.line[j].state = k.line[j].state /\ m.line[j].tag = k.line[j].tag
  BY DEF Receiving, OtherLines, Loads
<1>2. Located(m)
  BY <1>1 DEF Fine, Located
<1>3. /\ n \in Nat /\ Len(m.reads) = n + 1 /\ m.reads[n + 1] = l
      /\ \A i \in 1..n : m.reads[i] = k.reads[i] /\ k.reads[i] \in LineId
  <2>1. k.reads \in Seq(LineId)
    BY DEF Fine, Typed
  <2>. QED  BY <2>1, AppendedAt DEF Receiving
<1>. HIDE DEF n
<1>4. \A i \in 1..n : k.reads[i] # l /\ m.line[k.reads[i]] = k.line[k.reads[i]]
  BY <1>3 DEF Fine, Answered, Loads, n, Receiving, OtherLines
<1>5. \A i \in 1..Len(m.reads) : m.line[m.reads[i]].state = "LOADING" /\ m.line[m.reads[i]].processing
  <2>1. ASSUME NEW i \in 1..Len(m.reads)
        PROVE  m.line[m.reads[i]].state = "LOADING" /\ m.line[m.reads[i]].processing
    <3>1. CASE i \in 1..n
      <4>1. k.line[k.reads[i]].state = "LOADING" /\ k.line[k.reads[i]].processing
        BY <3>1 DEF Fine, Answered, n
      <4>2. m.line[m.reads[i]] = k.line[k.reads[i]]
        BY <1>3, <1>4, <3>1
      <4>. QED  BY <4>1, <4>2
    <3>2. CASE i = n + 1
      BY <1>3, <3>2 DEF Receiving
    <3>. QED  BY <1>3, <3>1, <3>2
  <2>. QED  BY <2>1
<1>6. \A i, j \in 1..Len(m.reads) : m.reads[i] = m.reads[j] => i = j
  <2>1. \A i, j \in 1..n : k.reads[i] = k.reads[j] => i = j
    BY DEF Fine, Answered, n
  <2>2. ASSUME NEW i \in 1..(n + 1), NEW j \in 1..(n + 1), m.reads[i] = m.reads[j] PROVE i = j
    <3>1. CASE i \in 1..n /\ j \in 1..n
      BY <1>3, <2>1, <2>2, <3>1
    <3>2. CASE i = n + 1 \/ j = n + 1
      BY <1>3, <1>4, <2>2, <3>2
    <3>. QED  BY <1>3, <3>1, <3>2
  <2>. QED  BY <1>3, <2>2
<1>7. ASSUME NEW j \in LineId, m.line[j].state = "FULL" \/ (m.line[j].state = "LOADING" /\ m.line[j].processing)
      PROVE  Complete(m, j)
  <2>1. CASE j = l
    BY <2>1 DEF Receiving, Complete, Missing
  <2>2. CASE j # l
    BY <1>7, <2>2 DEF Receiving, OtherLines, Complete, Fine, Answered
  <2>. QED  BY <2>1, <2>2
<1>8. Answered(m)
  BY <1>5, <1>6, <1>7 DEF Answered
<1>9. \A i \in 1..Len(k.outgoing), j \in LineId :
        ~k.outgoing[i].write /\ Loads(k, j, k.outgoing[i].address) => Loads(m, j, k.outgoing[i].address)
  <2>1. ASSUME NEW i \in 1..Len(k.outgoing), NEW j \in LineId, ~k.outgoing[i].write,
               Loads(k, j, k.outgoing[i].address)
        PROVE  Loads(m, j, k.outgoing[i].address)
    <3>1. k.outgoing[i].address # a
      BY <2>1 DEF Asking, Reads
    <3>2. j # l
      BY <2>1, <3>1 DEF Loads
    <3>. QED  BY <2>1, <3>2 DEF Receiving, OtherLines, Loads
  <2>. QED  BY <2>1
<1>10. m.outgoing = k.outgoing /\ Typed(m)
  BY DEF Receiving
<1>11. Queued(m)
  BY <1>1, <1>9, <1>10 DEF Fine, Queued
<1>. QED  BY <1>2, <1>8, <1>10, <1>11 DEF Fine
\* The line whose answer has come is full.
Responding(k, m, l) ==
    /\ Typed(m) /\ OtherLines(k, m, l) /\ m.reads = Tail(k.reads) /\ m.outgoing = k.outgoing
    /\ k.line[l].state = "LOADING" /\ k.line[l].processing
    /\ m.line[l].state = "FULL" /\ m.line[l].tag = k.line[l].tag /\ m.line[l].data = k.line[l].data

LEMMA ResponseFills ==
  ASSUME NEW k, Fine(k), k.reads # <<>>
  PROVE  /\ Head(k.reads) \in LineId /\ Responding(k, DoReadResponses(k), Head(k.reads))
         /\ Fine(DoReadResponses(k))
<1>. DEFINE l == Head(k.reads)
            y == [k.line[l] EXCEPT !.create = FALSE]
            j == InitiateWriteback(k, l)
            x == [y EXCEPT !.waiting = <<>>, !.state = "FULL"]
            m == DoReadResponses(k)
            n == Len(k.reads)
<1>1. /\ l \in LineId /\ Tail(k.reads) \in Seq(LineId) /\ l = k.reads[1] /\ n \in Nat \ {0}
      /\ Len(Tail(k.reads)) = n - 1
      /\ \A i \in 1..(n - 1) : Tail(k.reads)[i] = k.reads[i + 1] /\ i + 1 \in 1..n /\ k.reads[i + 1] \in LineId
  BY TailAt DEF Fine, Typed
<1>2. k.line[l].state = "LOADING" /\ k.line[l].processing /\ LineOK(k.line[l]) /\ Typed(k)
  BY <1>1 DEF Fine, Answered, Typed
<1>. HIDE DEF l, n
<1>3. LineOK(y) /\ y.state = "LOADING" /\ LineLooks(k.line[l], y)
  BY <1>2 DEF LineOK, LineFields, LineLooks
<1>. HIDE DEF y
<1>4. LineOK(x) /\ x.state = "FULL" /\ x.tag = k.line[l].tag /\ x.data = k.line[l].data
  BY <1>3 DEF LineOK, LineFields, LineLooks
<1>5. DOMAIN j = DOMAIN k /\ j.line = [k.line EXCEPT ![l] = y] /\ j.reads = k.reads /\ j.outgoing = k.outgoing
  BY <1>2 DEF InitiateWriteback, Typed, CacheOK, Fields, y
<1>6. /\ DOMAIN m = DOMAIN j /\ m.line = [j.line EXCEPT ![l] = x]
      /\ m.reads = Tail(k.reads) /\ m.outgoing = k.outgoing
  <2>1. m = [j EXCEPT !.line[l].waiting = <<>>,
                      !.line[l].state = IF @ = "INVALID" THEN "EMPTY" ELSE "FULL",
                      !.reads = Tail(@)]
    BY DEF DoReadResponses, l
  <2>2. j.line[l] = y /\ DOMAIN j.line = LineId
    BY <1>1, <1>2, <1>5 DEF Typed
  <2>3. y.state # "INVALID" /\ DOMAIN y = LineFields
    BY <1>3 DEF LineOK
  <2>. HIDE DEF j, m
  <2>. QED  BY <1>1, <1>2, <1>5, <2>1, <2>2, <2>3 DEF Typed, CacheOK, Fields, LineFields
<1>. HIDE DEF j, m, x
<1>7. DOMAIN m.line = LineId /\ m.line[l] = x /\ OtherLines(k, m, l)
  BY <1>1, <1>2, <1>5, <1>6 DEF Typed, OtherLines
<1>8. Typed(m)
  BY <1>1, <1>2, <1>4, <1>5, <1>6, <1>7 DEF Typed, CacheOK, OtherLines
<1>9. Responding(k, m, l)
  BY <1>2, <1>4, <1>6, <1>7, <1>8 DEF Responding
<1>10. Located(m)
  BY <1>9 DEF Responding, OtherLines, Fine, Located
<1>11. Complete(k, l)
  BY <1>1, <1>2 DEF Fine, Answered
<1>12. \A i \in 1..Len(m.reads) : /\ m.reads[i] = k.reads[i + 1] /\ i + 1 \in 1..n
                                  /\ k.reads[i + 1] # l /\ m.line[k.reads[i + 1]] = k.line[k.reads[i + 1]]
  <2>1. \A i \in 1..(n - 1) : k.reads[i + 1] # l
    BY <1>1 DEF Fine, Answered, n
  <2>. QED  BY <1>1, <1>6, <1>7, <2>1 DEF OtherLines
<1>13. \A i \in 1..Len(m.reads) : m.line[m.reads[i]].state = "LOADING" /\ m.line[m.reads[i]].processing
  <2>1. \A i \in 1..n : k.line[k.reads[i]].state = "LOADING" /\ k.line[k.reads[i]].processing
    BY DEF Fine, Answered, n
  <2>. QED  BY <1>12, <2>1
<1>14. \A i, e \in 1..Len(m.reads) : m.reads[i] = m.reads[e] => i = e
  <2>1. ASSUME NEW i \in 1..Len(m.reads), NEW e \in 1..Len(m.reads), m.reads[i] = m.reads[e] PROVE i = e
    <3>1. i + 1 = e + 1
      BY <1>12, <2>1 DEF Fine, Answered, n
    <3>. QED  BY <3>1, <1>1, <1>6
  <2>. QED  BY <2>1
<1>15. \A e \in LineId : m.line[e].state = "LOADING" /\ m.line[e].processing => Complete(m, e)
  BY <1>9 DEF Responding, OtherLines, Complete, Fine, Answered
<1>16. \A e \in LineId : m.line[e].state = "FULL" => Complete(m, e)
  BY <1>9, <1>11 DEF Responding, OtherLines, Complete, Fine, Answered
<1>17. Answered(m)
  BY <1>13, <1>14, <1>15, <1>16 DEF Answered
<1>18. Queued(m)
  BY <1>9 DEF Responding, OtherLines, Fine, Queued, Loads
<1>. QED  BY <1>1, <1>8, <1>9, <1>10, <1>17, <1>18 DEF Fine, l, m
-----------------------------------------------------------------------------
(***************************************************************************)
(* What keeps the copy of line a in the cache k of client c coherent.       *)
(***************************************************************************)

\* The cache shows no more of a than it did, and asks for a if it did.
Alike(k, g, a) ==
    /\ \A l \in LineId : Holds(g, l, a) => Holds(k, l, a) /\ g.line[l].data = k.line[l].data
    /\ \A l \in LineId : Loads(g, l, a) => Loads(k, l, a)
    /\ \A b \in Byte : Unsent(g, a, b) => Unsent(k, a, b)
    /\ Asking(k, a) => Asking(g, a)

LEMMA AlikeCoherent ==
  ASSUME NEW k, NEW g, NEW c, NEW a, NEW q, NEW p, NEW m, Coherent(k, c, a, q, p, m), Alike(k, g, a)
  PROVE  Coherent(g, c, a, q, p, m)
<1>1. CopyIsNewest(g, a, q, m)
  BY DEF Coherent, CopyIsNewest, Alike
<1>2. \A l \in LineId, b \in Byte : Missing(g, l, a, b) => Missing(k, l, a, b)
  BY DEF Alike, Missing, Loads, Holds
<1>3. AskedInTime(g, c, a, q)
  BY <1>2 DEF Coherent, AskedInTime, Alike
<1>4. AnsweredInTime(g, c, a, q, p, m)
  BY <1>2 DEF Coherent, AnsweredInTime, Brings, Alike
<1>. QED  BY <1>1, <1>3, <1>4 DEF Coherent

\* No read is on its way when the cache does not ask.
LEMMA NoReads ==
  ASSUME NEW k, NEW c, NEW a, NEW q, NEW p, NEW m, Coherent(k, c, a, q, p, m), ~Asking(k, a)
  PROVE  /\ \A i \in 1..Len(q) : ~ReadOf(q[i], c, a)
         /\ \A i \in 1..Len(p) : ~ReadOf(p[i], c, a)
  BY DEF Coherent, AskedInTime, AnsweredInTime, Brings

LEMMA TakeCoherent ==
  ASSUME NEW k, NEW g, NEW c, NEW a, NEW q, NEW p, NEW m, Coherent(k, c, a, q, p, m), Typed(k),
         NEW l \in LineId, NEW e \in Addr, Taking(k, g, l, e), k.line[l].state \in {"EMPTY", "FULL"},
         \A j \in LineId : ~Holds(k, j, e)
  PROVE  Coherent(g, c, a, q, p, m)
<1>. DEFINE r == Request(FALSE, e, NoData, None)
            n == Len(k.outgoing)
<1>1. /\ n \in Nat /\ Len(g.outgoing) = n + 1 /\ g.outgoing[n + 1] = r /\ ~r.write /\ r.address = e
      /\ \A i \in 1..n : g.outgoing[i] = k.outgoing[i]
  <2>1. k.outgoing \in Seq(Sent) /\ r \in Sent
    BY ReadSent DEF Typed, CacheOK
  <2>2. g.outgoing = Append(k.outgoing, r)
    BY DEF Taking
  <2>3. ~r.write /\ r.address = e
    BY DEF Request
  <2>. HIDE DEF r
  <2>. QED  BY <2>1, <2>2, <2>3, AppendedAt
<1>. HIDE DEF r, n
<1>2. \A b \in Byte : Unsent(g, a, b) => Unsent(k, a, b)
  BY <1>1 DEF Unsent, n
<1>3. \A j \in LineId : j # l => g.line[j] = k.line[j]
  BY DEF Taking, OtherLines
<1>4. CASE e # a
  <2>1. \A j \in LineId : /\ Holds(g, j, a) => Holds(k, j, a) /\ g.line[j].data = k.line[j].data
                          /\ Loads(g, j, a) => Loads(k, j, a)
    BY <1>3, <1>4 DEF Taking, Holds, Loads
  <2>2. Asking(k, a) => Asking(g, a)
    <3>1. ASSUME Asking(k, a) PROVE Asking(g, a)
      <4>1. PICK j \in LineId : Loads(k, j, a)
        BY <3>1 DEF Asking
      <4>2. Loads(g, j, a)
        BY <1>3, <4>1 DEF Loads
      <4>3. \A i \in 1..Len(g.outgoing) : ~Reads(g.outgoing[i], a)
        BY <1>1, <1>4, <3>1 DEF Asking, Reads, n
      <4>. QED  BY <4>2, <4>3 DEF Asking
    <3>. QED  BY <3>1
  <2>. QED  BY <1>2, <2>1, <2>2, AlikeCoherent DEF Alike
<1>5. CASE e = a
  <2>1. ~Asking(k, a)
    BY <1>5 DEF Asking, Loads, Holds
  <2>2. /\ \A i \in 1..Len(q) : ~ReadOf(q[i], c, a)
        /\ \A i \in 1..Len(p) : ~ReadOf(p[i], c, a)
    BY <2>1, NoReads
  <2>3. \A j \in LineId, b \in Byte : Holds(g, j, a) => g.line[j].data[b] = NoVal
    BY <1>3, <1>5 DEF Taking, Holds, NoData
  <2>. QED  BY <2>2, <2>3 DEF Coherent, CopyIsNewest, AskedInTime, AnsweredInTime, Brings
<1>. QED  BY <1>4, <1>5

LEMMA StoreCoherent ==
  ASSUME NEW k, NEW g, NEW c, NEW a, NEW q, NEW p, NEW m, Coherent(k, c, a, q, p, m), Typed(k),
         NEW e \in Addr, NEW d \in Data, NEW r \in Sent, r.write, r.address = e, r.data = d, Storing(k, g, e, d, r)
  PROVE  Coherent(g, c, a, q, p, m)
<1>. DEFINE n == Len(k.outgoing)
<1>1. /\ n \in Nat /\ Len(g.outgoing) = n + 1 /\ g.outgoing[n + 1] = r
      /\ \A i \in 1..n : g.outgoing[i] = k.outgoing[i]
  BY AppendedAt DEF Typed, CacheOK, Storing
<1>. HIDE DEF n
<1>2. \A b \in Byte : Unsent(g, a, b) => Unsent(k, a, b) /\ (e = a => d[b] = NoVal)
  BY <1>1 DEF Unsent, WritesTo, n
<1>3. \A l \in LineId : /\ Holds(g, l, a) <=> Holds(k, l, a)
                        /\ Loads(g, l, a) <=> Loads(k, l, a)
  BY DEF Storing, Overwritten, Holds, Loads
<1>4. ASSUME NEW l \in LineId, NEW b \in Byte, Holds(g, l, a), Unsent(g, a, b)
      PROVE  g.line[l].data[b] = k.line[l].data[b]
  <2>1. CASE e # a
    <3>1. ~Holds(k, l, e)
      BY <1>3, <1>4, <2>1 DEF Holds
    <3>. QED  BY <3>1 DEF Storing, Overwritten
  <2>2. CASE e = a
    <3>1. g.line[l].data = Blit(k.line[l].data, d) /\ k.line[l].data \in Data /\ d[b] = NoVal
      BY <1>2, <1>3, <1>4, <2>2 DEF Storing, Overwritten, Typed, LineOK
    <3>. QED  BY <3>1, BlitIs
  <2>. QED  BY <2>1, <2>2
<1>5. CopyIsNewest(g, a, q, m)
  BY <1>2, <1>3, <1>4 DEF Coherent, CopyIsNewest
<1>6. Asking(k, a) => Asking(g, a)
  BY <1>1, <1>3 DEF Asking, Reads, n
<1>7. CASE Asking(k, a)
  <2>1. PICK j \in LineId : Loads(k, j, a)
    BY <1>7 DEF Asking
  <2>2. e # a
    BY <2>1 DEF Storing, Loads, Holds
  <2>3. \A l \in LineId, b \in Byte : Missing(g, l, a, b) => Missing(k, l, a, b)
    BY <1>3, <2>2 DEF Missing, Storing, Overwritten, Loads, Holds
  <2>. QED  BY <1>5, <1>6, <2>3 DEF Coherent, AskedInTime, AnsweredInTime, Brings
<1>8. CASE ~Asking(k, a)
  BY <1>5, <1>8, NoReads DEF Coherent, AskedInTime, AnsweredInTime, Brings
<1>. QED  BY <1>7, <1>8
\* A request is accepted that neither writes a nor reads it for c.
LEMMA AppendOther ==
  ASSUME NEW k, NEW c, NEW a, NEW q \in Seq(Req), NEW p, NEW m, Coherent(k, c, a, q, p, m),
         NEW x \in Req, ~WriteOf(x, a), ~ReadOf(x, c, a)
  PROVE  Coherent(k, c, a, Append(q, x), p, m)
<1>. DEFINE f == Append(q, x)
            n == Len(q)
<1>1. n \in Nat /\ Len(f) = n + 1 /\ f[n + 1] = x /\ \A i \in 1..n : f[i] = q[i]
  BY AppendedAt
<1>. HIDE DEF f, n
<1>2. \A b \in Byte : ~WritesTo(x, a, b)
  BY DEF WritesTo, WriteOf
<1>3. \A b \in Byte, i \in 1..(n + 1) : Behind(q, i, a, b) => Behind(f, i, a, b)
  BY <1>1, <1>2 DEF Behind, n
<1>4. ASSUME NEW v, NEW b \in Byte, Newest(v, q, m, a, b) PROVE Newest(v, f, m, a, b)
  <2>1. CASE v = m[b] /\ \A j \in 1..n : ~WritesTo(q[j], a, b)
    BY <1>1, <1>2, <2>1 DEF Newest
  <2>2. ASSUME NEW i \in 1..n, WritesTo(q[i], a, b), v = q[i].data[b],
               \A j \in (i + 1)..n : ~WritesTo(q[j], a, b)
        PROVE  Newest(v, f, m, a, b)
    <3>1. i \in 1..Len(f) /\ WritesTo(f[i], a, b) /\ v = f[i].data[b]
      BY <1>1, <2>2
    <3>2. \A j \in (i + 1)..Len(f) : ~WritesTo(f[j], a, b)
      BY <1>1, <1>2, <2>2
    <3>. QED  BY <3>1, <3>2 DEF Newest
  <2>. QED  BY <1>4, <2>1, <2>2 DEF Newest, n
<1>5. CopyIsNewest(k, a, f, m)
  BY <1>4 DEF Coherent, CopyIsNewest
<1>6. AskedInTime(k, c, a, f)
  <2>1. ASSUME NEW i \in 1..Len(f), ReadOf(f[i], c, a) PROVE i \in 1..n /\ ReadOf(q[i], c, a)
    BY <1>1, <2>1
  <2>. QED  BY <1>1, <1>3, <2>1 DEF Coherent, AskedInTime, n
<1>7. AnsweredInTime(k, c, a, f, p, m)
  <2>1. 1 \in 1..(n + 1)
    BY <1>1
  <2>. QED  BY <1>3, <2>1 DEF Coherent, AnsweredInTime, Brings
<1>8. OneRead(c, a, f, p)
  BY <1>1 DEF Coherent, OneRead, n
<1>. QED  BY <1>5, <1>6, <1>7, <1>8 DEF Coherent, f

\* A write of a is accepted: every cache snoops it, and the one that sent it has
\* it no longer to send.
LEMMA AppendWrite ==
  ASSUME NEW k, NEW g, NEW c, NEW a, NEW q \in Seq(Req), NEW p, NEW m, Coherent(k, c, a, q, p, m), Typed(k),
         NEW x \in Req, WriteOf(x, a), Overwritten(k, g, a, x.data), Asking(k, a) => Asking(g, a),
         \A b \in Byte : x.data[b] = NoVal /\ Unsent(g, a, b) => Unsent(k, a, b)
  PROVE  Coherent(g, c, a, Append(q, x), p, m)
<1>. DEFINE f == Append(q, x)
            n == Len(q)
<1>1. n \in Nat /\ Len(f) = n + 1 /\ f[n + 1] = x /\ \A i \in 1..n : f[i] = q[i]
  BY AppendedAt
<1>. HIDE DEF f, n
<1>2. \A l \in LineId : (Holds(g, l, a) <=> Holds(k, l, a)) /\ (Loads(g, l, a) <=> Loads(k, l, a))
  BY DEF Overwritten, Holds, Loads
<1>3. \A l \in LineId, b \in Byte :
        Holds(k, l, a) => g.line[l].data[b] = IF x.data[b] = NoVal THEN k.line[l].data[b] ELSE x.data[b]
  <2>1. ASSUME NEW l \in LineId, Holds(k, l, a)
        PROVE  \A b \in Byte : g.line[l].data[b] = IF x.data[b] = NoVal THEN k.line[l].data[b] ELSE x.data[b]
    <3>1. g.line[l].data = Blit(k.line[l].data, x.data) /\ k.line[l].data \in Data /\ x.data \in Data
      BY <2>1, ReqFields DEF Overwritten, Typed, LineOK
    <3>. QED  BY <3>1, BlitIs
  <2>. QED  BY <2>1
<1>4. \A b \in Byte : WritesTo(x, a, b) <=> x.data[b] # NoVal
  BY DEF WritesTo, WriteOf
<1>5. \A b \in Byte, i \in 1..(n + 1) : Behind(q, i, a, b) /\ x.data[b] = NoVal => Behind(f, i, a, b)
  BY <1>1, <1>4 DEF Behind, n
<1>6. ASSUME NEW v, NEW b \in Byte, Newest(v, q, m, a, b), x.data[b] = NoVal PROVE Newest(v, f, m, a, b)
  <2>1. CASE v = m[b] /\ \A j \in 1..n : ~WritesTo(q[j], a, b)
    BY <1>1, <1>4, <1>6, <2>1 DEF Newest
  <2>2. ASSUME NEW i \in 1..n, WritesTo(q[i], a, b), v = q[i].data[b],
               \A j \in (i + 1)..n : ~WritesTo(q[j], a, b)
        PROVE  Newest(v, f, m, a, b)
    <3>1. i \in 1..Len(f) /\ WritesTo(f[i], a, b) /\ v = f[i].data[b]
      BY <1>1, <2>2
    <3>2. \A j \in (i + 1)..Len(f) : ~WritesTo(f[j], a, b)
      BY <1>1, <1>4, <1>6, <2>2
    <3>. QED  BY <3>1, <3>2 DEF Newest
  <2>. QED  BY <1>6, <2>1, <2>2 DEF Newest, n
<1>7. \A b \in Byte : x.data[b] # NoVal => Newest(x.data[b], f, m, a, b)
  <2>1. ASSUME NEW b \in Byte, x.data[b] # NoVal PROVE Newest(x.data[b], f, m, a, b)
    <3>1. n + 1 \in 1..Len(f) /\ WritesTo(f[n + 1], a, b) /\ x.data[b] = f[n + 1].data[b]
      BY <1>1, <1>4, <2>1
    <3>2. \A j \in (n + 1 + 1)..Len(f) : ~WritesTo(f[j], a, b)
      BY <1>1
    <3>. QED  BY <3>1, <3>2 DEF Newest
  <2>. QED  BY <2>1
<1>8. CopyIsNewest(g, a, f, m)
  <2>1. ASSUME OneWay(a), NEW l \in LineId, NEW b \in Byte, Holds(g, l, a), g.line[l].data[b] # NoVal, Unsent(g, a, b)
        PROVE  Newest(g.line[l].data[b], f, m, a, b)
    <3>1. CASE x.data[b] = NoVal
      BY <1>2, <1>3, <1>6, <2>1, <3>1 DEF Coherent, CopyIsNewest
    <3>2. CASE x.data[b] # NoVal
      BY <1>2, <1>3, <1>7, <2>1, <3>2
    <3>. QED  BY <3>1, <3>2
  <2>. QED  BY <2>1 DEF CopyIsNewest
<1>9. \A l \in LineId, b \in Byte : Missing(g, l, a, b) => Missing(k, l, a, b) /\ x.data[b] = NoVal
  <2>1. \A l \in LineId : Loads(k, l, a) => Holds(k, l, a)
    BY DEF Loads, Holds
  <2>. QED  BY <1>2, <1>3, <2>1 DEF Missing
<1>10. AskedInTime(g, c, a, f)
  <2>1. ASSUME NEW i \in 1..Len(f), ReadOf(f[i], c, a) PROVE i \in 1..n /\ ReadOf(q[i], c, a)
    BY <1>1, <2>1 DEF WriteOf, ReadOf
  <2>. QED  BY <1>1, <1>5, <1>9, <2>1 DEF Coherent, AskedInTime, n
<1>11. AnsweredInTime(g, c, a, f, p, m)
  <2>1. 1 \in 1..(n + 1)
    BY <1>1
  <2>. QED  BY <1>5, <1>9, <2>1 DEF Coherent, AnsweredInTime, Brings
<1>12. OneRead(c, a, f, p)
  BY <1>1 DEF Coherent, OneRead, n, WriteOf, ReadOf
<1>. QED  BY <1>8, <1>10, <1>11, <1>12 DEF Coherent, f

\* The read of a by c is accepted: what it finds missing is written before it.
LEMMA AppendRead ==
  ASSUME NEW k, NEW g, NEW c, NEW a, NEW q \in Seq(Req), NEW p, NEW m, Coherent(k, c, a, q, p, m),
         NEW x \in Req, ReadOf(x, c, a), ~Asking(k, a), Asking(g, a), g.line = k.line,
         \A b \in Byte : Unsent(g, a, b) => Unsent(k, a, b)
  PROVE  Coherent(g, c, a, Append(q, x), p, m)
<1>. DEFINE f == Append(q, x)
            n == Len(q)
<1>1. n \in Nat /\ Len(f) = n + 1 /\ f[n + 1] = x /\ \A i \in 1..n : f[i] = q[i]
  BY AppendedAt
<1>2. /\ \A i \in 1..n : ~ReadOf(q[i], c, a)
      /\ \A i \in 1..Len(p) : ~ReadOf(p[i], c, a)
  BY NoReads
<1>. HIDE DEF f, n
<1>3. \A b \in Byte : ~WritesTo(x, a, b)
  BY DEF WritesTo, ReadOf
<1>4. ASSUME NEW v, NEW b \in Byte, Newest(v, q, m, a, b) PROVE Newest(v, f, m, a, b)
  <2>1. CASE v = m[b] /\ \A j \in 1..n : ~WritesTo(q[j], a, b)
    BY <1>1, <1>3, <2>1 DEF Newest
  <2>2. ASSUME NEW i \in 1..n, WritesTo(q[i], a, b), v = q[i].data[b],
               \A j \in (i + 1)..n : ~WritesTo(q[j], a, b)
        PROVE  Newest(v, f, m, a, b)
    <3>1. i \in 1..Len(f) /\ WritesTo(f[i], a, b) /\ v = f[i].data[b]
      BY <1>1, <2>2
    <3>2. \A j \in (i + 1)..Len(f) : ~WritesTo(f[j], a, b)
      BY <1>1, <1>3, <2>2
    <3>. QED  BY <3>1, <3>2 DEF Newest
  <2>. QED  BY <1>4, <2>1, <2>2 DEF Newest, n
<1>5. CopyIsNewest(g, a, f, m)
  BY <1>4 DEF Coherent, CopyIsNewest, Holds
<1>6. ASSUME NEW i \in 1..Len(f), ReadOf(f[i], c, a)
      PROVE  i = n + 1 /\ \A b \in Byte : Behind(f, i, a, b)
  <2>1. i = n + 1
    BY <1>1, <1>2, <1>6
  <2>. QED  BY <1>1, <1>3, <2>1 DEF Behind
<1>7. AskedInTime(g, c, a, f)
  BY <1>6 DEF AskedInTime
<1>8. AnsweredInTime(g, c, a, f, p, m) /\ OneRead(c, a, f, p)
  BY <1>2, <1>6 DEF AnsweredInTime, Brings, OneRead
<1>. QED  BY <1>5, <1>7, <1>8 DEF Coherent, f
\* What a request that leaves keeps of the others.
LEMMA BehindKept ==
  ASSUME NEW q \in Seq(Req), NEW g \in Seq(Req), NEW n, RemovedAt(q, g, n), NEW a, NEW b \in Byte
  PROVE  /\ \A i \in 1..Len(g) : i < n /\ Behind(q, i, a, b) => Behind(g, i, a, b)
         /\ \A i \in 1..Len(g) : i >= n /\ Behind(q, i + 1, a, b) => Behind(g, i, a, b)
         /\ Behind(q, 1, a, b) => Behind(g, 1, a, b)
<1>1. Len(q) \in Nat /\ Len(g) \in Nat
  OBVIOUS
<1>2. /\ n \in 1..Len(q) /\ Len(g) = Len(q) - 1
      /\ \A i \in 1..Len(g) : i < n => i \in 1..Len(q) /\ g[i] = q[i]
      /\ \A i \in 1..Len(g) : i >= n => i + 1 \in 1..Len(q) /\ g[i] = q[i + 1]
  BY <1>1, RemovedFrom
<1>3. ASSUME NEW i \in 1..Len(g), NEW j \in 1..Len(q), j <= i \/ (j = i + 1 /\ i >= n), Behind(q, j, a, b)
      PROVE  Behind(g, i, a, b)
  <2>1. ASSUME NEW x \in i..Len(g) PROVE ~WritesTo(g[x], a, b)
    <3>1. CASE x < n
      <4>1. g[x] = q[x] /\ x \in j..Len(q)
        BY <1>1, <1>2, <1>3, <2>1, <3>1
      <4>. QED  BY <1>3, <4>1 DEF Behind
    <3>2. CASE x >= n
      <4>1. g[x] = q[x + 1] /\ x + 1 \in j..Len(q)
        BY <1>1, <1>2, <1>3, <2>1, <3>2
      <4>. QED  BY <1>3, <4>1 DEF Behind
    <3>. QED  BY <1>1, <1>2, <3>1, <3>2
  <2>. QED  BY <2>1 DEF Behind
<1>4. ASSUME NEW i \in 1..Len(g), i < n, Behind(q, i, a, b) PROVE Behind(g, i, a, b)
  <2>1. i \in 1..Len(q) /\ i <= i
    BY <1>1, <1>2, <1>4
  <2>. QED  BY <1>3, <1>4, <2>1
<1>5. ASSUME NEW i \in 1..Len(g), i >= n, Behind(q, i + 1, a, b) PROVE Behind(g, i, a, b)
  <2>1. i + 1 \in 1..Len(q)
    BY <1>1, <1>2, <1>5
  <2>. QED  BY <1>3, <1>5, <2>1
<1>6. ASSUME Behind(q, 1, a, b) PROVE Behind(g, 1, a, b)
  <2>1. CASE Len(g) >= 1
    <3>1. 1 \in 1..Len(g) /\ 1 \in 1..Len(q)
      BY <1>1, <1>2, <2>1
    <3>. QED  BY <1>3, <1>6, <3>1
  <2>2. CASE Len(g) = 0
    BY <2>2 DEF Behind
  <2>. QED  BY <1>1, <2>1, <2>2
<1>. QED  BY <1>4, <1>5, <1>6

LEMMA NewestKept ==
  ASSUME NEW q \in Seq(Req), NEW g \in Seq(Req), NEW n, RemovedAt(q, g, n), NEW a, NEW b \in Byte,
         ~WritesTo(q[n], a, b), NEW v, NEW m, Newest(v, q, m, a, b)
  PROVE  Newest(v, g, m, a, b)
<1>1. Len(q) \in Nat /\ Len(g) \in Nat
  OBVIOUS
<1>2. /\ n \in 1..Len(q) /\ Len(g) = Len(q) - 1
      /\ \A i \in 1..Len(g) : i < n => i \in 1..Len(q) /\ g[i] = q[i]
      /\ \A i \in 1..Len(g) : i >= n => i + 1 \in 1..Len(q) /\ g[i] = q[i + 1]
      /\ \A i \in 1..Len(q) : i < n => i \in 1..Len(g) /\ g[i] = q[i]
      /\ \A i \in 1..Len(q) : i > n => i - 1 \in 1..Len(g) /\ g[i - 1] = q[i]
  BY <1>1, RemovedFrom
<1>3. CASE v = m[b] /\ \A j \in 1..Len(q) : ~WritesTo(q[j], a, b)
  <2>1. \A j \in 1..Len(g) : ~WritesTo(g[j], a, b)
    BY <1>1, <1>2, <1>3
  <2>. QED  BY <1>3, <2>1 DEF Newest
<1>4. ASSUME NEW i \in 1..Len(q), WritesTo(q[i], a, b), v = q[i].data[b],
             \A j \in (i + 1)..Len(q) : ~WritesTo(q[j], a, b)
      PROVE  Newest(v, g, m, a, b)
  <2>1. i # n
    BY <1>4
  <2>. DEFINE x == IF i < n THEN i ELSE i - 1
  <2>2. x \in 1..Len(g) /\ g[x] = q[i]
    BY <1>1, <1>2, <1>4, <2>1
  <2>3. ASSUME NEW j \in (x + 1)..Len(g) PROVE ~WritesTo(g[j], a, b)
    <3>1. CASE j < n
      <4>1. i < n /\ j \in (i + 1)..Len(q) /\ g[j] = q[j]
        BY <1>1, <1>2, <2>1, <2>2, <2>3, <3>1
      <4>. QED  BY <1>4, <4>1
    <3>2. CASE j >= n
      <4>1. j + 1 \in (i + 1)..Len(q) /\ g[j] = q[j + 1]
        BY <1>1, <1>2, <2>1, <2>2, <2>3, <3>2
      <4>. QED  BY <1>4, <4>1
    <3>. QED  BY <1>1, <1>2, <2>2, <3>1, <3>2
  <2>. HIDE DEF x
  <2>. QED  BY <1>4, <2>2, <2>3 DEF Newest
<1>. QED  BY <1>3, <1>4 DEF Newest

\* A request leaves; the bytes it writes are in memory now.
LEMMA RemoveRead ==
  ASSUME NEW k, NEW c, NEW a, NEW q \in Seq(Req), NEW p, NEW m, Coherent(k, c, a, q, p, m),
         NEW g \in Seq(Req), NEW n, RemovedAt(q, g, n), ~WriteOf(q[n], a)
  PROVE  Coherent(k, c, a, g, p, m)
<1>1. Len(q) \in Nat /\ Len(g) \in Nat
  OBVIOUS
<1>2. /\ n \in 1..Len(q) /\ Len(g) = Len(q) - 1
      /\ \A i \in 1..Len(g) : i < n => i \in 1..Len(q) /\ g[i] = q[i]
      /\ \A i \in 1..Len(g) : i >= n => i + 1 \in 1..Len(q) /\ g[i] = q[i + 1]
  BY <1>1, RemovedFrom
<1>3. \A b \in Byte : ~WritesTo(q[n], a, b)
  BY DEF WritesTo, WriteOf
<1>4. CopyIsNewest(k, a, g, m)
  BY <1>3, NewestKept DEF Coherent, CopyIsNewest
<1>5. AskedInTime(k, c, a, g)
  <2>1. ASSUME NEW i \in 1..Len(g), ReadOf(g[i], c, a)
        PROVE  /\ Asking(k, a)
               /\ OneWay(a) => \A l \in LineId, b \in Byte : Missing(k, l, a, b) => Behind(g, i, a, b)
    <3>1. CASE i < n
      BY <1>2, <2>1, <3>1, BehindKept DEF Coherent, AskedInTime
    <3>2. CASE i >= n
      BY <1>2, <2>1, <3>2, BehindKept DEF Coherent, AskedInTime
    <3>. QED  BY <1>1, <1>2, <3>1, <3>2
  <2>. QED  BY <2>1 DEF AskedInTime
<1>6. AnsweredInTime(k, c, a, g, p, m)
  BY BehindKept DEF Coherent, AnsweredInTime, Brings
<1>7. OneRead(c, a, g, p)
  <2>1. \A i \in 1..Len(g) : \E j \in 1..Len(q) : g[i] = q[j] /\ j = IF i < n THEN i ELSE i + 1
    BY <1>1, <1>2
  <2>2. ASSUME NEW i \in 1..Len(g), NEW j \in 1..Len(g), ReadOf(g[i], c, a), ReadOf(g[j], c, a) PROVE i = j
    <3>1. PICK x \in 1..Len(q) : g[i] = q[x] /\ x = IF i < n THEN i ELSE i + 1
      BY <2>1
    <3>2. PICK y \in 1..Len(q) : g[j] = q[y] /\ y = IF j < n THEN j ELSE j + 1
      BY <2>1
    <3>3. x = y
      BY <2>2, <3>1, <3>2 DEF Coherent, OneRead
    <3>. QED  BY <1>1, <1>2, <3>1, <3>2, <3>3
  <2>. QED  BY <2>1, <2>2 DEF Coherent, OneRead
<1>. QED  BY <1>4, <1>5, <1>6, <1>7 DEF Coherent

LEMMA RemoveWrite ==
  ASSUME NEW k, NEW c, NEW a, NEW q \in Seq(Req), NEW p, NEW m \in Data, Coherent(k, c, a, q, p, m),
         NEW g \in Seq(Req), NEW n, RemovedAt(q, g, n), WriteOf(q[n], a),
         \A i \in 1..Len(q) : i < n => ~WriteOf(q[i], a)
  PROVE  Coherent(k, c, a, g, p, Blit(m, q[n].data))
<1>. DEFINE e == Blit(m, q[n].data)
<1>1. Len(q) \in Nat /\ Len(g) \in Nat
  OBVIOUS
<1>2. /\ n \in 1..Len(q) /\ Len(g) = Len(q) - 1
      /\ \A i \in 1..Len(g) : i < n => i \in 1..Len(q) /\ g[i] = q[i]
      /\ \A i \in 1..Len(g) : i >= n => i + 1 \in 1..Len(q) /\ g[i] = q[i + 1]
      /\ \A i \in 1..Len(q) : i > n => i - 1 \in 1..Len(g) /\ g[i - 1] = q[i]
  BY <1>1, RemovedFrom
<1>3. \A b \in Byte : e[b] = IF q[n].data[b] = NoVal THEN m[b] ELSE q[n].data[b]
  BY DEF Blit
<1>. HIDE DEF e
<1>4. \A b \in Byte : WritesTo(q[n], a, b) <=> q[n].data[b] # NoVal
  BY DEF WritesTo, WriteOf
<1>5. ASSUME NEW v, NEW b \in Byte, Newest(v, q, m, a, b) PROVE Newest(v, g, e, a, b)
  <2>1. CASE q[n].data[b] = NoVal
    <3>1. Newest(v, g, m, a, b)
      BY <1>4, <1>5, <2>1, NewestKept
    <3>. QED  BY <1>3, <2>1, <3>1 DEF Newest
  <2>2. CASE q[n].data[b] # NoVal
    <3>1. PICK i \in 1..Len(q) : WritesTo(q[i], a, b) /\ v = q[i].data[b]
                                 /\ \A j \in (i + 1)..Len(q) : ~WritesTo(q[j], a, b)
      BY <1>2, <1>4, <1>5, <2>2 DEF Newest
    <3>2. i >= n
      BY <1>1, <1>2, <3>1 DEF WritesTo, WriteOf
    <3>3. CASE i = n
      <4>1. ASSUME NEW j \in 1..Len(g) PROVE ~WritesTo(g[j], a, b)
        <5>1. CASE j < n
          BY <1>2, <5>1 DEF WritesTo, WriteOf
        <5>2. CASE j >= n
          BY <1>1, <1>2, <3>1, <3>3, <5>2
        <5>. QED  BY <1>1, <1>2, <5>1, <5>2
      <4>. QED  BY <1>3, <2>2, <3>1, <3>3, <4>1 DEF Newest
    <3>4. CASE i > n
      <4>1. i - 1 \in 1..Len(g) /\ g[i - 1] = q[i]
        BY <1>2, <3>4
      <4>2. ASSUME NEW j \in (i - 1 + 1)..Len(g) PROVE ~WritesTo(g[j], a, b)
        <5>1. j + 1 \in (i + 1)..Len(q) /\ g[j] = q[j + 1]
          BY <1>1, <1>2, <3>4, <4>2
        <5>. QED  BY <3>1, <5>1
      <4>. QED  BY <3>1, <4>1, <4>2 DEF Newest
    <3>. QED  BY <1>1, <1>2, <3>2, <3>3, <3>4
  <2>. QED  BY <2>1, <2>2
<1>6. CopyIsNewest(k, a, g, e)
  BY <1>5 DEF Coherent, CopyIsNewest
<1>7. AskedInTime(k, c, a, g)
  <2>1. ASSUME NEW i \in 1..Len(g), ReadOf(g[i], c, a)
        PROVE  /\ Asking(k, a)
               /\ OneWay(a) => \A l \in LineId, b \in Byte : Missing(k, l, a, b) => Behind(g, i, a, b)
    <3>1. CASE i < n
      BY <1>2, <2>1, <3>1, BehindKept DEF Coherent, AskedInTime
    <3>2. CASE i >= n
      BY <1>2, <2>1, <3>2, BehindKept DEF Coherent, AskedInTime
    <3>. QED  BY <1>1, <1>2, <3>1, <3>2
  <2>. QED  BY <2>1 DEF AskedInTime
<1>8. AnsweredInTime(k, c, a, g, p, e)
  <2>1. \A b \in Byte : Behind(q, 1, a, b) => Behind(g, 1, a, b) /\ e[b] = m[b]
    BY <1>1, <1>2, <1>3, <1>4, BehindKept DEF Behind
  <2>. QED  BY <2>1 DEF Coherent, AnsweredInTime, Brings
<1>9. OneRead(c, a, g, p)
  <2>1. \A i \in 1..Len(g) : \E j \in 1..Len(q) : g[i] = q[j] /\ j = IF i < n THEN i ELSE i + 1
    BY <1>1, <1>2
  <2>2. ASSUME NEW i \in 1..Len(g), NEW j \in 1..Len(g), ReadOf(g[i], c, a), ReadOf(g[j], c, a) PROVE i = j
    <3>1. PICK x \in 1..Len(q) : g[i] = q[x] /\ x = IF i < n THEN i ELSE i + 1
      BY <2>1
    <3>2. PICK y \in 1..Len(q) : g[j] = q[y] /\ y = IF j < n THEN j ELSE j + 1
      BY <2>1
    <3>3. x = y
      BY <2>2, <3>1, <3>2 DEF Coherent, OneRead
    <3>. QED  BY <1>1, <1>2, <3>1, <3>2, <3>3
  <2>. QED  BY <2>1, <2>2 DEF Coherent, OneRead
<1>. QED  BY <1>6, <1>7, <1>8, <1>9 DEF Coherent, e
\* Answers: one is given, of another request or of the read that was asked, and
\* one is taken.
LEMMA AnswerOther ==
  ASSUME NEW k, NEW c, NEW a, NEW q, NEW p \in Seq(Req), NEW m, Coherent(k, c, a, q, p, m),
         NEW x \in Req, ~ReadOf(x, c, a)
  PROVE  Coherent(k, c, a, q, Append(p, x), m)
<1>. DEFINE f == Append(p, x)
            n == Len(p)
<1>1. n \in Nat /\ Len(f) = n + 1 /\ f[n + 1] = x /\ \A i \in 1..n : f[i] = p[i]
  BY AppendedAt
<1>. HIDE DEF f, n
<1>2. \A i \in 1..Len(f) : ReadOf(f[i], c, a) => i \in 1..n /\ f[i] = p[i]
  BY <1>1
<1>3. AnsweredInTime(k, c, a, q, f, m)
  BY <1>2 DEF Coherent, AnsweredInTime, Brings, n
<1>4. OneRead(c, a, q, f)
  BY <1>2 DEF Coherent, OneRead, n
<1>. QED  BY <1>3, <1>4 DEF Coherent, f

LEMMA AnswerRead ==
  ASSUME NEW k, NEW c, NEW a, NEW q, NEW p \in Seq(Req), NEW m, Coherent(k, c, a, q, p, m),
         NEW x \in Req, Asking(k, a), Brings(k, a, q, x.data, m),
         \A i \in 1..Len(q) : ~ReadOf(q[i], c, a), \A i \in 1..Len(p) : ~ReadOf(p[i], c, a)
  PROVE  Coherent(k, c, a, q, Append(p, x), m)
<1>. DEFINE f == Append(p, x)
            n == Len(p)
<1>1. n \in Nat /\ Len(f) = n + 1 /\ f[n + 1] = x /\ \A i \in 1..n : f[i] = p[i]
  BY AppendedAt
<1>. HIDE DEF f, n
<1>2. \A i \in 1..Len(f) : ReadOf(f[i], c, a) => i = n + 1 /\ f[i] = x
  BY <1>1 DEF n
<1>3. AnsweredInTime(k, c, a, q, f, m)
  BY <1>2 DEF AnsweredInTime, Brings
<1>4. OneRead(c, a, q, f)
  BY <1>2 DEF OneRead
<1>. QED  BY <1>3, <1>4 DEF Coherent, f

LEMMA AnswerTaken ==
  ASSUME NEW k, NEW c, NEW a, NEW q, NEW p \in Seq(Req), NEW m, Coherent(k, c, a, q, p, m),
         NEW g \in Seq(Req), NEW n, RemovedAt(p, g, n)
  PROVE  Coherent(k, c, a, q, g, m)
<1>1. Len(p) \in Nat /\ Len(g) \in Nat
  OBVIOUS
<1>2. /\ n \in 1..Len(p) /\ Len(g) = Len(p) - 1
      /\ \A i \in 1..Len(g) : i < n => i \in 1..Len(p) /\ g[i] = p[i]
      /\ \A i \in 1..Len(g) : i >= n => i + 1 \in 1..Len(p) /\ g[i] = p[i + 1]
  BY <1>1, RemovedFrom
<1>3. \A i \in 1..Len(g) : \E j \in 1..Len(p) : g[i] = p[j] /\ j = IF i < n THEN i ELSE i + 1
  BY <1>1, <1>2
<1>4. AnsweredInTime(k, c, a, q, g, m)
  BY <1>3 DEF Coherent, AnsweredInTime, Brings
<1>5. ASSUME NEW i \in 1..Len(g), NEW j \in 1..Len(g), ReadOf(g[i], c, a), ReadOf(g[j], c, a) PROVE i = j
  <2>1. PICK x \in 1..Len(p) : g[i] = p[x] /\ x = IF i < n THEN i ELSE i + 1
    BY <1>3
  <2>2. PICK y \in 1..Len(p) : g[j] = p[y] /\ y = IF j < n THEN j ELSE j + 1
    BY <1>3
  <2>3. x = y
    BY <1>5, <2>1, <2>2 DEF Coherent, OneRead
  <2>. QED  BY <1>1, <1>2, <2>1, <2>2, <2>3
<1>6. OneRead(c, a, q, g)
  BY <1>3, <1>5 DEF Coherent, OneRead
<1>. QED  BY <1>4, <1>6 DEF Coherent

\* The data of the read arrive in the cache.
LEMMA ReceiveCoherent ==
  ASSUME NEW k, NEW g, NEW c, NEW a \in Addr, NEW q, NEW p, NEW m, Coherent(k, c, a, q, p, m), Fine(k),
         Asking(k, a), \A i \in 1..Len(q) : ~ReadOf(q[i], c, a), \A i \in 1..Len(p) : ~ReadOf(p[i], c, a),
         NEW d \in Data, Receiving(k, g, FoundLine(k, a), a, d),
         Brings(k, a, q, d, m)
  PROVE  Coherent(g, c, a, q, p, m)
<1>. DEFINE l == FoundLine(k, a)
<1>1. l \in LineId /\ Loads(k, l, a) /\ \A j \in LineId : Holds(k, j, a) => j = l
  BY AskingIs
<1>2. \A j \in LineId : Holds(g, j, a) => j = l /\ Holds(k, j, a)
  BY <1>1 DEF Receiving, OtherLines, Holds, Loads
<1>3. CopyIsNewest(g, a, q, m)
  <2>1. ASSUME OneWay(a), NEW j \in LineId, NEW b \in Byte, Holds(g, j, a), g.line[j].data[b] # NoVal,
               Unsent(g, a, b)
        PROVE  Newest(g.line[j].data[b], q, m, a, b)
    <3>1. j = l /\ Holds(k, l, a) /\ Unsent(k, a, b)
      BY <1>2, <2>1 DEF Unsent, Receiving
    <3>2. CASE k.line[l].data[b] = NoVal
      <4>1. Behind(q, 1, a, b) /\ d[b] = m[b]
        BY <1>1, <2>1, <3>2 DEF Missing, Brings
      <4>. QED  BY <3>1, <3>2, <4>1 DEF Receiving, Newest, Behind
    <3>3. CASE k.line[l].data[b] # NoVal
      BY <1>1, <2>1, <3>1, <3>3 DEF Receiving, Coherent, CopyIsNewest
    <3>. QED  BY <3>2, <3>3
  <2>. QED  BY <2>1 DEF CopyIsNewest
<1>. QED  BY <1>3 DEF Coherent, AskedInTime, AnsweredInTime, Brings

\* Steps of a cache that leave its copy of a as it is.
LEMMA LookAlike ==
  ASSUME NEW k, NEW g, NEW a, SameLook(k, g)
  PROVE  Alike(k, g, a)
  BY DEF SameLook, LineLooks, Alike, Holds, Loads, Unsent, Asking

LEMMA RespondAlike ==
  ASSUME NEW k, NEW g, NEW a, NEW l \in LineId, Responding(k, g, l)
  PROVE  Alike(k, g, a)
<1>1. \A j \in LineId : j # l => g.line[j] = k.line[j]
  BY DEF Responding, OtherLines
<1>2. g.outgoing = k.outgoing
  BY DEF Responding
<1>3. \A j \in LineId : Holds(g, j, a) => Holds(k, j, a) /\ g.line[j].data = k.line[j].data
  BY <1>1 DEF Responding, Holds
<1>4. \A j \in LineId : Loads(g, j, a) <=> Loads(k, j, a)
  BY <1>1 DEF Responding, Loads
<1>. QED  BY <1>2, <1>3, <1>4 DEF Alike, Unsent, Asking

LEMMA ReceiveAlike ==
  ASSUME NEW k, NEW g, NEW a, NEW e, e # a, NEW l \in LineId, Loads(k, l, e), NEW d, Receiving(k, g, l, e, d)
  PROVE  Alike(k, g, a)
<1>1. \A j \in LineId : j # l => g.line[j] = k.line[j]
  BY DEF Receiving, OtherLines
<1>2. g.outgoing = k.outgoing /\ ~Holds(g, l, a) /\ ~Loads(g, l, a) /\ ~Loads(k, l, a)
  BY DEF Receiving, Holds, Loads
<1>3. \A j \in LineId : Holds(g, j, a) => Holds(k, j, a) /\ g.line[j].data = k.line[j].data
  BY <1>1, <1>2 DEF Holds
<1>4. \A j \in LineId : Loads(g, j, a) <=> Loads(k, j, a)
  BY <1>1, <1>2 DEF Loads
<1>. QED  BY <1>2, <1>3, <1>4 DEF Alike, Unsent, Asking

\* A write of another line is snooped.
LEMMA SnoopAlike ==
  ASSUME NEW k, NEW g, NEW a, NEW e, e # a, NEW d, Overwritten(k, g, e, d), g.outgoing = k.outgoing
  PROVE  Alike(k, g, a)
<1>1. \A j \in LineId : Holds(g, j, a) => Holds(k, j, a) /\ g.line[j].data = k.line[j].data
  BY DEF Overwritten, Holds
<1>2. \A j \in LineId : Loads(g, j, a) <=> Loads(k, j, a)
  BY DEF Overwritten, Loads
<1>. QED  BY <1>1, <1>2 DEF Alike, Unsent, Asking

\* A request for another line is sent.
LEMMA SentAlike ==
  ASSUME NEW k, Fine(k), k.outgoing # <<>>, NEW a, Head(k.outgoing).address # a
  PROVE  Alike(k, Popped(k), a)
<1>. DEFINE g == Popped(k)
<1>1. g.line = k.line /\ RemovedAt(k.outgoing, g.outgoing, 1) /\ k.outgoing[1].address # a
  BY SentFine
<1>2. Len(k.outgoing) \in Nat /\ Len(g.outgoing) \in Nat
  BY SentFine DEF Fine, Typed, CacheOK
<1>. HIDE DEF g
<1>3. /\ \A i \in 1..Len(k.outgoing) : i > 1 => i - 1 \in 1..Len(g.outgoing) /\ g.outgoing[i - 1] = k.outgoing[i]
      /\ \A i \in 1..Len(g.outgoing) : i + 1 \in 1..Len(k.outgoing) /\ g.outgoing[i] = k.outgoing[i + 1]
  BY <1>1, <1>2 DEF RemovedAt
<1>4. \A b \in Byte : Unsent(g, a, b) => Unsent(k, a, b)
  <2>1. ASSUME NEW b \in Byte, Unsent(g, a, b), NEW i \in 1..Len(k.outgoing)
        PROVE  ~WritesTo(k.outgoing[i], a, b)
    <3>1. CASE i = 1
      BY <1>1, <3>1 DEF WritesTo
    <3>2. CASE i > 1
      BY <1>3, <2>1, <3>2 DEF Unsent
    <3>. QED  BY <1>2, <3>1, <3>2
  <2>. QED  BY <2>1 DEF Unsent
<1>5. Asking(k, a) => Asking(g, a)
  BY <1>1, <1>3 DEF Asking, Loads
<1>. QED  BY <1>1, <1>4, <1>5 DEF Alike, Holds, Loads, g

\* The front request for a itself: what sending it changes.
LEMMA SentWrite ==
  ASSUME NEW k, Fine(k), k.outgoing # <<>>, NEW a
  PROVE  /\ Asking(k, a) => Asking(Popped(k), a)
         /\ \A b \in Byte : ~WritesTo(Head(k.outgoing), a, b) /\ Unsent(Popped(k), a, b) => Unsent(k, a, b)
         /\ Reads(Head(k.outgoing), a) => ~Asking(k, a) /\ Asking(Popped(k), a)
<1>. DEFINE g == Popped(k)
<1>1. /\ g.line = k.line /\ RemovedAt(k.outgoing, g.outgoing, 1) /\ k.outgoing[1] = Head(k.outgoing)
  BY SentFine
<1>2. Len(k.outgoing) \in Nat /\ Len(g.outgoing) \in Nat
  BY SentFine DEF Fine, Typed, CacheOK
<1>. HIDE DEF g
<1>3. /\ \A i \in 1..Len(k.outgoing) : i > 1 => i - 1 \in 1..Len(g.outgoing) /\ g.outgoing[i - 1] = k.outgoing[i]
      /\ \A i \in 1..Len(g.outgoing) : i + 1 \in 1..Len(k.outgoing) /\ g.outgoing[i] = k.outgoing[i + 1]
      /\ 1 \in 1..Len(k.outgoing)
  BY <1>1, <1>2 DEF RemovedAt
<1>4. Asking(k, a) => Asking(g, a)
  BY <1>1, <1>3 DEF Asking, Loads
<1>5. ASSUME NEW b \in Byte, ~WritesTo(Head(k.outgoing), a, b), Unsent(g, a, b), NEW i \in 1..Len(k.outgoing)
      PROVE  ~WritesTo(k.outgoing[i], a, b)
  <2>1. CASE i = 1
    BY <1>1, <1>5, <2>1
  <2>2. CASE i > 1
    BY <1>3, <1>5, <2>2 DEF Unsent
  <2>. QED  BY <1>2, <2>1, <2>2
<1>6. ASSUME Reads(Head(k.outgoing), a) PROVE ~Asking(k, a) /\ Asking(g, a)
  <2>1. ~Asking(k, a)
    BY <1>1, <1>3, <1>6 DEF Asking
  <2>2. PICK l \in LineId : Loads(k, l, a)
    BY <1>1, <1>3, <1>6 DEF Fine, Queued, Reads
  <2>3. ASSUME NEW i \in 1..Len(g.outgoing), Reads(g.outgoing[i], a) PROVE FALSE
    <3>1. /\ i + 1 \in 1..Len(k.outgoing) /\ 1 \in 1..Len(k.outgoing)
          /\ ~k.outgoing[1].write /\ Reads(k.outgoing[i + 1], k.outgoing[1].address)
      BY <1>1, <1>3, <1>6, <2>3 DEF Reads
    <3>2. 1 = i + 1
      BY <3>1 DEF Fine, Queued
    <3>. QED  BY <1>2, <3>2
  <2>. QED  BY <1>1, <2>1, <2>2, <2>3 DEF Asking, Loads
<1>. QED  BY <1>4, <1>5, <1>6 DEF Unsent, g
-----------------------------------------------------------------------------
(***************************************************************************)
(* The steps keep CInv.  All clients reach a line through its home server.  *)
(***************************************************************************)
LEMMA HomeIs ==
  ASSUME IInv, kind # "parallel"
  PROVE  /\ \A r \in Req : ~r.write \/ OneWay(r.address) => ServerFor(kind, r) = Home(r.address)
         /\ \A a \in Addr : Home(a) \in Servers
<1>1. kind \in Kinds /\ kind \in {"serial", "banked", "ddr"}
  BY SystemAssumption DEF SystemAssumption, IInv
<1>2. CASE kind = "serial"
  BY <1>2, ServersOfKind DEF ServerFor, Home
<1>3. CASE kind = "banked"
  <2>1. \A a \in Addr : BankOf(a) \in Bank
    BY <1>1, <1>3, SystemAssumption DEF SystemAssumption
  <2>. QED  BY <1>3, <2>1, ServersOfKind DEF ServerFor, Home
<1>4. CASE kind = "ddr"
  <2>1. \A a \in Addr : Home(a) = WayOf([write |-> FALSE, address |-> a])
    BY <1>4 DEF Home, ServerFor, WayOf, InterfaceOf
  <2>2. ASSUME NEW a \in Addr PROVE Home(a) \in Servers
    <3>1. InterfaceOf([write |-> FALSE, address |-> a]) \in Interface
      BY <1>1, <1>4, SystemAssumption DEF SystemAssumption
    <3>. QED  BY <1>4, <2>1, <3>1, ServersOfKind DEF WayOf
  <2>3. ASSUME NEW r \in Req, ~r.write \/ OneWay(r.address) PROVE ServerFor(kind, r) = Home(r.address)
    <3>1. r.address \in Addr /\ r.write \in BOOLEAN
      BY ReqFields
    <3>2. ServerFor(kind, r) = WayOf([write |-> r.write, address |-> r.address])
      BY <1>4 DEF ServerFor, WayOf, InterfaceOf
    <3>3. WayOf([write |-> r.write, address |-> r.address]) = WayOf([write |-> FALSE, address |-> r.address])
      BY <2>3, <3>1 DEF OneWay
    <3>. QED  BY <2>1, <3>1, <3>2, <3>3
  <2>. QED  BY <2>2, <2>3
<1>. QED  BY <1>1, <1>2, <1>3, <1>4

LEMMA HomeStays ==
  ASSUME UNCHANGED kind, NEW a
  PROVE  Home(a)' = Home(a)
  BY DEF Home, ServerFor

\* CInv after a step that leaves the kind of memory.
LEMMA CInvNext ==
  ASSUME UNCHANGED kind,
         \A a \in Addr : \A b \in Byte : store'[a][b] # NoVal,
         \A c \in Client : Fine(cache'[c]),
         \A c \in Client, a \in Addr :
           Coherent(cache'[c], c, a, Waiting(Home(a))', server'[Home(a)].responses, store'[a])
  PROVE  CInv'
<1>1. \A a : OneWay(a)' = OneWay(a) /\ Home(a)' = Home(a)
  BY HomeStays DEF OneWay, WayOf
<1>. QED  BY <1>1 DEF CInv, Coherent, CopyIsNewest, AskedInTime, AnsweredInTime, Brings

\* A server holds what is at home there, and the writes of lines that are split.
AtHome(r, s) == Home(r.address) = s \/ (r.write /\ ~OneWay(r.address))

LEMMA HeldAtHome ==
  ASSUME IInv, kind # "parallel", NEW s \in Servers
  PROVE  /\ \A i \in 1..Len(server[s].requests) : AtHome(server[s].requests[i], s)
         /\ \A i \in 1..Len(server[s].active) : AtHome(server[s].active[i], s)
         /\ \A i \in 1..Len(server[s].responses) : AtHome(server[s].responses[i], s)
<1>. DEFINE h == HeldIn(server, Servers)
<1>1. Placed(h, kind) /\ server[s] \in Server
  BY ServerOf DEF Queues
<1>2. /\ server[s].requests \in Seq(Req) /\ server[s].active \in Seq(Req) /\ server[s].responses \in Seq(Req)
  BY ServerOf
<1>3. /\ <<s, 1>> \in DOMAIN h /\ <<s, 2>> \in DOMAIN h /\ <<s, 3>> \in DOMAIN h
      /\ h[<<s, 1>>] = server[s].requests /\ h[<<s, 2>>] = server[s].active /\ h[<<s, 3>>] = server[s].responses
  BY DEF HeldIn
<1>. HIDE DEF h
<1>4. /\ \A i \in 1..Len(server[s].requests) : ServerFor(kind, server[s].requests[i]) = s
      /\ \A i \in 1..Len(server[s].active) : ServerFor(kind, server[s].active[i]) = s
      /\ \A i \in 1..Len(server[s].responses) : ServerFor(kind, server[s].responses[i]) = s
  <2>1. \A x \in DOMAIN h : \A i \in 1..Len(h[x]) : ServerFor(kind, h[x][i]) = x[1]
    BY <1>1 DEF Placed
  <2>2. /\ \A i \in 1..Len(h[<<s, 1>>]) : ServerFor(kind, h[<<s, 1>>][i]) = s
        /\ \A i \in 1..Len(h[<<s, 2>>]) : ServerFor(kind, h[<<s, 2>>][i]) = s
        /\ \A i \in 1..Len(h[<<s, 3>>]) : ServerFor(kind, h[<<s, 3>>][i]) = s
    BY <1>3, <2>1
  <2>. QED  BY <1>3, <2>2
<1>. QED  BY <1>2, <1>4, HomeIs DEF AtHome

LEMMA WaitingIs ==
  ASSUME IInv, NEW s \in Servers
  PROVE  Waiting(s) \in Seq(Req) /\ server[s].responses \in Seq(Req)
  BY ServerOf, ConcatAt DEF Waiting

\* Only cache c changes.
KeepsCopies(k, g, c) ==
    /\ Fine(k) => Fine(g)
    /\ \A a \in Addr : \A q, p, m : Fine(k) /\ Coherent(k, c, a, q, p, m) => Coherent(g, c, a, q, p, m)

LEMMA CacheChanges ==
  ASSUME CInv, UNCHANGED <<kind, store, server>>, NEW c \in Client, NEW g, KeepsCopies(cache[c], g, c),
         cache' = [cache EXCEPT ![c] = g], CachesOK(cache)
  PROVE  CInv'
<1>1. DOMAIN cache = Client
  BY DEF CachesOK
<1>2. cache'[c] = g /\ \A d \in Client : d # c => cache'[d] = cache[d]
  BY <1>1
<1>3. \A d \in Client : Fine(cache'[d])
  BY <1>2 DEF CInv, KeepsCopies
<1>4. ASSUME NEW d \in Client, NEW a \in Addr
      PROVE  Coherent(cache'[d], d, a, Waiting(Home(a)), server[Home(a)].responses, store[a])
  <2>1. Coherent(cache[d], d, a, Waiting(Home(a)), server[Home(a)].responses, store[a]) /\ Fine(cache[d])
    BY DEF CInv
  <2>. QED  BY <1>2, <2>1 DEF KeepsCopies
<1>5. ASSUME NEW a PROVE Waiting(Home(a))' = Waiting(Home(a))
  BY HomeStays DEF Waiting
<1>. QED  BY <1>3, <1>4, <1>5, CInvNext DEF CInv

LEMMA LookKeeps ==
  ASSUME NEW k, NEW g, Fine(k) => SameLook(k, g), NEW c
  PROVE  KeepsCopies(k, g, c)
  BY LookFine, LookAlike, AlikeCoherent DEF KeepsCopies

LEMMA LoadKeepsCopies ==
  ASSUME NEW k, NEW c, NEW a \in Addr, NEW reg
  PROVE  /\ Present(k, a) => KeepsCopies(k, JoinLine(k, a, reg), c)
         /\ \A l \in LineId : ReadMisses(k, a, l) => KeepsCopies(k, LoadLine(k, a, l, reg), c)
<1>1. ASSUME Present(k, a) PROVE KeepsCopies(k, JoinLine(k, a, reg), c)
  BY <1>1, JoinLooks, LookKeeps
<1>2. ASSUME NEW l \in LineId, ReadMisses(k, a, l), Fine(k)
      PROVE  /\ Fine(LoadLine(k, a, l, reg))
             /\ \A e \in Addr : \A q, p, m : Coherent(k, c, e, q, p, m) => Coherent(LoadLine(k, a, l, reg), c, e, q, p, m)
  <2>. DEFINE g == LoadLine(k, a, l, reg)
  <2>1. /\ \A j \in LineId : ~Holds(k, j, a)
        /\ l \in LinesOf(a) /\ k.line[l].state \in {"EMPTY", "FULL"}
    BY <1>2, MissTakes
  <2>2. Typed(k) /\ Taking(k, g, l, a)
    BY <1>2, LoadTakes DEF Fine
  <2>. HIDE DEF g
  <2>3. Fine(g)
    BY <1>2, <2>1, <2>2, TakeFine
  <2>4. ASSUME NEW e \in Addr, NEW q, NEW p, NEW m, Coherent(k, c, e, q, p, m) PROVE Coherent(g, c, e, q, p, m)
    BY <2>1, <2>2, <2>4, TakeCoherent
  <2>. QED  BY <2>3, <2>4 DEF g
<1>. QED  BY <1>1, <1>2 DEF KeepsCopies

LEMMA StoreKeepsCopies ==
  ASSUME NEW k, NEW c, NEW a \in Addr, NEW d \in Data, NEW wid \in Wid, CanWrite(k, a)
  PROVE  KeepsCopies(k, WriteLine(k, a, d, wid), c)
<1>. DEFINE g == WriteLine(k, a, d, wid)
            r == Request(TRUE, a, d, wid)
<1>1. r \in Sent /\ r.write /\ r.address = a /\ r.data = d
  BY DEF Request, Sent
<1>. HIDE DEF r
<1>2. ASSUME Fine(k) PROVE Storing(k, g, a, d, r) /\ Fine(g) /\ Typed(k)
  BY <1>2, WriteStores DEF Fine, r
<1>. HIDE DEF g
<1>3. ASSUME Fine(k), NEW e \in Addr, NEW q, NEW p, NEW m, Coherent(k, c, e, q, p, m) PROVE Coherent(g, c, e, q, p, m)
  BY <1>1, <1>2, <1>3, StoreCoherent
<1>. QED  BY <1>2, <1>3 DEF KeepsCopies, g

LEMMA RespondKeepsCopies ==
  ASSUME NEW k, NEW c, k.reads # <<>>
  PROVE  KeepsCopies(k, DoReadResponses(k), c)
  BY ResponseFills, RespondAlike, AlikeCoherent DEF KeepsCopies

\* A field of the cache that no copy depends on changes.
LEMMA FieldLooks ==
  ASSUME NEW k, Fine(k), NEW v
  PROVE  /\ SameLook(k, [k EXCEPT !.writes = v]) /\ SameLook(k, [k EXCEPT !.writebacks = v])
         /\ SameLook(k, k)
  BY DEF Fine, Typed, CacheOK, Fields, SameLook, LineLooks
LEMMA CoreStepCopies ==
  ASSUME IInv, CInv, NEW c \in Client,
         \/ \E o \in Operand, a \in Addr, off \in Byte : LoadMiss(c, o, a, off)
         \/ \E a \in Addr : BundleRead(c, a)
         \/ \E a \in Addr, b \in Byte : Store(c, a, b)
         \/ \E o \in Operand : MarkPending(c, o)
         \/ ReadResponses(c) \/ WriteResponses(c) \/ ReadWritebacks(c)
  PROVE  CInv'
<1>0. CachesOK(cache) /\ DOMAIN cache = Client /\ Fine(cache[c])
  BY DEF IInv, CachesOK, CInv
<1>1. ASSUME NEW a \in Addr, NEW reg, UNCHANGED <<kind, store, server>>,
             \/ Present(cache[c], a) /\ cache' = [cache EXCEPT ![c] = JoinLine(@, a, reg)]
             \/ \E l \in LineId : ReadMisses(cache[c], a, l) /\ cache' = [cache EXCEPT ![c] = LoadLine(@, a, l, reg)]
      PROVE  CInv'
  <2>1. CASE Present(cache[c], a) /\ cache' = [cache EXCEPT ![c] = JoinLine(@, a, reg)]
    BY <1>0, <1>1, <2>1, LoadKeepsCopies, CacheChanges
  <2>2. ASSUME NEW l \in LineId, ReadMisses(cache[c], a, l), cache' = [cache EXCEPT ![c] = LoadLine(@, a, l, reg)]
        PROVE  CInv'
    BY <1>0, <1>1, <2>2, LoadKeepsCopies, CacheChanges
  <2>. QED  BY <1>1, <2>1, <2>2
<1>2. ASSUME NEW o \in Operand, NEW a \in Addr, NEW off \in Byte, LoadMiss(c, o, a, off) PROVE CInv'
  BY <1>1, <1>2 DEF LoadMiss, ReadJoins
<1>3. ASSUME NEW a \in Addr, BundleRead(c, a) PROVE CInv'
  BY <1>1, <1>3 DEF BundleRead, ReadJoins
<1>4. ASSUME NEW a \in Addr, NEW b \in Byte, Store(c, a, b) PROVE CInv'
  <2>. DEFINE d == [NoData EXCEPT ![b] = stamp']
  <2>1. stamp' \in Nat /\ stamp' \in Val
    BY <1>4, SystemAssumption DEF SystemAssumption, IInv, StoreOK, Store
  <2>2. d \in Data /\ stamp' \in Wid
    BY <2>1 DEF Data, NoData, Wid
  <2>3. /\ CanWrite(cache[c], a) /\ UNCHANGED <<kind, store, server>>
        /\ cache' = [cache EXCEPT ![c] = WriteLine(@, a, d, stamp')]
    BY <1>4 DEF Store
  <2>. HIDE DEF d
  <2>. QED  BY <1>0, <2>2, <2>3, StoreKeepsCopies, CacheChanges
<1>5. ASSUME NEW g, UNCHANGED <<kind, store, server>>, cache' = [cache EXCEPT ![c] = g], SameLook(cache[c], g)
      PROVE  CInv'
  BY <1>0, <1>5, LookKeeps, CacheChanges
<1>6. ASSUME NEW o \in Operand, MarkPending(c, o) PROVE CInv'
  <2>1. cache' = [cache EXCEPT ![c] = cache[c]] /\ SameLook(cache[c], cache[c])
    BY <1>0, <1>6, FieldLooks DEF MarkPending, CachesOK
  <2>. QED  BY <1>5, <1>6, <2>1 DEF MarkPending
<1>7. CASE ReadResponses(c)
  <2>1. cache[c].reads # <<>> /\ cache' = [cache EXCEPT ![c] = DoReadResponses(@)] /\ UNCHANGED <<kind, store, server>>
    BY <1>7 DEF ReadResponses, CanDoReadResponses
  <2>. QED  BY <1>0, <2>1, RespondKeepsCopies, CacheChanges
<1>8. CASE WriteResponses(c)
  <2>1. /\ cache' = [cache EXCEPT ![c] = [cache[c] EXCEPT !.writes = Tail(cache[c].writes)]]
        /\ UNCHANGED <<kind, store, server>>
    BY <1>8 DEF WriteResponses
  <2>. QED  BY <1>0, <1>5, <2>1, FieldLooks
<1>9. CASE ReadWritebacks(c)
  <2>. DEFINE Becomes(v) == cache' = [cache EXCEPT ![c].writebacks = v]
  <2>1. \E v : Becomes(v)
    BY <1>9 DEF ReadWritebacks
  <2>2. PICK v : Becomes(v)
    BY <2>1
  <2>3. cache' = [cache EXCEPT ![c] = [cache[c] EXCEPT !.writebacks = v]] /\ UNCHANGED <<kind, store, server>>
    BY <1>9, <2>2 DEF ReadWritebacks
  <2>. QED  BY <1>0, <1>5, <2>3, FieldLooks
<1>. QED  BY <1>2, <1>3, <1>4, <1>6, <1>7, <1>8, <1>9

\* The request r at the front of cache k is accepted as x: what becomes of the
\* cache that sent it, and of the others.
LEMMA SenderCopy ==
  ASSUME NEW k, Fine(k), k.outgoing # <<>>, NEW c \in Client, NEW x \in Req, x.client = c,
         x.write = Head(k.outgoing).write, x.address = Head(k.outgoing).address, x.data = Head(k.outgoing).data,
         NEW g, g = IF x.write THEN OnMemorySnooped(Popped(k), x.address, x.data) ELSE Popped(k)
  PROVE  /\ Fine(g)
         /\ \A e \in Addr, q \in Seq(Req) : \A p, m : Coherent(k, c, e, q, p, m) =>
              /\ Coherent(g, c, e, Append(q, x), p, m)
              /\ e # x.address => Coherent(g, c, e, q, p, m)
<1>. DEFINE f == Popped(k)
            r == Head(k.outgoing)
<1>1. Fine(f) /\ f.line = k.line /\ r \in Sent
  BY SentFine
<1>2. x.address \in Addr /\ x.data \in Data /\ x.write \in BOOLEAN
  BY ReqFields
<1>3. x.write => /\ Fine(g) /\ Overwritten(f, g, x.address, x.data) /\ Overwritten(k, g, x.address, x.data)
                 /\ g.outgoing = f.outgoing
  <2>1. ASSUME x.write
        PROVE  Fine(g) /\ Overwritten(f, g, x.address, x.data) /\ g.outgoing = f.outgoing
    BY <1>1, <1>2, <2>1, SnoopIs, SnoopFine
  <2>2. x.write => Overwritten(k, g, x.address, x.data)
    BY <1>1, <2>1 DEF Overwritten, Holds
  <2>. QED  BY <2>1, <2>2
<1>4. ~x.write => g = f
  OBVIOUS
<1>5. ASSUME NEW e \in Addr, e # x.address, NEW q, NEW p, NEW m, Coherent(k, c, e, q, p, m)
      PROVE  Coherent(g, c, e, q, p, m)
  <2>1. Coherent(f, c, e, q, p, m)
    BY <1>5, SentAlike, AlikeCoherent
  <2>. HIDE DEF f
  <2>2. CASE x.write
    BY <1>3, <1>5, <2>1, <2>2, SnoopAlike, AlikeCoherent
  <2>. QED  BY <1>4, <2>1, <2>2
<1>6. ASSUME NEW e \in Addr, e # x.address, NEW q \in Seq(Req), NEW p, NEW m, Coherent(k, c, e, q, p, m)
      PROVE  Coherent(g, c, e, Append(q, x), p, m)
  <2>1. Coherent(k, c, e, Append(q, x), p, m)
    BY <1>6, AppendOther DEF WriteOf, ReadOf
  <2>. QED  BY <1>5, <1>6, <2>1
<1>7. ASSUME NEW e \in Addr, e = x.address, NEW q \in Seq(Req), NEW p, NEW m, Coherent(k, c, e, q, p, m)
      PROVE  Coherent(g, c, e, Append(q, x), p, m)
  <2>1. CASE x.write
    <3>1. Asking(k, e) => Asking(g, e)
      <4>1. Asking(k, e) => Asking(f, e)
        BY SentWrite
      <4>. HIDE DEF f
      <4>2. Asking(f, e) => Asking(g, e)
        BY <1>3, <2>1 DEF Asking, Loads, Overwritten
      <4>. QED  BY <4>1, <4>2
    <3>2. \A b \in Byte : x.data[b] = NoVal /\ Unsent(g, e, b) => Unsent(k, e, b)
      <4>1. \A b \in Byte : ~WritesTo(r, e, b) /\ Unsent(f, e, b) => Unsent(k, e, b)
        BY SentWrite
      <4>. HIDE DEF f
      <4>2. \A b \in Byte : Unsent(g, e, b) => Unsent(f, e, b)
        BY <1>3, <2>1 DEF Unsent
      <4>3. \A b \in Byte : x.data[b] = NoVal => ~WritesTo(r, e, b)
        BY DEF WritesTo
      <4>. QED  BY <4>1, <4>2, <4>3
    <3>3. WriteOf(x, e) /\ Typed(k) /\ Overwritten(k, g, e, x.data)
      BY <1>3, <1>7, <2>1 DEF WriteOf, Fine
    <3>. HIDE DEF f, r
    <3>. QED  BY <1>7, <3>1, <3>2, <3>3, AppendWrite
  <2>2. CASE ~x.write
    <3>1. Reads(r, e) /\ ReadOf(x, c, e) /\ ~WritesTo(r, e, 0) /\ \A b \in Byte : ~WritesTo(r, e, b)
      BY <1>7, <2>2 DEF Reads, ReadOf, WritesTo
    <3>2. ~Asking(k, e) /\ Asking(f, e) /\ \A b \in Byte : Unsent(f, e, b) => Unsent(k, e, b)
      BY <3>1, SentWrite
    <3>. HIDE DEF f, r
    <3>. QED  BY <1>1, <1>4, <1>7, <2>2, <3>1, <3>2, AppendRead
  <2>. QED  BY <2>1, <2>2
<1>8. Fine(g)
  BY <1>1, <1>2, <1>3, <1>4
<1>. QED  BY <1>5, <1>6, <1>7, <1>8

LEMMA OtherCopy ==
  ASSUME NEW k, Fine(k), NEW c, NEW x \in Req, x.client # c,
         NEW g, g = IF x.write THEN OnMemorySnooped(k, x.address, x.data) ELSE k
  PROVE  /\ Fine(g)
         /\ \A e \in Addr, q \in Seq(Req) : \A p, m : Coherent(k, c, e, q, p, m) =>
              /\ Coherent(g, c, e, Append(q, x), p, m)
              /\ e # x.address => Coherent(g, c, e, q, p, m)
<1>1. x.address \in Addr /\ x.data \in Data /\ x.write \in BOOLEAN
  BY ReqFields
<1>2. x.write => Fine(g) /\ Overwritten(k, g, x.address, x.data) /\ g.outgoing = k.outgoing
  BY <1>1, SnoopIs, SnoopFine
<1>3. ASSUME NEW e \in Addr, e # x.address, NEW q, NEW p, NEW m, Coherent(k, c, e, q, p, m)
      PROVE  Coherent(g, c, e, q, p, m)
  <2>1. CASE x.write
    BY <1>2, <1>3, <2>1, SnoopAlike, AlikeCoherent
  <2>. QED  BY <1>3, <2>1
<1>4. ASSUME NEW e \in Addr, NEW q \in Seq(Req), NEW p, NEW m, Coherent(k, c, e, q, p, m)
      PROVE  Coherent(g, c, e, Append(q, x), p, m)
  <2>1. CASE ~WriteOf(x, e)
    <3>1. Coherent(k, c, e, Append(q, x), p, m)
      BY <1>4, <2>1, AppendOther DEF ReadOf
    <3>. QED  BY <1>1, <1>3, <2>1, <3>1 DEF WriteOf
  <2>2. CASE WriteOf(x, e)
    <3>1. /\ Overwritten(k, g, e, x.data) /\ g.outgoing = k.outgoing /\ Typed(k)
      BY <1>2, <2>2 DEF WriteOf, Fine
    <3>2. Asking(k, e) => Asking(g, e)
      BY <3>1 DEF Asking, Loads, Overwritten
    <3>3. \A b \in Byte : x.data[b] = NoVal /\ Unsent(g, e, b) => Unsent(k, e, b)
      BY <3>1 DEF Unsent
    <3>. QED  BY <1>4, <2>2, <3>1, <3>2, <3>3, AppendWrite
  <2>. QED  BY <2>1, <2>2
<1>. QED  BY <1>1, <1>2, <1>3, <1>4

\* A write of a line that is split waits at another server than its reads.
LEMMA SplitWrite ==
  ASSUME NEW k, NEW c, NEW a, NEW q \in Seq(Req), NEW p, NEW m, NEW x \in Req, x.write, ~OneWay(a),
         Coherent(k, c, a, Append(q, x), p, m)
  PROVE  Coherent(k, c, a, q, p, m)
<1>. DEFINE f == Append(q, x)
            n == Len(q)
<1>1. n \in Nat /\ Len(f) = n + 1 /\ \A i \in 1..n : f[i] = q[i]
  BY AppendedAt
<1>2. Coherent(k, c, a, f, p, m) /\ \A i \in 1..n : i \in 1..Len(f)
  BY <1>1
<1>. HIDE DEF f
<1>3. AskedInTime(k, c, a, q)
  BY <1>1, <1>2 DEF Coherent, AskedInTime
<1>4. AnsweredInTime(k, c, a, q, p, m) /\ CopyIsNewest(k, a, q, m)
  BY <1>2 DEF Coherent, AnsweredInTime, Brings, CopyIsNewest
<1>5. OneRead(c, a, q, p)
  BY <1>1, <1>2 DEF Coherent, OneRead
<1>. QED  BY <1>3, <1>4, <1>5 DEF Coherent

\* What memory holds of a line that is split is not what its copies agree with.
LEMMA SplitMemory ==
  ASSUME NEW k, NEW c, NEW a, NEW q, NEW p, NEW m, ~OneWay(a), Coherent(k, c, a, q, p, m), NEW h
  PROVE  Coherent(k, c, a, q, p, h)
  BY DEF Coherent, AnsweredInTime, Brings, CopyIsNewest

LEMMA AcceptCopies ==
  ASSUME IInv, CInv, kind # "parallel", NEW c \in Client, NEW s \in Servers,
         cache[c].outgoing # <<>>, Accept(c, s), GoesTo(c, Head(cache[c].outgoing), s)
  PROVE  CInv'
<1>. DEFINE r == Head(cache[c].outgoing)
            x == [client |-> c, seq |-> count[c], write |-> r.write, address |-> r.address,
                  data |-> r.data, wid |-> r.wid]
            sent == [cache EXCEPT ![c].outgoing = Tail(@)]
<1>1. CachesOK(cache) /\ DOMAIN cache = Client /\ \A d \in Client : Fine(cache[d])
  BY DEF IInv, CachesOK, CInv
<1>2. r \in Sent
  BY <1>1, SentFine
<1>3. count[c] \in Nat
  BY DEF IInv, StoreOK
<1>4. /\ x \in Req /\ x.client = c /\ x.write = r.write /\ x.address = r.address /\ x.data = r.data
  BY <1>2, <1>3 DEF Sent, Req
<1>5. /\ server' = [server EXCEPT ![s].requests = Append(@, x)]
      /\ cache' = IF r.write THEN Snooped(sent, r) ELSE sent
      /\ UNCHANGED <<kind, store>>
  BY DEF Accept
<1>. HIDE DEF x
<1>6. AtHome(x, s)
  <2>1. ServerFor(kind, x) = s
    BY <1>4 DEF GoesTo
  <2>. QED  BY <1>4, <2>1, HomeIs DEF AtHome
<1>7. /\ server \in [Servers -> Server] /\ server[s].requests \in Seq(Req) /\ server[s].active \in Seq(Req)
      /\ server[s] \in Server
  BY ServerOf
<1>8. /\ server'[s].requests = Append(server[s].requests, x)
      /\ server'[s].active = server[s].active /\ server'[s].responses = server[s].responses
      /\ \A t \in Servers : t # s => server'[t] = server[t]
  BY <1>5, <1>7 DEF Server
<1>9. Waiting(s)' = Append(Waiting(s), x) /\ \A t \in Servers : t # s => Waiting(t)' = Waiting(t)
  <2>1. server[s].active \o Append(server[s].requests, x) = Append(server[s].active \o server[s].requests, x)
    <3>. DEFINE p == server[s].active
                q == server[s].requests
    <3>1. p \in Seq(Req) /\ q \in Seq(Req) /\ x \in Req
      BY <1>4, <1>7
    <3>. HIDE DEF p, q
    <3>2. p \o Append(q, x) = Append(p \o q, x)
      BY <3>1, ConcatAppends
    <3>. QED  BY <3>2 DEF p, q
  <2>. QED  BY <1>8, <2>1 DEF Waiting
<1>10. \A d \in Client : sent[d] = IF d = c THEN Popped(cache[d]) ELSE cache[d]
  BY <1>1 DEF Popped
<1>11. \A d \in Client : cache'[d] = IF x.write THEN OnMemorySnooped(sent[d], x.address, x.data) ELSE sent[d]
  BY <1>4, <1>5 DEF Snooped
<1>. HIDE DEF sent
<1>12. ASSUME NEW d \in Client
       PROVE  /\ Fine(cache'[d])
              /\ \A e \in Addr, q \in Seq(Req) : \A p, m : Coherent(cache[d], d, e, q, p, m) =>
                   /\ Coherent(cache'[d], d, e, Append(q, x), p, m)
                   /\ e # x.address => Coherent(cache'[d], d, e, q, p, m)
  <2>1. CASE d = c
    <3>1. cache'[c] = IF x.write THEN OnMemorySnooped(Popped(cache[c]), x.address, x.data) ELSE Popped(cache[c])
      BY <1>10, <1>11
    <3>. QED  BY <1>1, <1>4, <2>1, <3>1, SenderCopy
  <2>2. CASE d # c
    <3>1. cache'[d] = IF x.write THEN OnMemorySnooped(cache[d], x.address, x.data) ELSE cache[d]
      BY <1>10, <1>11, <2>2
    <3>. QED  BY <1>1, <1>4, <2>2, <3>1, OtherCopy
  <2>. QED  BY <2>1, <2>2
<1>13. ASSUME NEW d \in Client, NEW e \in Addr
       PROVE  Coherent(cache'[d], d, e, Waiting(Home(e))', server'[Home(e)].responses, store[e])
  <2>1. Home(e) \in Servers
    BY HomeIs
  <2>2. Waiting(Home(e)) \in Seq(Req)
    BY <2>1, WaitingIs
  <2>3. Coherent(cache[d], d, e, Waiting(Home(e)), server[Home(e)].responses, store[e])
    BY DEF CInv
  <2>4. Home(e)' = Home(e)
    BY <1>5, HomeStays
  <2>5. CASE Home(e) = s
    BY <1>8, <1>9, <1>12, <2>2, <2>3, <2>4, <2>5
  <2>6. CASE Home(e) # s
    <3>. DEFINE k == cache'[d]
                q == Waiting(Home(e))
                p == server[Home(e)].responses
                m == store[e]
    <3>1. Waiting(Home(e))' = q /\ server'[Home(e)].responses = p
      BY <1>8, <1>9, <2>1, <2>4, <2>6
    <3>2. Coherent(k, d, e, Append(q, x), p, m) /\ (e # x.address => Coherent(k, d, e, q, p, m))
      BY <1>12, <2>2, <2>3
    <3>3. e = x.address => x.write /\ ~OneWay(e)
      BY <1>6, <2>6 DEF AtHome
    <3>. HIDE DEF k, q, p, m
    <3>4. Coherent(k, d, e, q, p, m)
      BY <1>4, <2>2, <3>2, <3>3, SplitWrite DEF q
    <3>. QED  BY <3>1, <3>4 DEF k, m
  <2>. QED  BY <2>5, <2>6
<1>14. \A a \in Addr : \A b \in Byte : store'[a][b] # NoVal
  BY <1>5 DEF CInv
<1>15. store' = store /\ \A d \in Client : Fine(cache'[d])
  BY <1>5, <1>12
<1>. QED  BY <1>5, <1>13, <1>14, <1>15, CInvNext

\* Nothing changes but times, or a request goes to work.
LEMMA QuietCopies ==
  ASSUME IInv, CInv, kind # "parallel", UNCHANGED <<kind, store, cache>>,
         \A t \in Servers : Waiting(t)' = Waiting(t) /\ server'[t].responses = server[t].responses
  PROVE  CInv'
<1>1. \A e \in Addr : Home(e)' = Home(e) /\ Home(e) \in Servers
  BY HomeIs, HomeStays
<1>2. ASSUME NEW c \in Client, NEW a \in Addr
      PROVE  Coherent(cache'[c], c, a, Waiting(Home(a))', server'[Home(a)].responses, store'[a])
  <2>1. Waiting(Home(a))' = Waiting(Home(a)) /\ server'[Home(a)].responses = server[Home(a)].responses
    BY <1>1 DEF Waiting
  <2>. QED  BY <2>1 DEF CInv
<1>. QED  BY <1>2, CInvNext DEF CInv

LEMMA TimingCopies ==
  ASSUME IInv, CInv, kind # "parallel", Timing
  PROVE  CInv'
  BY QuietCopies DEF Timing, SameQueues, Waiting

LEMMA StartingCopies ==
  ASSUME IInv, CInv, kind # "parallel", NEW s \in Servers, Starting(s)
  PROVE  CInv'
<1>1. /\ server[s].requests \in Seq(Req) /\ server[s].active \in Seq(Req) /\ server[s].requests # <<>>
  BY ServerOf DEF Starting
<1>2. Append(server[s].active, Head(server[s].requests)) \o Tail(server[s].requests)
        = server[s].active \o server[s].requests
  BY <1>1, ConcatShifts
<1>3. /\ Waiting(s)' = Waiting(s) /\ server'[s].responses = server[s].responses
      /\ \A t \in Servers : t # s => server'[t] = server[t]
  BY <1>2 DEF Starting, Starts, OnlyAt, Waiting
<1>. QED  BY <1>3, QuietCopies DEF Starting, Waiting

\* A request r is performed while nothing but reads is before it.
LEMMA RequestPerformed ==
  ASSUME NEW k, NEW c, NEW a, NEW q \in Seq(Req), NEW p, NEW m \in Data, Coherent(k, c, a, q, p, m),
         NEW g \in Seq(Req), NEW n, RemovedAt(q, g, n), NEW r, q[n] = r,
         \A i \in 1..Len(q) : i < n => ~q[i].write
  PROVE  /\ Coherent(k, c, a, g, p, IF WriteOf(r, a) THEN Blit(m, r.data) ELSE m)
         /\ ReadOf(r, c, a) =>
              /\ Asking(k, a)
              /\ \A i \in 1..Len(g) : ~ReadOf(g[i], c, a)
              /\ \A i \in 1..Len(p) : ~ReadOf(p[i], c, a)
              /\ OneWay(a) => \A l \in LineId, b \in Byte : Missing(k, l, a, b) => Behind(g, 1, a, b)
<1>1. Len(q) \in Nat /\ Len(g) \in Nat
  OBVIOUS
<1>2. /\ n \in 1..Len(q) /\ Len(g) = Len(q) - 1
      /\ \A i \in 1..Len(g) : i < n => i \in 1..Len(q) /\ g[i] = q[i]
      /\ \A i \in 1..Len(g) : i >= n => i + 1 \in 1..Len(q) /\ g[i] = q[i + 1]
  BY <1>1, RemovedFrom
<1>3. Coherent(k, c, a, g, p, IF WriteOf(r, a) THEN Blit(m, r.data) ELSE m)
  <2>1. CASE WriteOf(r, a)
    <3>1. \A i \in 1..Len(q) : i < n => ~WriteOf(q[i], a)
      BY DEF WriteOf
    <3>. QED  BY <2>1, <3>1, RemoveWrite
  <2>2. CASE ~WriteOf(r, a)
    BY <2>2, RemoveRead
  <2>. QED  BY <2>1, <2>2
<1>4. ASSUME ReadOf(r, c, a)
      PROVE  /\ Asking(k, a)
             /\ \A i \in 1..Len(g) : ~ReadOf(g[i], c, a)
             /\ \A i \in 1..Len(p) : ~ReadOf(p[i], c, a)
             /\ OneWay(a) => \A l \in LineId, b \in Byte : Missing(k, l, a, b) => Behind(g, 1, a, b)
  <2>1. /\ Asking(k, a)
        /\ OneWay(a) => \A l \in LineId, b \in Byte : Missing(k, l, a, b) => Behind(q, n, a, b)
    BY <1>2, <1>4 DEF Coherent, AskedInTime
  <2>2. \A i \in 1..Len(p) : ~ReadOf(p[i], c, a)
    BY <1>2, <1>4 DEF Coherent, OneRead
  <2>3. ASSUME NEW i \in 1..Len(g), ReadOf(g[i], c, a) PROVE FALSE
    <3>1. CASE i < n
      <4>1. i = n
        BY <1>2, <1>4, <2>3, <3>1 DEF Coherent, OneRead
      <4>. QED  BY <1>1, <1>2, <3>1, <4>1
    <3>2. CASE i >= n
      <4>1. i + 1 = n
        BY <1>2, <1>4, <2>3, <3>2 DEF Coherent, OneRead
      <4>. QED  BY <1>1, <1>2, <3>2, <4>1
    <3>. QED  BY <1>1, <1>2, <3>1, <3>2
  <2>4. ASSUME NEW b \in Byte, Behind(q, n, a, b) PROVE Behind(g, 1, a, b)
    <3>1. ASSUME NEW i \in 1..Len(q) PROVE ~WritesTo(q[i], a, b)
      <4>1. CASE i < n
        BY <4>1 DEF WritesTo
      <4>2. CASE i >= n
        BY <1>1, <1>2, <2>4, <4>2 DEF Behind
      <4>. QED  BY <1>1, <1>2, <4>1, <4>2
    <3>2. Behind(q, 1, a, b)
      BY <3>1 DEF Behind
    <3>. QED  BY <3>2, BehindKept
  <2>. QED  BY <2>1, <2>2, <2>3, <2>4
<1>. QED  BY <1>3, <1>4

LEMMA StoredIs ==
  ASSUME IInv, CInv, NEW r \in Req
  PROVE  /\ \A a \in Addr : store[a] \in Data /\ Stored(r)[a] \in Data
         /\ \A a \in Addr : Stored(r)[a] = IF WriteOf(r, a) THEN Blit(store[a], r.data) ELSE store[a]
         /\ \A a \in Addr : \A b \in Byte : Stored(r)[a][b] # NoVal
<1>1. store \in [Addr -> Data] /\ r.address \in Addr /\ r.data \in Data
  BY ReqFields DEF IInv, StoreOK
<1>2. \A a \in Addr : Stored(r)[a] = IF WriteOf(r, a) THEN Blit(store[a], r.data) ELSE store[a]
  BY <1>1 DEF Stored, WriteOf
<1>3. \A a \in Addr : \A b \in Byte : store[a][b] # NoVal
  BY DEF CInv
<1>4. ASSUME NEW a \in Addr PROVE Stored(r)[a] \in Data /\ \A b \in Byte : Stored(r)[a][b] # NoVal
  <2>1. Blit(store[a], r.data) \in Data /\ \A b \in Byte : Blit(store[a], r.data)[b] # NoVal
    BY <1>1, <1>3, BlitIs
  <2>. QED  BY <1>1, <1>2, <1>3, <2>1
<1>. QED  BY <1>1, <1>2, <1>4
LEMMA PerformingCopies ==
  ASSUME IInv, CInv, kind # "parallel", NEW s \in Servers, Performing(s)
  PROVE  CInv'
<1>. DEFINE r == Head(server[s].active)
            x == ResponseTo(r)
            q == Waiting(s)
            g == Tail(server[s].active) \o server[s].requests
            p == server[s].responses
<1>1. /\ server[s].active \in Seq(Req) /\ server[s].active # <<>> /\ server[s].requests \in Seq(Req)
      /\ p \in Seq(Req) /\ q \in Seq(Req)
  BY ServerOf, WaitingIs DEF Performing
<1>2. /\ r \in Req /\ Tail(server[s].active) \in Seq(Req) /\ 1 \in 1..Len(server[s].active)
      /\ r = server[s].active[1]
  BY <1>1, TailAt
<1>3. AtHome(r, s)
  BY <1>2, HeldAtHome
<1>4. RemovedAt(q, g, 1) /\ q[1] = r /\ g \in Seq(Req)
  BY <1>1, <1>2, ConcatRemoves, ConcatAt DEF Waiting
<1>5. x \in Req /\ x.write = r.write /\ x.address = r.address /\ x.client = r.client
  BY <1>2, ResponseType DEF SameRequest
<1>6. ~r.write => x.data = store[r.address]
  BY <1>2, ResponseData DEF Contents
<1>7. /\ Waiting(s)' = g /\ server'[s].responses = Append(p, x)
      /\ \A t \in Servers : t # s => server'[t] = server[t]
      /\ store' = Stored(r) /\ UNCHANGED <<kind, cache>>
  BY DEF Performing, Ends, OnlyAt, Waiting
<1>8. /\ \A a \in Addr : store[a] \in Data
      /\ \A a \in Addr : store'[a] = IF WriteOf(r, a) THEN Blit(store[a], r.data) ELSE store[a]
      /\ \A a \in Addr : \A b \in Byte : store'[a][b] # NoVal
  BY <1>2, <1>7, StoredIs
<1>. HIDE DEF r, x, q, g, p
<1>9. ASSUME NEW c \in Client, NEW a \in Addr, Home(a) = s
      PROVE  Coherent(cache[c], c, a, g, Append(p, x), store'[a])
  <2>1. Coherent(cache[c], c, a, q, p, store[a])
    BY <1>9 DEF CInv, q, p
  <2>2. \A i \in 1..Len(q) : i < 1 => ~q[i].write
    BY <1>1
  <2>3. /\ Coherent(cache[c], c, a, g, p, store'[a])
        /\ ReadOf(r, c, a) =>
             /\ Asking(cache[c], a)
             /\ \A i \in 1..Len(g) : ~ReadOf(g[i], c, a)
             /\ \A i \in 1..Len(p) : ~ReadOf(p[i], c, a)
             /\ OneWay(a) => \A l \in LineId, b \in Byte : Missing(cache[c], l, a, b) => Behind(g, 1, a, b)
    <3>. DEFINE k == cache[c]
                m == store[a]
                h == IF WriteOf(r, a) THEN Blit(m, r.data) ELSE m
    <3>1. h = store'[a] /\ m \in Data /\ Coherent(k, c, a, q, p, m)
      BY <1>8, <2>1
    <3>. HIDE DEF k, m
    <3>2. /\ Coherent(k, c, a, g, p, h)
          /\ ReadOf(r, c, a) =>
               /\ Asking(k, a)
               /\ \A i \in 1..Len(g) : ~ReadOf(g[i], c, a)
               /\ \A i \in 1..Len(p) : ~ReadOf(p[i], c, a)
               /\ OneWay(a) => \A l \in LineId, b \in Byte : Missing(k, l, a, b) => Behind(g, 1, a, b)
      BY <1>1, <1>4, <2>2, <3>1, RequestPerformed
    <3>. HIDE DEF h
    <3>. QED  BY <3>1, <3>2 DEF k
  <2>4. CASE ReadOf(r, c, a)
    <3>1. x.data = store'[a]
      BY <1>6, <1>8, <2>4 DEF ReadOf, WriteOf
    <3>2. Brings(cache[c], a, g, x.data, store'[a])
      BY <1>8, <2>3, <2>4, <3>1 DEF Brings
    <3>. QED  BY <1>1, <1>5, <2>3, <2>4, <3>2, AnswerRead
  <2>5. CASE ~ReadOf(r, c, a)
    <3>1. ~ReadOf(x, c, a)
      BY <1>5, <2>5 DEF ReadOf
    <3>. QED  BY <1>1, <1>5, <2>3, <3>1, AnswerOther
  <2>. QED  BY <2>4, <2>5
<1>10. \A a \in Addr : Home(a)' = Home(a) /\ Home(a) \in Servers
  BY <1>7, HomeIs, HomeStays
<1>11. ASSUME NEW c \in Client, NEW a \in Addr
       PROVE  Coherent(cache'[c], c, a, Waiting(Home(a))', server'[Home(a)].responses, store'[a])
  <2>1. CASE Home(a) = s
    BY <1>7, <1>9, <1>10, <2>1
  <2>2. CASE Home(a) # s
    <3>1. Waiting(Home(a))' = Waiting(Home(a)) /\ server'[Home(a)] = server[Home(a)]
      BY <1>7, <1>10, <2>2 DEF Waiting
    <3>2. OneWay(a) => store'[a] = store[a]
      BY <1>3, <1>8, <2>2 DEF WriteOf, AtHome
    <3>3. Coherent(cache[c], c, a, Waiting(Home(a)), server[Home(a)].responses, store[a])
      BY DEF CInv
    <3>4. Coherent(cache[c], c, a, Waiting(Home(a)), server[Home(a)].responses, store'[a])
      BY <3>2, <3>3, SplitMemory
    <3>. QED  BY <1>7, <3>1, <3>4
  <2>. QED  BY <2>1, <2>2
<1>12. \A c \in Client : Fine(cache'[c])
  BY <1>7 DEF CInv
<1>. QED  BY <1>7, <1>8, <1>11, <1>12, CInvNext

LEMMA OthersArrive ==
  ASSUME NEW k, Fine(k), NEW c, NEW e \in Addr, NEW d \in Data, NEW g, g = OnMemoryReadCompleted(k, e, d),
         Asking(k, e), NEW a \in Addr, a # e, NEW q, NEW p, NEW m, Coherent(k, c, a, q, p, m)
  PROVE  Coherent(g, c, a, q, p, m)
<1>. DEFINE l == FoundLine(k, e)
<1>1. l \in LineId /\ Loads(k, l, e) /\ Receiving(k, g, l, e, d)
  BY AskingIs, ReadReceives
<1>. HIDE DEF l
<1>2. Alike(k, g, a)
  BY <1>1, ReceiveAlike
<1>. QED  BY <1>2, AlikeCoherent

\* The data d of the read of e arrive in cache k.
LEMMA ReadArrives ==
  ASSUME NEW k, Fine(k), NEW c, NEW e \in Addr, NEW d \in Data, NEW g, g = OnMemoryReadCompleted(k, e, d),
         Asking(k, e), \A l \in LineId, b \in Byte : Missing(k, l, e, b) => d[b] # NoVal
  PROVE  /\ Fine(g)
         /\ \A a \in Addr : a # e => \A q, p, m : Coherent(k, c, a, q, p, m) => Coherent(g, c, a, q, p, m)
         /\ \A q, p, m :
              /\ Coherent(k, c, e, q, p, m)
              /\ \A i \in 1..Len(q) : ~ReadOf(q[i], c, e)
              /\ \A i \in 1..Len(p) : ~ReadOf(p[i], c, e)
              /\ Brings(k, e, q, d, m)
              => Coherent(g, c, e, q, p, m)
<1>. DEFINE l == FoundLine(k, e)
<1>1. l \in LineId /\ Loads(k, l, e) /\ Receiving(k, g, l, e, d)
  BY AskingIs, ReadReceives
<1>. HIDE DEF l
<1>2. Fine(g)
  BY <1>1, ReceiveFine
<1>3. ASSUME NEW a \in Addr, a # e, NEW q, NEW p, NEW m, Coherent(k, c, a, q, p, m)
      PROVE  Coherent(g, c, a, q, p, m)
  BY <1>3, OthersArrive
<1>4. ASSUME NEW q, NEW p, NEW m, Coherent(k, c, e, q, p, m),
             \A i \in 1..Len(q) : ~ReadOf(q[i], c, e), \A i \in 1..Len(p) : ~ReadOf(p[i], c, e),
             Brings(k, e, q, d, m)
      PROVE  Coherent(g, c, e, q, p, m)
  BY <1>1, <1>4, ReceiveCoherent DEF l
<1>. QED  BY <1>2, <1>3, <1>4

\* The callback of request r.
LEMMA CalledIs ==
  ASSUME IInv, NEW r \in Req, NEW data
  PROVE  /\ \A c \in Client : c # r.client => Called(r, data)[c] = cache[c]
         /\ Called(r, data)[r.client] = IF r.write THEN OnMemoryWriteCompleted(cache[r.client], r.wid)
                                        ELSE OnMemoryReadCompleted(cache[r.client], r.address, data)
<1>1. DOMAIN cache = Client /\ r.client \in Client
  BY ReqFields DEF IInv, CachesOK
<1>. QED  BY <1>1 DEF Called

LEMMA WriteCompletes ==
  ASSUME NEW k, NEW wid, NEW c
  PROVE  KeepsCopies(k, OnMemoryWriteCompleted(k, wid), c)
  BY FieldLooks, LookKeeps DEF OnMemoryWriteCompleted

\* The callback of request r with data d, when the queues already are as it
\* leaves them (SimulateCallback of OnMemoryReadCompleted, OnMemoryWriteCompleted).
LEMMA CalledCopies ==
  ASSUME IInv, CInv, kind # "parallel", UNCHANGED kind,
         NEW r \in Req, NEW d \in Data, cache' = Called(r, d), NEW e \in Addr, e = r.address,
         NEW g, NEW p, ~r.write => Waiting(Home(e))' = g /\ server'[Home(e)].responses = p,
         \A a \in Addr : \A b \in Byte : store'[a][b] # NoVal,
         \A c \in Client, a \in Addr :
           Coherent(cache[c], c, a, Waiting(Home(a))', server'[Home(a)].responses, store'[a]),
         ~r.write =>
           /\ Asking(cache[r.client], e)
           /\ \A i \in 1..Len(g) : ~ReadOf(g[i], r.client, e)
           /\ \A i \in 1..Len(p) : ~ReadOf(p[i], r.client, e)
           /\ Brings(cache[r.client], e, g, d, store'[e])
  PROVE  CInv'
<1>1. /\ \A c \in Client : c # r.client => cache'[c] = cache[c]
      /\ cache'[r.client] = IF r.write THEN OnMemoryWriteCompleted(cache[r.client], r.wid)
                            ELSE OnMemoryReadCompleted(cache[r.client], e, d)
  BY CalledIs
<1>2. ASSUME NEW c \in Client
      PROVE  /\ Fine(cache'[c])
             /\ \A a \in Addr :
                  Coherent(cache'[c], c, a, Waiting(Home(a))', server'[Home(a)].responses, store'[a])
  <2>0. Fine(cache[c])
    BY DEF CInv
  <2>1. CASE c # r.client
    BY <1>1, <2>0, <2>1
  <2>2. CASE c = r.client /\ r.write
    BY <1>1, <2>0, <2>2, WriteCompletes DEF KeepsCopies
  <2>3. CASE c = r.client /\ ~r.write
    <3>1. /\ Asking(cache[c], e) /\ cache'[c] = OnMemoryReadCompleted(cache[c], e, d)
          /\ \A l \in LineId, b \in Byte : Missing(cache[c], l, e, b) => d[b] # NoVal
      BY <1>1, <2>3 DEF Brings
    <3>2. Fine(cache'[c])
      BY <2>0, <3>1, ReadArrives
    <3>3. ASSUME NEW a \in Addr, a # e
          PROVE  Coherent(cache'[c], c, a, Waiting(Home(a))', server'[Home(a)].responses, store'[a])
      <4>1. Coherent(cache[c], c, a, Waiting(Home(a))', server'[Home(a)].responses, store'[a])
        OBVIOUS
      <4>. QED  BY <2>0, <3>1, <3>3, <4>1, OthersArrive
    <3>4. Coherent(cache[c], c, e, g, p, store'[e])
      BY <2>3
    <3>5. Coherent(cache'[c], c, e, g, p, store'[e])
      BY <2>0, <2>3, <3>1, <3>4, ReadArrives
    <3>6. ASSUME NEW a \in Addr
          PROVE  Coherent(cache'[c], c, a, Waiting(Home(a))', server'[Home(a)].responses, store'[a])
      BY <2>3, <3>3, <3>5
    <3>. QED  BY <3>2, <3>6
  <2>. QED  BY <2>1, <2>2, <2>3
<1>. QED  BY <1>2, CInvNext

LEMMA FinishingCopies ==
  ASSUME IInv, CInv, kind # "parallel", NEW s \in Servers, Finishing(s)
  PROVE  CInv'
<1>. DEFINE r == Head(server[s].requests)
            d == ResponseTo(r).data
            q == Waiting(s)
            g == server[s].active \o Tail(server[s].requests)
            p == server[s].responses
            n == Len(server[s].active) + 1
<1>1. /\ server[s].active \in Seq(Req) /\ server[s].requests # <<>> /\ server[s].requests \in Seq(Req)
      /\ p \in Seq(Req) /\ q \in Seq(Req)
  BY ServerOf, WaitingIs DEF Finishing
<1>2. /\ r \in Req /\ Tail(server[s].requests) \in Seq(Req) /\ 1 \in 1..Len(server[s].requests)
      /\ r = server[s].requests[1] /\ r.client \in Client /\ r.address \in Addr
  BY <1>1, TailAt, ReqFields
<1>3. AtHome(r, s)
  BY <1>2, HeldAtHome
<1>4. RemovedAt(q, g, n) /\ q[n] = r /\ g \in Seq(Req)
  BY <1>1, <1>2, ConcatRemoves, ConcatAt DEF Waiting
<1>5. \A i \in 1..Len(q) : i < n => ~q[i].write
  <2>1. \A i \in 1..Len(server[s].active) : ~server[s].active[i].write
    BY DEF Finishing
  <2>2. \A i \in 1..Len(server[s].active) : q[i] = server[s].active[i]
    BY <1>1, ConcatAt DEF Waiting
  <2>3. ASSUME NEW i \in 1..Len(q), i < n PROVE i \in 1..Len(server[s].active)
    BY <1>1, <2>3
  <2>. QED  BY <2>1, <2>2, <2>3
<1>6. ~r.write => d = store[r.address]
  BY <1>2, ResponseData DEF Contents
<1>7. /\ Waiting(s)' = g /\ server'[s].responses = p
      /\ \A t \in Servers : t # s => server'[t] = server[t]
      /\ store' = Stored(r) /\ cache' = Called(r, d) /\ UNCHANGED kind
  BY DEF Finishing, Finishes, OnlyAt, Waiting
<1>8. /\ \A a \in Addr : store[a] \in Data /\ \A b \in Byte : store[a][b] # NoVal
      /\ \A a \in Addr : store'[a] = IF WriteOf(r, a) THEN Blit(store[a], r.data) ELSE store[a]
      /\ \A a \in Addr : \A b \in Byte : store'[a][b] # NoVal
  BY <1>2, <1>7, StoredIs DEF CInv
<1>9. /\ \A c \in Client : c # r.client => cache'[c] = cache[c]
      /\ cache'[r.client] = IF r.write THEN OnMemoryWriteCompleted(cache[r.client], r.wid)
                            ELSE OnMemoryReadCompleted(cache[r.client], r.address, d)
  BY <1>2, <1>7, CalledIs
<1>. HIDE DEF r, d, q, g, p, n
<1>10. ASSUME NEW c \in Client, NEW a \in Addr, Home(a) = s
       PROVE  /\ Coherent(cache[c], c, a, g, p, store'[a])
              /\ ReadOf(r, c, a) =>
                   /\ Asking(cache[c], a)
                   /\ \A i \in 1..Len(g) : ~ReadOf(g[i], c, a)
                   /\ \A i \in 1..Len(p) : ~ReadOf(p[i], c, a)
                   /\ OneWay(a) => \A l \in LineId, b \in Byte : Missing(cache[c], l, a, b) => Behind(g, 1, a, b)
  <2>1. Coherent(cache[c], c, a, q, p, store[a])
    BY <1>10 DEF CInv, q, p
  <2>. DEFINE k == cache[c]
              m == store[a]
              h == IF WriteOf(r, a) THEN Blit(m, r.data) ELSE m
  <2>2. h = store'[a] /\ m \in Data /\ Coherent(k, c, a, q, p, m)
    BY <1>8, <2>1
  <2>. HIDE DEF k, m
  <2>3. /\ Coherent(k, c, a, g, p, h)
        /\ ReadOf(r, c, a) =>
             /\ Asking(k, a)
             /\ \A i \in 1..Len(g) : ~ReadOf(g[i], c, a)
             /\ \A i \in 1..Len(p) : ~ReadOf(p[i], c, a)
             /\ OneWay(a) => \A l \in LineId, b \in Byte : Missing(k, l, a, b) => Behind(g, 1, a, b)
    BY <1>1, <1>4, <1>5, <2>2, RequestPerformed
  <2>. HIDE DEF h
  <2>. QED  BY <2>2, <2>3 DEF k
<1>11. \A a \in Addr : Home(a)' = Home(a) /\ Home(a) \in Servers
  BY <1>7, HomeIs, HomeStays
<1>12. ASSUME NEW c \in Client, NEW a \in Addr
       PROVE  Coherent(cache[c], c, a, Waiting(Home(a))', server'[Home(a)].responses, store'[a])
  <2>1. CASE Home(a) = s
    BY <1>7, <1>10, <1>11, <2>1
  <2>2. CASE Home(a) # s
    <3>1. Waiting(Home(a))' = Waiting(Home(a)) /\ server'[Home(a)] = server[Home(a)]
      BY <1>7, <1>11, <2>2 DEF Waiting
    <3>2. OneWay(a) => store'[a] = store[a]
      BY <1>3, <1>8, <2>2 DEF WriteOf, AtHome
    <3>3. Coherent(cache[c], c, a, Waiting(Home(a)), server[Home(a)].responses, store[a])
      BY DEF CInv
    <3>4. Coherent(cache[c], c, a, Waiting(Home(a)), server[Home(a)].responses, store'[a])
      BY <3>2, <3>3, SplitMemory
    <3>. QED  BY <3>1, <3>4
  <2>. QED  BY <2>1, <2>2
<1>13. PICK e \in Addr : e = r.address
  BY <1>2
<1>14. ~r.write =>
         /\ Asking(cache[r.client], e)
         /\ \A i \in 1..Len(g) : ~ReadOf(g[i], r.client, e)
         /\ \A i \in 1..Len(p) : ~ReadOf(p[i], r.client, e)
         /\ Brings(cache[r.client], e, g, d, store'[e])
  <2>. SUFFICES ASSUME ~r.write
                PROVE  /\ Asking(cache[r.client], e)
                       /\ \A i \in 1..Len(g) : ~ReadOf(g[i], r.client, e)
                       /\ \A i \in 1..Len(p) : ~ReadOf(p[i], r.client, e)
                       /\ Brings(cache[r.client], e, g, d, store'[e])
    OBVIOUS
  <2>1. ReadOf(r, r.client, e) /\ Home(e) = s /\ d = store'[e]
    BY <1>2, <1>3, <1>6, <1>8, <1>13 DEF ReadOf, WriteOf, AtHome
  <2>2. /\ Asking(cache[r.client], e)
        /\ \A i \in 1..Len(g) : ~ReadOf(g[i], r.client, e)
        /\ \A i \in 1..Len(p) : ~ReadOf(p[i], r.client, e)
        /\ OneWay(e) => \A l \in LineId, b \in Byte : Missing(cache[r.client], l, e, b) => Behind(g, 1, e, b)
    BY <1>2, <1>10, <2>1
  <2>. QED  BY <1>8, <2>1, <2>2 DEF Brings
<1>15. ~r.write => Waiting(Home(e))' = g /\ server'[Home(e)].responses = p
  BY <1>3, <1>7, <1>11, <1>13 DEF AtHome
<1>16. d \in Data
  BY <1>2, ResponseType, ReqFields DEF d
<1>. QED  BY <1>2, <1>7, <1>8, <1>12, <1>13, <1>14, <1>15, <1>16, CalledCopies
LEMMA AnsweringCopies ==
  ASSUME IInv, CInv, kind # "parallel", NEW s \in Servers, Answering(s)
  PROVE  CInv'
<1>. DEFINE r == Head(server[s].responses)
            d == r.data
            q == Waiting(s)
            p == server[s].responses
            h == Tail(p)
<1>1. p \in Seq(Req) /\ q \in Seq(Req) /\ p # <<>>
  BY WaitingIs DEF Answering
<1>2. r \in Req /\ h \in Seq(Req) /\ RemovedAt(p, h, 1) /\ p[1] = r /\ Len(p) \in Nat /\ 1 \in 1..Len(p)
  BY <1>1, TailAt, TailRemoves
<1>3. r.client \in Client /\ r.address \in Addr /\ d \in Data
  BY <1>2, ReqFields
<1>4. AtHome(r, s)
  BY <1>2, HeldAtHome
<1>5. /\ Waiting(s)' = q /\ server'[s].responses = h
      /\ \A t \in Servers : t # s => server'[t] = server[t]
      /\ cache' = Called(r, d) /\ UNCHANGED <<kind, store>>
  BY DEF Answering, Answers, OnlyAt, Waiting
<1>6. \A a \in Addr : Home(a)' = Home(a) /\ Home(a) \in Servers
  BY <1>5, HomeIs, HomeStays
<1>7. \A c \in Client, a \in Addr : Home(a) = s => Coherent(cache[c], c, a, q, p, store[a])
  BY DEF CInv
<1>. HIDE DEF r, d, q, p, h
<1>8. ASSUME NEW c \in Client, NEW a \in Addr
      PROVE  Coherent(cache[c], c, a, Waiting(Home(a))', server'[Home(a)].responses, store'[a])
  <2>1. CASE Home(a) = s
    <3>1. Coherent(cache[c], c, a, q, h, store[a])
      BY <1>1, <1>2, <1>7, <2>1, AnswerTaken
    <3>. QED  BY <1>5, <1>6, <2>1, <3>1
  <2>2. CASE Home(a) # s
    <3>1. Waiting(Home(a))' = Waiting(Home(a)) /\ server'[Home(a)] = server[Home(a)]
      BY <1>5, <1>6, <2>2 DEF Waiting
    <3>. QED  BY <1>5, <3>1 DEF CInv
  <2>. QED  BY <2>1, <2>2
<1>9. PICK e \in Addr : e = r.address
  BY <1>3
<1>10. ASSUME ~r.write
       PROVE  /\ Asking(cache[r.client], e)
              /\ \A i \in 1..Len(q) : ~ReadOf(q[i], r.client, e)
              /\ \A i \in 1..Len(h) : ~ReadOf(h[i], r.client, e)
              /\ Brings(cache[r.client], e, q, d, store[e])
  <2>1. Coherent(cache[r.client], r.client, e, q, p, store[e]) /\ ReadOf(p[1], r.client, e)
    BY <1>2, <1>3, <1>4, <1>7, <1>9, <1>10 DEF ReadOf, AtHome
  <2>2. Asking(cache[r.client], e) /\ Brings(cache[r.client], e, q, d, store[e])
    BY <1>2, <2>1 DEF Coherent, AnsweredInTime, d
  <2>3. \A i \in 1..Len(q) : ~ReadOf(q[i], r.client, e)
    BY <1>2, <2>1 DEF Coherent, OneRead
  <2>4. ASSUME NEW i \in 1..Len(h), ReadOf(h[i], r.client, e) PROVE FALSE
    <3>1. i + 1 \in 1..Len(p) /\ h[i] = p[i + 1] /\ i + 1 # 1
      BY <1>2, <2>4 DEF RemovedAt
    <3>. QED  BY <1>2, <2>1, <2>4, <3>1 DEF Coherent, OneRead
  <2>. QED  BY <2>2, <2>3, <2>4
<1>11. store'[e] = store[e] /\ (~r.write => Waiting(Home(e))' = q /\ server'[Home(e)].responses = h)
  BY <1>4, <1>5, <1>6, <1>9 DEF AtHome
<1>. QED  BY <1>2, <1>3, <1>5, <1>8, <1>9, <1>10, <1>11, CalledCopies DEF CInv
-----------------------------------------------------------------------------
LEMMA InitCopies ==
  ASSUME Init
  PROVE  Copies
<1>1. /\ store = [a \in Addr |-> InitLine] /\ server = [s \in Servers |-> NoServer]
      /\ cache = [c \in Client |-> InitDCache]
  BY DEF Init
<1>2. InitLine \in [Byte -> Val] /\ NoVal \notin Val
  BY SystemAssumption, CacheAssumption DEF SystemAssumption, CacheAssumption
<1>3. \A a \in Addr : store[a] = InitLine /\ \A b \in Byte : store[a][b] # NoVal
  BY <1>1, <1>2
<1>. DEFINE k == InitDCache
<1>4. /\ CacheOK(k) /\ k.outgoing = <<>> /\ k.reads = <<>> /\ DOMAIN k.line = LineId
      /\ \A l \in LineId : k.line[l] = EmptyLine
  BY DEF CacheOK, Fields, InitDCache
<1>5. EmptyLine.state = "EMPTY" /\ LineOK(EmptyLine)
  BY DEF EmptyLine, LineOK, LineFields, Data, NoData
<1>. HIDE DEF k
<1>6. \A l \in LineId : k.line[l].state = "EMPTY" /\ LineOK(k.line[l])
  BY <1>4, <1>5
<1>7. Len(k.outgoing) = 0 /\ Len(k.reads) = 0 /\ k.reads \in Seq(LineId)
  BY <1>4
<1>8. Fine(k)
  BY <1>4, <1>6, <1>7 DEF Fine, Typed, Located, Answered, Queued
<1>9. ASSUME NEW c, NEW a, NEW m PROVE Coherent(k, c, a, <<>>, <<>>, m)
  BY <1>6 DEF Coherent, CopyIsNewest, AskedInTime, AnsweredInTime, OneRead, Holds
<1>10. ASSUME kind # "parallel" PROVE CInv
  <2>1. IInv
    BY InitHolds
  <2>2. ASSUME NEW a \in Addr
        PROVE  Waiting(Home(a)) = <<>> /\ server[Home(a)].responses = <<>>
    <3>1. server[Home(a)] = NoServer
      BY <1>1, <1>10, <2>1, HomeIs
    <3>. QED  BY <3>1 DEF Waiting, NoServer
  <2>3. \A c \in Client : cache[c] = k
    BY <1>1 DEF k
  <2>. QED  BY <1>3, <1>8, <1>9, <2>2, <2>3 DEF CInv
<1>. QED  BY <1>10 DEF Copies

LEMMA NextCopies ==
  ASSUME IInv, Copies, [Next]_vars
  PROVE  Copies'
<1>. SUFFICES ASSUME (kind # "parallel")' PROVE CInv'
  BY DEF Copies
<1>1. ASSUME UNCHANGED kind PROVE kind # "parallel" /\ CInv
  BY <1>1 DEF Copies
<1>2. CASE UNCHANGED vars
  BY <1>1, <1>2, QuietCopies DEF vars, Waiting
<1>3. ASSUME NEW c \in Client,
             \/ CacheStep(c)
             \/ \E o \in Operand, a \in Addr, off \in Byte : LoadMiss(c, o, a, off)
             \/ \E a \in Addr : BundleRead(c, a)
             \/ \E a \in Addr, b \in Byte : Store(c, a, b)
      PROVE  CInv'
  <2>1. CASE OutgoingRequests(c)
    <3>1. PICK s \in Servers : Accept(c, s) /\ GoesTo(c, Head(cache[c].outgoing), s)
      BY <2>1, OutgoingGoes
    <3>2. UNCHANGED kind /\ cache[c].outgoing # <<>>
      BY <2>1, <3>1 DEF OutgoingRequests, Accept
    <3>. QED  BY <1>1, <3>1, <3>2, AcceptCopies
  <2>2. ASSUME \/ \E o \in Operand, a \in Addr, off \in Byte : LoadMiss(c, o, a, off)
               \/ \E a \in Addr : BundleRead(c, a)
               \/ \E a \in Addr, b \in Byte : Store(c, a, b)
               \/ \E o \in Operand : MarkPending(c, o)
               \/ ReadResponses(c) \/ WriteResponses(c) \/ ReadWritebacks(c)
        PROVE  CInv'
    <3>1. UNCHANGED kind
      BY <2>2 DEF LoadMiss, BundleRead, Store, MarkPending, ReadResponses, WriteResponses, ReadWritebacks
    <3>. QED  BY <1>1, <2>2, <3>1, CoreStepCopies
  <2>. QED  BY <1>3, <2>1, <2>2 DEF CacheStep
<1>4. ASSUME NEW s \in Servers, MemoryStep(s) PROVE CInv'
  <2>1. MemoryDoes
    BY <1>4, MemoryStepStep
  <2>2. UNCHANGED kind
    BY <2>1 DEF MemoryDoes, Timing, Finishing, Starting, Performing, Answering
  <2>. QED  BY <1>1, <2>1, <2>2, TimingCopies, FinishingCopies, StartingCopies, PerformingCopies, AnsweringCopies
            DEF MemoryDoes
<1>5. CASE Tick
  <2>1. UNCHANGED <<kind, store, server, cache>>
    BY <1>5 DEF Tick, DDRTick
  <2>. QED  BY <1>1, <2>1, QuietCopies DEF Waiting
<1>. QED  BY <1>2, <1>3, <1>4, <1>5 DEF Next

LEMMA CopiesMatch ==
  ASSUME IInv, Copies
  PROVE  CopiesMatchMemory
<1>. SUFFICES ASSUME kind # "parallel", NEW a \in Addr, Settled(a), OneWay(a), NEW c \in Client, NEW l \in LineId,
                     cache[c].line[l].state = "FULL", cache[c].line[l].tag = a
              PROVE  cache[c].line[l].data = store[a]
  BY DEF CopiesMatchMemory
<1>. DEFINE k == cache[c]
            s == Home(a)
            q == Waiting(s)
<1>1. /\ Fine(k) /\ Coherent(k, c, a, q, server[s].responses, store[a])
      /\ k.line[l].state = "FULL" /\ k.line[l].tag = a
  BY DEF CInv, Copies
<1>2. s \in Servers
  BY HomeIs
<1>3. server[s].requests \in Seq(Req) /\ server[s].active \in Seq(Req)
  BY <1>2, ServerOf
<1>4. ASSUME NEW i \in 1..Len(q) PROVE ~WriteOf(q[i], a)
  <2>. DEFINE u == server[s].active
              v == server[s].requests
  <2>1. \A r \in ToSet(v) \cup ToSet(u) : ~WriteOf(r, a)
    BY <1>2 DEF Settled, WriteOf
  <2>2. u \in Seq(Req) /\ v \in Seq(Req) /\ q = u \o v
    BY <1>3 DEF Waiting
  <2>. HIDE DEF u, v, q
  <2>3. \A j \in 1..Len(u) : ~WriteOf(u[j], a)
    BY <2>1 DEF ToSet
  <2>4. \A j \in 1..Len(v) : ~WriteOf(v[j], a)
    BY <2>1 DEF ToSet
  <2>5. CASE i \in 1..Len(u)
    BY <2>2, <2>3, <2>5, ConcatAt
  <2>6. CASE i \in (Len(u) + 1)..(Len(u) + Len(v))
    <3>1. q[i] = v[i - Len(u)]
      BY <2>2, <2>6, ConcatAt
    <3>2. Len(u) \in Nat /\ Len(v) \in Nat
      BY <2>2
    <3>3. i - Len(u) \in 1..Len(v)
      BY <2>6, <3>2
    <3>. QED  BY <2>4, <3>1, <3>3
  <2>7. i \in 1..(Len(u) + Len(v)) /\ Len(u) \in Nat /\ Len(v) \in Nat
    BY <2>2, ConcatAt
  <2>. QED  BY <2>5, <2>6, <2>7
<1>5. ASSUME NEW i \in 1..Len(k.outgoing) PROVE ~WriteOf(k.outgoing[i], a)
  BY DEF Settled, ToSet, WriteOf
<1>6. store[a] \in Data
  BY DEF IInv, StoreOK
<1>. HIDE DEF k, q, s
<1>7. ASSUME NEW b \in Byte PROVE k.line[l].data[b] = store[a][b]
  <2>1. k.line[l].data[b] # NoVal
    BY <1>1 DEF Fine, Answered, Complete
  <2>2. Unsent(k, a, b)
    BY <1>5 DEF Unsent, WritesTo, WriteOf
  <2>3. \A i \in 1..Len(q) : ~WritesTo(q[i], a, b)
    BY <1>4 DEF WritesTo, WriteOf
  <2>4. Newest(k.line[l].data[b], q, store[a], a, b)
    BY <1>1, <2>1, <2>2 DEF Coherent, CopyIsNewest, Holds
  <2>. QED  BY <2>3, <2>4 DEF Newest
<1>8. k.line[l].data \in Data
  BY <1>1 DEF Fine, Typed, LineOK
<1>9. k.line[l].data = store[a]
  <2>. DEFINE d == k.line[l].data
              m == store[a]
  <2>1. d \in Data /\ m \in Data /\ \A b \in Byte : d[b] = m[b]
    BY <1>6, <1>7, <1>8
  <2>. HIDE DEF d, m
  <2>2. d = m
    BY <2>1 DEF Data
  <2>. QED  BY <2>2 DEF d, m
<1>. QED  BY <1>9 DEF k

\* When the writes to a line have reached memory, every core that has the line
\* sees what memory holds: no copy missed a write that OnMemorySnooped passed to
\* it, and none took with OnMemoryReadCompleted the data of a read from before
\* such a write.  For every line whose reads and writes take one way, in the
\* memories in which all clients reach it there: every line of the serial and the
\* banked memory, and those of the DDR memory that its interfaces do not split.
THEOREM CopiesAgree == Spec => []CopiesMatchMemory
<1>1. Init => IInv /\ Copies
  BY InitHolds, InitCopies
<1>2. IInv /\ Copies /\ [Next]_vars => IInv' /\ Copies'
  BY NextKeeps, NextCopies
<1>3. IInv /\ Copies => CopiesMatchMemory
  BY CopiesMatch
<1>. QED  BY <1>1, <1>2, <1>3, PTL DEF Spec
=============================================================================
