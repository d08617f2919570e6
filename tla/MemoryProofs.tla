---------------------------- MODULE MemoryProofs ----------------------------
(***************************************************************************)
(* The memories of MemorySystem, whichever is configured, implement the     *)
(* service of MemoryService.                                                *)
(***************************************************************************)
EXTENDS MemorySystem, TLAPS

Data == [Byte -> Val \cup {NoVal}]
Wid == Nat \cup {None}
Req == [client : Client, seq : Nat, write : BOOLEAN, address : Addr, data : Data, wid : Wid]
Sent == [write : BOOLEAN, address : Addr, data : Data, wid : Wid]
Row == {RowOf[a] : a \in Addr} \cup {None}
Channel == [request : Seq([write : BOOLEAN, row : Row, left : Int]), pipeline : Seq(Nat),
            row : Row, command : Nat, precharge : Nat]
Fields == {"line", "lookups", "reads", "writes", "writebacks", "outgoing"}

Server == [requests : Seq(Req), timing : BOOLEAN, active : Seq(Req), responses : Seq(Req)]
CacheOK(k) == DOMAIN k = Fields /\ k.outgoing \in Seq(Sent)
CachesOK(f) == f = [c \in Client |-> f[c]] /\ \A c \in Client : CacheOK(f[c])

\* The queues of all servers: requests, active and responses are 1, 2 and 3.
HeldIn(sv, S) ==
    [x \in S \X (1..3) |-> IF x[2] = 1 THEN sv[x[1]].requests
                          ELSE IF x[2] = 2 THEN sv[x[1]].active ELSE sv[x[1]].responses]

\* The server of memory k that takes a request.
ServerFor(k, r) ==
    CASE k = "serial"   -> 0
      [] k = "parallel" -> r.client
      [] k = "banked"   -> BankOf(r.address)
      [] k = "ddr"      -> InterfaceOf(r)

\* A request held has a number its client has used, no two have the same, ...
Numbered(h, n) == \A x \in DOMAIN h : \A i \in 1..Len(h[x]) : h[x][i].seq < n[h[x][i].client]
SameRequest(q, r) == q.client = r.client /\ q.seq = r.seq
Unique(h) ==
    \A x, y \in DOMAIN h : \A i \in 1..Len(h[x]), j \in 1..Len(h[y]) :
        SameRequest(h[x][i], h[y][j]) => x = y /\ i = j
\* ... those of a client that are not done wait in order in their server, ...
Ahead(p, i, q, j) == p > q \/ (p = q /\ i < j)
Ordered(h) ==
    \A x, y \in DOMAIN h : x[1] = y[1] /\ x[2] # 3 /\ y[2] # 3 =>
        \A i \in 1..Len(h[x]), j \in 1..Len(h[y]) :
            h[x][i].client = h[y][j].client /\ Ahead(x[2], i, y[2], j) => h[x][i].seq < h[y][j].seq
\* ... and each is where its address and client send it.
Placed(h, k) == \A x \in DOMAIN h : \A i \in 1..Len(h[x]) : ServerFor(k, h[x][i]) = x[1]

Queues(sv, S, n, k) ==
    /\ sv \in [S -> Server]
    /\ Numbered(HeldIn(sv, S), n) /\ Unique(HeldIn(sv, S)) /\ Ordered(HeldIn(sv, S))
    /\ Placed(HeldIn(sv, S), k)

\* What is at work in a server: nothing where requests are timed in place; for
\* DDR, the reads the channel has taken and those in its pipeline.
Reading(ch) == IF ch.request # <<>> /\ ~Head(ch.request).write THEN 1 ELSE 0
Working(s) ==
    /\ server[s].timing => server[s].requests # <<>> /\ kind \in {"serial", "parallel"}
    /\ kind \in {"serial", "parallel"} => server[s].active = <<>>
    /\ kind = "banked" => Len(server[s].active) <= 1
    /\ kind = "ddr" =>
         /\ \A i \in 1..Len(server[s].active) : ~server[s].active[i].write
         /\ Len(server[s].active) = Len(ddr[s].pipeline) + Reading(ddr[s])

\* The part of the state the service depends on has its type, too.
StoreOK == store \in [Addr -> Data] /\ count \in [Client -> Nat] /\ stamp \in 0..MaxStores
IInv ==
    /\ kind \in Kinds /\ StoreOK /\ CachesOK(cache) /\ ddr \in [Servers -> Channel]
    /\ Queues(server, Servers, count, kind)
    /\ \A s \in Servers : Working(s)
-----------------------------------------------------------------------------
(***************************************************************************)
(* What happens to the requests held: one is put at the end of a queue, the *)
(* first of a queue is dropped, or it moves to the end of another queue.    *)
(***************************************************************************)
Put(h, g, x, r) == g = [h EXCEPT ![x] = Append(@, r)]
Drop(h, g, x) == g = [h EXCEPT ![x] = Tail(@)]
Move(h, g, x, y, r) == g = [h EXCEPT ![x] = Tail(@), ![y] = Append(@, r)]

\* The elements of a queue after each of these.
LEMMA AppendedAt ==
  ASSUME NEW S, NEW q \in Seq(S), NEW r \in S
  PROVE  /\ Append(q, r) \in Seq(S) /\ Len(Append(q, r)) = Len(q) + 1
         /\ \A i \in 1..Len(q) : Append(q, r)[i] = q[i]
         /\ Append(q, r)[Len(q) + 1] = r
  OBVIOUS

LEMMA TailAt ==
  ASSUME NEW S, NEW q \in Seq(S), q # <<>>
  PROVE  /\ Tail(q) \in Seq(S) /\ Len(Tail(q)) = Len(q) - 1 /\ Len(q) \in Nat \ {0}
         /\ \A i \in 1..Len(Tail(q)) : Tail(q)[i] = q[i + 1] /\ i + 1 \in 1..Len(q)
         /\ Head(q) = q[1] /\ 1 \in 1..Len(q) /\ Head(q) \in S
  OBVIOUS

\* The client of request r used one number more.
CountedIn(S, n, m, r) ==
    /\ \A q \in S : n[q.client] \in Nat /\ q.seq \in Nat
    /\ \A q \in S : m[q.client] = IF q.client = r.client THEN n[q.client] + 1 ELSE n[q.client]

\* A request with a fresh number is put into a queue.
LEMMA PutUnique ==
  ASSUME NEW X, NEW S, NEW h \in [X -> Seq(S)], NEW g, NEW x \in X, NEW r \in S, NEW n, NEW m,
         Put(h, g, x, r), Numbered(h, n), Unique(h),
         r.seq = n[r.client], CountedIn(S, n, m, r)
  PROVE  g \in [X -> Seq(S)] /\ Numbered(g, m) /\ Unique(g)
<1>. USE DEF CountedIn
<1>1. g \in [X -> Seq(S)] /\ DOMAIN g = X /\ DOMAIN h = X
  BY DEF Put
<1>2. \A y \in X : y # x => g[y] = h[y]
  BY DEF Put
<1>3. /\ g[x] = Append(h[x], r) /\ Len(g[x]) = Len(h[x]) + 1 /\ Len(h[x]) \in Nat
      /\ \A i \in 1..Len(h[x]) : g[x][i] = h[x][i]
      /\ g[x][Len(h[x]) + 1] = r
  BY DEF Put
<1>4. \A y \in X : \A i \in 1..Len(g[y]) :
         \/ i \in 1..Len(h[y]) /\ g[y][i] = h[y][i]
         \/ y = x /\ i = Len(h[x]) + 1 /\ g[y][i] = r
  <2>1. \A i \in 1..Len(g[x]) : i \in 1..Len(h[x]) \/ i = Len(h[x]) + 1
    BY <1>3
  <2>. QED  BY <1>2, <1>3, <2>1, Zenon
<1>5. \A y \in X : \A i \in 1..Len(h[y]) : ~SameRequest(h[y][i], r) /\ h[y][i] \in S
  BY <1>1 DEF Numbered, SameRequest
<1>6. Numbered(g, m)
  <2>. SUFFICES ASSUME NEW y \in X, NEW i \in 1..Len(g[y]) PROVE g[y][i].seq < m[g[y][i].client]
    BY <1>1 DEF Numbered
  <2>1. CASE i \in 1..Len(h[y]) /\ g[y][i] = h[y][i]
    <3>1. h[y][i].seq < n[h[y][i].client] /\ h[y][i] \in S
      BY <2>1, <1>1, <1>5 DEF Numbered
    <3>. QED  BY <3>1, <2>1
  <2>2. CASE g[y][i] = r
    BY <2>2
  <2>. QED  BY <2>1, <2>2, <1>4
<1>7. Unique(g)
  <2>. SUFFICES ASSUME NEW y \in X, NEW z \in X, NEW i \in 1..Len(g[y]), NEW j \in 1..Len(g[z]),
                       SameRequest(g[y][i], g[z][j])
                PROVE  y = z /\ i = j
    BY <1>1, Zenon DEF Unique
  <2>1. CASE i \in 1..Len(h[y]) /\ g[y][i] = h[y][i]
    <3>1. CASE j \in 1..Len(h[z]) /\ g[z][j] = h[z][j]
      <4>1. SameRequest(h[y][i], h[z][j])
        BY <2>1, <3>1
      <4>. QED  BY <4>1, <2>1, <3>1, <1>1 DEF Unique
    <3>2. CASE g[z][j] = r
      BY <2>1, <3>2, <1>5, Zenon
    <3>. QED  BY <3>1, <3>2, <1>4
  <2>2. CASE y = x /\ i = Len(h[x]) + 1 /\ g[y][i] = r
    <3>1. CASE j \in 1..Len(h[z]) /\ g[z][j] = h[z][j]
      BY <2>2, <3>1, <1>5 DEF SameRequest
    <3>2. CASE z = x /\ j = Len(h[x]) + 1
      BY <2>2, <3>2
    <3>. QED  BY <3>1, <3>2, <1>4
  <2>. QED  BY <2>1, <2>2, <1>4
<1>. QED  BY <1>1, <1>6, <1>7

\* The first request of a queue is dropped.
LEMMA DropUnique ==
  ASSUME NEW X, NEW S, NEW h \in [X -> Seq(S)], NEW g, NEW x \in X, NEW n,
         Drop(h, g, x), h[x] # <<>>, Numbered(h, n), Unique(h)
  PROVE  g \in [X -> Seq(S)] /\ Numbered(g, n) /\ Unique(g)
<1>1. g \in [X -> Seq(S)] /\ DOMAIN g = X /\ DOMAIN h = X
  BY DEF Drop
<1>2. \A y \in X : y # x => g[y] = h[y]
  BY DEF Drop
<1>3. /\ Len(g[x]) = Len(h[x]) - 1 /\ Len(h[x]) \in Nat
      /\ \A i \in 1..Len(g[x]) : g[x][i] = h[x][i + 1] /\ i + 1 \in 1..Len(h[x])
  BY TailAt DEF Drop
<1>4. \A y \in X : \A i \in 1..Len(g[y]) :
         \/ y # x /\ i \in 1..Len(h[y]) /\ g[y][i] = h[y][i]
         \/ y = x /\ i + 1 \in 1..Len(h[y]) /\ g[y][i] = h[y][i + 1]
  BY <1>2, <1>3
<1>5. Numbered(g, n)
  BY <1>1, <1>4 DEF Numbered
<1>6. Unique(g)
  <2>. SUFFICES ASSUME NEW y \in X, NEW z \in X, NEW i \in 1..Len(g[y]), NEW j \in 1..Len(g[z]),
                       SameRequest(g[y][i], g[z][j])
                PROVE  y = z /\ i = j
    BY <1>1, Zenon DEF Unique
  <2>1. PICK a \in 1..Len(h[y]) : g[y][i] = h[y][a] /\ a = IF y = x THEN i + 1 ELSE i
    BY <1>4
  <2>2. PICK b \in 1..Len(h[z]) : g[z][j] = h[z][b] /\ b = IF z = x THEN j + 1 ELSE j
    BY <1>4
  <2>3. SameRequest(h[y][a], h[z][b])
    BY <2>1, <2>2
  <2>4. y = z /\ a = b
    BY <2>3, <1>1 DEF Unique
  <2>. QED  BY <2>1, <2>2, <2>4
<1>. QED  BY <1>1, <1>5, <1>6

\* The first request of a queue goes to the end of another; those at the
\* start are as IInv says.
Moves(X, h, g, x, y, r) ==
    /\ h \in [X -> Seq(Req)] /\ x \in X /\ y \in X /\ r \in Req /\ x # y /\ x[1] = y[1]
    /\ Move(h, g, x, y, r) /\ h[x] # <<>>
Moving(h, x, r, n, k) ==
    /\ SameRequest(r, Head(h[x])) /\ ServerFor(k, r) = ServerFor(k, Head(h[x]))
    /\ Numbered(h, n) /\ Unique(h) /\ Placed(h, k)

LEMMA MoveUnique ==
  ASSUME NEW X, NEW h, NEW g, NEW x, NEW y, NEW r, NEW n, NEW k,
         Moves(X, h, g, x, y, r), Moving(h, x, r, n, k)
  PROVE  Numbered(g, n) /\ Unique(g)
<1>. DEFINE S == Req
<1>. HIDE DEF S
<1>. /\ h \in [X -> Seq(S)] /\ x \in X /\ y \in X /\ r \in S /\ x # y /\ h[x] # <<>>
     /\ Move(h, g, x, y, r)
  BY DEF Moves, S
<1>. SameRequest(r, Head(h[x])) /\ Numbered(h, n) /\ Unique(h)
  BY DEF Moving
<1>. /\ Tail(h[x]) \in Seq(S) /\ Len(Tail(h[x])) = Len(h[x]) - 1 /\ Len(h[x]) \in Nat \ {0}
     /\ \A i \in 1..Len(Tail(h[x])) : Tail(h[x])[i] = h[x][i + 1] /\ i + 1 \in 1..Len(h[x])
     /\ Head(h[x]) = h[x][1] /\ 1 \in 1..Len(h[x])
  BY TailAt
<1>. Append(h[y], r) \in Seq(S)
  OBVIOUS
<1>1. g \in [X -> Seq(S)] /\ DOMAIN g = X /\ DOMAIN h = X
  BY DEF Move
<1>2. /\ \A z \in X : z # x /\ z # y => g[z] = h[z]
      /\ g[x] = Tail(h[x]) /\ g[y] = Append(h[y], r)
  BY DEF Move
<1>3. /\ Len(g[x]) = Len(h[x]) - 1 /\ Len(h[x]) \in Nat
      /\ \A i \in 1..Len(g[x]) : g[x][i] = h[x][i + 1] /\ i + 1 \in 1..Len(h[x])
      /\ 1 \in 1..Len(h[x]) /\ SameRequest(r, h[x][1])
  BY <1>2
<1>4. /\ Len(g[y]) = Len(h[y]) + 1 /\ Len(h[y]) \in Nat /\ g[y][Len(h[y]) + 1] = r
      /\ \A i \in 1..Len(h[y]) : g[y][i] = h[y][i]
  BY <1>2
<1>5. \A z \in X : \A i \in 1..Len(g[z]) :
         \/ z # x /\ i \in 1..Len(h[z]) /\ g[z][i] = h[z][i]
         \/ z = x /\ i + 1 \in 1..Len(h[x]) /\ g[z][i] = h[x][i + 1]
         \/ z = y /\ i = Len(h[y]) + 1 /\ g[z][i] = r
  <2>1. \A i \in 1..Len(g[x]) : i + 1 \in 1..Len(h[x]) /\ g[x][i] = h[x][i + 1]
    BY <1>3
  <2>2. \A i \in 1..Len(g[y]) : \/ i \in 1..Len(h[y]) /\ g[y][i] = h[y][i]
                                \/ i = Len(h[y]) + 1 /\ g[y][i] = r
    BY <1>4
  <2>. QED  BY <1>2, <2>1, <2>2
\* The place a request had before.
<1>. DEFINE From(z, i, p, a) == /\ SameRequest(g[z][i], h[p][a])
                                /\ IF z = y /\ i = Len(h[y]) + 1 THEN p = x /\ a = 1
                                   ELSE p = z /\ a = IF z = x THEN i + 1 ELSE i
<1>6. \A z \in X : \A i \in 1..Len(g[z]) : \E p \in X : \E a \in 1..Len(h[p]) : From(z, i, p, a)
  <2>. SUFFICES ASSUME NEW z \in X, NEW i \in 1..Len(g[z])
                PROVE  \E p \in X : \E a \in 1..Len(h[p]) : From(z, i, p, a)
    OBVIOUS
  <2>0. \A q : SameRequest(q, q)
    BY DEF SameRequest
  <2>1. CASE z # x /\ i \in 1..Len(h[z]) /\ g[z][i] = h[z][i]
    BY <2>0, <2>1, <1>4
  <2>2. CASE z = x /\ i + 1 \in 1..Len(h[x]) /\ g[z][i] = h[x][i + 1]
    BY <2>0, <2>2
  <2>3. CASE z = y /\ i = Len(h[y]) + 1 /\ g[z][i] = r
    BY <2>3, <1>3
  <2>. QED  BY <2>1, <2>2, <2>3, <1>5
<1>7. Numbered(g, n)
  <2>. SUFFICES ASSUME NEW z \in X, NEW i \in 1..Len(g[z]) PROVE g[z][i].seq < n[g[z][i].client]
    BY <1>1 DEF Numbered
  <2>1. PICK p \in X : \E a \in 1..Len(h[p]) : SameRequest(g[z][i], h[p][a])
    BY <1>6
  <2>0. PICK a \in 1..Len(h[p]) : SameRequest(g[z][i], h[p][a])
    BY <2>1
  <2>2. h[p][a].seq < n[h[p][a].client]
    BY <1>1 DEF Numbered
  <2>. QED  BY <2>0, <2>2 DEF SameRequest
<1>8. Unique(g)
  <2>. SUFFICES ASSUME NEW v \in X, NEW z \in X, NEW i \in 1..Len(g[v]), NEW j \in 1..Len(g[z]),
                       SameRequest(g[v][i], g[z][j])
                PROVE  v = z /\ i = j
    BY <1>1, Zenon DEF Unique
  <2>1. PICK p \in X : \E a \in 1..Len(h[p]) : From(v, i, p, a)
    BY <1>6
  <2>1a. PICK a \in 1..Len(h[p]) : From(v, i, p, a)
    BY <2>1
  <2>2. PICK q \in X : \E b \in 1..Len(h[q]) : From(z, j, q, b)
    BY <1>6
  <2>2a. PICK b \in 1..Len(h[q]) : From(z, j, q, b)
    BY <2>2
  <2>3. SameRequest(h[p][a], h[q][b])
    BY <2>1a, <2>2a DEF SameRequest
  <2>4. p = q /\ a = b
    BY <2>3, <1>1 DEF Unique
  <2>5. i \in Nat \ {0} /\ j \in Nat \ {0}
    OBVIOUS
  <2>6. IF v = y /\ i = Len(h[y]) + 1 THEN p = x /\ a = 1 ELSE p = v /\ a = IF v = x THEN i + 1 ELSE i
    BY <2>1a
  <2>7. IF z = y /\ j = Len(h[y]) + 1 THEN p = x /\ a = 1 ELSE p = z /\ a = IF z = x THEN j + 1 ELSE j
    BY <2>2a, <2>4
  <2>. HIDE DEF From
  <2>8. CASE v = y /\ i = Len(h[y]) + 1
    BY <2>8, <2>5, <2>6, <2>7
  <2>9. CASE ~(v = y /\ i = Len(h[y]) + 1)
    BY <2>9, <2>5, <2>6, <2>7
  <2>. QED  BY <2>8, <2>9
<1>. QED  BY <1>7, <1>8

\* Requests stay where their client and address send them.
LEMMA PutPlaced ==
  ASSUME NEW X, NEW S, NEW h \in [X -> Seq(S)], NEW g, NEW x \in X, NEW r \in S, NEW k,
         Put(h, g, x, r), ServerFor(k, r) = x[1], Placed(h, k)
  PROVE  Placed(g, k)
<1>1. DOMAIN g = X /\ DOMAIN h = X
  BY DEF Put
<1>2. \A y \in X : \A i \in 1..Len(g[y]) :
         \/ i \in 1..Len(h[y]) /\ g[y][i] = h[y][i]
         \/ y = x /\ g[y][i] = r
  BY DEF Put
<1>. QED  BY <1>1, <1>2 DEF Placed

LEMMA DropPlaced ==
  ASSUME NEW X, NEW S, NEW h \in [X -> Seq(S)], NEW g, NEW x \in X, NEW k,
         Drop(h, g, x), h[x] # <<>>, Placed(h, k)
  PROVE  Placed(g, k)
<1>1. DOMAIN g = X /\ DOMAIN h = X /\ g[x] = Tail(h[x]) /\ \A y \in X : y # x => g[y] = h[y]
  BY DEF Drop
<1>2. \A i \in 1..Len(g[x]) : g[x][i] = h[x][i + 1] /\ i + 1 \in 1..Len(h[x])
  BY <1>1, TailAt
<1>3. \A y \in X : \A i \in 1..Len(g[y]) : \E a \in 1..Len(h[y]) : g[y][i] = h[y][a]
  BY <1>1, <1>2
<1>. QED  BY <1>1, <1>3 DEF Placed

LEMMA MovePlaced ==
  ASSUME NEW X, NEW S, NEW h \in [X -> Seq(S)], NEW g, NEW x \in X, NEW y \in X, NEW r \in S, NEW k,
         Move(h, g, x, y, r), h[x] # <<>>, x # y, x[1] = y[1],
         ServerFor(k, r) = ServerFor(k, Head(h[x])), Placed(h, k)
  PROVE  Placed(g, k)
<1>. DEFINE f == [h EXCEPT ![x] = Tail(@)]
<1>1. Drop(h, f, x)
  BY DEF Drop
<1>2. Tail(h[x]) \in Seq(S) /\ 1 \in 1..Len(h[x]) /\ Head(h[x]) = h[x][1]
  BY TailAt
<1>3. f \in [X -> Seq(S)] /\ f[y] = h[y]
  BY <1>2
<1>4. Put(f, g, y, r)
  BY <1>3 DEF Move, Put
<1>5. Placed(f, k)
  BY <1>1, DropPlaced
<1>6. ServerFor(k, r) = y[1]
  BY <1>2 DEF Placed
<1>. HIDE DEF f
<1>. QED  BY <1>3, <1>4, <1>5, <1>6, PutPlaced

LEMMA PairsEqual ==
  ASSUME NEW T, NEW U, NEW u \in T \X U, NEW v \in T \X U, u[1] = v[1], u[2] = v[2]
  PROVE  u = v
  OBVIOUS

\* A request put last among those to be done has the highest number of its
\* client.
LEMMA PutOrdered ==
  ASSUME NEW T, NEW S, NEW h \in [T \X (1..3) -> Seq(S)], NEW g, NEW x \in T \X (1..3), NEW r \in S, NEW n,
         Put(h, g, x, r), x[2] = 1, Numbered(h, n), Ordered(h), r.seq = n[r.client]
  PROVE  Ordered(g)
<1>. DEFINE X == T \X (1..3)
<1>1. g \in [X -> Seq(S)] /\ DOMAIN g = X /\ DOMAIN h = X
  BY DEF Put
<1>2. \A y \in X : y # x => g[y] = h[y]
  BY DEF Put
<1>3. /\ g[x] = Append(h[x], r) /\ Len(g[x]) = Len(h[x]) + 1 /\ Len(h[x]) \in Nat
      /\ \A i \in 1..Len(h[x]) : g[x][i] = h[x][i]
      /\ g[x][Len(h[x]) + 1] = r
  BY DEF Put
<1>4. \A y \in X : \A i \in 1..Len(g[y]) :
         \/ i \in 1..Len(h[y]) /\ g[y][i] = h[y][i]
         \/ y = x /\ i = Len(h[x]) + 1 /\ g[y][i] = r
  BY <1>2, <1>3
<1>5. \A y \in X : y[2] \in 1..3
  OBVIOUS
<1>. SUFFICES ASSUME NEW y \in X, NEW z \in X, y[1] = z[1], y[2] # 3, z[2] # 3,
                     NEW i \in 1..Len(g[y]), NEW j \in 1..Len(g[z]),
                     g[y][i].client = g[z][j].client, Ahead(y[2], i, z[2], j)
              PROVE  g[y][i].seq < g[z][j].seq
  BY <1>1 DEF Ordered
<1>6. CASE i \in 1..Len(h[y]) /\ g[y][i] = h[y][i]
  <2>1. CASE j \in 1..Len(h[z]) /\ g[z][j] = h[z][j]
    BY <1>6, <2>1, <1>1 DEF Ordered
  <2>2. CASE g[z][j] = r
    <3>1. h[y][i].seq < n[h[y][i].client]
      BY <1>6, <1>1 DEF Numbered
    <3>. QED  BY <3>1, <2>2, <1>6
  <2>. QED  BY <2>1, <2>2, <1>4
<1>7. CASE y = x /\ i = Len(h[x]) + 1
  <2>1. z[2] \in 1..3 /\ z[2] = 1
    BY <1>7, <1>5 DEF Ahead
  <2>2. z = x
    BY <2>1, <1>7
  <2>. QED  BY <2>2, <1>7, <1>3 DEF Ahead
<1>. QED  BY <1>4, <1>6, <1>7

\* The first of a queue leaves those to be done.
Leaves(h, g, x) ==
    DOMAIN g = DOMAIN h /\ g[x] = Tail(h[x]) /\ \A y \in DOMAIN h : y # x /\ y[2] # 3 => g[y] = h[y]

LEMMA LeaveOrdered ==
  ASSUME NEW T, NEW S, NEW h \in [T \X (1..3) -> Seq(S)], NEW g, NEW x \in T \X (1..3), h[x] # <<>>,
         Ordered(h), Leaves(h, g, x)
  PROVE  Ordered(g)
<1>. USE DEF Leaves
<1>. DEFINE X == T \X (1..3)
<1>1. DOMAIN h = X
  OBVIOUS
<1>2. \A i \in 1..Len(g[x]) : g[x][i] = h[x][i + 1] /\ i + 1 \in 1..Len(h[x])
  BY TailAt
<1>3. \A y \in X : \A i \in 1..Len(g[y]) : y[2] # 3 =>
         \E a \in 1..Len(h[y]) : g[y][i] = h[y][a] /\ a = IF y = x THEN i + 1 ELSE i
  BY <1>2
<1>. SUFFICES ASSUME NEW y \in X, NEW z \in X, y[1] = z[1], y[2] # 3, z[2] # 3,
                     NEW i \in 1..Len(g[y]), NEW j \in 1..Len(g[z]),
                     g[y][i].client = g[z][j].client, Ahead(y[2], i, z[2], j)
              PROVE  g[y][i].seq < g[z][j].seq
  BY DEF Ordered
<1>4. PICK a \in 1..Len(h[y]) : g[y][i] = h[y][a] /\ a = IF y = x THEN i + 1 ELSE i
  BY <1>3
<1>5. PICK b \in 1..Len(h[z]) : g[z][j] = h[z][b] /\ b = IF z = x THEN j + 1 ELSE j
  BY <1>3
<1>6. y[2] = z[2] => y = z
  OBVIOUS
<1>7. Ahead(y[2], a, z[2], b)
  BY <1>4, <1>5, <1>6 DEF Ahead
<1>8. h[y][a].client = h[z][b].client
  BY <1>4, <1>5
<1>9. h[y][a].seq < h[z][b].seq
  BY <1>1, <1>7, <1>8 DEF Ordered
<1>. QED  BY <1>4, <1>5, <1>9

\* The first of the requests of a server comes to the end of those at work.
LEMMA AdvanceOrdered ==
  ASSUME NEW T, NEW S, NEW h \in [T \X (1..3) -> Seq(S)], NEW g, NEW s \in T,
         Move(h, g, <<s, 1>>, <<s, 2>>, Head(h[<<s, 1>>])), h[<<s, 1>>] # <<>>, Ordered(h)
  PROVE  Ordered(g)
<1>. DEFINE X == T \X (1..3)
            x == <<s, 1>>
            w == <<s, 2>>
<1>0. x \in X /\ w \in X /\ x # w /\ DOMAIN h = X
  OBVIOUS
<1>1. /\ DOMAIN h = X /\ DOMAIN g = X /\ x \in X /\ w \in X /\ x # w
      /\ g[x] = Tail(h[x]) /\ g[w] = Append(h[w], Head(h[x]))
      /\ \A y \in X : y # x /\ y # w => g[y] = h[y]
  <2>1. g = [h EXCEPT ![x] = Tail(@), ![w] = Append(@, Head(h[x]))]
    BY DEF Move
  <2>. HIDE DEF X, x, w
  <2>. QED  BY <1>0, <2>1
<1>2. /\ \A i \in 1..Len(g[x]) : g[x][i] = h[x][i + 1] /\ i + 1 \in 1..Len(h[x])
      /\ 1 \in 1..Len(h[x]) /\ Head(h[x]) = h[x][1]
  BY <1>1, TailAt
<1>3. \A i \in 1..Len(g[w]) : \/ i \in 1..Len(h[w]) /\ g[w][i] = h[w][i]
                              \/ i = Len(h[w]) + 1 /\ g[w][i] = h[x][1]
  BY <1>1, <1>2
<1>. DEFINE From(y, i, p, a) == /\ g[y][i] = h[p][a]
                                /\ IF y = w /\ i = Len(h[w]) + 1 THEN p = x /\ a = 1
                                   ELSE p = y /\ a = IF y = x THEN i + 1 ELSE i
<1>4. \A y \in X : \A i \in 1..Len(g[y]) : \E p \in X : \E a \in 1..Len(h[p]) : From(y, i, p, a)
  <2>. SUFFICES ASSUME NEW y \in X, NEW i \in 1..Len(g[y])
                PROVE  \E p \in X : \E a \in 1..Len(h[p]) : From(y, i, p, a)
    OBVIOUS
  <2>1. CASE y = x
    BY <2>1, <1>1, <1>2
  <2>2. CASE y = w
    <3>1. CASE i \in 1..Len(h[w]) /\ g[w][i] = h[w][i]
      <4>1. Len(h[w]) \in Nat /\ i # Len(h[w]) + 1
        BY <3>1, <1>1
      <4>. QED  BY <3>1, <4>1, <2>2, <1>1
    <3>2. CASE i = Len(h[w]) + 1 /\ g[w][i] = h[x][1]
      BY <3>2, <2>2, <1>1, <1>2
    <3>. QED  BY <2>2, <3>1, <3>2, <1>3
  <2>3. CASE y # x /\ y # w
    BY <2>3, <1>1
  <2>. QED  BY <2>1, <2>2, <2>3
<1>. SUFFICES ASSUME NEW y \in X, NEW z \in X, y[1] = z[1], y[2] # 3, z[2] # 3,
                     NEW i \in 1..Len(g[y]), NEW j \in 1..Len(g[z]),
                     g[y][i].client = g[z][j].client, Ahead(y[2], i, z[2], j)
              PROVE  g[y][i].seq < g[z][j].seq
  BY <1>1 DEF Ordered
<1>5. PICK p \in X : \E a \in 1..Len(h[p]) : From(y, i, p, a)
  BY <1>4
<1>5a. PICK a \in 1..Len(h[p]) : From(y, i, p, a)
  BY <1>5
<1>6. PICK q \in X : \E b \in 1..Len(h[q]) : From(z, j, q, b)
  BY <1>4
<1>6a. PICK b \in 1..Len(h[q]) : From(z, j, q, b)
  BY <1>6
<1>7. p[1] = q[1] /\ p[2] # 3 /\ q[2] # 3
  BY <1>5a, <1>6a
<1>8. Ahead(p[2], a, q[2], b)
  <2>1. IF y = w /\ i = Len(h[w]) + 1 THEN p = x /\ a = 1 ELSE p = y /\ a = IF y = x THEN i + 1 ELSE i
    BY <1>5a
  <2>2. IF z = w /\ j = Len(h[w]) + 1 THEN q = x /\ b = 1 ELSE q = z /\ b = IF z = x THEN j + 1 ELSE j
    BY <1>6a
  <2>3. /\ y[2] \in {1, 2} /\ z[2] \in {1, 2} /\ Len(g[w]) = Len(h[w]) + 1 /\ Len(h[w]) \in Nat
        /\ i \in Nat \ {0} /\ j \in Nat \ {0} /\ i <= Len(g[y]) /\ j <= Len(g[z])
        /\ x[1] = s /\ x[2] = 1 /\ w[1] = s /\ w[2] = 2
    <3>1. y[2] \in {1, 2} /\ z[2] \in {1, 2}
      OBVIOUS
    <3>2. Len(g[w]) = Len(h[w]) + 1 /\ Len(h[w]) \in Nat
      BY <1>0, <1>1, AppendedAt, <1>2
    <3>3. \A v \in X : Len(g[v]) \in Nat
      BY <1>1, <1>2, <3>2
    <3>. QED  BY <3>1, <3>2, <3>3
  <2>4. \A v \in X : (v = x <=> v[1] = s /\ v[2] = 1) /\ (v = w <=> v[1] = s /\ v[2] = 2)
    <3>1. \A u, v \in X : u[1] = v[1] /\ u[2] = v[2] => u = v
      <4>1. ASSUME NEW u \in X, NEW v \in X, u[1] = v[1], u[2] = v[2] PROVE u = v
        BY <4>1, PairsEqual
      <4>. QED  BY <4>1
    <3>2. x[1] = s /\ x[2] = 1 /\ w[1] = s /\ w[2] = 2
      OBVIOUS
    <3>. HIDE DEF X, x, w
    <3>. QED  BY <3>1, <3>2, <1>0
  <2>. HIDE DEF From, x, w, X
  <2>5. CASE y[1] = s
    <3>1. CASE y = w /\ i = Len(h[w]) + 1
      BY <3>1, <2>1, <2>2, <2>3, <2>4 DEF Ahead
    <3>2. CASE y = w /\ i # Len(h[w]) + 1
      BY <3>2, <2>1, <2>2, <2>3, <2>4 DEF Ahead
    <3>3. CASE y = x
      BY <3>3, <2>1, <2>2, <2>3, <2>4, <2>5 DEF Ahead
    <3>. QED  BY <2>3, <2>4, <2>5, <3>1, <3>2, <3>3
  <2>6. CASE y[1] # s
    BY <2>6, <2>1, <2>2, <2>3, <2>4 DEF Ahead
  <2>. QED  BY <2>5, <2>6
<1>9. h[p][a].seq < h[q][b].seq
  BY <1>1, <1>5a, <1>6a, <1>7, <1>8 DEF Ordered
<1>. QED  BY <1>9, <1>5a, <1>6a
-----------------------------------------------------------------------------
(***************************************************************************)
(* The requests under way, as MemoryService sees those held.                *)
(***************************************************************************)
View(q, r) == IF q = 3 THEN Seen(r, TRUE) ELSE Seen(r, FALSE)
AskedOf(h) == UNION {{View(x[2], h[x][i]) : i \in 1..Len(h[x])} : x \in DOMAIN h}

LEMMA InAsked ==
  ASSUME NEW h, NEW v
  PROVE  v \in AskedOf(h) <=> \E x \in DOMAIN h : \E i \in 1..Len(h[x]) : v = View(x[2], h[x][i])
<1>1. v \in AskedOf(h) <=> \E x \in DOMAIN h : v \in {View(x[2], h[x][i]) : i \in 1..Len(h[x])}
  BY DEF AskedOf
<1>. QED  BY <1>1

LEMMA ViewSame ==
  ASSUME NEW p, NEW q, NEW a, NEW b, View(p, a) = View(q, b)
  PROVE  SameRequest(a, b)
  BY DEF View, Seen, SameRequest

LEMMA PutAsked ==
  ASSUME NEW X, NEW S, NEW h \in [X -> Seq(S)], NEW g, NEW x \in X, NEW r \in S, Put(h, g, x, r)
  PROVE  AskedOf(g) = AskedOf(h) \cup {View(x[2], r)}
<1>1. DOMAIN g = X /\ DOMAIN h = X
  BY DEF Put
<1>2. \A y \in X : y # x => g[y] = h[y]
  BY DEF Put
<1>3. /\ Len(g[x]) = Len(h[x]) + 1 /\ Len(h[x]) \in Nat
      /\ \A i \in 1..Len(h[x]) : g[x][i] = h[x][i]
      /\ g[x][Len(h[x]) + 1] = r
  BY DEF Put
<1>4. ASSUME NEW v \in AskedOf(g) PROVE v \in AskedOf(h) \cup {View(x[2], r)}
  <2>1. PICK y \in X : \E i \in 1..Len(g[y]) : v = View(y[2], g[y][i])
    BY <1>1, <1>4, InAsked
  <2>2. PICK i \in 1..Len(g[y]) : v = View(y[2], g[y][i])
    BY <2>1
  <2>3. CASE i \in 1..Len(h[y]) /\ g[y][i] = h[y][i]
    BY <2>2, <2>3, <1>1, InAsked
  <2>4. CASE y = x /\ g[y][i] = r
    BY <2>2, <2>4
  <2>. QED  BY <2>3, <2>4, <1>2, <1>3
<1>5. ASSUME NEW v \in AskedOf(h) PROVE v \in AskedOf(g)
  <2>1. PICK y \in X : \E i \in 1..Len(h[y]) : v = View(y[2], h[y][i])
    BY <1>1, <1>5, InAsked
  <2>2. PICK i \in 1..Len(h[y]) : v = View(y[2], h[y][i])
    BY <2>1
  <2>3. i \in 1..Len(g[y]) /\ g[y][i] = h[y][i]
    BY <1>2, <1>3
  <2>. QED  BY <2>2, <2>3, <1>1, InAsked
<1>6. View(x[2], r) \in AskedOf(g)
  <2>1. Len(h[x]) + 1 \in 1..Len(g[x])
    BY <1>3
  <2>. QED  BY <2>1, <1>1, <1>3, InAsked
<1>. QED  BY <1>4, <1>5, <1>6

LEMMA DropAsked ==
  ASSUME NEW X, NEW S, NEW h \in [X -> Seq(S)], NEW g, NEW x \in X, Drop(h, g, x), h[x] # <<>>, Unique(h)
  PROVE  AskedOf(g) = AskedOf(h) \ {View(x[2], Head(h[x]))}
<1>1. DOMAIN g = X /\ DOMAIN h = X
  BY DEF Drop
<1>2. \A y \in X : y # x => g[y] = h[y]
  BY DEF Drop
<1>3. /\ Len(g[x]) = Len(h[x]) - 1 /\ Len(h[x]) \in Nat
      /\ \A i \in 1..Len(g[x]) : g[x][i] = h[x][i + 1] /\ i + 1 \in 1..Len(h[x])
      /\ 1 \in 1..Len(h[x]) /\ Head(h[x]) = h[x][1]
  BY TailAt DEF Drop
<1>4. \A y \in X : \A i \in 1..Len(g[y]) :
         \E a \in 1..Len(h[y]) : g[y][i] = h[y][a] /\ (y = x => a # 1)
  <2>1. \A i \in 1..Len(g[x]) : g[x][i] = h[x][i + 1] /\ i + 1 \in 1..Len(h[x]) /\ i + 1 # 1
    BY <1>3
  <2>. QED  BY <1>2, <2>1
<1>5. \A y \in X : \A i \in 1..Len(h[y]) :
         (y = x /\ i = 1) \/ \E a \in 1..Len(g[y]) : g[y][a] = h[y][i]
  <2>. SUFFICES ASSUME NEW y \in X, NEW i \in 1..Len(h[y]), ~(y = x /\ i = 1)
                PROVE  \E a \in 1..Len(g[y]) : g[y][a] = h[y][i]
    OBVIOUS
  <2>1. CASE y = x
    <3>1. i - 1 \in 1..Len(g[x]) /\ g[x][i - 1] = h[x][(i - 1) + 1] /\ (i - 1) + 1 = i
      BY <2>1, <1>3
    <3>. QED  BY <2>1, <3>1
  <2>2. CASE y # x
    BY <2>2, <1>2
  <2>. QED  BY <2>1, <2>2
<1>6. ASSUME NEW v \in AskedOf(g) PROVE v \in AskedOf(h) /\ v # View(x[2], Head(h[x]))
  <2>1. PICK y \in X : \E i \in 1..Len(g[y]) : v = View(y[2], g[y][i])
    BY <1>1, <1>6, InAsked
  <2>2. PICK i \in 1..Len(g[y]) : v = View(y[2], g[y][i])
    BY <2>1
  <2>3. PICK a \in 1..Len(h[y]) : g[y][i] = h[y][a] /\ (y = x => a # 1)
    BY <1>4
  <2>4. v \in AskedOf(h)
    BY <2>2, <2>3, <1>1, InAsked
  <2>5. ASSUME v = View(x[2], Head(h[x])) PROVE FALSE
    <3>1. SameRequest(h[y][a], h[x][1])
      BY <2>2, <2>3, <2>5, <1>3, ViewSame
    <3>. QED  BY <3>1, <2>3, <1>1, <1>3 DEF Unique
  <2>. QED  BY <2>4, <2>5
<1>7. ASSUME NEW v \in AskedOf(h), v # View(x[2], Head(h[x])) PROVE v \in AskedOf(g)
  <2>1. PICK y \in X : \E i \in 1..Len(h[y]) : v = View(y[2], h[y][i])
    BY <1>1, <1>7, InAsked
  <2>2. PICK i \in 1..Len(h[y]) : v = View(y[2], h[y][i])
    BY <2>1
  <2>3. ~(y = x /\ i = 1)
    BY <2>2, <1>7, <1>3
  <2>4. PICK a \in 1..Len(g[y]) : g[y][a] = h[y][i]
    BY <2>3, <1>5
  <2>. QED  BY <2>2, <2>4, <1>1, InAsked
<1>. QED  BY <1>6, <1>7

\* A move is a drop and a put.
LEMMA MoveAsked ==
  ASSUME NEW X, NEW S, NEW h \in [X -> Seq(S)], NEW g, NEW x \in X, NEW y \in X, NEW r \in S,
         Move(h, g, x, y, r), h[x] # <<>>, x # y, Unique(h)
  PROVE  AskedOf(g) = (AskedOf(h) \ {View(x[2], Head(h[x]))}) \cup {View(y[2], r)}
<1>. DEFINE k == [h EXCEPT ![x] = Tail(@)]
<1>1. Drop(h, k, x)
  BY DEF Drop
<1>2. Tail(h[x]) \in Seq(S)
  BY TailAt
<1>3. k \in [X -> Seq(S)] /\ k[y] = h[y]
  BY <1>2
<1>4. Put(k, g, y, r)
  BY <1>3 DEF Move, Put
<1>5. AskedOf(k) = AskedOf(h) \ {View(x[2], Head(h[x]))}
  BY <1>1, DropAsked
<1>. HIDE DEF k
<1>6. AskedOf(g) = AskedOf(k) \cup {View(y[2], r)}
  BY <1>3, <1>4, PutAsked
<1>. QED  BY <1>5, <1>6

\* The head of a queue is under way.
LEMMA HeadAsked ==
  ASSUME NEW X, NEW S, NEW h \in [X -> Seq(S)], NEW x \in X, h[x] # <<>>
  PROVE  View(x[2], Head(h[x])) \in AskedOf(h)
<1>1. 1 \in 1..Len(h[x]) /\ Head(h[x]) = h[x][1]
  BY TailAt
<1>. QED  BY <1>1, InAsked

-----------------------------------------------------------------------------
(***************************************************************************)
(* What a step of a server does to the requests held.                       *)
(***************************************************************************)
LEMMA HeldType ==
  ASSUME NEW S, NEW sv \in [S -> Server]
  PROVE  /\ HeldIn(sv, S) \in [S \X (1..3) -> Seq(Req)]
         /\ \A s \in S : /\ HeldIn(sv, S)[<<s, 1>>] = sv[s].requests
                         /\ HeldIn(sv, S)[<<s, 2>>] = sv[s].active
                         /\ HeldIn(sv, S)[<<s, 3>>] = sv[s].responses
<1>1. \A s \in S : sv[s].requests \in Seq(Req) /\ sv[s].active \in Seq(Req) /\ sv[s].responses \in Seq(Req)
  BY DEF Server
<1>. QED  BY <1>1 DEF HeldIn

\* The queues of the servers are given by those of the server that changes.
LEMMA HeldOthers ==
  ASSUME NEW S, NEW sv \in [S -> Server], NEW tv \in [S -> Server], NEW s \in S,
         \A t \in S : t # s => tv[t] = sv[t]
  PROVE  \A x \in S \X (1..3) : x[1] # s => HeldIn(tv, S)[x] = HeldIn(sv, S)[x]
  BY DEF HeldIn

\* Two functions with the same values.
LEMMA SameFunction ==
  ASSUME NEW X, NEW f, NEW g, f = [x \in X |-> f[x]], g = [x \in X |-> g[x]], \A x \in X : f[x] = g[x]
  PROVE  f = g
  OBVIOUS

LEMMA ThreeQueues ==
  ASSUME NEW S, NEW s \in S, NEW x \in S \X (1..3), x[1] = s
  PROVE  x = <<s, 1>> \/ x = <<s, 2>> \/ x = <<s, 3>>
<1>1. x[2] = 1 \/ x[2] = 2 \/ x[2] = 3
  OBVIOUS
<1>2. \A q \in 1..3 : <<s, q>> \in S \X (1..3) /\ <<s, q>>[1] = s /\ <<s, q>>[2] = q
  OBVIOUS
<1>. QED  BY <1>1, <1>2, PairsEqual

LEMMA ServerPuts ==
  ASSUME NEW S, NEW sv \in [S -> Server], NEW tv \in [S -> Server], NEW s \in S, NEW r \in Req,
         \A t \in S : t # s => tv[t] = sv[t],
         tv[s].requests = Append(sv[s].requests, r), tv[s].active = sv[s].active,
         tv[s].responses = sv[s].responses
  PROVE  Put(HeldIn(sv, S), HeldIn(tv, S), <<s, 1>>, r)
<1>. DEFINE h == HeldIn(sv, S)
            g == HeldIn(tv, S)
            k == [h EXCEPT ![<<s, 1>>] = Append(@, r)]
            X == S \X (1..3)
<1>1. DOMAIN h = X /\ h = [x \in X |-> h[x]] /\ g = [x \in X |-> g[x]]
  BY DEF HeldIn
<1>2. h[<<s, 1>>] = sv[s].requests /\ h[<<s, 2>>] = sv[s].active /\ h[<<s, 3>>] = sv[s].responses
  BY DEF HeldIn
<1>2a. g[<<s, 1>>] = tv[s].requests /\ g[<<s, 2>>] = tv[s].active /\ g[<<s, 3>>] = tv[s].responses
  BY DEF HeldIn
<1>3. \A x \in X : x[1] # s => g[x] = h[x]
  BY HeldOthers
<1>4. <<s, 1>> \in X /\ <<s, 2>> \in X /\ <<s, 3>> \in X
  OBVIOUS
<1>. HIDE DEF h, g, X
<1>5. k = [x \in X |-> k[x]]
  BY <1>1
<1>6. ASSUME NEW x \in X PROVE g[x] = k[x]
  <2>1. CASE x[1] # s
    <3>1. x # <<s, 1>> /\ x # <<s, 2>> /\ x # <<s, 3>>
      BY <2>1
    <3>. QED  BY <3>1, <2>1, <1>1, <1>3
  <2>2. CASE x[1] = s
    <3>1. x = <<s, 1>> \/ x = <<s, 2>> \/ x = <<s, 3>>
      BY <2>2, ThreeQueues DEF X
    <3>2. <<s, 1>> # <<s, 2>> /\ <<s, 1>> # <<s, 3>> /\ <<s, 2>> # <<s, 3>>
      OBVIOUS
    <3>. QED  BY <3>1, <3>2, <1>1, <1>2, <1>2a, <1>4
  <2>. QED  BY <2>1, <2>2
<1>. HIDE DEF k
<1>7. g = k
  BY <1>1, <1>5, <1>6, SameFunction, Zenon
<1>. QED  BY <1>7 DEF Put, h, g, k

LEMMA ServerDropsFirst ==
  ASSUME NEW S, NEW sv \in [S -> Server], NEW tv \in [S -> Server], NEW s \in S,
         \A t \in S : t # s => tv[t] = sv[t],
         tv[s].requests = Tail(sv[s].requests), tv[s].active = sv[s].active,
         tv[s].responses = sv[s].responses
  PROVE  Drop(HeldIn(sv, S), HeldIn(tv, S), <<s, 1>>)
<1>. DEFINE h == HeldIn(sv, S)
            g == HeldIn(tv, S)
            k == [h EXCEPT ![<<s, 1>>] = Tail(@)]
            X == S \X (1..3)
<1>1. DOMAIN h = X /\ h = [x \in X |-> h[x]] /\ g = [x \in X |-> g[x]]
  BY DEF HeldIn
<1>2. h[<<s, 1>>] = sv[s].requests /\ h[<<s, 2>>] = sv[s].active /\ h[<<s, 3>>] = sv[s].responses
  BY DEF HeldIn
<1>2a. g[<<s, 1>>] = tv[s].requests /\ g[<<s, 2>>] = tv[s].active /\ g[<<s, 3>>] = tv[s].responses
  BY DEF HeldIn
<1>3. \A x \in X : x[1] # s => g[x] = h[x]
  BY HeldOthers
<1>4. <<s, 1>> \in X /\ <<s, 2>> \in X /\ <<s, 3>> \in X
  OBVIOUS
<1>. HIDE DEF h, g, X
<1>5. k = [x \in X |-> k[x]]
  BY <1>1
<1>6. ASSUME NEW x \in X PROVE g[x] = k[x]
  <2>1. CASE x[1] # s
    <3>1. x # <<s, 1>> /\ x # <<s, 2>> /\ x # <<s, 3>>
      BY <2>1
    <3>. QED  BY <3>1, <2>1, <1>1, <1>3
  <2>2. CASE x[1] = s
    <3>1. x = <<s, 1>> \/ x = <<s, 2>> \/ x = <<s, 3>>
      BY <2>2, ThreeQueues DEF X
    <3>2. <<s, 1>> # <<s, 2>> /\ <<s, 1>> # <<s, 3>> /\ <<s, 2>> # <<s, 3>>
      OBVIOUS
    <3>. QED  BY <3>1, <3>2, <1>1, <1>2, <1>2a, <1>4
  <2>. QED  BY <2>1, <2>2
<1>. HIDE DEF k
<1>7. g = k
  BY <1>1, <1>5, <1>6, SameFunction, Zenon
<1>. QED  BY <1>7 DEF Drop, h, g, k

LEMMA ServerDropsLast ==
  ASSUME NEW S, NEW sv \in [S -> Server], NEW tv \in [S -> Server], NEW s \in S,
         \A t \in S : t # s => tv[t] = sv[t],
         tv[s].requests = sv[s].requests, tv[s].active = sv[s].active,
         tv[s].responses = Tail(sv[s].responses)
  PROVE  Drop(HeldIn(sv, S), HeldIn(tv, S), <<s, 3>>)
<1>. DEFINE h == HeldIn(sv, S)
            g == HeldIn(tv, S)
            k == [h EXCEPT ![<<s, 3>>] = Tail(@)]
            X == S \X (1..3)
<1>1. DOMAIN h = X /\ h = [x \in X |-> h[x]] /\ g = [x \in X |-> g[x]]
  BY DEF HeldIn
<1>2. h[<<s, 1>>] = sv[s].requests /\ h[<<s, 2>>] = sv[s].active /\ h[<<s, 3>>] = sv[s].responses
  BY DEF HeldIn
<1>2a. g[<<s, 1>>] = tv[s].requests /\ g[<<s, 2>>] = tv[s].active /\ g[<<s, 3>>] = tv[s].responses
  BY DEF HeldIn
<1>3. \A x \in X : x[1] # s => g[x] = h[x]
  BY HeldOthers
<1>4. <<s, 1>> \in X /\ <<s, 2>> \in X /\ <<s, 3>> \in X
  OBVIOUS
<1>. HIDE DEF h, g, X
<1>5. k = [x \in X |-> k[x]]
  BY <1>1
<1>6. ASSUME NEW x \in X PROVE g[x] = k[x]
  <2>1. CASE x[1] # s
    <3>1. x # <<s, 1>> /\ x # <<s, 2>> /\ x # <<s, 3>>
      BY <2>1
    <3>. QED  BY <3>1, <2>1, <1>1, <1>3
  <2>2. CASE x[1] = s
    <3>1. x = <<s, 1>> \/ x = <<s, 2>> \/ x = <<s, 3>>
      BY <2>2, ThreeQueues DEF X
    <3>2. <<s, 1>> # <<s, 2>> /\ <<s, 1>> # <<s, 3>> /\ <<s, 2>> # <<s, 3>>
      OBVIOUS
    <3>. QED  BY <3>1, <3>2, <1>1, <1>2, <1>2a, <1>4
  <2>. QED  BY <2>1, <2>2
<1>. HIDE DEF k
<1>7. g = k
  BY <1>1, <1>5, <1>6, SameFunction, Zenon
<1>. QED  BY <1>7 DEF Drop, h, g, k

LEMMA ServerStarts ==
  ASSUME NEW S, NEW sv \in [S -> Server], NEW tv \in [S -> Server], NEW s \in S, NEW r,
         \A t \in S : t # s => tv[t] = sv[t],
         tv[s].requests = Tail(sv[s].requests), tv[s].active = Append(sv[s].active, r),
         tv[s].responses = sv[s].responses
  PROVE  Move(HeldIn(sv, S), HeldIn(tv, S), <<s, 1>>, <<s, 2>>, r)
<1>. DEFINE h == HeldIn(sv, S)
            g == HeldIn(tv, S)
            k == [h EXCEPT ![<<s, 1>>] = Tail(@), ![<<s, 2>>] = Append(@, r)]
            X == S \X (1..3)
<1>1. DOMAIN h = X /\ h = [x \in X |-> h[x]] /\ g = [x \in X |-> g[x]]
  BY DEF HeldIn
<1>2. h[<<s, 1>>] = sv[s].requests /\ h[<<s, 2>>] = sv[s].active /\ h[<<s, 3>>] = sv[s].responses
  BY DEF HeldIn
<1>2a. g[<<s, 1>>] = tv[s].requests /\ g[<<s, 2>>] = tv[s].active /\ g[<<s, 3>>] = tv[s].responses
  BY DEF HeldIn
<1>3. \A x \in X : x[1] # s => g[x] = h[x]
  BY HeldOthers
<1>4. <<s, 1>> \in X /\ <<s, 2>> \in X /\ <<s, 3>> \in X
  OBVIOUS
<1>. HIDE DEF h, g, X
<1>5. k = [x \in X |-> k[x]]
  BY <1>1
<1>6. ASSUME NEW x \in X PROVE g[x] = k[x]
  <2>1. CASE x[1] # s
    <3>1. x # <<s, 1>> /\ x # <<s, 2>> /\ x # <<s, 3>>
      BY <2>1
    <3>. QED  BY <3>1, <2>1, <1>1, <1>3
  <2>2. CASE x[1] = s
    <3>1. x = <<s, 1>> \/ x = <<s, 2>> \/ x = <<s, 3>>
      BY <2>2, ThreeQueues DEF X
    <3>2. <<s, 1>> # <<s, 2>> /\ <<s, 1>> # <<s, 3>> /\ <<s, 2>> # <<s, 3>>
      OBVIOUS
    <3>. QED  BY <3>1, <3>2, <1>1, <1>2, <1>2a, <1>4
  <2>. QED  BY <2>1, <2>2
<1>. HIDE DEF k
<1>7. g = k
  BY <1>1, <1>5, <1>6, SameFunction, Zenon
<1>. QED  BY <1>7 DEF Move, h, g, k

LEMMA ServerEnds ==
  ASSUME NEW S, NEW sv \in [S -> Server], NEW tv \in [S -> Server], NEW s \in S, NEW r,
         \A t \in S : t # s => tv[t] = sv[t],
         tv[s].requests = sv[s].requests, tv[s].active = Tail(sv[s].active),
         tv[s].responses = Append(sv[s].responses, r)
  PROVE  Move(HeldIn(sv, S), HeldIn(tv, S), <<s, 2>>, <<s, 3>>, r)
<1>. DEFINE h == HeldIn(sv, S)
            g == HeldIn(tv, S)
            k == [h EXCEPT ![<<s, 2>>] = Tail(@), ![<<s, 3>>] = Append(@, r)]
            X == S \X (1..3)
<1>1. DOMAIN h = X /\ h = [x \in X |-> h[x]] /\ g = [x \in X |-> g[x]]
  BY DEF HeldIn
<1>2. h[<<s, 1>>] = sv[s].requests /\ h[<<s, 2>>] = sv[s].active /\ h[<<s, 3>>] = sv[s].responses
  BY DEF HeldIn
<1>2a. g[<<s, 1>>] = tv[s].requests /\ g[<<s, 2>>] = tv[s].active /\ g[<<s, 3>>] = tv[s].responses
  BY DEF HeldIn
<1>3. \A x \in X : x[1] # s => g[x] = h[x]
  BY HeldOthers
<1>4. <<s, 1>> \in X /\ <<s, 2>> \in X /\ <<s, 3>> \in X
  OBVIOUS
<1>. HIDE DEF h, g, X
<1>5. k = [x \in X |-> k[x]]
  BY <1>1
<1>6. ASSUME NEW x \in X PROVE g[x] = k[x]
  <2>1. CASE x[1] # s
    <3>1. x # <<s, 1>> /\ x # <<s, 2>> /\ x # <<s, 3>>
      BY <2>1
    <3>. QED  BY <3>1, <2>1, <1>1, <1>3
  <2>2. CASE x[1] = s
    <3>1. x = <<s, 1>> \/ x = <<s, 2>> \/ x = <<s, 3>>
      BY <2>2, ThreeQueues DEF X
    <3>2. <<s, 1>> # <<s, 2>> /\ <<s, 1>> # <<s, 3>> /\ <<s, 2>> # <<s, 3>>
      OBVIOUS
    <3>. QED  BY <3>1, <3>2, <1>1, <1>2, <1>2a, <1>4
  <2>. QED  BY <2>1, <2>2
<1>. HIDE DEF k
<1>7. g = k
  BY <1>1, <1>5, <1>6, SameFunction, Zenon
<1>. QED  BY <1>7 DEF Move, h, g, k

\* The requests of one server that are under way.
AskedAt(sv) == {Seen(r, FALSE) : r \in ToSet(sv.requests) \cup ToSet(sv.active)}
                 \cup {Seen(r, TRUE) : r \in ToSet(sv.responses)}

LEMMA InAskedAt ==
  ASSUME NEW sv, NEW v
  PROVE  v \in AskedAt(sv) <=> \/ \E r \in ToSet(sv.requests) : v = Seen(r, FALSE)
                               \/ \E r \in ToSet(sv.active) : v = Seen(r, FALSE)
                               \/ \E r \in ToSet(sv.responses) : v = Seen(r, TRUE)
<1>1. v \in {Seen(r, TRUE) : r \in ToSet(sv.responses)} <=> \E r \in ToSet(sv.responses) : v = Seen(r, TRUE)
  OBVIOUS
<1>2. v \in {Seen(r, FALSE) : r \in ToSet(sv.requests) \cup ToSet(sv.active)}
        <=> \E r \in ToSet(sv.requests) \cup ToSet(sv.active) : v = Seen(r, FALSE)
  OBVIOUS
<1>. QED  BY <1>1, <1>2 DEF AskedAt

\* The requests under way are those held.
LEMMA AskedIsHeld ==
  ASSUME NEW S, NEW sv \in [S -> Server]
  PROVE  UNION {AskedAt(sv[s]) : s \in S} = AskedOf(HeldIn(sv, S))
<1>. SUFFICES ASSUME NEW v
              PROVE  v \in UNION {AskedAt(sv[s]) : s \in S} <=> v \in AskedOf(HeldIn(sv, S))
  OBVIOUS
<1>1. v \in UNION {AskedAt(sv[s]) : s \in S} <=> \E s \in S : v \in AskedAt(sv[s])
  OBVIOUS
<1>. DEFINE h == HeldIn(sv, S)
            In(x) == \E i \in 1..Len(h[x]) : v = View(x[2], h[x][i])
<1>2. v \in AskedOf(h) <=> \E x \in S \X (1..3) : In(x)
  <2>1. DOMAIN h = S \X (1..3)
    BY DEF HeldIn
  <2>. QED  BY <2>1, InAsked
<1>3. ASSUME NEW s \in S
      PROVE  /\ In(<<s, 1>>) <=> \E r \in ToSet(sv[s].requests) : v = Seen(r, FALSE)
             /\ In(<<s, 2>>) <=> \E r \in ToSet(sv[s].active) : v = Seen(r, FALSE)
             /\ In(<<s, 3>>) <=> \E r \in ToSet(sv[s].responses) : v = Seen(r, TRUE)
  <2>1. h[<<s, 1>>] = sv[s].requests /\ h[<<s, 2>>] = sv[s].active /\ h[<<s, 3>>] = sv[s].responses
    BY DEF HeldIn
  <2>2. sv[s].requests \in Seq(Req) /\ sv[s].active \in Seq(Req) /\ sv[s].responses \in Seq(Req)
    BY DEF Server
  <2>3. In(<<s, 1>>) <=> \E i \in 1..Len(sv[s].requests) : v = View(1, sv[s].requests[i])
    BY <2>1
  <2>4. In(<<s, 2>>) <=> \E i \in 1..Len(sv[s].active) : v = View(2, sv[s].active[i])
    BY <2>1
  <2>5. In(<<s, 3>>) <=> \E i \in 1..Len(sv[s].responses) : v = View(3, sv[s].responses[i])
    BY <2>1
  <2>6. \A r : View(1, r) = Seen(r, FALSE) /\ View(2, r) = Seen(r, FALSE) /\ View(3, r) = Seen(r, TRUE)
    BY DEF View
  <2>. HIDE DEF In
  <2>7. (\E i \in 1..Len(sv[s].requests) : v = Seen(sv[s].requests[i], FALSE))
          <=> \E r \in ToSet(sv[s].requests) : v = Seen(r, FALSE)
    <3>1. ToSet(sv[s].requests) = {sv[s].requests[i] : i \in 1..Len(sv[s].requests)}
      BY <2>2 DEF ToSet
    <3>. QED  BY <3>1
  <2>8. (\E i \in 1..Len(sv[s].active) : v = Seen(sv[s].active[i], FALSE))
          <=> \E r \in ToSet(sv[s].active) : v = Seen(r, FALSE)
    <3>1. ToSet(sv[s].active) = {sv[s].active[i] : i \in 1..Len(sv[s].active)}
      BY <2>2 DEF ToSet
    <3>. QED  BY <3>1
  <2>9. (\E i \in 1..Len(sv[s].responses) : v = Seen(sv[s].responses[i], TRUE))
          <=> \E r \in ToSet(sv[s].responses) : v = Seen(r, TRUE)
    <3>1. ToSet(sv[s].responses) = {sv[s].responses[i] : i \in 1..Len(sv[s].responses)}
      BY <2>2 DEF ToSet
    <3>. QED  BY <3>1
  <2>. QED  BY <2>3, <2>4, <2>5, <2>6, <2>7, <2>8, <2>9
<1>. HIDE DEF h, In
<1>4. \A s \in S : v \in AskedAt(sv[s]) <=> In(<<s, 1>>) \/ In(<<s, 2>>) \/ In(<<s, 3>>)
  BY <1>3, InAskedAt
<1>5. \A x \in S \X (1..3) : x[1] \in S /\ (x = <<x[1], 1>> \/ x = <<x[1], 2>> \/ x = <<x[1], 3>>)
  BY ThreeQueues
<1>6. (\E x \in S \X (1..3) : In(x)) <=> \E s \in S : In(<<s, 1>>) \/ In(<<s, 2>>) \/ In(<<s, 3>>)
  <2>1. ASSUME NEW x \in S \X (1..3), In(x)
        PROVE  \E s \in S : In(<<s, 1>>) \/ In(<<s, 2>>) \/ In(<<s, 3>>)
    BY <1>5, <2>1, Zenon
  <2>2. ASSUME NEW s \in S, In(<<s, 1>>) \/ In(<<s, 2>>) \/ In(<<s, 3>>)
        PROVE  \E x \in S \X (1..3) : In(x)
    <3>1. <<s, 1>> \in S \X (1..3) /\ <<s, 2>> \in S \X (1..3) /\ <<s, 3>> \in S \X (1..3)
      OBVIOUS
    <3>. QED  BY <3>1, <2>2, Zenon
  <2>. QED  BY <2>1, <2>2, Zenon
<1>. QED  BY <1>1, <1>2, <1>4, <1>6 DEF h
-----------------------------------------------------------------------------
(***************************************************************************)
(* The queues of the servers keep what IInv says of them, and the requests  *)
(* under way change as MemoryService has it.                                *)
(***************************************************************************)
AskedIn(sv, S) == UNION {AskedAt(sv[s]) : s \in S}

LEMMA ReqFields ==
  ASSUME NEW r \in Req
  PROVE  r.client \in Client /\ r.seq \in Nat /\ r.write \in BOOLEAN /\ r.address \in Addr /\ r.data \in Data
  BY DEF Req

\* What a step does to one server.
OnlyAt(S, sv, tv, s) == s \in S /\ tv \in [S -> Server] /\ \A t \in S : t # s => tv[t] = sv[t]
Takes(u, v, r) ==
    v.requests = Append(u.requests, r) /\ v.active = u.active /\ v.responses = u.responses
Finishes(u, v) ==
    v.requests = Tail(u.requests) /\ v.active = u.active /\ v.responses = u.responses
Starts(u, v) ==
    /\ v.requests = Tail(u.requests) /\ v.active = Append(u.active, Head(u.requests))
    /\ v.responses = u.responses
Ends(u, v, r) ==
    v.requests = u.requests /\ v.active = Tail(u.active) /\ v.responses = Append(u.responses, r)
Answers(u, v) ==
    v.requests = u.requests /\ v.active = u.active /\ v.responses = Tail(u.responses)

\* A server takes a request.
LEMMA RequestTaken ==
  ASSUME NEW S, NEW sv, NEW tv, NEW s, NEW r \in Req, NEW n, NEW m, NEW k,
         Queues(sv, S, n, k), OnlyAt(S, sv, tv, s),
         Takes(sv[s], tv[s], r),
         ServerFor(k, r) = s, r.seq = n[r.client], CountedIn(Req, n, m, r)
  PROVE  Queues(tv, S, m, k) /\ AskedIn(tv, S) = AskedIn(sv, S) \cup {Seen(r, FALSE)}
<1>. tv \in [S -> Server] /\ s \in S /\ \A t \in S : t # s => tv[t] = sv[t]
  BY DEF OnlyAt
<1>. tv[s].requests = Append(sv[s].requests, r) /\ tv[s].active = sv[s].active /\ tv[s].responses = sv[s].responses
  BY DEF Takes
<1>1. sv \in [S -> Server]
  BY DEF Queues
<1>. DEFINE h == HeldIn(sv, S)
            g == HeldIn(tv, S)
            x == <<s, 1>>
            X == S \X (1..3)
<1>2. Put(h, g, x, r)
  BY <1>1, ServerPuts
<1>3. h \in [X -> Seq(Req)]
  BY <1>1, HeldType
<1>4. x \in X /\ x[1] = s /\ x[2] = 1
  OBVIOUS
<1>5. Numbered(h, n) /\ Unique(h) /\ Ordered(h) /\ Placed(h, k)
  BY DEF Queues
<1>6. AskedIn(sv, S) = AskedOf(h) /\ AskedIn(tv, S) = AskedOf(g)
  BY <1>1, AskedIsHeld DEF AskedIn
<1>. HIDE DEF h, g, x, X
<1>7. Numbered(g, m) /\ Unique(g)
  BY <1>2, <1>3, <1>4, <1>5, PutUnique
<1>8. Ordered(g)
  BY <1>2, <1>3, <1>4, <1>5, PutOrdered DEF X
<1>9. Placed(g, k)
  BY <1>2, <1>3, <1>4, <1>5, PutPlaced
<1>10. AskedOf(g) = AskedOf(h) \cup {View(x[2], r)}
  BY <1>2, <1>3, <1>4, PutAsked
<1>11. View(x[2], r) = Seen(r, FALSE)
  BY <1>4 DEF View
<1>12. AskedIn(tv, S) = AskedIn(sv, S) \cup {Seen(r, FALSE)}
  BY <1>6, <1>10, <1>11
<1>. QED  BY <1>7, <1>8, <1>9, <1>12 DEF Queues, g

\* The first request of a server is performed and answered.
LEMMA RequestDone ==
  ASSUME NEW S, NEW sv, NEW tv, NEW s, NEW n, NEW k,
         Queues(sv, S, n, k), OnlyAt(S, sv, tv, s), sv[s].requests # <<>>,
         Finishes(sv[s], tv[s])
  PROVE  /\ Queues(tv, S, n, k)
         /\ AskedIn(tv, S) = AskedIn(sv, S) \ {Seen(Head(sv[s].requests), FALSE)}
         /\ Seen(Head(sv[s].requests), FALSE) \in AskedIn(sv, S)
<1>. tv \in [S -> Server] /\ s \in S /\ \A t \in S : t # s => tv[t] = sv[t]
  BY DEF OnlyAt
<1>. tv[s].requests = Tail(sv[s].requests) /\ tv[s].active = sv[s].active /\ tv[s].responses = sv[s].responses
  BY DEF Finishes
<1>1. sv \in [S -> Server]
  BY DEF Queues
<1>. DEFINE h == HeldIn(sv, S)
            g == HeldIn(tv, S)
            x == <<s, 1>>
            X == S \X (1..3)
            r == Head(sv[s].requests)
<1>2. Drop(h, g, x)
  BY <1>1, ServerDropsFirst
<1>3. h \in [X -> Seq(Req)]
  BY <1>1, HeldType
<1>4. x \in X /\ x[1] = s /\ x[2] = 1 /\ h[x] = sv[s].requests
  BY DEF HeldIn
<1>5. Numbered(h, n) /\ Unique(h) /\ Ordered(h) /\ Placed(h, k)
  BY DEF Queues
<1>6. AskedIn(sv, S) = AskedOf(h) /\ AskedIn(tv, S) = AskedOf(g)
  BY <1>1, AskedIsHeld DEF AskedIn
<1>. HIDE DEF h, g, x, X
<1>7. Numbered(g, n) /\ Unique(g)
  BY <1>2, <1>3, <1>4, <1>5, DropUnique
<1>8. Ordered(g)
  <2>1. Leaves(h, g, x)
    BY <1>2, <1>3, <1>4 DEF Drop, Leaves
  <2>. QED  BY <2>1, <1>3, <1>4, <1>5, LeaveOrdered DEF X
<1>9. Placed(g, k)
  BY <1>2, <1>3, <1>4, <1>5, DropPlaced
<1>10. AskedOf(g) = AskedOf(h) \ {View(x[2], Head(h[x]))}
  BY <1>2, <1>3, <1>4, <1>5, DropAsked
<1>11. View(x[2], Head(h[x])) \in AskedOf(h)
  BY <1>3, <1>4, HeadAsked
<1>12. View(x[2], Head(h[x])) = Seen(r, FALSE)
  BY <1>4 DEF View
<1>13. AskedIn(tv, S) = AskedIn(sv, S) \ {Seen(r, FALSE)} /\ Seen(r, FALSE) \in AskedIn(sv, S)
  BY <1>6, <1>10, <1>11, <1>12
<1>. QED  BY <1>7, <1>8, <1>9, <1>13 DEF Queues, g

\* The first response of a server is sent.
LEMMA ResponseSent ==
  ASSUME NEW S, NEW sv, NEW tv, NEW s, NEW n, NEW k,
         Queues(sv, S, n, k), OnlyAt(S, sv, tv, s), sv[s].responses # <<>>,
         Answers(sv[s], tv[s])
  PROVE  /\ Queues(tv, S, n, k)
         /\ AskedIn(tv, S) = AskedIn(sv, S) \ {Seen(Head(sv[s].responses), TRUE)}
         /\ Seen(Head(sv[s].responses), TRUE) \in AskedIn(sv, S)
<1>. tv \in [S -> Server] /\ s \in S /\ \A t \in S : t # s => tv[t] = sv[t]
  BY DEF OnlyAt
<1>. tv[s].requests = sv[s].requests /\ tv[s].active = sv[s].active /\ tv[s].responses = Tail(sv[s].responses)
  BY DEF Answers
<1>1. sv \in [S -> Server]
  BY DEF Queues
<1>. DEFINE h == HeldIn(sv, S)
            g == HeldIn(tv, S)
            x == <<s, 3>>
            X == S \X (1..3)
            r == Head(sv[s].responses)
<1>2. Drop(h, g, x)
  BY <1>1, ServerDropsLast
<1>3. h \in [X -> Seq(Req)]
  BY <1>1, HeldType
<1>4. x \in X /\ x[1] = s /\ x[2] = 3 /\ h[x] = sv[s].responses
  BY DEF HeldIn
<1>5. Numbered(h, n) /\ Unique(h) /\ Ordered(h) /\ Placed(h, k)
  BY DEF Queues
<1>6. AskedIn(sv, S) = AskedOf(h) /\ AskedIn(tv, S) = AskedOf(g)
  BY <1>1, AskedIsHeld DEF AskedIn
<1>. HIDE DEF h, g, x, X
<1>7. Numbered(g, n) /\ Unique(g)
  BY <1>2, <1>3, <1>4, <1>5, DropUnique
<1>8. Ordered(g)
  <2>1. Leaves(h, g, x)
    BY <1>2, <1>3, <1>4 DEF Drop, Leaves
  <2>. QED  BY <2>1, <1>3, <1>4, <1>5, LeaveOrdered DEF X
<1>9. Placed(g, k)
  BY <1>2, <1>3, <1>4, <1>5, DropPlaced
<1>10. AskedOf(g) = AskedOf(h) \ {View(x[2], Head(h[x]))}
  BY <1>2, <1>3, <1>4, <1>5, DropAsked
<1>11. View(x[2], Head(h[x])) \in AskedOf(h)
  BY <1>3, <1>4, HeadAsked
<1>12. View(x[2], Head(h[x])) = Seen(r, TRUE)
  BY <1>4 DEF View
<1>13. AskedIn(tv, S) = AskedIn(sv, S) \ {Seen(r, TRUE)} /\ Seen(r, TRUE) \in AskedIn(sv, S)
  BY <1>6, <1>10, <1>11, <1>12
<1>. QED  BY <1>7, <1>8, <1>9, <1>13 DEF Queues, g

\* What a move keeps, and what it does to the requests under way.
LEMMA MoveKeeps ==
  ASSUME NEW X, NEW h, NEW g, NEW x, NEW y, NEW r, NEW n, NEW k,
         Moves(X, h, g, x, y, r), Moving(h, x, r, n, k)
  PROVE  /\ Numbered(g, n) /\ Unique(g) /\ Placed(g, k)
         /\ AskedOf(g) = (AskedOf(h) \ {View(x[2], Head(h[x]))}) \cup {View(y[2], r)}
         /\ View(x[2], Head(h[x])) \in AskedOf(h)
<1>1. h \in [X -> Seq(Req)] /\ x \in X /\ y \in X /\ r \in Req /\ x # y /\ h[x] # <<>> /\ x[1] = y[1]
  BY DEF Moves
<1>2. Move(h, g, x, y, r)
  BY DEF Moves
<1>3. Unique(h)
  BY DEF Moving
<1>4. ServerFor(k, r) = ServerFor(k, Head(h[x])) /\ Placed(h, k)
  BY DEF Moving
<1>5. Numbered(g, n) /\ Unique(g)
  BY MoveUnique
<1>6. Placed(g, k)
  BY <1>1, <1>2, <1>4, MovePlaced
<1>7. AskedOf(g) = (AskedOf(h) \ {View(x[2], Head(h[x]))}) \cup {View(y[2], r)}
  BY <1>1, <1>2, <1>3, MoveAsked
<1>8. View(x[2], Head(h[x])) \in AskedOf(h)
  BY <1>1, HeadAsked
<1>. QED  BY <1>5, <1>6, <1>7, <1>8

\* The first request of a server goes to work.
LEMMA RequestStarted ==
  ASSUME NEW S, NEW sv, NEW tv, NEW s, NEW n, NEW k,
         Queues(sv, S, n, k), OnlyAt(S, sv, tv, s), sv[s].requests # <<>>,
         Starts(sv[s], tv[s])
  PROVE  Queues(tv, S, n, k) /\ AskedIn(tv, S) = AskedIn(sv, S)
<1>. tv \in [S -> Server] /\ s \in S /\ \A t \in S : t # s => tv[t] = sv[t]
  BY DEF OnlyAt
<1>. /\ tv[s].requests = Tail(sv[s].requests) /\ tv[s].active = Append(sv[s].active, Head(sv[s].requests))
     /\ tv[s].responses = sv[s].responses
  BY DEF Starts
<1>1. sv \in [S -> Server]
  BY DEF Queues
<1>1a. /\ sv[s].requests \in Seq(Req) /\ Head(sv[s].requests) \in Req
  <2>1. sv[s].requests \in Seq(Req)
    BY <1>1 DEF Server
  <2>. QED  BY <2>1, TailAt
<1>. DEFINE h == HeldIn(sv, S)
            g == HeldIn(tv, S)
            x == <<s, 1>>
            y == <<s, 2>>
            X == S \X (1..3)
<1>3. h \in [X -> Seq(Req)]
  BY <1>1, HeldType
<1>4. /\ x \in X /\ x[1] = s /\ x[2] = 1 /\ h[x] = sv[s].requests
      /\ y \in X /\ y[1] = s /\ y[2] = 2 /\ x # y
  BY DEF HeldIn
<1>. DEFINE r == Head(sv[s].requests)
<1>2. Move(h, g, x, y, r)
  BY <1>1, ServerStarts
<1>5. Numbered(h, n) /\ Unique(h) /\ Ordered(h) /\ Placed(h, k)
  BY DEF Queues
<1>6. AskedIn(sv, S) = AskedOf(h) /\ AskedIn(tv, S) = AskedOf(g)
  BY <1>1, AskedIsHeld DEF AskedIn
<1>7. Ordered(g)
  <2>1. x = <<s, 1>> /\ y = <<s, 2>> /\ X = S \X (1..3) /\ r = Head(h[x])
    BY <1>4
  <2>. HIDE DEF h, g, x, y, X, r
  <2>. QED  BY <2>1, <1>2, <1>3, <1>4, <1>5, AdvanceOrdered
<1>. HIDE DEF h, g, x, y, X
<1>8. SameRequest(r, Head(h[x]))
  BY <1>4 DEF SameRequest
<1>. HIDE DEF r
<1>9. r \in Req /\ h[x] # <<>>
  BY <1>1a, <1>4 DEF r
<1>10. Moves(X, h, g, x, y, r)
  BY <1>2, <1>3, <1>4, <1>9 DEF Moves
<1>11. Moving(h, x, r, n, k)
  BY <1>4, <1>5, <1>8 DEF Moving, r
<1>12. /\ Numbered(g, n) /\ Unique(g) /\ Placed(g, k)
       /\ AskedOf(g) = (AskedOf(h) \ {View(x[2], Head(h[x]))}) \cup {View(y[2], r)}
       /\ View(x[2], Head(h[x])) \in AskedOf(h)
  BY <1>10, <1>11, MoveKeeps
<1>13. View(x[2], Head(h[x])) = Seen(r, FALSE) /\ View(y[2], r) = Seen(r, FALSE)
  BY <1>4 DEF View, r
<1>14. AskedIn(tv, S) = AskedIn(sv, S)
  BY <1>6, <1>12, <1>13
<1>. QED  BY <1>7, <1>12, <1>14 DEF Queues, g

\* The first request at work in a server is performed; r is its response.
LEMMA RequestEnds ==
  ASSUME NEW S, NEW sv, NEW tv, NEW s, NEW n, NEW k, NEW r \in Req,
         Queues(sv, S, n, k), OnlyAt(S, sv, tv, s), sv[s].active # <<>>,
         Ends(sv[s], tv[s], r),
         SameRequest(r, Head(sv[s].active)), ServerFor(k, r) = ServerFor(k, Head(sv[s].active))
  PROVE  /\ Queues(tv, S, n, k)
         /\ AskedIn(tv, S) = (AskedIn(sv, S) \ {Seen(Head(sv[s].active), FALSE)}) \cup {Seen(r, TRUE)}
         /\ Seen(Head(sv[s].active), FALSE) \in AskedIn(sv, S)
<1>. tv \in [S -> Server] /\ s \in S /\ \A t \in S : t # s => tv[t] = sv[t]
  BY DEF OnlyAt
<1>. /\ tv[s].requests = sv[s].requests /\ tv[s].active = Tail(sv[s].active)
     /\ tv[s].responses = Append(sv[s].responses, r)
  BY DEF Ends
<1>1. sv \in [S -> Server]
  BY DEF Queues
<1>1a. /\ sv[s].active \in Seq(Req) /\ Head(sv[s].active) \in Req
  <2>1. sv[s].active \in Seq(Req)
    BY <1>1 DEF Server
  <2>. QED  BY <2>1, TailAt
<1>. DEFINE h == HeldIn(sv, S)
            g == HeldIn(tv, S)
            x == <<s, 2>>
            y == <<s, 3>>
            X == S \X (1..3)
<1>3. h \in [X -> Seq(Req)]
  BY <1>1, HeldType
<1>4. /\ x \in X /\ x[1] = s /\ x[2] = 2 /\ h[x] = sv[s].active
      /\ y \in X /\ y[1] = s /\ y[2] = 3 /\ x # y
  BY DEF HeldIn
<1>. DEFINE q == Head(sv[s].active)
<1>2. Move(h, g, x, y, r)
  BY <1>1, ServerEnds
<1>5. Numbered(h, n) /\ Unique(h) /\ Ordered(h) /\ Placed(h, k)
  BY DEF Queues
<1>6. AskedIn(sv, S) = AskedOf(h) /\ AskedIn(tv, S) = AskedOf(g)
  BY <1>1, AskedIsHeld DEF AskedIn
<1>. HIDE DEF h, g, x, y, X
<1>7. Ordered(g)
  <2>1. Leaves(h, g, x)
    BY <1>2, <1>3, <1>4 DEF Move, Leaves
  <2>. QED  BY <2>1, <1>3, <1>4, <1>5, LeaveOrdered DEF X
<1>8. SameRequest(r, Head(h[x]))
  BY <1>4
<1>9. h[x] # <<>>
  BY <1>4
<1>10. Moves(X, h, g, x, y, r)
  BY <1>2, <1>3, <1>4, <1>9 DEF Moves
<1>11. Moving(h, x, r, n, k)
  BY <1>4, <1>5, <1>8 DEF Moving
<1>12. /\ Numbered(g, n) /\ Unique(g) /\ Placed(g, k)
       /\ AskedOf(g) = (AskedOf(h) \ {View(x[2], Head(h[x]))}) \cup {View(y[2], r)}
       /\ View(x[2], Head(h[x])) \in AskedOf(h)
  BY <1>10, <1>11, MoveKeeps
<1>13. View(x[2], Head(h[x])) = Seen(q, FALSE) /\ View(y[2], r) = Seen(r, TRUE)
  BY <1>4 DEF View
<1>14. /\ AskedIn(tv, S) = (AskedIn(sv, S) \ {Seen(q, FALSE)}) \cup {Seen(r, TRUE)}
       /\ Seen(q, FALSE) \in AskedIn(sv, S)
  BY <1>6, <1>12, <1>13
<1>. QED  BY <1>7, <1>12, <1>14 DEF Queues, g
-----------------------------------------------------------------------------
(***************************************************************************)
(* The first request of a queue may be performed: the earlier writes of its *)
(* client to the line, of the same way, are done.                           *)
(***************************************************************************)
Together(k, q) ==
    \A r \in Req : r.client = q.client /\ r.address = q.address /\ WayOf(r) = WayOf(q) =>
        ServerFor(k, r) = ServerFor(k, q)
WritesDone(A, q) ==
    \A v \in A : /\ v.client = q.client /\ v.address = q.address /\ v.way = WayOf(q)
                 /\ v.seq < q.seq /\ v.write
                 => v.done

\* No write is at work when a request is taken from those not at work.
ReadsAhead(h, x) ==
    x[2] = 1 => \A y \in DOMAIN h : y[1] = x[1] /\ y[2] = 2 => \A i \in 1..Len(h[y]) : ~h[y][i].write

FirstOf(S, h, x, k) ==
    /\ h \in [S \X (1..3) -> Seq(Req)] /\ x \in S \X (1..3) /\ h[x] # <<>> /\ x[2] # 3
    /\ Ordered(h) /\ Placed(h, k) /\ Together(k, Head(h[x])) /\ ReadsAhead(h, x)

LEMMA FirstOfQueue ==
  ASSUME NEW S, NEW h, NEW x, NEW k, FirstOf(S, h, x, k)
  PROVE  WritesDone(AskedOf(h), Head(h[x]))
<1>. /\ h \in [S \X (1..3) -> Seq(Req)] /\ x \in S \X (1..3) /\ h[x] # <<>> /\ x[2] # 3
     /\ Ordered(h) /\ Placed(h, k) /\ Together(k, Head(h[x])) /\ ReadsAhead(h, x)
  BY DEF FirstOf
<1>. DEFINE X == S \X (1..3)
            q == Head(h[x])
<1>1. DOMAIN h = X /\ h[x] \in Seq(Req)
  OBVIOUS
<1>2. 1 \in 1..Len(h[x]) /\ q = h[x][1]
  BY <1>1, TailAt
<1>. HIDE DEF q
<1>. SUFFICES ASSUME NEW v \in AskedOf(h), v.client = q.client, v.address = q.address, v.way = WayOf(q),
                     v.seq < q.seq, v.write, ~v.done
              PROVE  FALSE
  BY DEF WritesDone, q
<1>3. PICK y \in X : \E j \in 1..Len(h[y]) : v = View(y[2], h[y][j])
  BY <1>1, InAsked
<1>4. PICK j \in 1..Len(h[y]) : v = View(y[2], h[y][j])
  BY <1>3
<1>. DEFINE r == h[y][j]
<1>5. y[2] # 3
  BY <1>4 DEF View, Seen
<1>6. v = Seen(r, FALSE)
  BY <1>4, <1>5 DEF View
<1>. HIDE DEF r
<1>7. r.client = q.client /\ r.address = q.address /\ WayOf(r) = WayOf(q) /\ r.seq = v.seq /\ r.write
  BY <1>6 DEF Seen
<1>8. r \in Req /\ q \in Req
  BY <1>1, <1>2 DEF r
<1>9. r.seq \in Nat /\ q.seq \in Nat
  BY <1>8, ReqFields
<1>10. y[1] = x[1]
  <2>1. ServerFor(k, r) = y[1] /\ ServerFor(k, q) = x[1]
    BY <1>1, <1>2 DEF Placed, r
  <2>2. ServerFor(k, r) = ServerFor(k, q)
    BY <1>7, <1>8 DEF Together, q
  <2>. QED  BY <2>1, <2>2
<1>11. ~Ahead(x[2], 1, y[2], j)
  <2>1. Ahead(x[2], 1, y[2], j) => q.seq < r.seq
    BY <1>1, <1>2, <1>5, <1>7, <1>10 DEF Ordered, r
  <2>. QED  BY <2>1, <1>7, <1>9
<1>12. x[2] \in 1..3 /\ y[2] \in 1..3
  OBVIOUS
<1>13. CASE x[2] = y[2]
  <2>1. y = x
    BY <1>10, <1>13, PairsEqual
  <2>2. j = 1
    BY <1>11, <1>13 DEF Ahead
  <2>3. r = q
    BY <2>1, <2>2, <1>2 DEF r
  <2>. QED  BY <2>3, <1>7, <1>9
<1>14. CASE x[2] # y[2]
  <2>1. x[2] = 1 /\ y[2] = 2
    BY <1>5, <1>11, <1>12, <1>14 DEF Ahead
  <2>. QED  BY <2>1, <1>1, <1>7, <1>10 DEF ReadsAhead, r
<1>. QED  BY <1>13, <1>14

\* The same for the first request of a server, and for the first at work.
LEMMA FirstRequest ==
  ASSUME NEW S, NEW sv, NEW s \in S, NEW n, NEW k, Queues(sv, S, n, k),
         sv[s].requests # <<>>, Together(k, Head(sv[s].requests)),
         \A i \in 1..Len(sv[s].active) : ~sv[s].active[i].write
  PROVE  WritesDone(AskedIn(sv, S), Head(sv[s].requests))
<1>1. sv \in [S -> Server] /\ sv[s].requests \in Seq(Req)
  BY DEF Queues, Server
<1>. DEFINE h == HeldIn(sv, S)
            x == <<s, 1>>
<1>2. h \in [S \X (1..3) -> Seq(Req)] /\ AskedIn(sv, S) = AskedOf(h)
  BY <1>1, HeldType, AskedIsHeld DEF AskedIn
<1>3. x \in S \X (1..3) /\ x[1] = s /\ x[2] = 1 /\ h[x] = sv[s].requests
  BY DEF HeldIn
<1>4. Head(sv[s].requests) = Head(h[x]) /\ h[x] # <<>> /\ Together(k, Head(h[x]))
  BY <1>3
<1>5. ASSUME NEW y \in S \X (1..3), y[1] = s, y[2] = 2 PROVE h[y] = sv[s].active
  BY <1>5 DEF HeldIn
<1>6. Ordered(h) /\ Placed(h, k)
  BY DEF Queues
<1>. HIDE DEF h, x
<1>7. ReadsAhead(h, x)
  BY <1>2, <1>3, <1>5 DEF ReadsAhead
<1>8. FirstOf(S, h, x, k)
  BY <1>2, <1>3, <1>4, <1>6, <1>7 DEF FirstOf
<1>9. WritesDone(AskedOf(h), Head(h[x]))
  BY <1>8, FirstOfQueue
<1>. QED  BY <1>2, <1>4, <1>9

LEMMA FirstActive ==
  ASSUME NEW S, NEW sv, NEW s \in S, NEW n, NEW k, Queues(sv, S, n, k),
         sv[s].active # <<>>, Together(k, Head(sv[s].active))
  PROVE  WritesDone(AskedIn(sv, S), Head(sv[s].active))
<1>1. sv \in [S -> Server] /\ sv[s].active \in Seq(Req)
  BY DEF Queues, Server
<1>. DEFINE h == HeldIn(sv, S)
            x == <<s, 2>>
<1>2. h \in [S \X (1..3) -> Seq(Req)] /\ AskedIn(sv, S) = AskedOf(h)
  BY <1>1, HeldType, AskedIsHeld DEF AskedIn
<1>3. x \in S \X (1..3) /\ x[1] = s /\ x[2] = 2 /\ h[x] = sv[s].active
  BY DEF HeldIn
<1>4. Head(sv[s].active) = Head(h[x]) /\ h[x] # <<>> /\ Together(k, Head(h[x]))
  BY <1>3
<1>5. Ordered(h) /\ Placed(h, k)
  BY DEF Queues
<1>. HIDE DEF h, x
<1>6. ReadsAhead(h, x)
  BY <1>3 DEF ReadsAhead
<1>7. FirstOf(S, h, x, k)
  BY <1>2, <1>3, <1>4, <1>5, <1>6 DEF FirstOf
<1>8. WritesDone(AskedOf(h), Head(h[x]))
  BY <1>7, FirstOfQueue
<1>. QED  BY <1>2, <1>4, <1>8
-----------------------------------------------------------------------------
(***************************************************************************)
(* The caches: only a request that is sent lengthens the outgoing buffer.   *)
(***************************************************************************)
SameOutgoing(k, m) == DOMAIN m = DOMAIN k /\ m.outgoing = k.outgoing
Sends(k, m, r) == DOMAIN m = DOMAIN k /\ m.outgoing = Append(k.outgoing, r)

LEMMA JoinKeeps ==
  ASSUME NEW k, CacheOK(k), NEW a, NEW reg
  PROVE  SameOutgoing(k, JoinLine(k, a, reg))
  BY DEF JoinLine, CacheOK, Fields, SameOutgoing

LEMMA LoadSends ==
  ASSUME NEW k, CacheOK(k), NEW a, NEW l, NEW reg
  PROVE  Sends(k, LoadLine(k, a, l, reg), Request(FALSE, a, NoData, None))
  BY DEF LoadLine, CacheOK, Fields, Sends

LEMMA WriteSends ==
  ASSUME NEW k, CacheOK(k), NEW a, NEW data, NEW wid
  PROVE  Sends(k, WriteLine(k, a, data, wid), Request(TRUE, a, data, wid))
<1>. DEFINE l == FindLine(k, a, {})
            m == IF l = None THEN k ELSE [k EXCEPT !.line[l].data = Blit(@, data)]
<1>1. SameOutgoing(k, m)
  BY DEF CacheOK, Fields, SameOutgoing
<1>2. WriteLine(k, a, data, wid) = [m EXCEPT !.outgoing = Append(@, Request(TRUE, a, data, wid))]
  BY DEF WriteLine
<1>. HIDE DEF m
<1>. QED  BY <1>1, <1>2 DEF CacheOK, Fields, SameOutgoing, Sends

LEMMA ResponsesKeep ==
  ASSUME NEW k, CacheOK(k)
  PROVE  SameOutgoing(k, DoReadResponses(k))
<1>. DEFINE l == Head(k.reads)
            m == InitiateWriteback(k, l)
<1>1. SameOutgoing(k, m)
  BY DEF InitiateWriteback, CacheOK, Fields, SameOutgoing
<1>2. DoReadResponses(k) = [m EXCEPT !.line[l].waiting = <<>>,
                                     !.line[l].state = IF @ = "INVALID" THEN "EMPTY" ELSE "FULL",
                                     !.reads = Tail(@)]
  BY DEF DoReadResponses
<1>. HIDE DEF m, l
<1>. QED  BY <1>1, <1>2 DEF CacheOK, Fields, SameOutgoing

LEMMA CompletionsKeep ==
  ASSUME NEW k, CacheOK(k), NEW a, NEW data, NEW wid
  PROVE  /\ SameOutgoing(k, OnMemoryReadCompleted(k, a, data))
         /\ SameOutgoing(k, OnMemoryWriteCompleted(k, wid))
         /\ SameOutgoing(k, OnMemorySnooped(k, a, data))
<1>1. SameOutgoing(k, OnMemoryReadCompleted(k, a, data))
  BY DEF OnMemoryReadCompleted, CacheOK, Fields, SameOutgoing
<1>2. SameOutgoing(k, OnMemoryWriteCompleted(k, wid))
  BY DEF OnMemoryWriteCompleted, CacheOK, Fields, SameOutgoing
<1>3. SameOutgoing(k, OnMemorySnooped(k, a, data))
  BY DEF OnMemorySnooped, CacheOK, Fields, SameOutgoing
<1>. QED  BY <1>1, <1>2, <1>3

LEMMA KeepsCache ==
  ASSUME NEW k, NEW m, CacheOK(k), SameOutgoing(k, m)
  PROVE  CacheOK(m)
  BY DEF CacheOK, SameOutgoing

LEMMA SendsCache ==
  ASSUME NEW k, NEW m, NEW r \in Sent, CacheOK(k), Sends(k, m, r)
  PROVE  CacheOK(m)
  BY DEF CacheOK, Sends

\* The caches after a step of one of them, or of all.
LEMMA OneCacheChanges ==
  ASSUME NEW f, CachesOK(f), NEW c \in Client, NEW g, DOMAIN g = DOMAIN f, g = [d \in DOMAIN g |-> g[d]],
         \A d \in Client : d # c => g[d] = f[d], CacheOK(g[c])
  PROVE  CachesOK(g)
<1>1. DOMAIN f = Client /\ \A d \in Client : CacheOK(f[d])
  BY DEF CachesOK
<1>. QED  BY <1>1 DEF CachesOK

LEMMA SnoopedCaches ==
  ASSUME NEW f, CachesOK(f), NEW r
  PROVE  CachesOK(Snooped(f, r))
<1>1. \A c \in Client : CacheOK(f[c])
  BY DEF CachesOK
<1>2. \A c \in Client : CacheOK(OnMemorySnooped(f[c], r.address, r.data))
  BY <1>1, CompletionsKeep, KeepsCache
<1>. QED  BY <1>2 DEF Snooped, CachesOK

LEMMA SentCaches ==
  ASSUME NEW f, CachesOK(f), NEW c \in Client, f[c].outgoing # <<>>
  PROVE  /\ CachesOK([f EXCEPT ![c].outgoing = Tail(@)])
         /\ Head(f[c].outgoing) \in Sent
<1>1. CacheOK(f[c]) /\ DOMAIN f = Client
  BY DEF CachesOK
<1>2. Tail(f[c].outgoing) \in Seq(Sent) /\ Head(f[c].outgoing) \in Sent
  BY <1>1, TailAt DEF CacheOK
<1>. DEFINE g == [f EXCEPT ![c].outgoing = Tail(@)]
<1>3. /\ DOMAIN g = DOMAIN f /\ g = [d \in DOMAIN g |-> g[d]]
      /\ \A d \in Client : d # c => g[d] = f[d]
  BY <1>1
<1>4. CacheOK(g[c])
  BY <1>1, <1>2 DEF CacheOK, Fields
<1>. HIDE DEF g
<1>5. CachesOK(g)
  BY <1>3, <1>4, OneCacheChanges
<1>. QED  BY <1>2, <1>5 DEF g

LEMMA CalledCaches ==
  ASSUME CachesOK(cache), NEW r, r.client \in Client, NEW data
  PROVE  CachesOK(Called(r, data))
<1>. DEFINE g == Called(r, data)
            c == r.client
<1>1. CacheOK(cache[c]) /\ DOMAIN cache = Client
  BY DEF CachesOK
<1>2. /\ DOMAIN g = DOMAIN cache /\ g = [d \in DOMAIN g |-> g[d]]
      /\ \A d \in Client : d # c => g[d] = cache[d]
      /\ g[c] = IF r.write THEN OnMemoryWriteCompleted(cache[c], r.wid)
                           ELSE OnMemoryReadCompleted(cache[c], r.address, data)
  BY <1>1 DEF Called
<1>3. CacheOK(g[c])
  BY <1>1, <1>2, CompletionsKeep, KeepsCache
<1>. HIDE DEF g
<1>. QED  BY <1>2, <1>3, OneCacheChanges DEF g
-----------------------------------------------------------------------------
(***************************************************************************)
(* Every step of the memories keeps IInv and is a step of the service, or   *)
(* changes nothing the service shows.                                       *)
(***************************************************************************)
LEMMA AskedServers ==
  Asked = AskedIn(server, Servers) /\ (kind' = kind => Asked' = AskedIn(server', Servers'))
<1>1. Asked = AskedIn(server, Servers)
  BY DEF Asked, AskedIn, AskedAt
<1>2. ASSUME kind' = kind PROVE Asked' = AskedIn(server', Servers')
  BY <1>2 DEF Asked, AskedIn, AskedAt, Seen, WayOf
<1>. QED  BY <1>1, <1>2

\* What client c asks with request h goes to server s.
GoesTo(c, h, s) ==
    \A r \in Req : r.client = c /\ r.write = h.write /\ r.address = h.address => ServerFor(kind, r) = s

LEMMA WayType ==
  ASSUME kind \in Kinds, NEW r \in Req
  PROVE  WayOf(r) \in Way
<1>1. CASE kind = "ddr"
  <2>1. InterfaceOf([write |-> r.write, address |-> r.address]) \in Interface
    BY <1>1, ReqFields, SystemAssumption DEF SystemAssumption
  <2>. QED  BY <1>1, <2>1 DEF InterfaceOf, WayOf, Way
<1>2. CASE kind # "ddr"
  BY <1>2 DEF WayOf, Way
<1>. QED  BY <1>1, <1>2

LEMMA AcceptStep ==
  ASSUME IInv, NEW c \in Client, NEW s \in Servers, cache[c].outgoing # <<>>, Accept(c, s),
         GoesTo(c, Head(cache[c].outgoing), s),
         UNCHANGED stamp
  PROVE  IInv' /\ Service!Next
<1>. DEFINE h == Head(cache[c].outgoing)
            q == [client |-> c, seq |-> count[c], write |-> h.write, address |-> h.address,
                  data |-> h.data, wid |-> h.wid]
<1>1. CachesOK(cache) /\ kind \in Kinds /\ Queues(server, Servers, count, kind) /\ StoreOK
  BY DEF IInv
<1>2. h \in Sent
  BY <1>1, SentCaches
<1>3. q \in Req /\ q.client = c /\ q.seq = count[c] /\ q.write = h.write /\ q.address = h.address /\ q.data = h.data
  <2>1. count[c] \in Nat
    BY <1>1 DEF StoreOK
  <2>. HIDE DEF h
  <2>. QED  BY <1>2, <2>1 DEF Req, Sent
<1>4. server \in [Servers -> Server] /\ server[s].requests \in Seq(Req)
  BY <1>1 DEF Queues, Server
<1>. HIDE DEF q
<1>5. server' = [server EXCEPT ![s].requests = Append(@, q)]
  BY DEF Accept, q
<1>6. /\ server' \in [Servers -> Server] /\ \A t \in Servers : t # s => server'[t] = server[t]
      /\ server'[s].requests = Append(server[s].requests, q) /\ server'[s].active = server[s].active
      /\ server'[s].responses = server[s].responses /\ server'[s].timing = server[s].timing
  <2>1. Append(server[s].requests, q) \in Seq(Req)
    BY <1>3, <1>4
  <2>. QED  BY <1>4, <1>5, <2>1 DEF Server
<1>7. UNCHANGED <<kind, store, ddr, answer>> /\ count' = [count EXCEPT ![c] = @ + 1]
  BY DEF Accept
<1>8. CountedIn(Req, count, count', q)
  BY <1>1, <1>3, <1>7, ReqFields DEF CountedIn, StoreOK
<1>9. ServerFor(kind, q) = s /\ q.seq = count[q.client]
  BY <1>3 DEF GoesTo
<1>6a. OnlyAt(Servers, server, server', s) /\ Takes(server[s], server'[s], q)
  BY <1>6 DEF OnlyAt, Takes
<1>10. Queues(server', Servers, count', kind) /\ AskedIn(server', Servers) = AskedIn(server, Servers) \cup {Seen(q, FALSE)}
  BY <1>1, <1>3, <1>6a, <1>8, <1>9, RequestTaken
<1>11. Servers' = Servers
  BY <1>7 DEF Servers
<1>12. CachesOK(cache')
  <2>1. CachesOK([cache EXCEPT ![c].outgoing = Tail(@)])
    BY <1>1, SentCaches
  <2>. QED  BY <2>1, SnoopedCaches DEF Accept
<1>13. StoreOK'
  BY <1>1, <1>7 DEF StoreOK
<1>14. \A t \in Servers : Working(t)'
  <2>1. ASSUME NEW t \in Servers PROVE Working(t)'
    <3>1. Working(t)
      BY DEF IInv
    <3>2. Append(server[s].requests, q) # <<>>
      BY <1>4, <1>3
    <3>. QED  BY <3>1, <3>2, <1>6, <1>7 DEF Working
  <2>. QED  BY <2>1
<1>15. ddr' \in [Servers -> Channel]
  BY <1>7 DEF IInv
<1>16. IInv'
  BY <1>1, <1>7, <1>10, <1>11, <1>12, <1>13, <1>14, <1>15 DEF IInv
<1>17. Service!Ask(c, q.write, q.address, q.data, WayOf(q))
  <2>1. Seen(q, FALSE) = [client |-> c, seq |-> count[c], write |-> q.write, address |-> q.address,
                          data |-> q.data, way |-> WayOf(q), done |-> FALSE]
    BY <1>3 DEF Seen
  <2>2. Asked' = Asked \cup {Seen(q, FALSE)}
    BY <1>7, <1>10, <1>11, AskedServers
  <2>. QED  BY <2>1, <2>2, <1>7 DEF Service!Ask
<1>18. q.write \in BOOLEAN /\ q.address \in Addr /\ q.data \in Service!Data /\ WayOf(q) \in Way
  BY <1>1, <1>3, ReqFields, WayType DEF Service!Data, Data
<1>. QED  BY <1>16, <1>17, <1>18 DEF Service!Next

\* Requests of a client for a line that take one way go to one server.
LEMMA SameWay ==
  ASSUME kind \in Kinds, NEW q \in Req
  PROVE  Together(kind, q)
<1>. SUFFICES ASSUME NEW r \in Req, r.client = q.client, r.address = q.address, WayOf(r) = WayOf(q)
              PROVE  ServerFor(kind, r) = ServerFor(kind, q)
  BY DEF Together
<1>1. kind \in {"serial", "parallel", "banked", "ddr"}
  BY SystemAssumption DEF SystemAssumption
<1>2. CASE kind = "ddr"
  BY <1>2 DEF ServerFor, WayOf
<1>3. CASE kind # "ddr"
  BY <1>1, <1>3 DEF ServerFor
<1>. QED  BY <1>2, <1>3

\* The response to a request: a read carries what memory holds.
ResponseTo(r) == IF r.write THEN r ELSE [r EXCEPT !.data = Contents(r)]

LEMMA ResponseType ==
  ASSUME IInv, NEW r \in Req
  PROVE  /\ ResponseTo(r) \in Req /\ SameRequest(ResponseTo(r), r)
         /\ ResponseTo(r).write = r.write /\ ResponseTo(r).address = r.address
         /\ Stored(r) \in [Addr -> Data]
<1>1. store \in [Addr -> Data]
  BY DEF IInv, StoreOK
<1>2. r.address \in Addr /\ r.data \in Data
  BY ReqFields
<1>3. Contents(r) \in Data
  BY <1>1, <1>2 DEF Contents
<1>4. Blit(store[r.address], r.data) \in Data
  BY <1>1, <1>2 DEF Blit, Data
<1>5. Stored(r) \in [Addr -> Data]
  BY <1>1, <1>2, <1>4 DEF Stored
<1>6. /\ ResponseTo(r) \in Req /\ SameRequest(ResponseTo(r), r)
      /\ ResponseTo(r).write = r.write /\ ResponseTo(r).address = r.address
  <2>1. CASE r.write
    BY <2>1 DEF ResponseTo, SameRequest
  <2>2. CASE ~r.write
    BY <2>2, <1>3 DEF ResponseTo, SameRequest, Req
  <2>. QED  BY <2>1, <2>2
<1>. QED  BY <1>5, <1>6

Views == [client : Client, seq : Nat, write : BOOLEAN, address : Addr, data : Data, way : Way, done : BOOLEAN]

LEMMA ViewsEqual ==
  ASSUME NEW u \in Views, NEW v \in Views, u.client = v.client, u.seq = v.seq, u.write = v.write,
         u.address = v.address, u.data = v.data, u.way = v.way, u.done = v.done
  PROVE  u = v
  BY DEF Views

LEMMA ViewDone ==
  ASSUME NEW v \in Views, NEW e \in Data
  PROVE  LET w == [v EXCEPT !.done = TRUE, !.data = e]
         IN  /\ w \in Views /\ w.client = v.client /\ w.seq = v.seq /\ w.write = v.write
             /\ w.address = v.address /\ w.data = e /\ w.way = v.way /\ w.done = TRUE
  BY DEF Views

LEMMA SeenFields ==
  ASSUME kind \in Kinds, NEW r \in Req, NEW d \in BOOLEAN
  PROVE  LET w == Seen(r, d)
         IN  /\ w \in Views /\ w.client = r.client /\ w.seq = r.seq /\ w.write = r.write
             /\ w.address = r.address /\ w.data = r.data /\ w.way = WayOf(r) /\ w.done = d
  BY WayType DEF Seen, Req, Views

\* What the service does with the request that r is for it.
LEMMA ServicePerforms ==
  ASSUME IInv, NEW r \in Req, WritesDone(Asked, r)
  PROVE  /\ Service!Performable(Seen(r, FALSE))
         /\ Service!Effect(Seen(r, FALSE)) = Stored(r)
         /\ Service!Performed(Seen(r, FALSE)) = Seen(ResponseTo(r), TRUE)
<1>1. Service!Performable(Seen(r, FALSE))
  BY DEF Service!Performable, Seen, WritesDone
<1>2. Service!Effect(Seen(r, FALSE)) = Stored(r)
  BY DEF Service!Effect, Service!Written, Seen, Stored, Blit
<1>3. Service!Performed(Seen(r, FALSE)) = Seen(ResponseTo(r), TRUE)
  <2>. DEFINE d == IF r.write THEN r.data ELSE store[r.address]
              v == Seen(r, FALSE)
  <2>1. v.write = r.write /\ v.data = r.data /\ v.address = r.address /\ v.way = WayOf(r)
    BY DEF Seen
  <2>2. Service!Performed(v) = [v EXCEPT !.done = TRUE, !.data = d]
    BY <2>1 DEF Service!Performed
  <2>3. d \in Data /\ v \in Views
    BY ReqFields, SeenFields DEF IInv, StoreOK
  <2>4. LET q == ResponseTo(r) IN /\ q.client = r.client /\ q.seq = r.seq /\ q.write = r.write
                                 /\ q.address = r.address /\ q.data = d /\ WayOf(q) = WayOf(r)
    BY DEF ResponseTo, Contents, Req, WayOf, InterfaceOf
  <2>5. v.client = r.client /\ v.seq = r.seq
    BY DEF Seen
  <2>6. ResponseTo(r) \in Req
    BY ResponseType
  <2>. HIDE DEF d, v
  <2>. DEFINE u == [v EXCEPT !.done = TRUE, !.data = d]
              w == Seen(ResponseTo(r), TRUE)
  <2>7. /\ u \in Views /\ u.client = r.client /\ u.seq = r.seq /\ u.write = r.write
        /\ u.address = r.address /\ u.data = d /\ u.way = WayOf(r) /\ u.done = TRUE
    BY <2>1, <2>3, <2>5, ViewDone
  <2>8. /\ w \in Views /\ w.client = r.client /\ w.seq = r.seq /\ w.write = r.write
        /\ w.address = r.address /\ w.data = d /\ w.way = WayOf(r) /\ w.done = TRUE
    BY <2>4, <2>6, SeenFields DEF IInv
  <2>. HIDE DEF u, w
  <2>9. u = w
    BY <2>7, <2>8, ViewsEqual
  <2>. QED  BY <2>2, <2>9 DEF u, v, w
<1>. QED  BY <1>1, <1>2, <1>3

LEMMA ServerOf ==
  ASSUME IInv, NEW s \in Servers
  PROVE  /\ server \in [Servers -> Server] /\ server[s] \in Server
         /\ server[s].requests \in Seq(Req) /\ server[s].active \in Seq(Req)
         /\ server[s].responses \in Seq(Req) /\ server[s].timing \in BOOLEAN
         /\ Working(s) /\ Queues(server, Servers, count, kind)
<1>1. server \in [Servers -> Server]
  BY DEF IInv, Queues
<1>2. server[s] \in Server
  BY <1>1
<1>. QED  BY <1>1, <1>2 DEF IInv, Server

\* Of the servers, only s changes.
ServerBecomes(s, v) == v \in Server /\ server' = [server EXCEPT ![s] = v]

LEMMA OneServer ==
  ASSUME IInv, NEW s \in Servers, NEW v, ServerBecomes(s, v)
  PROVE  OnlyAt(Servers, server, server', s) /\ server'[s] = v
<1>1. server \in [Servers -> Server]
  BY ServerOf
<1>. QED  BY <1>1 DEF ServerBecomes, OnlyAt

\* What makes up IInv after a step that leaves the kind of memory.
LEMMA Kept ==
  ASSUME IInv, UNCHANGED <<kind, stamp>>, store' \in [Addr -> Data], count' \in [Client -> Nat],
         CachesOK(cache'), ddr' \in [Servers -> Channel], Queues(server', Servers, count', kind),
         \A s \in Servers : Working(s)'
  PROVE  IInv' /\ Servers' = Servers
<1>1. Servers' = Servers
  BY DEF Servers
<1>2. StoreOK'
  BY DEF IInv, StoreOK
<1>. QED  BY <1>1, <1>2 DEF IInv

\* What the steps of a server do: the first request is performed and answered,
\* goes to work, is performed at work, or is answered; or only times change.
Finishing(s) ==
    /\ OnlyAt(Servers, server, server', s) /\ server[s].requests # <<>>
    /\ \A i \in 1..Len(server[s].active) : ~server[s].active[i].write
    /\ Finishes(server[s], server'[s]) /\ store' = Stored(Head(server[s].requests))
    /\ cache' = Called(Head(server[s].requests), ResponseTo(Head(server[s].requests)).data)
    /\ UNCHANGED kind
Answering(s) ==
    /\ OnlyAt(Servers, server, server', s) /\ server[s].responses # <<>>
    /\ Answers(server[s], server'[s])
    /\ cache' = Called(Head(server[s].responses), Head(server[s].responses).data)
    /\ UNCHANGED <<kind, store>>
Starting(s) ==
    /\ OnlyAt(Servers, server, server', s) /\ server[s].requests # <<>>
    /\ Starts(server[s], server'[s]) /\ UNCHANGED <<kind, store, cache>>
Performing(s) ==
    /\ OnlyAt(Servers, server, server', s) /\ server[s].active # <<>>
    /\ Ends(server[s], server'[s], ResponseTo(Head(server[s].active)))
    /\ store' = Stored(Head(server[s].active)) /\ UNCHANGED <<kind, cache>>
SameQueues(s) ==
    /\ server'[s].requests = server[s].requests /\ server'[s].active = server[s].active
    /\ server'[s].responses = server[s].responses
Timing == UNCHANGED <<kind, store, cache>> /\ \A s \in Servers : SameQueues(s)
MemoryDoes == Timing \/ \E s \in Servers : Finishing(s) \/ Starting(s) \/ Performing(s) \/ Answering(s)

LEMMA TimingStep ==
  ASSUME IInv, NEW s \in Servers, StartTiming(s), kind \in {"serial", "parallel"}, UNCHANGED stamp
  PROVE  IInv' /\ UNCHANGED Service!vars /\ Timing
<1>1. server \in [Servers -> Server] /\ Queues(server, Servers, count, kind)
  BY ServerOf
<1>2. UNCHANGED <<kind, store, ddr, cache, count, answer>>
  BY DEF StartTiming
<1>3. /\ server' \in [Servers -> Server]
      /\ \A t \in Servers : /\ server'[t].requests = server[t].requests
                            /\ server'[t].active = server[t].active
                            /\ server'[t].responses = server[t].responses
                            /\ t # s => server'[t] = server[t]
  BY <1>1 DEF StartTiming, Server
<1>4. HeldIn(server', Servers) = HeldIn(server, Servers)
  BY <1>3 DEF HeldIn
<1>5. Queues(server', Servers, count', kind)
  BY <1>1, <1>2, <1>3, <1>4 DEF Queues
<1>6. ASSUME NEW t \in Servers PROVE Working(t)'
  <2>1. Working(t)
    BY ServerOf
  <2>2. t = s => server[s].requests # <<>>
    BY DEF StartTiming
  <2>. QED  BY <2>1, <2>2, <1>2, <1>3 DEF Working
<1>7. IInv' /\ Servers' = Servers
  BY <1>2, <1>5, <1>6, Kept DEF IInv, StoreOK
<1>8. AskedIn(server', Servers) = AskedIn(server, Servers)
  BY <1>1, <1>3, <1>4, AskedIsHeld DEF AskedIn
<1>9. Asked' = Asked
  BY <1>2, <1>7, <1>8, AskedServers
<1>10. Timing
  BY <1>2, <1>3 DEF Timing, SameQueues
<1>. QED  BY <1>2, <1>7, <1>9, <1>10 DEF Service!vars

\* A request is performed and answered in one step.
LEMMA FinishStep ==
  ASSUME IInv, NEW s \in Servers, OnlyAt(Servers, server, server', s),
         server[s].requests # <<>>, \A i \in 1..Len(server[s].active) : ~server[s].active[i].write,
         Finishes(server[s], server'[s]),
         store' = Stored(Head(server[s].requests)),
         cache' = Called(Head(server[s].requests), ResponseTo(Head(server[s].requests)).data),
         answer' = AnswerOf(Head(server[s].requests), ResponseTo(Head(server[s].requests)).data),
         UNCHANGED <<kind, count, stamp>>,
         ddr' \in [Servers -> Channel], \A t \in Servers : Working(t)'
  PROVE  IInv' /\ Service!Next
<1>. DEFINE r == Head(server[s].requests)
<1>1. Queues(server, Servers, count, kind) /\ server[s].requests \in Seq(Req)
  BY ServerOf
<1>2. r \in Req
  BY <1>1, TailAt
<1>3. /\ Queues(server', Servers, count, kind)
      /\ AskedIn(server', Servers) = AskedIn(server, Servers) \ {Seen(r, FALSE)}
      /\ Seen(r, FALSE) \in AskedIn(server, Servers)
  BY <1>1, RequestDone
<1>4. CachesOK(cache')
  BY <1>2, CalledCaches, ReqFields DEF IInv
<1>5. store' \in [Addr -> Data]
  BY <1>2, ResponseType
<1>6. IInv' /\ Servers' = Servers
  BY <1>3, <1>4, <1>5, Kept DEF IInv, StoreOK
<1>7. WritesDone(Asked, r)
  <2>1. Together(kind, r)
    BY <1>2, SameWay DEF IInv
  <2>2. WritesDone(AskedIn(server, Servers), r)
    BY <2>1, <1>1, FirstRequest
  <2>. QED  BY <2>2, AskedServers
<1>8. Service!PerformAndAnswer(Seen(r, FALSE))
  <2>1. /\ Service!Performable(Seen(r, FALSE)) /\ Service!Effect(Seen(r, FALSE)) = Stored(r)
        /\ Service!Performed(Seen(r, FALSE)) = Seen(ResponseTo(r), TRUE)
    BY <1>2, <1>7, ServicePerforms
  <2>2. Service!AnswerOf(Seen(ResponseTo(r), TRUE)) = AnswerOf(r, ResponseTo(r).data)
    <3>1. ResponseTo(r).client = r.client /\ ResponseTo(r).seq = r.seq
      BY <1>2, ResponseType DEF SameRequest
    <3>. QED  BY <3>1 DEF Service!AnswerOf, AnswerOf, Seen
  <2>3. Asked' = Asked \ {Seen(r, FALSE)}
    BY <1>3, <1>6, AskedServers
  <2>. QED  BY <2>1, <2>2, <2>3 DEF Service!PerformAndAnswer
<1>9. Seen(r, FALSE) \in Asked
  BY <1>3, AskedServers
<1>. QED  BY <1>6, <1>8, <1>9 DEF Service!Next

\* A response is sent.
LEMMA AnswerStep ==
  ASSUME IInv, NEW s \in Servers, server[s].responses # <<>>,
         OnlyAt(Servers, server, server', s), Answers(server[s], server'[s]),
         server'[s].timing = server[s].timing,
         cache' = Called(Head(server[s].responses), Head(server[s].responses).data),
         answer' = AnswerOf(Head(server[s].responses), Head(server[s].responses).data),
         UNCHANGED <<kind, store, ddr, count, stamp>>
  PROVE  IInv' /\ Service!Next
<1>. DEFINE r == Head(server[s].responses)
<1>1. server[s].responses \in Seq(Req) /\ Queues(server, Servers, count, kind)
  BY ServerOf
<1>2. r \in Req
  BY <1>1, TailAt
<1>3. /\ Queues(server', Servers, count, kind)
      /\ AskedIn(server', Servers) = AskedIn(server, Servers) \ {Seen(r, TRUE)}
      /\ Seen(r, TRUE) \in AskedIn(server, Servers)
  BY <1>1, ResponseSent
<1>4. CachesOK(cache')
  BY <1>2, CalledCaches, ReqFields DEF IInv
<1>5. ASSUME NEW t \in Servers PROVE Working(t)'
  <2>1. Working(t)
    BY ServerOf
  <2>2. t # s => server'[t] = server[t]
    BY DEF OnlyAt
  <2>. QED  BY <2>1, <2>2 DEF Working, Answers
<1>6. IInv' /\ Servers' = Servers
  BY <1>3, <1>4, <1>5, Kept DEF IInv, StoreOK
<1>7. Asked' = Asked \ {Seen(r, TRUE)} /\ Seen(r, TRUE) \in Asked
  BY <1>3, <1>6, AskedServers
<1>8. Service!Answer(Seen(r, TRUE))
  BY <1>7 DEF Service!Answer, Service!AnswerOf, AnswerOf, Seen
<1>. QED  BY <1>6, <1>7, <1>8 DEF Service!Next

\* A request goes to work.
LEMMA StartStep ==
  ASSUME IInv, NEW s \in Servers, OnlyAt(Servers, server, server', s), server[s].requests # <<>>,
         Starts(server[s], server'[s]), UNCHANGED <<kind, store, cache, count, answer, stamp>>,
         ddr' \in [Servers -> Channel], \A t \in Servers : Working(t)'
  PROVE  IInv' /\ UNCHANGED Service!vars
<1>2. Queues(server, Servers, count, kind)
  BY ServerOf
<1>3. Queues(server', Servers, count, kind) /\ AskedIn(server', Servers) = AskedIn(server, Servers)
  BY <1>2, RequestStarted
<1>4. IInv' /\ Servers' = Servers
  BY <1>3, Kept DEF IInv, StoreOK
<1>5. Asked' = Asked
  BY <1>3, <1>4, AskedServers
<1>. QED  BY <1>4, <1>5 DEF Service!vars

\* A request at work is performed.
LEMMA PerformStep ==
  ASSUME IInv, NEW s \in Servers, OnlyAt(Servers, server, server', s),
         server[s].active # <<>>, Ends(server[s], server'[s], ResponseTo(Head(server[s].active))),
         store' = Stored(Head(server[s].active)),
         UNCHANGED <<kind, cache, count, answer, stamp>>,
         ddr' \in [Servers -> Channel], \A t \in Servers : Working(t)'
  PROVE  IInv' /\ Service!Next
<1>. DEFINE r == Head(server[s].active)
<1>2. Queues(server, Servers, count, kind) /\ server[s].active \in Seq(Req)
  BY ServerOf
<1>3. r \in Req
  BY <1>2, TailAt
<1>4. ResponseTo(r) \in Req /\ SameRequest(ResponseTo(r), r) /\ Stored(r) \in [Addr -> Data]
  BY <1>3, ResponseType
<1>5. ServerFor(kind, ResponseTo(r)) = ServerFor(kind, r)
  <2>1. ResponseTo(r).write = r.write /\ ResponseTo(r).address = r.address /\ ResponseTo(r).client = r.client
    BY <1>3, <1>4, ResponseType DEF SameRequest
  <2>. QED  BY <2>1 DEF ServerFor, InterfaceOf
<1>6. /\ Queues(server', Servers, count, kind)
      /\ AskedIn(server', Servers)
           = (AskedIn(server, Servers) \ {Seen(r, FALSE)}) \cup {Seen(ResponseTo(r), TRUE)}
      /\ Seen(r, FALSE) \in AskedIn(server, Servers)
  <2>. DEFINE q == ResponseTo(r)
  <2>1. q \in Req /\ SameRequest(q, Head(server[s].active)) /\ Ends(server[s], server'[s], q)
    BY <1>4
  <2>2. ServerFor(kind, q) = ServerFor(kind, Head(server[s].active))
    BY <1>5
  <2>. HIDE DEF q
  <2>3. /\ Queues(server', Servers, count, kind)
        /\ AskedIn(server', Servers)
             = (AskedIn(server, Servers) \ {Seen(Head(server[s].active), FALSE)}) \cup {Seen(q, TRUE)}
        /\ Seen(Head(server[s].active), FALSE) \in AskedIn(server, Servers)
    BY <1>2, <2>1, <2>2, RequestEnds
  <2>. QED  BY <2>3 DEF q
<1>7. IInv' /\ Servers' = Servers
  BY <1>4, <1>6, Kept DEF IInv, StoreOK
<1>8. WritesDone(Asked, r)
  <2>1. Together(kind, r)
    BY <1>3, SameWay DEF IInv
  <2>2. WritesDone(AskedIn(server, Servers), r)
    BY <2>1, <1>2, FirstActive
  <2>. QED  BY <2>2, AskedServers
<1>9. /\ Asked' = (Asked \ {Seen(r, FALSE)}) \cup {Seen(ResponseTo(r), TRUE)}
      /\ Seen(r, FALSE) \in Asked
  BY <1>6, <1>7, AskedServers
<1>10. Service!Perform(Seen(r, FALSE))
  <2>1. /\ Service!Performable(Seen(r, FALSE)) /\ Service!Effect(Seen(r, FALSE)) = Stored(r)
        /\ Service!Performed(Seen(r, FALSE)) = Seen(ResponseTo(r), TRUE)
    BY <1>3, <1>8, ServicePerforms
  <2>. QED  BY <2>1, <1>9 DEF Service!Perform
<1>. QED  BY <1>7, <1>9, <1>10 DEF Service!Next
-----------------------------------------------------------------------------
(* The actions of the memories. *)
LEMMA ResponseData ==
  ASSUME NEW r \in Req
  PROVE  ResponseTo(r).data = IF r.write THEN r.data ELSE Contents(r)
  BY DEF ResponseTo, Req

LEMMA TimedStep ==
  ASSUME IInv, NEW s \in Servers, FinishTimed(s), kind \in {"serial", "parallel"},
         UNCHANGED stamp
  PROVE  IInv' /\ Service!Next /\ Finishing(s)
<1>. DEFINE r == Head(server[s].requests)
            v == [server[s] EXCEPT !.requests = Tail(@), !.timing = FALSE]
<1>1. /\ server \in [Servers -> Server] /\ server[s] \in Server /\ server[s].requests \in Seq(Req)
      /\ server[s].active = <<>> /\ server[s].requests # <<>>
  BY ServerOf DEF Working, FinishTimed
<1>2. r \in Req /\ Tail(server[s].requests) \in Seq(Req)
  BY <1>1, TailAt
<1>3. v \in Server /\ Finishes(server[s], v) /\ v.timing = FALSE
  BY <1>1, <1>2 DEF Server, Finishes
<1>4. ServerBecomes(s, v)
  BY <1>1, <1>3 DEF FinishTimed, ServerBecomes
<1>. HIDE DEF v
<1>5. OnlyAt(Servers, server, server', s) /\ server'[s] = v
  BY <1>4, OneServer
<1>6. Finishes(server[s], server'[s]) /\ server'[s].timing = FALSE
  BY <1>3, <1>5
<1>7. cache' = Called(r, ResponseTo(r).data) /\ answer' = AnswerOf(r, ResponseTo(r).data)
  BY <1>2, ResponseData DEF FinishTimed
<1>8. UNCHANGED <<kind, ddr, count>> /\ store' = Stored(r)
  BY DEF FinishTimed
<1>9. ASSUME NEW t \in Servers PROVE Working(t)'
  <2>1. Working(t)
    BY ServerOf
  <2>2. t # s => server'[t] = server[t]
    BY <1>5 DEF OnlyAt
  <2>. QED  BY <2>1, <2>2, <1>1, <1>6, <1>8 DEF Working, Finishes
<1>10. ddr' \in [Servers -> Channel]
  BY <1>8 DEF IInv
<1>11. Finishing(s)
  BY <1>1, <1>5, <1>6, <1>7, <1>8 DEF Finishing
<1>. QED  BY <1>1, <1>5, <1>6, <1>7, <1>8, <1>9, <1>10, <1>11, FinishStep

LEMMA IncomingStep ==
  ASSUME IInv, NEW s \in Servers, DoIncoming(s), UNCHANGED stamp
  PROVE  IInv' /\ UNCHANGED Service!vars /\ Starting(s)
<1>. DEFINE v == [server[s] EXCEPT !.active = <<Head(server[s].requests)>>, !.requests = Tail(@)]
<1>1. /\ server \in [Servers -> Server] /\ server[s] \in Server /\ server[s].requests \in Seq(Req)
      /\ server[s].active = <<>> /\ server[s].requests # <<>> /\ kind = "banked"
  BY ServerOf DEF DoIncoming
<1>2. Head(server[s].requests) \in Req /\ Tail(server[s].requests) \in Seq(Req)
  BY <1>1, TailAt
<1>3. /\ v \in Server /\ v.timing = server[s].timing /\ Len(v.active) = 1
      /\ v.requests = Tail(server[s].requests) /\ v.active = <<Head(server[s].requests)>>
      /\ v.responses = server[s].responses
  <2>1. <<Head(server[s].requests)>> \in Seq(Req) /\ Len(<<Head(server[s].requests)>>) = 1
    BY <1>2
  <2>. DEFINE a == <<Head(server[s].requests)>>
              q == Tail(server[s].requests)
  <2>. HIDE DEF a, q
  <2>2. v = [server[s] EXCEPT !.active = a, !.requests = q]
    BY DEF a, q
  <2>3. a \in Seq(Req) /\ q \in Seq(Req) /\ Len(a) = 1
    BY <2>1, <1>2 DEF a, q
  <2>. HIDE DEF v
  <2>. QED  BY <1>1, <2>2, <2>3 DEF Server, a, q
<1>4. Starts(server[s], v)
  <2>1. Append(server[s].active, Head(server[s].requests)) = <<Head(server[s].requests)>>
    BY <1>1
  <2>. QED  BY <2>1, <1>3 DEF Starts
<1>5. ServerBecomes(s, v)
  BY <1>1, <1>3 DEF DoIncoming, ServerBecomes
<1>. HIDE DEF v
<1>6. OnlyAt(Servers, server, server', s) /\ server'[s] = v
  BY <1>5, OneServer
<1>7. Starts(server[s], server'[s])
  BY <1>4, <1>6
<1>8. UNCHANGED <<kind, store, ddr, cache, count, answer>>
  BY DEF DoIncoming
<1>9. ASSUME NEW t \in Servers PROVE Working(t)'
  <2>1. Len(server[t].active) <= 1 /\ ~server[t].timing /\ ~server[s].timing
    <3>1. Working(t) /\ Working(s)
      BY ServerOf
    <3>2. kind = "banked"
      BY <1>1
    <3>. QED  BY <3>1, <3>2 DEF Working
  <2>2. t # s => server'[t] = server[t]
    BY <1>6 DEF OnlyAt
  <2>3. Len(server'[t].active) <= 1 /\ ~server'[t].timing
    <3>1. CASE t = s
      <4>1. server'[t] = v /\ Len(v.active) <= 1 /\ v.timing = server[t].timing
        BY <3>1, <1>3, <1>6
      <4>. QED  BY <4>1, <2>1
    <3>2. CASE t # s
      BY <3>2, <2>1, <2>2
    <3>. QED  BY <3>1, <3>2
  <2>4. kind' = "banked"
    BY <1>1, <1>8
  <2>. QED  BY <2>3, <2>4 DEF Working
<1>10. ddr' \in [Servers -> Channel]
  BY <1>8 DEF IInv
<1>11. Starting(s)
  BY <1>1, <1>6, <1>7, <1>8 DEF Starting
<1>. QED  BY <1>1, <1>6, <1>7, <1>8, <1>9, <1>10, <1>11, StartStep

LEMMA BankStep ==
  ASSUME IInv, NEW s \in Servers, DoRequest(s), UNCHANGED stamp
  PROVE  IInv' /\ Service!Next /\ Performing(s)
<1>. DEFINE r == Head(server[s].active)
            v == [server[s] EXCEPT !.active = <<>>, !.responses = Append(@, ResponseTo(r))]
<1>1. /\ server \in [Servers -> Server] /\ server[s] \in Server /\ server[s].active \in Seq(Req)
      /\ server[s].responses \in Seq(Req) /\ server[s].active # <<>> /\ kind = "banked"
      /\ Len(server[s].active) <= 1
  BY ServerOf DEF DoRequest, Working
<1>2. r \in Req /\ ResponseTo(r) \in Req /\ Tail(server[s].active) = <<>>
  <2>1. r \in Req
    BY <1>1, TailAt
  <2>2. Tail(server[s].active) = <<>>
    BY <1>1
  <2>. QED  BY <2>1, <2>2, ResponseType
<1>3. /\ v \in Server /\ v.timing = server[s].timing /\ v.active = <<>>
      /\ v.requests = server[s].requests /\ v.responses = Append(server[s].responses, ResponseTo(r))
  <2>. DEFINE a == Append(server[s].responses, ResponseTo(r))
  <2>1. a \in Seq(Req) /\ <<>> \in Seq(Req)
    BY <1>1, <1>2
  <2>2. v = [server[s] EXCEPT !.active = <<>>, !.responses = a]
    OBVIOUS
  <2>. HIDE DEF v, a
  <2>3. /\ v \in Server /\ v.timing = server[s].timing /\ v.active = <<>>
        /\ v.requests = server[s].requests /\ v.responses = a
    BY <1>1, <2>1, <2>2 DEF Server
  <2>. QED  BY <2>3 DEF a
<1>4. Ends(server[s], v, ResponseTo(r))
  BY <1>2, <1>3 DEF Ends
<1>5. ServerBecomes(s, v)
  BY <1>1, <1>3 DEF DoRequest, ServerBecomes, ResponseTo
<1>. HIDE DEF v
<1>6. OnlyAt(Servers, server, server', s) /\ server'[s] = v
  BY <1>5, OneServer
<1>7. Ends(server[s], server'[s], ResponseTo(r))
  BY <1>4, <1>6
<1>8. UNCHANGED <<kind, ddr, cache, count, answer>> /\ store' = Stored(r)
  BY DEF DoRequest
<1>9. ASSUME NEW t \in Servers PROVE Working(t)'
  <2>1. Len(server[t].active) <= 1 /\ ~server[t].timing /\ ~server[s].timing
    <3>1. Working(t) /\ Working(s)
      BY ServerOf
    <3>2. kind = "banked"
      BY <1>1
    <3>. QED  BY <3>1, <3>2 DEF Working
  <2>2. t # s => server'[t] = server[t]
    BY <1>6 DEF OnlyAt
  <2>3. Len(server'[t].active) <= 1 /\ ~server'[t].timing
    <3>1. CASE t = s
      <4>1. server'[t] = v /\ Len(v.active) <= 1 /\ v.timing = server[t].timing
        BY <3>1, <1>3, <1>6
      <4>. QED  BY <4>1, <2>1
    <3>2. CASE t # s
      BY <3>2, <2>1, <2>2
    <3>. QED  BY <3>1, <3>2
  <2>4. kind' = "banked"
    BY <1>1, <1>8
  <2>. QED  BY <2>3, <2>4 DEF Working
<1>10. ddr' \in [Servers -> Channel]
  BY <1>8 DEF IInv
<1>11. Performing(s)
  BY <1>1, <1>6, <1>7, <1>8 DEF Performing
<1>. QED  BY <1>1, <1>6, <1>7, <1>8, <1>9, <1>10, <1>11, PerformStep

LEMMA ResponseStep ==
  ASSUME IInv, NEW s \in Servers, DoOutgoing(s) \/ DoResponses(s), UNCHANGED stamp
  PROVE  IInv' /\ Service!Next /\ Answering(s)
<1>. DEFINE r == Head(server[s].responses)
            v == [server[s] EXCEPT !.responses = Tail(@)]
<1>1. /\ server \in [Servers -> Server] /\ server[s] \in Server /\ server[s].responses \in Seq(Req)
      /\ server[s].responses # <<>>
  BY ServerOf DEF DoOutgoing, DoResponses
<1>2. Tail(server[s].responses) \in Seq(Req)
  BY <1>1, TailAt
<1>3. v \in Server /\ Answers(server[s], v) /\ v.timing = server[s].timing
  BY <1>1, <1>2 DEF Server, Answers
<1>4. ServerBecomes(s, v)
  BY <1>1, <1>3 DEF DoOutgoing, DoResponses, ServerBecomes
<1>. HIDE DEF v
<1>5. OnlyAt(Servers, server, server', s) /\ server'[s] = v
  BY <1>4, OneServer
<1>6. Answers(server[s], server'[s]) /\ server'[s].timing = server[s].timing
  BY <1>3, <1>5
<1>7. /\ cache' = Called(r, r.data) /\ answer' = AnswerOf(r, r.data)
      /\ UNCHANGED <<kind, store, ddr, count>>
  BY DEF DoOutgoing, DoResponses
<1>8. Answering(s)
  BY <1>1, <1>5, <1>6, <1>7 DEF Answering
<1>. QED  BY <1>1, <1>5, <1>6, <1>7, <1>8, AnswerStep

LEMMA ChannelOf ==
  ASSUME IInv, NEW s \in Servers
  PROVE  /\ ddr \in [Servers -> Channel] /\ ddr[s] \in Channel
         /\ ddr[s].request \in Seq([write : BOOLEAN, row : Row, left : Int])
         /\ ddr[s].pipeline \in Seq(Nat) /\ ddr[s].row \in Row /\ ddr[s].command \in Nat
         /\ ddr[s].precharge \in Nat
  BY DEF IInv, Channel

\* A channel takes a request.
LEMMA TakenChannel ==
  ASSUME IInv, NEW s \in Servers, NEW r \in Req, ddr' = [ddr EXCEPT ![s] = Taken(@, r)]
  PROVE  /\ ddr' \in [Servers -> Channel] /\ \A t \in Servers : t # s => ddr'[t] = ddr[t]
         /\ ddr'[s].pipeline = ddr[s].pipeline
         /\ Reading(ddr'[s]) = IF r.write THEN 0 ELSE 1
<1>. DEFINE e == [write |-> r.write, row |-> RowOf[r.address], left |-> Bursts]
            ch == [ddr[s] EXCEPT !.request = <<e>>]
<1>1. ddr \in [Servers -> Channel] /\ ddr[s] \in Channel
  BY ChannelOf
<1>2. e \in [write : BOOLEAN, row : Row, left : Int] /\ e.write = r.write
  BY ReqFields, SystemAssumption DEF SystemAssumption, Row
<1>. HIDE DEF e
<1>3. <<e>> \in Seq([write : BOOLEAN, row : Row, left : Int]) /\ Head(<<e>>) = e /\ <<e>> # <<>>
  BY <1>2
<1>4. ch \in Channel /\ ch.pipeline = ddr[s].pipeline /\ ch.request = <<e>>
  BY <1>1, <1>3 DEF Channel
<1>5. ddr' = [ddr EXCEPT ![s] = ch]
  BY DEF Taken, e
<1>. HIDE DEF ch
<1>6. /\ ddr' \in [Servers -> Channel] /\ \A t \in Servers : t # s => ddr'[t] = ddr[t]
      /\ ddr'[s] = ch
  BY <1>1, <1>4, <1>5
<1>7. Reading(ch) = IF r.write THEN 0 ELSE 1
  BY <1>2, <1>3, <1>4 DEF Reading
<1>. QED  BY <1>4, <1>6, <1>7

\* What is at work for a DDR channel.
LEMMA WorkingDDR ==
  ASSUME NEW s, kind = "ddr"
  PROVE  Working(s) <=>
           /\ ~server[s].timing
           /\ \A i \in 1..Len(server[s].active) : ~server[s].active[i].write
           /\ Len(server[s].active) = Len(ddr[s].pipeline) + Reading(ddr[s])
  BY DEF Working

LEMMA WorkingDDRNext ==
  ASSUME NEW s, kind' = "ddr", ~server'[s].timing,
         \A i \in 1..Len(server'[s].active) : ~server'[s].active[i].write,
         Len(server'[s].active) = Len(ddr'[s].pipeline) + Reading(ddr'[s])
  PROVE  Working(s)'
  BY DEF Working, Reading

LEMMA DDRTakes ==
  ASSUME IInv, NEW s \in Servers, DDRDoRequests(s), UNCHANGED stamp
  PROVE  IInv' /\ [Service!Next]_(Service!vars) /\ (Finishing(s) \/ Starting(s))
<1>. DEFINE r == Head(server[s].requests)
            active == IF r.write THEN server[s].active ELSE Append(server[s].active, r)
            v == [server[s] EXCEPT !.requests = Tail(@), !.active = active]
<1>1. /\ server \in [Servers -> Server] /\ server[s] \in Server /\ server[s].requests \in Seq(Req)
      /\ server[s].active \in Seq(Req) /\ server[s].requests # <<>> /\ kind = "ddr" /\ kind' = "ddr"
      /\ ddr[s].request = <<>>
  BY ServerOf DEF DDRDoRequests
<1>2. r \in Req /\ Tail(server[s].requests) \in Seq(Req)
  BY <1>1, TailAt
<1>3. /\ active \in Seq(Req) /\ Len(server[s].active) \in Nat
      /\ Len(active) = Len(server[s].active) + (IF r.write THEN 0 ELSE 1)
      /\ \A i \in 1..Len(active) : \/ i \in 1..Len(server[s].active) /\ active[i] = server[s].active[i]
                                   \/ active[i] = r /\ ~r.write
  <2>1. CASE r.write
    <3>. DEFINE q == server[s].active
    <3>1. q \in Seq(Req) /\ active = q
      BY <1>1, <2>1
    <3>. HIDE DEF active, q
    <3>2. /\ active \in Seq(Req) /\ Len(q) \in Nat /\ Len(active) = Len(q)
          /\ \A i \in 1..Len(active) : i \in 1..Len(q) /\ active[i] = q[i]
      BY <3>1
    <3>. QED  BY <3>2, <2>1 DEF q
  <2>2. CASE ~r.write
    <3>. DEFINE q == server[s].active
    <3>1. q \in Seq(Req) /\ active = Append(q, r)
      BY <1>1, <2>2
    <3>. HIDE DEF active, q
    <3>2. /\ active \in Seq(Req) /\ Len(q) \in Nat /\ Len(active) = Len(q) + 1
          /\ \A i \in 1..Len(active) : (i \in 1..Len(q) /\ active[i] = q[i]) \/ active[i] = r
      BY <1>2, <3>1
    <3>. QED  BY <3>2, <2>2 DEF q
  <2>. QED  BY <2>1, <2>2
<1>4. server' = [server EXCEPT ![s] = v]
  <2>1. CASE r.write
    <3>1. server' = [server EXCEPT ![s].requests = Tail(@)]
      BY <2>1 DEF DDRDoRequests
    <3>2. [server[s] EXCEPT !.requests = Tail(@)] = v
      BY <2>1, <1>1 DEF Server
    <3>. QED  BY <3>1, <3>2
  <2>2. CASE ~r.write
    BY <2>2, <1>1 DEF DDRDoRequests, Server
  <2>. QED  BY <2>1, <2>2
<1>. HIDE DEF active
<1>5. /\ v \in Server /\ v.requests = Tail(server[s].requests) /\ v.active = active
      /\ v.responses = server[s].responses /\ v.timing = server[s].timing
  BY <1>1, <1>2, <1>3 DEF Server
<1>6. ServerBecomes(s, v)
  BY <1>4, <1>5 DEF ServerBecomes
<1>. HIDE DEF v
<1>7. OnlyAt(Servers, server, server', s) /\ server'[s] = v
  BY <1>6, OneServer
<1>8. /\ ddr' \in [Servers -> Channel] /\ \A t \in Servers : t # s => ddr'[t] = ddr[t]
      /\ ddr'[s].pipeline = ddr[s].pipeline /\ Reading(ddr'[s]) = IF r.write THEN 0 ELSE 1
  BY <1>2, TakenChannel DEF DDRDoRequests
<1>9. /\ ~server[s].timing /\ \A i \in 1..Len(server[s].active) : ~server[s].active[i].write
      /\ Len(server[s].active) = Len(ddr[s].pipeline)
  <2>1. Working(s)
    BY ServerOf
  <2>2. Reading(ddr[s]) = 0
    BY <1>1 DEF Reading
  <2>3. Len(ddr[s].pipeline) \in Nat
    BY ChannelOf
  <2>. QED  BY <1>1, <2>1, <2>2, <2>3, WorkingDDR
<1>10. ASSUME NEW t \in Servers PROVE Working(t)'
  <2>1. CASE t = s
    <3>1. \A i \in 1..Len(active) : ~active[i].write
      BY <1>3, <1>9
    <3>2. Len(active) = Len(ddr'[s].pipeline) + Reading(ddr'[s])
      BY <1>3, <1>8, <1>9
    <3>3. ~server'[s].timing /\ server'[s].active = active
      BY <1>5, <1>7, <1>9
    <3>. QED  BY <2>1, <3>1, <3>2, <3>3, <1>1, WorkingDDRNext
  <2>2. CASE t # s
    <3>1. server'[t] = server[t] /\ ddr'[t] = ddr[t]
      BY <2>2, <1>7, <1>8 DEF OnlyAt
    <3>2. Working(t)
      BY ServerOf
    <3>. QED  BY <1>1, <3>1, <3>2 DEF Working, Reading
  <2>. QED  BY <2>1, <2>2
<1>11. UNCHANGED <<kind, count>>
  BY DEF DDRDoRequests
<1>12. CASE r.write
  <2>1. Finishes(server[s], server'[s])
    BY <1>5, <1>7, <1>12 DEF Finishes, active
  <2>2. /\ store' = Stored(r) /\ cache' = Called(r, ResponseTo(r).data)
        /\ answer' = AnswerOf(r, ResponseTo(r).data)
    BY <1>2, <1>12, ResponseData DEF DDRDoRequests
  <2>3. IInv' /\ Service!Next
    BY <1>1, <1>7, <1>8, <1>9, <1>10, <1>11, <2>1, <2>2, FinishStep
  <2>4. Finishing(s)
    BY <1>1, <1>7, <1>9, <1>11, <2>1, <2>2 DEF Finishing
  <2>. QED  BY <2>3, <2>4
<1>13. CASE ~r.write
  <2>1. Starts(server[s], server'[s])
    BY <1>5, <1>7, <1>13 DEF Starts, active
  <2>2. UNCHANGED <<store, cache, answer>>
    BY <1>13 DEF DDRDoRequests
  <2>3. IInv' /\ UNCHANGED Service!vars
    BY <1>1, <1>7, <1>8, <1>10, <1>11, <2>1, <2>2, StartStep
  <2>4. Starting(s)
    BY <1>1, <1>7, <1>11, <2>1, <2>2 DEF Starting
  <2>. QED  BY <2>3, <2>4
<1>. QED  BY <1>12, <1>13

\* A read whose last burst has arrived is performed.
LEMMA PipelineStep ==
  ASSUME IInv, NEW s \in Servers, DoPipeline(s), UNCHANGED stamp
  PROVE  IInv' /\ Service!Next /\ Performing(s)
<1>. DEFINE r == Head(server[s].active)
            v == [server[s] EXCEPT !.active = Tail(@), !.responses = Append(@, ResponseTo(r))]
            ch == [ddr[s] EXCEPT !.pipeline = Tail(@)]
<1>1. /\ server \in [Servers -> Server] /\ server[s] \in Server /\ server[s].active \in Seq(Req)
      /\ server[s].responses \in Seq(Req) /\ kind = "ddr" /\ kind' = "ddr"
      /\ ddr \in [Servers -> Channel] /\ ddr[s] \in Channel /\ ddr[s].pipeline \in Seq(Nat)
      /\ ddr[s].pipeline # <<>>
  BY ServerOf, ChannelOf DEF DoPipeline
<1>2. /\ ~server[s].timing /\ \A i \in 1..Len(server[s].active) : ~server[s].active[i].write
      /\ Len(server[s].active) = Len(ddr[s].pipeline) + Reading(ddr[s])
  <2>1. Working(s)
    BY ServerOf
  <2>. QED  BY <1>1, <2>1, WorkingDDR
<1>3. /\ Tail(ddr[s].pipeline) \in Seq(Nat) /\ Len(Tail(ddr[s].pipeline)) = Len(ddr[s].pipeline) - 1
      /\ Len(ddr[s].pipeline) \in Nat \ {0}
  BY <1>1, TailAt
<1>4. Reading(ddr[s]) \in 0..1
  BY DEF Reading
<1>5. server[s].active # <<>>
  BY <1>1, <1>2, <1>3, <1>4
<1>6. /\ r \in Req /\ ~r.write /\ Tail(server[s].active) \in Seq(Req)
      /\ Len(Tail(server[s].active)) = Len(server[s].active) - 1
      /\ \A i \in 1..Len(Tail(server[s].active)) : ~Tail(server[s].active)[i].write
  BY <1>1, <1>2, <1>5, TailAt
<1>7. ResponseTo(r) \in Req
  BY <1>6, ResponseType
<1>8. v \in Server /\ Ends(server[s], v, ResponseTo(r)) /\ v.timing = server[s].timing
  <2>. DEFINE a == Tail(server[s].active)
              b == Append(server[s].responses, ResponseTo(r))
  <2>1. a \in Seq(Req) /\ b \in Seq(Req) /\ v = [server[s] EXCEPT !.active = a, !.responses = b]
    BY <1>1, <1>6, <1>7
  <2>. HIDE DEF a, b, v
  <2>2. /\ v \in Server /\ v.timing = server[s].timing /\ v.active = a
        /\ v.requests = server[s].requests /\ v.responses = b
    BY <1>1, <2>1 DEF Server
  <2>. QED  BY <2>2 DEF Ends, a, b
<1>9. ServerBecomes(s, v)
  BY <1>1, <1>6, <1>8 DEF DoPipeline, ServerBecomes, ResponseTo
<1>. HIDE DEF v
<1>10. OnlyAt(Servers, server, server', s) /\ server'[s] = v
  BY <1>9, OneServer
<1>11. Ends(server[s], server'[s], ResponseTo(r)) /\ server'[s].timing = server[s].timing
  BY <1>8, <1>10
<1>12. ch \in Channel /\ ch.pipeline = Tail(ddr[s].pipeline) /\ ch.request = ddr[s].request
  BY <1>1, <1>3 DEF Channel
<1>13. ddr' = [ddr EXCEPT ![s] = ch]
  BY DEF DoPipeline
<1>. HIDE DEF ch
<1>14. ddr' \in [Servers -> Channel] /\ ddr'[s] = ch /\ \A t \in Servers : t # s => ddr'[t] = ddr[t]
  BY <1>1, <1>12, <1>13
<1>15. ASSUME NEW t \in Servers PROVE Working(t)'
  <2>1. CASE t = s
    <3>1. server'[s].active = Tail(server[s].active) /\ ~server'[s].timing
      BY <1>2, <1>11 DEF Ends
    <3>2. Reading(ddr'[s]) = Reading(ddr[s]) /\ Len(ddr'[s].pipeline) = Len(ddr[s].pipeline) - 1
      BY <1>3, <1>12, <1>14 DEF Reading
    <3>3. Len(Tail(server[s].active)) = Len(ddr'[s].pipeline) + Reading(ddr'[s])
      BY <1>2, <1>3, <1>4, <1>6, <3>2
    <3>. QED  BY <2>1, <3>1, <3>3, <1>1, <1>6, WorkingDDRNext
  <2>2. CASE t # s
    <3>1. server'[t] = server[t] /\ ddr'[t] = ddr[t]
      BY <2>2, <1>10, <1>14 DEF OnlyAt
    <3>2. Working(t)
      BY ServerOf
    <3>. QED  BY <1>1, <3>1, <3>2 DEF Working, Reading
  <2>. QED  BY <2>1, <2>2
<1>16. UNCHANGED <<kind, store, cache, count, answer>>
  BY DEF DoPipeline
<1>17. store' = Stored(r)
  BY <1>6, <1>16 DEF Stored
<1>18. Performing(s)
  BY <1>5, <1>10, <1>11, <1>16, <1>17 DEF Performing
<1>. QED  BY <1>5, <1>10, <1>11, <1>14, <1>15, <1>16, <1>17, <1>18, PerformStep
\* The channels change, but not what they have at work.
LEMMA ChannelsStep ==
  ASSUME IInv, UNCHANGED <<kind, store, server, cache, count, answer, stamp>>,
         ddr' \in [Servers -> Channel],
         \A s \in Servers : Len(ddr'[s].pipeline) + Reading(ddr'[s])
                              = Len(ddr[s].pipeline) + Reading(ddr[s])
  PROVE  IInv' /\ UNCHANGED Service!vars
<1>1. ASSUME NEW s \in Servers PROVE Working(s)'
  <2>1. /\ Len(ddr'[s].pipeline) + Reading(ddr'[s]) = Len(ddr[s].pipeline) + Reading(ddr[s])
        /\ server'[s] = server[s] /\ kind' = kind /\ Working(s)
    BY ServerOf
  <2>2. Reading(ddr[s])' = Reading(ddr'[s])
    BY DEF Reading
  <2>. HIDE DEF Reading
  <2>. QED  BY <2>1, <2>2 DEF Working
<1>2. IInv' /\ Servers' = Servers
  BY <1>1, Kept DEF IInv, StoreOK, Queues
<1>3. Asked' = Asked
  BY <1>2, AskedServers
<1>. QED  BY <1>2, <1>3 DEF Service!vars

\* Only the caches (and the number of the last store) change.
LEMMA CachesStep ==
  ASSUME IInv, UNCHANGED <<kind, store, server, ddr, count, answer>>,
         stamp' \in 0..MaxStores, CachesOK(cache')
  PROVE  IInv' /\ UNCHANGED Service!vars
<1>1. Servers' = Servers
  BY DEF Servers
<1>2. \A s \in Servers : Working(s)'
  <2>1. ASSUME NEW s \in Servers PROVE Working(s)'
    <3>1. Working(s)
      BY ServerOf
    <3>. QED  BY <3>1 DEF Working, Reading
  <2>. QED  BY <2>1
<1>3. StoreOK'
  BY DEF IInv, StoreOK
<1>4. IInv'
  BY <1>1, <1>2, <1>3 DEF IInv, Queues
<1>5. Asked' = Asked
  BY <1>1, AskedServers
<1>. QED  BY <1>4, <1>5 DEF Service!vars

LEMMA TickStep ==
  ASSUME IInv, DDRTick, UNCHANGED stamp
  PROVE  IInv' /\ UNCHANGED Service!vars
<1>1. ddr \in [Servers -> Channel]
  BY DEF IInv
<1>2. ASSUME NEW s \in Servers
      PROVE  /\ ddr'[s] \in Channel
             /\ Len(ddr'[s].pipeline) + Reading(ddr'[s]) = Len(ddr[s].pipeline) + Reading(ddr[s])
  <2>. DEFINE q == ddr[s].pipeline
              p == [i \in DOMAIN q |-> Before(q[i])]
  <2>1. ddr[s] \in Channel /\ q \in Seq(Nat) /\ ddr[s].command \in Nat /\ ddr[s].precharge \in Nat
    BY ChannelOf
  <2>2. ddr'[s] = [ddr[s] EXCEPT !.command = Before(@), !.precharge = Before(@), !.pipeline = p]
    BY <1>1 DEF DDRTick
  <2>3. \A t \in Nat : Before(t) \in Nat
    BY DEF Before
  <2>. HIDE DEF q
  <2>4. p \in Seq(Nat) /\ Len(p) = Len(q)
    <3>1. q \in Seq(Nat) /\ Len(q) \in Nat /\ DOMAIN q = 1..Len(q) /\ \A i \in 1..Len(q) : q[i] \in Nat
      BY <2>1
    <3>2. p \in [1..Len(q) -> Nat]
      BY <2>3, <3>1
    <3>. HIDE DEF p
    <3>. QED  BY <3>1, <3>2
  <2>5. Before(ddr[s].command) \in Nat /\ Before(ddr[s].precharge) \in Nat
    BY <2>1, <2>3
  <2>. HIDE DEF p, Before
  <2>6. /\ ddr'[s] \in Channel /\ ddr'[s].pipeline = p /\ ddr'[s].request = ddr[s].request
    BY <2>1, <2>2, <2>4, <2>5 DEF Channel
  <2>7. Reading(ddr'[s]) = Reading(ddr[s])
    BY <2>6 DEF Reading
  <2>. QED  BY <2>4, <2>6, <2>7 DEF q
<1>3. ddr' \in [Servers -> Channel]
  <2>1. DOMAIN ddr' = Servers /\ ddr' = [s \in Servers |-> ddr'[s]]
    BY <1>1 DEF DDRTick
  <2>. QED  BY <1>2, <2>1
<1>. QED  BY <1>2, <1>3, ChannelsStep DEF DDRTick

\* One channel changes.
ChannelBecomes(s, ch) ==
    /\ ch \in Channel /\ ddr' = [ddr EXCEPT ![s] = ch]
    /\ Len(ch.pipeline) + Reading(ch) = Len(ddr[s].pipeline) + Reading(ddr[s])

LEMMA OneChannelStep ==
  ASSUME IInv, NEW s \in Servers, NEW ch, ChannelBecomes(s, ch),
         UNCHANGED <<kind, store, server, cache, count, answer, stamp>>
  PROVE  IInv' /\ UNCHANGED Service!vars
<1>1. ddr \in [Servers -> Channel]
  BY DEF IInv
<1>2. ddr' \in [Servers -> Channel] /\ ddr'[s] = ch /\ \A t \in Servers : t # s => ddr'[t] = ddr[t]
  BY <1>1 DEF ChannelBecomes
<1>3. \A t \in Servers : Len(ddr'[t].pipeline) + Reading(ddr'[t])
                           = Len(ddr[t].pipeline) + Reading(ddr[t])
  <2>. HIDE DEF Reading
  <2>. QED  BY <1>2 DEF ChannelBecomes
<1>. QED  BY <1>2, <1>3, ChannelsStep

\* A channel closes or opens a row, or transfers a burst of its request; only
\* the last burst of a read moves it to the pipeline.
LEMMA ChannelStep ==
  ASSUME IInv, NEW s \in Servers, ChannelDoRequest(s), UNCHANGED stamp
  PROVE  IInv' /\ UNCHANGED Service!vars
<1>1. /\ ddr \in [Servers -> Channel] /\ ddr[s] \in Channel
      /\ ddr[s].request \in Seq([write : BOOLEAN, row : Row, left : Int]) /\ ddr[s].request # <<>>
      /\ ddr[s].pipeline \in Seq(Nat) /\ ddr[s].precharge \in Nat
  BY ChannelOf DEF ChannelDoRequest
<1>. DEFINE e == Head(ddr[s].request)
            f == AfterBurst(ddr[s].request)
<1>2. e \in [write : BOOLEAN, row : Row, left : Int] /\ ddr[s].request[1] = e
  BY <1>1, TailAt
<1>3. /\ f \in Seq([write : BOOLEAN, row : Row, left : Int])
      /\ f # <<>> => Head(f).write = e.write
      /\ e.left > 1 => f # <<>>
  <2>. HIDE DEF e
  <2>1. CASE e.left = 1
    BY <1>2, <2>1 DEF AfterBurst
  <2>2. CASE e.left # 1
    <3>. DEFINE g == [e EXCEPT !.left = @ - 1]
    <3>1. g \in [write : BOOLEAN, row : Row, left : Int] /\ g.write = e.write
      BY <1>2
    <3>2. f = <<g>>
      BY <1>2, <2>2 DEF AfterBurst
    <3>. HIDE DEF f, g
    <3>. QED  BY <3>1, <3>2
  <2>. QED  BY <2>1, <2>2
<1>4. Reading(ddr[s]) = IF e.write THEN 0 ELSE 1
  BY <1>1, <1>2 DEF Reading
<1>5. None \in Row /\ e.row \in Row
  BY <1>2 DEF Row
<1>6. ddr[s].precharge + tRP \in Nat /\ {tRCD, tRP, tCL, tWR, tCCD, tCWL, tRAS} \subseteq Nat
  BY <1>1, SystemAssumption DEF SystemAssumption
<1>8. ASSUME Precharge(s) PROVE \E ch : ChannelBecomes(s, ch)
  <2>. DEFINE ch == [ddr[s] EXCEPT !.command = ddr[s].precharge + tRP, !.row = None]
  <2>1. ddr' = [ddr EXCEPT ![s] = ch]
    BY <1>1, <1>8 DEF Precharge, Channel
  <2>2. ch \in Channel /\ ch.pipeline = ddr[s].pipeline /\ ch.request = ddr[s].request
    BY <1>1, <1>5, <1>6 DEF Channel
  <2>. HIDE DEF ch
  <2>3. Reading(ch) = Reading(ddr[s])
    BY <2>2 DEF Reading
  <2>. QED  BY <2>1, <2>2, <2>3 DEF ChannelBecomes
<1>9. ASSUME Activate(s) PROVE \E ch : ChannelBecomes(s, ch)
  <2>. DEFINE ch == [ddr[s] EXCEPT !.command = tRCD, !.precharge = tRAS, !.row = e.row]
  <2>1. ddr' = [ddr EXCEPT ![s] = ch]
    BY <1>1, <1>9 DEF Activate, Channel
  <2>. HIDE DEF e
  <2>2. ch \in Channel /\ ch.pipeline = ddr[s].pipeline /\ ch.request = ddr[s].request
    BY <1>1, <1>5, <1>6 DEF Channel
  <2>. HIDE DEF ch
  <2>3. Reading(ch) = Reading(ddr[s])
    BY <2>2 DEF Reading
  <2>. QED  BY <2>1, <2>2, <2>3 DEF ChannelBecomes
<1>10. ASSUME WriteBurst(s) PROVE \E ch : ChannelBecomes(s, ch)
  <2>. DEFINE ch == [ddr[s] EXCEPT !.command = tCWL, !.precharge = tWR, !.request = f]
  <2>1. ddr' = [ddr EXCEPT ![s] = ch]
    BY <1>1, <1>10 DEF WriteBurst, Channel
  <2>2. e.write
    BY <1>10 DEF WriteBurst
  <2>. HIDE DEF e, f
  <2>4. ch \in Channel /\ ch.pipeline = ddr[s].pipeline /\ ch.request = f
    BY <1>1, <1>3, <1>6 DEF Channel
  <2>. HIDE DEF ch
  <2>5. Reading(ch) = 0 /\ Reading(ddr[s]) = 0
    BY <1>3, <1>4, <2>2, <2>4 DEF Reading
  <2>. QED  BY <2>1, <2>4, <2>5 DEF ChannelBecomes
<1>11. ASSUME ReadBurst(s) PROVE \E ch : ChannelBecomes(s, ch)
  <2>1. ~e.write
    BY <1>11 DEF ReadBurst
  <2>2. CASE e.left > 1
    <3>. DEFINE ch == [ddr[s] EXCEPT !.command = tCCD, !.request = f]
    <3>1. ddr' = [ddr EXCEPT ![s] = ch]
      BY <1>1, <1>11, <2>2 DEF ReadBurst, Channel
    <3>. HIDE DEF e, f
    <3>2. ch \in Channel /\ ch.pipeline = ddr[s].pipeline /\ ch.request = f
      BY <1>1, <1>3, <1>6 DEF Channel
    <3>. HIDE DEF ch
    <3>3. Reading(ch) = 1 /\ Reading(ddr[s]) = 1
      BY <1>3, <1>4, <2>1, <2>2, <3>2 DEF Reading
    <3>. QED  BY <3>1, <3>2, <3>3 DEF ChannelBecomes
  <2>3. CASE ~(e.left > 1)
    <3>. DEFINE q == Append(ddr[s].pipeline, tCL)
                ch == [ddr[s] EXCEPT !.command = tCCD, !.request = <<>>, !.pipeline = q]
    <3>1. ddr' = [ddr EXCEPT ![s] = ch]
      BY <1>1, <1>11, <2>3 DEF ReadBurst, Channel
    <3>. HIDE DEF e, f
    <3>2. q \in Seq(Nat) /\ Len(q) = Len(ddr[s].pipeline) + 1 /\ Len(ddr[s].pipeline) \in Nat
      BY <1>1, <1>6, AppendedAt
    <3>. HIDE DEF q
    <3>3. ch \in Channel /\ ch.pipeline = q /\ ch.request = <<>>
      <4>1. <<>> \in Seq([write : BOOLEAN, row : Row, left : Int])
        OBVIOUS
      <4>. QED  BY <1>1, <1>6, <3>2, <4>1 DEF Channel
    <3>. HIDE DEF ch
    <3>4. Reading(ch) = 0 /\ Reading(ddr[s]) = 1
      BY <1>4, <2>1, <3>3 DEF Reading
    <3>5. Len(ch.pipeline) + Reading(ch) = Len(ddr[s].pipeline) + Reading(ddr[s])
      BY <3>2, <3>3, <3>4
    <3>. QED  BY <3>1, <3>3, <3>5 DEF ChannelBecomes
  <2>. QED  BY <2>2, <2>3
<1>12. \E ch : ChannelBecomes(s, ch)
  BY <1>8, <1>9, <1>10, <1>11 DEF ChannelDoRequest
<1>13. PICK ch : ChannelBecomes(s, ch)
  BY <1>12
<1>. QED  BY <1>13, OneChannelStep DEF ChannelDoRequest
\* One cache changes: it sends nothing, or one request.
LEMMA CacheStays ==
  ASSUME IInv, NEW c \in Client, NEW m, SameOutgoing(cache[c], m), cache' = [cache EXCEPT ![c] = m]
  PROVE  CachesOK(cache')
<1>1. CachesOK(cache) /\ DOMAIN cache = Client /\ CacheOK(cache[c])
  BY DEF IInv, CachesOK
<1>2. CacheOK(m)
  BY <1>1, KeepsCache
<1>3. /\ DOMAIN cache' = DOMAIN cache /\ cache' = [d \in DOMAIN cache' |-> cache'[d]]
      /\ \A d \in Client : d # c => cache'[d] = cache[d]
      /\ CacheOK(cache'[c])
  BY <1>1, <1>2
<1>. QED  BY <1>1, <1>3, OneCacheChanges

LEMMA CacheSends ==
  ASSUME IInv, NEW c \in Client, NEW m, NEW r \in Sent, Sends(cache[c], m, r),
         cache' = [cache EXCEPT ![c] = m]
  PROVE  CachesOK(cache')
<1>1. CachesOK(cache) /\ DOMAIN cache = Client /\ CacheOK(cache[c])
  BY DEF IInv, CachesOK
<1>2. CacheOK(m)
  BY <1>1, SendsCache
<1>3. /\ DOMAIN cache' = DOMAIN cache /\ cache' = [d \in DOMAIN cache' |-> cache'[d]]
      /\ \A d \in Client : d # c => cache'[d] = cache[d]
      /\ CacheOK(cache'[c])
  BY <1>1, <1>2
<1>. QED  BY <1>1, <1>3, OneCacheChanges

LEMMA ReadSent ==
  ASSUME NEW a \in Addr
  PROVE  Request(FALSE, a, NoData, None) \in Sent
  BY DEF Request, Sent, Data, NoData, Wid

LEMMA LoadStep ==
  ASSUME IInv, NEW c \in Client, NEW a \in Addr, NEW reg,
         \/ cache' = [cache EXCEPT ![c] = JoinLine(@, a, reg)]
         \/ \E l \in LineId : cache' = [cache EXCEPT ![c] = LoadLine(@, a, l, reg)]
  PROVE  CachesOK(cache')
<1>1. CacheOK(cache[c])
  BY DEF IInv, CachesOK
<1>2. CASE cache' = [cache EXCEPT ![c] = JoinLine(@, a, reg)]
  BY <1>1, <1>2, JoinKeeps, CacheStays
<1>3. ASSUME NEW l \in LineId, cache' = [cache EXCEPT ![c] = LoadLine(@, a, l, reg)]
      PROVE  CachesOK(cache')
  BY <1>1, <1>3, LoadSends, ReadSent, CacheSends
<1>. QED  BY <1>2, <1>3

LEMMA StoreStep ==
  ASSUME IInv, NEW c \in Client, NEW a \in Addr, NEW b \in Byte, Store(c, a, b)
  PROVE  CachesOK(cache') /\ stamp' \in 0..MaxStores
<1>. DEFINE data == [NoData EXCEPT ![b] = stamp']
<1>1. CacheOK(cache[c])
  BY DEF IInv, CachesOK
<1>2. stamp' \in 0..MaxStores /\ stamp' \in Nat /\ stamp' \in Val
  BY SystemAssumption DEF SystemAssumption, IInv, StoreOK, Store
<1>3. data \in Data
  BY <1>2 DEF Data, NoData
<1>. HIDE DEF data
<1>4. Request(TRUE, a, data, stamp') \in Sent
  BY <1>2, <1>3 DEF Request, Sent, Wid
<1>5. cache' = [cache EXCEPT ![c] = WriteLine(@, a, data, stamp')]
  BY DEF Store, data
<1>. QED  BY <1>1, <1>2, <1>4, <1>5, WriteSends, CacheSends

LEMMA ReadResponsesStep ==
  ASSUME IInv, NEW c \in Client, ReadResponses(c)
  PROVE  CachesOK(cache')
<1>1. CacheOK(cache[c])
  BY DEF IInv, CachesOK
<1>. QED  BY <1>1, ResponsesKeep, CacheStays DEF ReadResponses

LEMMA WriteResponsesStep ==
  ASSUME IInv, NEW c \in Client, WriteResponses(c)
  PROVE  CachesOK(cache')
<1>. DEFINE m == [cache[c] EXCEPT !.writes = Tail(@)]
<1>1. CacheOK(cache[c])
  BY DEF IInv, CachesOK
<1>2. SameOutgoing(cache[c], m)
  BY <1>1 DEF CacheOK, Fields, SameOutgoing
<1>3. cache' = [cache EXCEPT ![c] = m]
  BY DEF WriteResponses
<1>. HIDE DEF m
<1>. QED  BY <1>2, <1>3, CacheStays

LEMMA ReadWritebacksStep ==
  ASSUME IInv, NEW c \in Client, ReadWritebacks(c)
  PROVE  CachesOK(cache')
<1>. DEFINE Becomes(q) == cache' = [cache EXCEPT ![c].writebacks = q]
<1>1. CacheOK(cache[c])
  BY DEF IInv, CachesOK
<1>2. \E q : Becomes(q)
  BY DEF ReadWritebacks
<1>3. PICK q : Becomes(q)
  BY <1>2
<1>. DEFINE m == [cache[c] EXCEPT !.writebacks = q]
<1>4. SameOutgoing(cache[c], m)
  BY <1>1 DEF CacheOK, Fields, SameOutgoing
<1>5. cache' = [cache EXCEPT ![c] = m]
  BY <1>3
<1>. HIDE DEF m
<1>. QED  BY <1>4, <1>5, CacheStays

LEMMA ServersOfKind ==
  /\ kind = "serial" => Servers = {0}
  /\ kind = "parallel" => Servers = Client
  /\ kind = "banked" => Servers = Bank
  /\ kind = "ddr" => Servers = Interface
  BY DEF Servers

\* The request at the front of a cache's outgoing buffer goes to the server of
\* its line and client.
LEMMA OutgoingGoes ==
  ASSUME IInv, NEW c \in Client, OutgoingRequests(c)
  PROVE  \E s \in Servers : Accept(c, s) /\ GoesTo(c, Head(cache[c].outgoing), s)
<1>. DEFINE h == Head(cache[c].outgoing)
<1>1. kind \in Kinds /\ CachesOK(cache) /\ cache[c].outgoing # <<>> /\ UNCHANGED stamp
  BY DEF IInv, OutgoingRequests
<1>2. h \in Sent /\ h.address \in Addr /\ h.write \in BOOLEAN
  <2>1. h \in Sent
    BY <1>1, SentCaches
  <2>. HIDE DEF h
  <2>. QED  BY <2>1 DEF Sent
<1>. HIDE DEF h
<1>3. ASSUME NEW s, s \in Servers, Accept(c, s), GoesTo(c, h, s)
      PROVE  \E t \in Servers : Accept(c, t) /\ GoesTo(c, Head(cache[c].outgoing), t)
  BY <1>3 DEF h
<1>4. CASE SerialAccept(c)
  <2>1. 0 \in Servers /\ Accept(c, 0) /\ kind = "serial"
    BY <1>4, ServersOfKind DEF SerialAccept
  <2>2. GoesTo(c, h, 0)
    BY <2>1 DEF GoesTo, ServerFor
  <2>. QED  BY <1>3, <2>1, <2>2
<1>5. CASE ParallelAccept(c)
  <2>1. c \in Servers /\ Accept(c, c) /\ kind = "parallel"
    BY <1>5, ServersOfKind DEF ParallelAccept
  <2>2. GoesTo(c, h, c)
    BY <2>1 DEF GoesTo, ServerFor
  <2>. QED  BY <1>3, <2>1, <2>2
<1>6. CASE BankedAccept(c)
  <2>1. Accept(c, BankOf(h.address)) /\ kind = "banked"
    BY <1>6 DEF BankedAccept, h
  <2>2. BankOf(h.address) \in Servers
    BY <1>1, <1>2, <2>1, ServersOfKind, SystemAssumption DEF SystemAssumption
  <2>3. GoesTo(c, h, BankOf(h.address))
    BY <2>1 DEF GoesTo, ServerFor
  <2>. QED  BY <1>3, <2>1, <2>2, <2>3
<1>7. CASE DDRAccept(c)
  <2>1. Accept(c, InterfaceOf(h)) /\ kind = "ddr"
    BY <1>7 DEF DDRAccept, h
  <2>2. InterfaceOf([write |-> h.write, address |-> h.address]) \in Interface
    BY <1>1, <1>2, <2>1, SystemAssumption DEF SystemAssumption
  <2>3. InterfaceOf(h) \in Servers
    BY <2>1, <2>2, ServersOfKind DEF InterfaceOf
  <2>4. GoesTo(c, h, InterfaceOf(h))
    BY <2>1 DEF GoesTo, ServerFor, InterfaceOf
  <2>. QED  BY <1>3, <2>1, <2>3, <2>4
<1>. QED  BY <1>4, <1>5, <1>6, <1>7 DEF OutgoingRequests

LEMMA OutgoingStep ==
  ASSUME IInv, NEW c \in Client, OutgoingRequests(c)
  PROVE  IInv' /\ Service!Next
<1>1. CachesOK(cache) /\ cache[c].outgoing # <<>> /\ UNCHANGED stamp
  BY DEF IInv, OutgoingRequests
<1>2. PICK s \in Servers : Accept(c, s) /\ GoesTo(c, Head(cache[c].outgoing), s)
  BY OutgoingGoes
<1>. QED  BY <1>1, <1>2, AcceptStep

LEMMA MemoryStepStep ==
  ASSUME IInv, NEW s \in Servers, MemoryStep(s)
  PROVE  IInv' /\ [Service!Next]_(Service!vars) /\ MemoryDoes
<1>1. UNCHANGED stamp
  BY DEF MemoryStep
<1>2. CASE SerialDoRequests
  <2>1. 0 \in Servers /\ kind \in {"serial", "parallel"} /\ (StartTiming(0) \/ FinishTimed(0))
    BY <1>2, ServersOfKind DEF SerialDoRequests
  <2>. QED  BY <1>1, <2>1, TimingStep, TimedStep DEF MemoryDoes
<1>3. CASE ParallelDoRequests(s)
  <2>1. kind \in {"serial", "parallel"} /\ (StartTiming(s) \/ FinishTimed(s))
    BY <1>3 DEF ParallelDoRequests
  <2>. QED  BY <1>1, <2>1, TimingStep, TimedStep DEF MemoryDoes
<1>4. CASE DoIncoming(s)
  BY <1>1, <1>4, IncomingStep DEF MemoryDoes
<1>5. CASE DoRequest(s)
  BY <1>1, <1>5, BankStep DEF MemoryDoes
<1>6. CASE DoOutgoing(s) \/ DoResponses(s)
  BY <1>1, <1>6, ResponseStep DEF MemoryDoes
<1>7. CASE DDRDoRequests(s)
  BY <1>1, <1>7, DDRTakes DEF MemoryDoes
<1>8. CASE ChannelDoRequest(s)
  <2>1. Timing
    BY <1>8 DEF ChannelDoRequest, Timing, SameQueues
  <2>. QED  BY <1>1, <1>8, <2>1, ChannelStep DEF MemoryDoes
<1>9. CASE DoPipeline(s)
  BY <1>1, <1>9, PipelineStep DEF MemoryDoes
<1>. QED  BY <1>2, <1>3, <1>4, <1>5, <1>6, <1>7, <1>8, <1>9 DEF MemoryStep
-----------------------------------------------------------------------------
LEMMA InitHolds ==
  ASSUME Init
  PROVE  IInv /\ Service!Init
<1>. DEFINE h == HeldIn(server, Servers)
<1>1. /\ kind \in Kinds /\ store = [a \in Addr |-> InitLine] /\ server = [s \in Servers |-> NoServer]
      /\ ddr = [s \in Servers |-> InitChannel] /\ cache = [c \in Client |-> InitDCache]
      /\ count = [c \in Client |-> 0] /\ answer = <<>> /\ stamp = 0
  BY DEF Init
<1>2. InitLine \in Data /\ MaxStores \in Nat
  BY SystemAssumption DEF SystemAssumption, Data
<1>3. StoreOK
  BY <1>1, <1>2 DEF StoreOK
<1>4. CachesOK(cache)
  <2>1. CacheOK(InitDCache)
    <3>1. DOMAIN InitDCache = Fields /\ InitDCache.outgoing = <<>>
      BY DEF Fields, InitDCache
    <3>. QED  BY <3>1 DEF CacheOK
  <2>. QED  BY <1>1, <2>1 DEF CachesOK
<1>5. ddr \in [Servers -> Channel]
  BY <1>1 DEF Channel, InitChannel, Row
<1>6. server \in [Servers -> Server]
  BY <1>1 DEF Server, NoServer
<1>7. \A x \in DOMAIN h : h[x] = <<>>
  BY <1>1 DEF HeldIn, NoServer
<1>. HIDE DEF h
<1>8. Numbered(h, count) /\ Unique(h) /\ Ordered(h) /\ Placed(h, kind)
  BY <1>7 DEF Numbered, Unique, Ordered, Placed
<1>9. Queues(server, Servers, count, kind)
  BY <1>6, <1>8 DEF Queues, h
<1>10. ASSUME NEW s \in Servers PROVE Working(s)
  <2>1. server[s] = NoServer /\ ddr[s] = InitChannel
    BY <1>1
  <2>2. /\ ~server[s].timing /\ server[s].active = <<>> /\ ddr[s].pipeline = <<>>
        /\ Reading(ddr[s]) = 0
    BY <2>1 DEF NoServer, InitChannel, Reading
  <2>. QED  BY <2>2 DEF Working
<1>11. IInv
  BY <1>1, <1>3, <1>4, <1>5, <1>9, <1>10 DEF IInv
<1>12. Asked = {}
  BY <1>1 DEF Asked, NoServer, ToSet
<1>. QED  BY <1>1, <1>11, <1>12 DEF Service!Init

LEMMA NextKeeps ==
  ASSUME IInv, [Next]_vars
  PROVE  IInv' /\ [Service!Next]_(Service!vars)
<1>1. ASSUME UNCHANGED <<kind, store, server, ddr, count, answer>>, stamp' \in 0..MaxStores, CachesOK(cache')
      PROVE  IInv' /\ UNCHANGED Service!vars
  BY <1>1, CachesStep
<1>2. stamp \in 0..MaxStores /\ CachesOK(cache)
  BY DEF IInv, StoreOK
<1>3. CASE UNCHANGED vars
  BY <1>1, <1>2, <1>3 DEF vars
<1>4. ASSUME NEW c \in Client, CacheStep(c)
      PROVE  IInv' /\ [Service!Next]_(Service!vars)
  <2>1. CASE ReadResponses(c)
    BY <1>1, <1>2, <2>1, ReadResponsesStep DEF ReadResponses
  <2>2. CASE WriteResponses(c)
    BY <1>1, <1>2, <2>2, WriteResponsesStep DEF WriteResponses
  <2>3. CASE ReadWritebacks(c)
    BY <1>1, <1>2, <2>3, ReadWritebacksStep DEF ReadWritebacks
  <2>4. CASE OutgoingRequests(c)
    BY <2>4, OutgoingStep
  <2>5. CASE \E o \in Operand : MarkPending(c, o)
    BY <1>1, <1>2, <2>5 DEF MarkPending
  <2>. QED  BY <1>4, <2>1, <2>2, <2>3, <2>4, <2>5 DEF CacheStep
<1>5. ASSUME NEW c \in Client, NEW o \in Operand, NEW a \in Addr, NEW off \in Byte, LoadMiss(c, o, a, off)
      PROVE  IInv' /\ [Service!Next]_(Service!vars)
  <2>1. \/ cache' = [cache EXCEPT ![c] = JoinLine(@, a, o)]
        \/ \E l \in LineId : cache' = [cache EXCEPT ![c] = LoadLine(@, a, l, o)]
    BY <1>5 DEF LoadMiss
  <2>2. CachesOK(cache')
    BY <2>1, LoadStep
  <2>3. UNCHANGED <<kind, store, server, ddr, count, answer, stamp>>
    BY <1>5 DEF LoadMiss
  <2>. QED  BY <1>1, <1>2, <2>2, <2>3
<1>6. ASSUME NEW c \in Client, NEW a \in Addr, BundleRead(c, a)
      PROVE  IInv' /\ [Service!Next]_(Service!vars)
  BY <1>1, <1>2, <1>6, LoadStep DEF BundleRead
<1>7. ASSUME NEW c \in Client, NEW a \in Addr, NEW b \in Byte, Store(c, a, b)
      PROVE  IInv' /\ [Service!Next]_(Service!vars)
  BY <1>1, <1>7, StoreStep DEF Store
<1>8. ASSUME NEW s \in Servers, MemoryStep(s)
      PROVE  IInv' /\ [Service!Next]_(Service!vars)
  BY <1>8, MemoryStepStep
<1>9. CASE Tick
  BY <1>9, TickStep DEF Tick
<1>. QED  BY <1>3, <1>4, <1>5, <1>6, <1>7, <1>8, <1>9 DEF Next

\* The inductive invariant: the types, the numbers and the order of the requests
\* in the queues (m_requests, m_activeMessage, m_responses), and what is at work.
THEOREM RequestsInOrder == Spec => []IInv
<1>1. Init => IInv
  BY InitHolds
<1>2. IInv /\ [Next]_vars => IInv'
  BY NextKeeps
<1>. QED  BY <1>1, <1>2, PTL DEF Spec

\* Every kind of memory keeps what IMemory promises its clients (MemoryService):
\* a request is performed on the contents of memory at one instant between its
\* acceptance and its answer, after the earlier writes of its client to the line
\* on the same way (m_requests, m_activeMessage, m_responses are queues), and is
\* answered once.  The ways are one, but for the DDR memory, whose interface
\* DDRMemory::Read selects by the address and DDRMemory::Write by the line.
THEOREM MemoryServes == Spec => ServesMemory
<1>1. Init => IInv /\ Service!Init
  BY InitHolds
<1>2. IInv /\ [Next]_vars => IInv' /\ [Service!Next]_(Service!vars)
  BY NextKeeps
<1>. QED  BY <1>1, <1>2, PTL DEF Spec, ServesMemory, Service!Spec
=============================================================================
