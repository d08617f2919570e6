------------------------------ MODULE ZLProofs ------------------------------
(***************************************************************************)
(* Proofs about the zero-latency CDMA network, for any number of caches,    *)
(* directories, root directories and lines: the rings are closed, the state *)
(* has its types, a pending line has one request, a write is completed once.*)
(***************************************************************************)
EXTENDS ZLCDMA, FiniteSetTheorems, TLAPS

-----------------------------------------------------------------------------
(* The rings of ZLCDMA::Initialize                                          *)

\* A quotient of two numbers lies where it should.
LEMMA Quotient ==
  ASSUME NEW x \in Nat, NEW n \in Nat \ {0}
  PROVE  /\ x \div n \in Nat /\ x % n \in 0..(n - 1)
         /\ x = n * (x \div n) + (x % n)
  <1>1. x \div n \in Int /\ x % n \in 0..(n - 1) /\ x = n * (x \div n) + (x % n)
    OBVIOUS
  <1>2. x \div n >= 0
    BY <1>1
  <1>. QED  BY <1>1, <1>2

\* A larger multiple has the larger factor.
LEMMA Factor ==
  ASSUME NEW q \in Int, NEW p \in Int, NEW n \in Nat \ {0}, NEW e \in 0..(n - 1),
         n * q <= n * p + e
  PROVE  q <= p
  <1>1. SUFFICES ASSUME q >= p + 1 PROVE FALSE
    OBVIOUS
  <1>2. n * (q - p) >= n
    BY <1>1
  <1>3. n * (q - p) = n * q - n * p
    OBVIOUS
  <1>. QED  BY <1>2, <1>3

LEMMA Sizes == /\ NumDirs \in Nat \ {0} /\ NumRoots \in Nat \ {0} /\ CachesPerDir \in Nat \ {0}
               /\ NumCaches \in Nat \ {0}
  <1>1. NumCaches \in Nat \ {0} /\ NumRoots \in Nat \ {0} /\ CachesPerDir \in Nat \ {0}
    BY ZLNodeAssumption
  <1>. DEFINE x == NumCaches + CachesPerDir - 1
  <1>2. x \in Nat /\ x >= CachesPerDir
    BY <1>1
  <1>. HIDE DEF x
  <1>3. x \div CachesPerDir \in Nat /\ x = CachesPerDir * (x \div CachesPerDir) + (x % CachesPerDir)
        /\ x % CachesPerDir < CachesPerDir /\ x % CachesPerDir \in Nat
    BY <1>1, <1>2, Quotient
  <1>4. x \div CachesPerDir # 0
    BY <1>1, <1>2, <1>3
  <1>. QED  BY <1>1, <1>3, <1>4 DEF NumDirs, x

\* Every cache is below a directory.
LEMMA DirectoryOf ==
  ASSUME NEW i \in Caches
  PROVE  i \div CachesPerDir \in Directories
  <1>. DEFINE P == CachesPerDir
              x == NumCaches + P - 1
  <1>1. P \in Nat \ {0} /\ NumCaches \in Nat \ {0} /\ i \in Nat /\ i + P <= x /\ x \in Nat
    BY Sizes DEF Caches
  <1>. HIDE DEF P, x
  <1>2. /\ i \div P \in Nat /\ i % P \in 0..(P - 1) /\ i = P * (i \div P) + (i % P)
        /\ x \div P \in Nat /\ x % P \in 0..(P - 1) /\ x = P * (x \div P) + (x % P)
    BY <1>1, Quotient
  <1>3. P * (i \div P + 1) = P * (i \div P) + P
    BY <1>1, <1>2
  <1>4. P * (i \div P + 1) <= P * (x \div P) + (x % P)
    BY <1>1, <1>2, <1>3
  <1>5. i \div P + 1 <= x \div P
    BY <1>1, <1>2, <1>4, Factor
  <1>6. i \div P \in 0..(x \div P - 1)
    BY <1>2, <1>5
  <1>. QED  BY <1>6 DEF P, x, Directories, NumDirs

\* The directories before root r on the top ring.
Ahead(r) == (r * NumDirs) \div NumRoots

LEMMA AheadRange ==
  ASSUME NEW r \in Roots
  PROVE  Ahead(r) \in Directories
  <1>. DEFINE D == NumDirs
              R == NumRoots
              x == r * D
  <1>1. D \in Nat \ {0} /\ R \in Nat \ {0} /\ r \in Nat /\ r + 1 <= R
    BY Sizes DEF Roots
  <1>. HIDE DEF D, R
  <1>2. x \in Nat /\ x < R * D
    <2>1. x \in Nat
      BY <1>1
    <2>2. (R - r) * D >= D
      BY <1>1
    <2>3. (R - r) * D = R * D - r * D
      BY <1>1
    <2>. QED  BY <1>1, <2>1, <2>2, <2>3
  <1>. HIDE DEF x
  <1>3. x \div R \in Nat /\ x % R \in 0..(R - 1) /\ x = R * (x \div R) + (x % R)
    BY <1>1, <1>2, Quotient
  <1>4. x \div R < D
    <2>1. SUFFICES ASSUME x \div R >= D PROVE FALSE
      BY <1>1, <1>3
    <2>2. R * D <= R * (x \div R) + 0
      BY <1>1, <1>2, <1>3, <2>1
    <2>. QED  BY <1>1, <1>2, <1>3, <2>2
  <1>. QED  BY <1>1, <1>3, <1>4 DEF Ahead, D, R, x, Directories

LEMMA AheadGrows ==
  ASSUME NEW r \in Roots, NEW s \in Roots, r <= s
  PROVE  Ahead(r) <= Ahead(s)
  <1>. DEFINE D == NumDirs
              R == NumRoots
              x == r * D
              y == s * D
  <1>1. D \in Nat \ {0} /\ R \in Nat \ {0} /\ r \in Nat /\ s \in Nat
    BY Sizes DEF Roots
  <1>. HIDE DEF D, R
  <1>2. x \in Nat /\ y \in Nat /\ x <= y
    <2>1. (s - r) * D >= 0
      BY <1>1
    <2>2. (s - r) * D = s * D - r * D
      BY <1>1
    <2>3. x \in Nat /\ y \in Nat
      BY <1>1
    <2>. QED  BY <2>1, <2>2, <2>3
  <1>. HIDE DEF x, y
  <1>3. /\ x \div R \in Nat /\ x % R \in 0..(R - 1) /\ x = R * (x \div R) + (x % R)
        /\ y \div R \in Nat /\ y % R \in 0..(R - 1) /\ y = R * (y \div R) + (y % R)
    BY <1>1, <1>2, Quotient
  <1>4. R * (x \div R) <= R * (y \div R) + (y % R)
    BY <1>1, <1>2, <1>3
  <1>5. x \div R <= y \div R
    <2>. DEFINE q == x \div R
                p == y \div R
                e == y % R
    <2>1. q \in Int /\ p \in Int /\ e \in 0..(R - 1) /\ R * q <= R * p + e
      BY <1>3, <1>4
    <2>. HIDE DEF p, q, e
    <2>2. q <= p
      BY <1>1, <2>1, Factor
    <2>. QED  BY <2>2 DEF p, q
  <1>. QED  BY <1>5 DEF Ahead, D, R, x, y

\* A set of numbers without gaps is an interval as long as the set is large.
LEMMA Segment ==
  ASSUME NEW n \in Nat, NEW S \in SUBSET (0..(n - 1)),
         \A s \in S : \A t \in 0..s : t \in S
  PROVE  /\ Cardinality(S) \in 0..n
         /\ S = 0..(Cardinality(S) - 1)
  <1>. DEFINE k == Cardinality(S)
  <1>1. IsFiniteSet(0..(n - 1)) /\ Cardinality(0..(n - 1)) = n
    <2>1. IsFiniteSet(0..(n - 1)) /\ Cardinality(0..(n - 1)) = IF 0 > n - 1 THEN 0 ELSE (n - 1) - 0 + 1
      BY FS_Interval
    <2>. QED  BY <2>1
  <1>2. IsFiniteSet(S) /\ k \in Nat /\ k <= n
    BY <1>1, FS_Subset, FS_CardinalityType
  <1>3. ASSUME NEW s \in S PROVE s \in 0..(k - 1)
    <2>1. s \in Nat /\ IsFiniteSet(0..s) /\ Cardinality(0..s) = s + 1
      <3>1. s \in Nat
        OBVIOUS
      <3>. QED  BY <3>1, FS_Interval
    <2>2. 0..s \in SUBSET S
      OBVIOUS
    <2>3. Cardinality(0..s) <= k
      BY <1>2, <2>2, FS_Subset
    <2>. QED  BY <1>2, <2>1, <2>3
  <1>4. IsFiniteSet(0..(k - 1)) /\ Cardinality(0..(k - 1)) = k
    <2>1. 0 \in Int /\ k - 1 \in Int
      BY <1>2
    <2>2. IsFiniteSet(0..(k - 1)) /\ Cardinality(0..(k - 1)) = IF 0 > k - 1 THEN 0 ELSE (k - 1) - 0 + 1
      BY <2>1, FS_Interval
    <2>. QED  BY <1>2, <2>2
  <1>5. S \in SUBSET (0..(k - 1))
    BY <1>3
  <1>6. S = 0..(k - 1)
    BY <1>4, <1>5, FS_Subset
  <1>. QED  BY <1>2, <1>6

\* The nodes of the top ring
Positions == 0..(NumDirs + NumRoots - 1)
RootsBefore(p) == {r \in Roots : RootPosition(r) < p}
RootsAt(p) == {r \in Roots : RootPosition(r) = p}

LEMMA RingAt ==
  /\ DOMAIN TopRing = Positions
  /\ \A p \in Positions :
       TopRing[p] = IF RootsAt(p) # {} THEN Root(CHOOSE r \in RootsAt(p) : TRUE)
                    ELSE Top(p - Cardinality(RootsBefore(p)))
  BY DEF TopRing, Positions, RootsBefore, RootsAt

LEMMA RootPlace ==
  /\ \A r \in Roots : RootPosition(r) = Ahead(r) + r /\ RootPosition(r) \in Positions
  /\ \A r, s \in Roots : r < s => RootPosition(r) < RootPosition(s)
  <1>1. ASSUME NEW r \in Roots
        PROVE  RootPosition(r) = Ahead(r) + r /\ RootPosition(r) \in Positions
    <2>1. Ahead(r) \in 0..(NumDirs - 1) /\ r \in 0..(NumRoots - 1)
      BY AheadRange DEF Directories, Roots
    <2>2. RootPosition(r) = Ahead(r) + r
      BY DEF RootPosition, Ahead
    <2>. QED  BY <2>1, <2>2, Sizes DEF Positions
  <1>2. ASSUME NEW r \in Roots, NEW s \in Roots, r < s
        PROVE  RootPosition(r) < RootPosition(s)
    <2>1. r \in Nat /\ s \in Nat
      BY DEF Roots
    <2>2. Ahead(r) <= Ahead(s)
      BY <1>2, <2>1, AheadGrows
    <2>3. Ahead(r) \in Nat /\ Ahead(s) \in Nat
      BY AheadRange DEF Directories
    <2>. QED  BY <1>1, <1>2, <2>1, <2>2, <2>3
  <1>. QED  BY <1>1, <1>2

LEMMA RootsBeforeSegment ==
  ASSUME NEW p \in Positions
  PROVE  /\ Cardinality(RootsBefore(p)) \in 0..NumRoots
         /\ RootsBefore(p) = 0..(Cardinality(RootsBefore(p)) - 1)
  <1>1. RootsBefore(p) \in SUBSET (0..(NumRoots - 1)) /\ NumRoots \in Nat
    BY Sizes DEF RootsBefore, Roots
  <1>2. ASSUME NEW s \in RootsBefore(p), NEW t \in 0..s PROVE t \in RootsBefore(p)
    <2>1. s \in Roots /\ t \in Roots /\ (t < s \/ t = s) /\ RootPosition(s) < p
      BY Sizes DEF RootsBefore, Roots
    <2>2. RootPosition(s) \in Int /\ RootPosition(t) \in Int /\ p \in Int
      BY <2>1, RootPlace, Sizes DEF Positions
    <2>3. RootPosition(t) <= RootPosition(s)
      BY <2>1, <2>2, RootPlace
    <2>4. RootPosition(t) < p
      BY <2>1, <2>2, <2>3
    <2>. QED  BY <2>1, <2>4 DEF RootsBefore
  <1>. QED  BY <1>1, <1>2, Segment

LEMMA RingOfNodes ==
  ASSUME NEW p \in Positions
  PROVE  TopRing[p] \in Nodes
  <1>1. CASE RootsAt(p) # {}
    <2>1. (CHOOSE r \in RootsAt(p) : TRUE) \in Roots
      BY <1>1 DEF RootsAt
    <2>. QED  BY <1>1, <2>1, RingAt DEF Nodes
  <1>2. CASE RootsAt(p) = {}
    <2>. DEFINE k == Cardinality(RootsBefore(p))
    <2>1. k \in 0..NumRoots /\ RootsBefore(p) = 0..(k - 1)
      BY RootsBeforeSegment
    <2>. HIDE DEF k
    <2>2. p \in Int /\ 0 <= p /\ p <= NumDirs + NumRoots - 1 /\ NumDirs \in Nat \ {0} /\ NumRoots \in Nat \ {0}
      BY Sizes DEF Positions
    <2>3. p - k >= 0
      <3>1. CASE k = 0
        BY <2>2, <3>1
      <3>2. CASE k # 0
        <4>1. k - 1 \in RootsBefore(p)
          BY <2>1, <3>2
        <4>2. k - 1 \in Roots /\ RootPosition(k - 1) < p
          BY <4>1 DEF RootsBefore
        <4>3. RootPosition(k - 1) = Ahead(k - 1) + (k - 1) /\ Ahead(k - 1) \in 0..(NumDirs - 1)
          BY <4>2, RootPlace, AheadRange DEF Directories
        <4>. QED  BY <2>1, <2>2, <4>2, <4>3
      <3>. QED  BY <3>1, <3>2
    <2>4. p - k <= NumDirs - 1
      <3>1. CASE k = NumRoots
        BY <2>2, <3>1
      <3>2. CASE k # NumRoots
        <4>1. k \in Roots /\ k \notin RootsBefore(p) /\ k \notin RootsAt(p)
          BY <1>2, <2>1, <2>2, <3>2 DEF Roots
        <4>2. RootPosition(k) = Ahead(k) + k /\ Ahead(k) \in 0..(NumDirs - 1)
          BY <4>1, RootPlace, AheadRange DEF Directories
        <4>3. ~(RootPosition(k) < p) /\ RootPosition(k) # p
          BY <4>1 DEF RootsBefore, RootsAt
        <4>. QED  BY <2>1, <2>2, <4>2, <4>3
      <3>. QED  BY <3>1, <3>2
    <2>5. p - k \in Directories
      BY <2>1, <2>2, <2>3, <2>4 DEF Directories
    <2>6. TopRing[p] = Top(p - k)
      BY <1>2, RingAt DEF k
    <2>. QED  BY <2>5, <2>6 DEF Nodes
  <1>. QED  BY <1>1, <1>2

\* Every root directory and the top of every directory has its place.
LEMMA RootOnRing ==
  ASSUME NEW r \in Roots
  PROVE  \E p \in Positions : TopRing[p] = Root(r)
  <1>. DEFINE p == RootPosition(r)
  <1>1. p \in Positions /\ r \in RootsAt(p)
    BY RootPlace DEF RootsAt
  <1>2. ASSUME NEW s \in RootsAt(p) PROVE s = r
    <2>1. s \in Roots /\ RootPosition(s) = RootPosition(r) /\ s \in Int /\ r \in Int
      BY DEF RootsAt, Roots
    <2>2. RootPosition(s) \in Int
      BY <2>1, RootPlace, Sizes DEF Positions
    <2>3. ~(s < r) /\ ~(r < s)
      BY <2>1, <2>2, RootPlace
    <2>. QED  BY <2>1, <2>3
  <1>3. (CHOOSE s \in RootsAt(p) : TRUE) = r
    BY <1>1, <1>2
  <1>. QED  BY <1>1, <1>3, RingAt

LEMMA TopOnRing ==
  ASSUME NEW d \in Directories
  PROVE  \E p \in Positions : TopRing[p] = Top(d)
  <1>. DEFINE S == {r \in Roots : Ahead(r) <= d}
              k == Cardinality(S)
              p == d + k
  <1>0. /\ NumDirs \in Nat \ {0} /\ NumRoots \in Nat \ {0} /\ d \in Nat /\ d <= NumDirs - 1
        /\ Roots = 0..(NumRoots - 1)
    BY Sizes DEF Directories, Roots
  <1>a. \A r \in Roots : Ahead(r) \in Nat
    BY AheadRange DEF Directories
  <1>1. S \in SUBSET (0..(NumRoots - 1))
    BY <1>0
  <1>2. ASSUME NEW s \in S, NEW t \in 0..s PROVE t \in S
    <2>1. s \in Roots /\ t \in Roots /\ t <= s /\ Ahead(s) <= d
      BY <1>0
    <2>2. Ahead(t) <= Ahead(s)
      BY <2>1, AheadGrows
    <2>. QED  BY <1>0, <1>a, <2>1, <2>2
  <1>3. k \in 0..NumRoots /\ S = 0..(k - 1)
    <2>. HIDE DEF S
    <2>. QED  BY <1>0, <1>1, <1>2, Segment
  <1>4. p \in Positions
    <2>. HIDE DEF k
    <2>. QED  BY <1>0, <1>3 DEF Positions
  <1>5. ASSUME NEW r \in Roots PROVE RootPosition(r) # p /\ (RootPosition(r) < p <=> r \in S)
    <2>1. RootPosition(r) = Ahead(r) + r /\ Ahead(r) \in Nat /\ r \in Nat
      BY <1>a, RootPlace DEF Roots
    <2>2. r \in S <=> Ahead(r) <= d
      OBVIOUS
    <2>3. r \in S <=> r <= k - 1
      <3>. HIDE DEF S, k
      <3>. QED  BY <1>3, <2>1
    <2>. HIDE DEF S, k
    <2>4. CASE r \in S
      BY <1>0, <1>3, <2>1, <2>2, <2>3, <2>4
    <2>5. CASE r \notin S
      BY <1>0, <1>3, <2>1, <2>2, <2>3, <2>5
    <2>. QED  BY <2>4, <2>5
  <1>6. RootsAt(p) = {} /\ RootsBefore(p) = S
    BY <1>5 DEF RootsAt, RootsBefore
  <1>. HIDE DEF S
  <1>7. TopRing[p] = Top(p - k)
    BY <1>4, <1>6, RingAt
  <1>8. p - k = d
    <2>. HIDE DEF k
    <2>. QED  BY <1>0, <1>3
  <1>. QED  BY <1>4, <1>7, <1>8

\* The rings are closed (Initialize, m_next and m_prev).
LEMMA NextNodeIsNode ==
  ASSUME NEW n \in Nodes
  PROVE  NextNode(n) \in Nodes
  <1>1. ASSUME NEW i \in Caches, n = Cache(i) PROVE NextNode(n) \in Nodes
    <2>1. NextNode(n) = IF i % CachesPerDir = 0 THEN Bottom(i \div CachesPerDir) ELSE Cache(i - 1)
      BY <1>1 DEF NextNode, Cache
    <2>2. CASE i % CachesPerDir = 0
      BY <2>1, <2>2, DirectoryOf DEF Nodes
    <2>3. CASE i % CachesPerDir # 0
      <3>1. i # 0
        BY <2>3, Sizes
      <3>2. i - 1 \in Caches
        BY <3>1, Sizes DEF Caches
      <3>. QED  BY <2>1, <2>3, <3>2 DEF Nodes
    <2>. QED  BY <2>2, <2>3
  <1>2. ASSUME NEW d \in Directories, n = Bottom(d) PROVE NextNode(n) \in Nodes
    <2>. DEFINE x == (d + 1) * CachesPerDir
    <2>1. NextNode(n) = Cache(Min({x, NumCaches}) - 1)
      BY <1>2 DEF NextNode, Bottom
    <2>2. x \in Nat /\ x >= 1 /\ NumCaches \in Nat \ {0}
      <3>1. CachesPerDir \in Nat \ {0} /\ d \in Nat
        BY Sizes DEF Directories
      <3>2. (d + 1) * CachesPerDir = d * CachesPerDir + CachesPerDir /\ d * CachesPerDir \in Nat
        BY <3>1
      <3>. QED  BY <3>1, <3>2, Sizes
    <2>. HIDE DEF x
    <2>3. Min({x, NumCaches}) = IF x <= NumCaches THEN x ELSE NumCaches
      BY <2>2 DEF Min
    <2>4. Min({x, NumCaches}) - 1 \in Caches
      BY <2>2, <2>3 DEF Caches
    <2>. QED  BY <2>1, <2>4 DEF Nodes
  <1>3. ASSUME \/ \E d \in Directories : n = Top(d)
               \/ \E r \in Roots : n = Root(r)
        PROVE  NextNode(n) \in Nodes
    <2>. DEFINE p == CHOOSE q \in DOMAIN TopRing : TopRing[q] = n
                o == NumDirs + NumRoots
    <2>1. n[1] # "cache" /\ n[1] # "bottom"
      BY <1>3 DEF Top, Root
    <2>2. NextNode(n) = TopRing[(p + NumDirs + NumRoots - 1) % (NumDirs + NumRoots)]
      BY <2>1 DEF NextNode
    <2>3. \E q \in DOMAIN TopRing : TopRing[q] = n
      BY <1>3, TopOnRing, RootOnRing, RingAt
    <2>4. p \in Positions
      BY <2>3, RingAt
    <2>. HIDE DEF p
    <2>5. o \in Nat \ {0} /\ p \in Nat /\ p + NumDirs + NumRoots - 1 \in Nat
      BY <2>4, Sizes DEF Positions
    <2>6. (p + NumDirs + NumRoots - 1) % o \in 0..(o - 1)
      <3>. DEFINE x == p + NumDirs + NumRoots - 1
      <3>1. x \in Nat
        BY <2>5
      <3>. HIDE DEF x, o
      <3>2. x % o \in 0..(o - 1)
        BY <2>5, <3>1, Quotient
      <3>. QED  BY <3>2 DEF x
    <2>7. (p + NumDirs + NumRoots - 1) % (NumDirs + NumRoots) \in Positions
      <3>. DEFINE y == (p + NumDirs + NumRoots - 1) % (NumDirs + NumRoots)
      <3>1. y \in 0..(o - 1)
        BY <2>6
      <3>. HIDE DEF y
      <3>2. y \in Positions
        BY <3>1, Sizes DEF Positions
      <3>. QED  BY <3>2 DEF y
    <2>. QED  BY <2>2, <2>7, RingOfNodes
  <1>. QED  BY <1>1, <1>2, <1>3 DEF Nodes

-----------------------------------------------------------------------------
(* The types.  Tokens are integers here: that none is lost is another matter.*)

Types == {READ, ACQUIRE_TOKENS, EVICTION, LOCALDIR_NOTIFICATION}

Message == [type : Types, addr : Addrs, source : Caches, ignore : BOOLEAN, dirty : BOOLEAN,
            data : Data, tokens : Int, priority : BOOLEAN, transient : BOOLEAN]
Line == [valid : BOOLEAN, data : Data, tokens : Int, priority : BOOLEAN, dirty : BOOLEAN,
         transient : BOOLEAN, reading : BOOLEAN, writing : BOOLEAN, acks : Nat]
Request == [write : BOOLEAN, addr : Addrs, data : Data]
Entry == [valid : BOOLEAN, loading : BOOLEAN, data : BOOLEAN, tokens : Int, priority : BOOLEAN]

LEMMA DataTypes ==
  /\ NoData \in Data
  /\ \A d, e \in Data : Fill(d, e) \in Data /\ Blit(d, e) \in Data
  BY DEF NoData, Data, Fill, Blit

LEMMA NewMessageType ==
  ASSUME NEW t \in Types, NEW a \in Addrs, NEW c \in Caches
  PROVE  /\ NewMessage(t, a, c) \in Message
         /\ NewMessage(t, a, c).type = t /\ NewMessage(t, a, c).addr = a
         /\ NewMessage(t, a, c).source = c
  BY DataTypes DEF NewMessage, Message

-----------------------------------------------------------------------------
(* The messages under way                                                   *)

\* Only a request that passes through, a read and a writeback wait for the
\* DDR channel (RootDirectory::OnMessageReceived).
InPlace(ch, m) == ch[1] = "requests" => m.ignore \/ m.type \in {READ, EVICTION}

NetOK(n) ==
    /\ n \in [Channels -> Seq(Message)]
    /\ \A ch \in Channels : \A k \in 1..Len(n[ch]) : InPlace(ch, n[ch][k])

\* What tells the requests of the caches apart
Key(m) == <<m.source, m.addr, m.type>>
Tracked == Caches \X Addrs \X {READ, ACQUIRE_TOKENS}

Has(n, key) == \E ch \in Channels : \E k \in 1..Len(n[ch]) : Key(n[ch][k]) = key
Single(n, key) ==
    \A x, y \in Channels : \A i \in 1..Len(n[x]), j \in 1..Len(n[y]) :
        Key(n[x][i]) = key /\ Key(n[y][j]) = key => x = y /\ i = j

SameKey(n, g, key) == (Single(n, key) => Single(g, key)) /\ (Has(g, key) <=> Has(n, key))
Same(n, g) == \A key \in Tracked : SameKey(n, g, key)

LEMMA Drops ==
  ASSUME NEW n, NetOK(n), NEW from \in Channels, n[from] # <<>>,
         NEW g, g = [n EXCEPT ![from] = Tail(@)]
  PROVE  /\ NetOK(g) /\ Head(n[from]) \in Message /\ InPlace(from, Head(n[from]))
         /\ Has(n, Key(Head(n[from])))
         /\ \A key : key # Key(Head(n[from])) => SameKey(n, g, key)
         /\ Single(n, Key(Head(n[from]))) => ~Has(g, Key(Head(n[from])))
  <1>. DEFINE q == n[from]
              h == Head(q)
  <1>1. n \in [Channels -> Seq(Message)] /\ q \in Seq(Message)
    BY DEF NetOK
  <1>2. /\ h = q[1] /\ h \in Message /\ Len(q) \in Nat /\ 1 \in 1..Len(q)
        /\ Tail(q) \in Seq(Message) /\ Len(Tail(q)) = Len(q) - 1
        /\ \A k \in 1..(Len(q) - 1) : Tail(q)[k] = q[k + 1]
    BY <1>1
  <1>3. g \in [Channels -> Seq(Message)]
    BY <1>1, <1>2
  <1>4. /\ g[from] = Tail(q)
        /\ \A ch \in Channels : ch # from => g[ch] = n[ch]
    BY <1>1
  <1>5. /\ Len(g[from]) = Len(n[from]) - 1 /\ Len(n[from]) \in Nat
        /\ \A k \in 1..Len(g[from]) : k + 1 \in 1..Len(n[from]) /\ g[from][k] = n[from][k + 1]
        /\ \A k \in 1..Len(n[from]) : k # 1 => k - 1 \in 1..Len(g[from]) /\ g[from][k - 1] = n[from][k]
    <2>. DEFINE t == Tail(q)
    <2>1. /\ g[from] = t /\ n[from] = q /\ Len(t) = Len(q) - 1 /\ Len(q) \in Nat
          /\ \A k \in 1..(Len(q) - 1) : t[k] = q[k + 1]
      BY <1>2, <1>4
    <2>. HIDE DEF q, t
    <2>2. \A k \in 1..Len(t) : k + 1 \in 1..Len(q) /\ t[k] = q[k + 1]
      BY <2>1
    <2>3. ASSUME NEW k \in 1..Len(q), k # 1 PROVE k - 1 \in 1..Len(t) /\ t[k - 1] = q[k]
      BY <2>1, <2>3
    <2>. QED  BY <2>1, <2>2, <2>3
  <1>6. n[from][1] = h /\ 1 \in 1..Len(n[from])
    BY <1>2
  <1>. HIDE DEF q, h
  <1>7. NetOK(g) /\ h \in Message /\ InPlace(from, h)
    <2>1. InPlace(from, h)
      BY <1>6 DEF NetOK
    <2>2. ASSUME NEW ch \in Channels, NEW k \in 1..Len(g[ch]) PROVE InPlace(ch, g[ch][k])
      <3>1. CASE ch = from
        BY <1>5, <3>1 DEF NetOK
      <3>2. CASE ch # from
        BY <1>4, <3>2 DEF NetOK
      <3>. QED  BY <3>1, <3>2
    <2>. QED  BY <1>2, <1>3, <2>1, <2>2 DEF NetOK
  <1>8. Has(n, Key(h))
    BY <1>6 DEF Has
  <1>9. ASSUME NEW key, key # Key(h) PROVE SameKey(n, g, key)
    <2>1. Has(n, key) => Has(g, key)
      BY <1>4, <1>5, <1>6, <1>9 DEF Has
    <2>2. Has(g, key) => Has(n, key)
      BY <1>4, <1>5 DEF Has
    <2>3. Single(n, key) => Single(g, key)
      <3>1. SUFFICES ASSUME Single(n, key), NEW x \in Channels, NEW y \in Channels,
                            NEW i \in 1..Len(g[x]), NEW j \in 1..Len(g[y]),
                            Key(g[x][i]) = key, Key(g[y][j]) = key
                     PROVE  x = y /\ i = j
        BY DEF Single
      <3>. DEFINE i1 == IF x = from THEN i + 1 ELSE i
                  j1 == IF y = from THEN j + 1 ELSE j
      <3>2. i1 \in 1..Len(n[x]) /\ n[x][i1] = g[x][i]
        BY <1>4, <1>5
      <3>3. j1 \in 1..Len(n[y]) /\ n[y][j1] = g[y][j]
        BY <1>4, <1>5
      <3>4. x = y /\ i1 = j1
        <4>. HIDE DEF i1, j1
        <4>. QED  BY <3>1, <3>2, <3>3 DEF Single
      <3>. QED  BY <3>4
    <2>. QED  BY <2>1, <2>2, <2>3 DEF SameKey
  <1>10. ASSUME Single(n, Key(h)), Has(g, Key(h)) PROVE FALSE
    <2>1. PICK x \in Channels : \E k \in 1..Len(g[x]) : Key(g[x][k]) = Key(h)
      BY <1>10 DEF Has
    <2>2. PICK k \in 1..Len(g[x]) : Key(g[x][k]) = Key(h)
      BY <2>1
    <2>3. CASE x = from
      <3>1. k + 1 \in 1..Len(n[from]) /\ Key(n[from][k + 1]) = Key(h) /\ k >= 1
        BY <1>5, <2>2, <2>3
      <3>2. k + 1 = 1
        BY <1>6, <1>10, <3>1 DEF Single
      <3>. QED  BY <3>1, <3>2
    <2>4. CASE x # from
      <3>1. k \in 1..Len(n[x]) /\ Key(n[x][k]) = Key(h)
        BY <1>4, <2>2, <2>4
      <3>. QED  BY <1>6, <1>10, <2>4, <3>1 DEF Single
    <2>. QED  BY <2>3, <2>4
  <1>. QED  BY <1>7, <1>8, <1>9, <1>10 DEF h, q

LEMMA Sends ==
  ASSUME NEW n, NetOK(n), NEW to \in Channels, NEW m \in Message, InPlace(to, m),
         NEW g, g = [n EXCEPT ![to] = Append(@, m)]
  PROVE  /\ NetOK(g) /\ Has(g, Key(m))
         /\ \A key : key # Key(m) => SameKey(n, g, key)
         /\ ~Has(n, Key(m)) => Single(g, Key(m))
  <1>. DEFINE q == n[to]
  <1>1. n \in [Channels -> Seq(Message)] /\ q \in Seq(Message)
    BY DEF NetOK
  <1>2. /\ Append(q, m) \in Seq(Message) /\ Len(q) \in Nat /\ Len(Append(q, m)) = Len(q) + 1
        /\ Append(q, m)[Len(q) + 1] = m
        /\ \A k \in 1..Len(q) : Append(q, m)[k] = q[k]
    BY <1>1
  <1>3. g \in [Channels -> Seq(Message)]
    BY <1>1, <1>2
  <1>4. /\ g[to] = Append(q, m)
        /\ \A ch \in Channels : ch # to => g[ch] = n[ch]
    BY <1>1
  <1>5. /\ Len(n[to]) \in Nat /\ Len(g[to]) = Len(n[to]) + 1
        /\ Len(g[to]) \in 1..Len(g[to]) /\ g[to][Len(g[to])] = m
        /\ \A k \in 1..Len(g[to]) : k # Len(g[to]) => k \in 1..Len(n[to])
        /\ \A k \in 1..Len(n[to]) : k \in 1..Len(g[to]) /\ k # Len(g[to]) /\ g[to][k] = n[to][k]
    BY <1>2, <1>4
  <1>. HIDE DEF q
  <1>6. NetOK(g)
    <2>1. ASSUME NEW ch \in Channels, NEW k \in 1..Len(g[ch]) PROVE InPlace(ch, g[ch][k])
      BY <1>4, <1>5 DEF NetOK
    <2>. QED  BY <1>3, <2>1 DEF NetOK
  <1>7. Has(g, Key(m))
    BY <1>5 DEF Has
  <1>8. ASSUME NEW key, key # Key(m) PROVE SameKey(n, g, key)
    <2>1. Has(n, key) => Has(g, key)
      BY <1>4, <1>5 DEF Has
    <2>2. Has(g, key) => Has(n, key)
      BY <1>4, <1>5, <1>8 DEF Has
    <2>3. Single(n, key) => Single(g, key)
      <3>1. ASSUME NEW x \in Channels, NEW i \in 1..Len(g[x]), Key(g[x][i]) = key
            PROVE  i \in 1..Len(n[x]) /\ n[x][i] = g[x][i]
        BY <1>4, <1>5, <1>8, <3>1
      <3>. QED  BY <3>1 DEF Single
    <2>. QED  BY <2>1, <2>2, <2>3 DEF SameKey
  <1>9. ASSUME ~Has(n, Key(m)) PROVE Single(g, Key(m))
    <2>1. ASSUME NEW x \in Channels, NEW i \in 1..Len(g[x]), Key(g[x][i]) = Key(m)
          PROVE  x = to /\ i = Len(g[to])
      BY <1>4, <1>5, <1>9, <2>1 DEF Has
    <2>. QED  BY <2>1 DEF Single
  <1>. QED  BY <1>6, <1>7, <1>8, <1>9

LEMMA Passes ==
  ASSUME NEW n, NetOK(n), NEW from \in Channels, NEW to \in Channels, n[from] # <<>>, from # to,
         NEW m \in Message, Key(m) = Key(Head(n[from])), InPlace(to, m),
         NEW g, g = [n EXCEPT ![from] = Tail(@), ![to] = Append(@, m)]
  PROVE  NetOK(g) /\ Same(n, g)
  <1>. DEFINE h == [n EXCEPT ![from] = Tail(@)]
  <1>1. g = [h EXCEPT ![to] = Append(@, m)]
    OBVIOUS
  <1>2. /\ NetOK(h) /\ Has(n, Key(m))
        /\ \A key : key # Key(m) => SameKey(n, h, key)
        /\ Single(n, Key(m)) => ~Has(h, Key(m))
    BY Drops
  <1>. HIDE DEF h
  <1>3. /\ NetOK(g) /\ Has(g, Key(m))
        /\ \A key : key # Key(m) => SameKey(h, g, key)
        /\ ~Has(h, Key(m)) => Single(g, Key(m))
    BY <1>1, <1>2, Sends
  <1>4. ASSUME NEW key PROVE SameKey(n, g, key)
    <2>1. CASE key = Key(m)
      BY <1>2, <1>3, <2>1 DEF SameKey
    <2>2. CASE key # Key(m)
      BY <1>2, <1>3, <2>2 DEF SameKey
    <2>. QED  BY <2>1, <2>2
  <1>. QED  BY <1>3, <1>4 DEF Same

LEMMA Changes ==
  ASSUME NEW n, NetOK(n), NEW from \in Channels, n[from] # <<>>,
         NEW m \in Message, Key(m) = Key(Head(n[from])), InPlace(from, m),
         NEW g, g = [n EXCEPT ![from][1] = m]
  PROVE  NetOK(g) /\ Same(n, g)
  <1>. DEFINE q == n[from]
              r == [q EXCEPT ![1] = m]
  <1>1. n \in [Channels -> Seq(Message)] /\ q \in Seq(Message)
    BY DEF NetOK
  <1>2. /\ r \in Seq(Message) /\ Len(r) = Len(q) /\ Key(q[1]) = Key(m) /\ r[1] = m
        /\ Len(q) \in Nat
        /\ \A k \in 1..Len(q) : k # 1 => r[k] = q[k]
    BY <1>1
  <1>3. g = [n EXCEPT ![from] = r]
    BY <1>1
  <1>. HIDE DEF r
  <1>4. /\ g \in [Channels -> Seq(Message)] /\ g[from] = r
        /\ \A ch \in Channels : ch # from => g[ch] = n[ch]
    BY <1>1, <1>2, <1>3
  <1>5. ASSUME NEW ch \in Channels
        PROVE  /\ Len(g[ch]) = Len(n[ch])
               /\ \A k \in 1..Len(n[ch]) : Key(g[ch][k]) = Key(n[ch][k]) /\ InPlace(ch, g[ch][k])
    BY <1>2, <1>4 DEF NetOK
  <1>6. NetOK(g)
    BY <1>4, <1>5 DEF NetOK
  <1>7. ASSUME NEW key PROVE SameKey(n, g, key)
    BY <1>5 DEF SameKey, Has, Single
  <1>. QED  BY <1>6, <1>7 DEF Same

LEMMA SameTwice ==
  ASSUME NEW n, NEW h, NEW g, Same(n, h), Same(h, g)
  PROVE  Same(n, g)
  BY DEF Same, SameKey

\* A message that is no request of a cache enters or leaves.
LEMMA SendsOther ==
  ASSUME NEW n, NetOK(n), NEW to \in Channels, NEW m \in Message, InPlace(to, m),
         m.type \notin {READ, ACQUIRE_TOKENS}
  PROVE  NetOK([n EXCEPT ![to] = Append(@, m)]) /\ Same(n, [n EXCEPT ![to] = Append(@, m)])
  <1>1. \A key \in Tracked : key # Key(m)
    BY DEF Tracked, Key
  <1>. QED  BY <1>1, Sends DEF Same

\* The message at the front is changed, and another one is sent.
LEMMA ChangesAndSends ==
  ASSUME NEW n, NetOK(n), NEW from \in Channels, NEW to \in Channels, n[from] # <<>>, from # to,
         NEW e \in Message, Key(e) = Key(Head(n[from])), InPlace(from, e),
         NEW m \in Message, InPlace(to, m), m.type \notin {READ, ACQUIRE_TOKENS},
         NEW g, g = [n EXCEPT ![from][1] = e, ![to] = Append(@, m)]
  PROVE  NetOK(g) /\ Same(n, g)
  <1>. DEFINE h == [n EXCEPT ![from][1] = e]
  <1>1. n \in [Channels -> Seq(Message)]
    BY DEF NetOK
  <1>2. g = [h EXCEPT ![to] = Append(@, m)]
    BY <1>1
  <1>3. NetOK(h) /\ Same(n, h)
    BY Changes
  <1>. HIDE DEF h
  <1>4. NetOK(g) /\ Same(h, g)
    <2>1. NetOK([h EXCEPT ![to] = Append(@, m)]) /\ Same(h, [h EXCEPT ![to] = Append(@, m)])
      BY <1>3, SendsOther
    <2>. QED  BY <1>2, <2>1
  <1>. QED  BY <1>3, <1>4, SameTwice

LEMMA DropsOther ==
  ASSUME NEW n, NetOK(n), NEW from \in Channels, n[from] # <<>>,
         Head(n[from]).type \notin {READ, ACQUIRE_TOKENS}
  PROVE  NetOK([n EXCEPT ![from] = Tail(@)]) /\ Same(n, [n EXCEPT ![from] = Tail(@)])
  <1>1. \A key \in Tracked : key # Key(Head(n[from]))
    BY DEF Tracked, Key
  <1>. QED  BY <1>1, Drops DEF Same

-----------------------------------------------------------------------------
(* The lines, and the writes that wait                                      *)

LinesOK(l) ==
    /\ l \in [Caches -> [Addrs -> Line]]
    /\ \A c \in Caches, a \in Addrs :
          /\ l[c][a].acks > 0 => l[c][a].writing
          /\ l[c][a].reading \/ l[c][a].writing => l[c][a].valid

\* What a line x waits for is what line y waits for.
Kept(x, y) == y.reading = x.reading /\ y.writing = x.writing /\ y.acks = x.acks
Keep(l, k) == \A c \in Caches, a \in Addrs : Kept(l[c][a], k[c][a])

Acks(l, c) == UNION {{a} \X (1..l[c][a].acks) : a \in Addrs}

PutLine(l, c, a, x) == [l EXCEPT ![c][a] = x]

LEMMA LineSet ==
  ASSUME NEW l, LinesOK(l), NEW c \in Caches, NEW a \in Addrs,
         NEW x \in Line, x.acks > 0 => x.writing, x.reading \/ x.writing => x.valid,
         NEW k, k = PutLine(l, c, a, x)
  PROVE  /\ LinesOK(k) /\ k[c][a] = x
         /\ \A d \in Caches, b \in Addrs : d # c \/ b # a => k[d][b] = l[d][b]
  <1>1. l \in [Caches -> [Addrs -> Line]]
    BY DEF LinesOK
  <1>2. k \in [Caches -> [Addrs -> Line]]
    BY <1>1 DEF PutLine
  <1>3. /\ k[c][a] = x
        /\ \A d \in Caches, b \in Addrs : d # c \/ b # a => k[d][b] = l[d][b]
    BY <1>1 DEF PutLine
  <1>. QED  BY <1>2, <1>3 DEF LinesOK

LEMMA LineKept ==
  ASSUME NEW l, LinesOK(l), NEW c \in Caches, NEW a \in Addrs,
         NEW x \in Line, Kept(l[c][a], x), x.reading \/ x.writing => x.valid,
         NEW k, k = PutLine(l, c, a, x)
  PROVE  LinesOK(k) /\ Keep(l, k)
  <1>1. x.acks > 0 => x.writing
    BY DEF LinesOK, Kept
  <1>2. /\ LinesOK(k) /\ k[c][a] = x
        /\ \A d \in Caches, b \in Addrs : d # c \/ b # a => k[d][b] = l[d][b]
    BY <1>1, LineSet
  <1>3. ASSUME NEW d \in Caches, NEW b \in Addrs PROVE Kept(l[d][b], k[d][b])
    <2>1. CASE d = c /\ b = a
      BY <1>2, <2>1
    <2>2. CASE d # c \/ b # a
      BY <1>2, <2>2 DEF Kept
    <2>. QED  BY <2>1, <2>2
  <1>. QED  BY <1>2, <1>3 DEF Keep

LEMMA BijectionCount ==
  ASSUME NEW S, NEW T, IsFiniteSet(S), NEW f \in [S -> T],
         \A x, y \in S : f[x] = f[y] => x = y,
         \A t \in T : \E x \in S : f[x] = t
  PROVE  IsFiniteSet(T) /\ Cardinality(T) = Cardinality(S)
  <1>1. f \in Bijection(S, T)
    BY DEF Bijection, Injection, Surjection, IsInjective
  <1> QED
    BY <1>1, FS_Bijection DEF ExistsBijection

QueuedWrites(s) == {k \in DOMAIN s : s[k].write}

LEMMA QueuedAppend ==
  ASSUME NEW s \in Seq(Request), NEW r \in Request
  PROVE  Cardinality(QueuedWrites(Append(s, r))) =
           Cardinality(QueuedWrites(s)) + IF r.write THEN 1 ELSE 0
  <1> DEFINE l == Len(s) + 1
  <1>1. IsFiniteSet(QueuedWrites(s)) /\ l \notin QueuedWrites(s)
    <2>1. IsFiniteSet(1..Len(s)) /\ QueuedWrites(s) \in SUBSET (1..Len(s))
      BY FS_Interval DEF QueuedWrites
    <2> QED
      BY <2>1, FS_Subset
  <1>2. QueuedWrites(Append(s, r)) = IF r.write THEN QueuedWrites(s) \cup {l} ELSE QueuedWrites(s)
    <2>1. /\ DOMAIN Append(s, r) = DOMAIN s \cup {l} /\ l \notin DOMAIN s
          /\ Append(s, r)[l] = r /\ \A k \in DOMAIN s : Append(s, r)[k] = s[k]
      OBVIOUS
    <2> HIDE DEF l
    <2> QED
      BY <2>1 DEF QueuedWrites
  <1>3. Cardinality(QueuedWrites(s)) \in Nat
    BY <1>1, FS_CardinalityType
  <1>4. Cardinality(QueuedWrites(s) \cup {l}) = Cardinality(QueuedWrites(s)) + 1
    BY <1>1, FS_AddElement
  <1> QED
    BY <1>2, <1>3, <1>4

LEMMA QueuedTail ==
  ASSUME NEW s \in Seq(Request), s # <<>>
  PROVE  Cardinality(QueuedWrites(Tail(s))) =
           Cardinality(QueuedWrites(s)) - IF Head(s).write THEN 1 ELSE 0
  <1> DEFINE Rest == QueuedWrites(s) \ {1}
             f    == [k \in Rest |-> k - 1]
  <1>1. /\ Head(s) = s[1] /\ 1 \in DOMAIN s /\ DOMAIN s = 1..Len(s)
        /\ DOMAIN Tail(s) = 1..(Len(s) - 1)
        /\ \A k \in 1..(Len(s) - 1) : Tail(s)[k] = s[k + 1]
    OBVIOUS
  <1>2. IsFiniteSet(QueuedWrites(s)) /\ Cardinality(QueuedWrites(s)) \in Nat
    <2>1. IsFiniteSet(1..Len(s)) /\ QueuedWrites(s) \in SUBSET (1..Len(s))
      BY FS_Interval DEF QueuedWrites
    <2> QED
      BY <2>1, FS_Subset, FS_CardinalityType
  <1>3. /\ IsFiniteSet(Rest)
        /\ Cardinality(Rest) = Cardinality(QueuedWrites(s)) - IF Head(s).write THEN 1 ELSE 0
    <2>1. 1 \in QueuedWrites(s) <=> Head(s).write
      BY <1>1 DEF QueuedWrites
    <2> QED
      BY <1>2, <2>1, FS_RemoveElement
  <1>4. f \in [Rest -> QueuedWrites(Tail(s))]
    BY <1>1 DEF QueuedWrites
  <1>5. \A i, j \in Rest : f[i] = f[j] => i = j
    BY <1>1 DEF QueuedWrites
  <1>6. ASSUME NEW t \in QueuedWrites(Tail(s)) PROVE \E k \in Rest : f[k] = t
    <2>1. t + 1 \in Rest /\ f[t + 1] = t
      BY <1>1 DEF QueuedWrites
    <2> QED
      BY <2>1
  <1> HIDE DEF f, Rest
  <1>7. Cardinality(QueuedWrites(Tail(s))) = Cardinality(Rest)
    BY <1>3, <1>4, <1>5, <1>6, BijectionCount
  <1> QED
    BY <1>3, <1>7

\* One more write waits at a line, or one less.
LEMMA AcksMore ==
  ASSUME NEW l, LinesOK(l), NEW k, LinesOK(k), NEW c \in Caches, NEW a \in Addrs,
         IsFiniteSet(Acks(l, c)), k[c][a].acks = l[c][a].acks + 1,
         \A b \in Addrs : b # a => k[c][b].acks = l[c][b].acks
  PROVE  /\ IsFiniteSet(Acks(k, c))
         /\ Cardinality(Acks(k, c)) = Cardinality(Acks(l, c)) + 1
  <1>. DEFINE t == <<a, k[c][a].acks>>
  <1>1. \A b \in Addrs : l[c][b].acks \in Nat /\ k[c][b].acks \in Nat
    BY DEF LinesOK, Line
  <1>2. t \notin Acks(l, c)
    BY <1>1 DEF Acks
  <1>3. Acks(k, c) = Acks(l, c) \cup {t}
    <2>1. ASSUME NEW b \in Addrs, NEW i PROVE <<b, i>> \in Acks(k, c) <=> <<b, i>> \in Acks(l, c) \/ <<b, i>> = t
      <3>1. <<b, i>> \in Acks(k, c) <=> i \in 1..k[c][b].acks
        BY DEF Acks
      <3>2. <<b, i>> \in Acks(l, c) <=> i \in 1..l[c][b].acks
        BY DEF Acks
      <3>3. CASE b = a
        BY <1>1, <3>1, <3>2, <3>3
      <3>4. CASE b # a
        BY <3>1, <3>2, <3>4
      <3>. QED  BY <3>3, <3>4
    <2>2. ASSUME NEW u PROVE u \in Acks(k, c) <=> u \in Acks(l, c) \/ u = t
      <3>1. CASE \E b \in Addrs : \E i \in Nat : u = <<b, i>>
        BY <2>1, <3>1
      <3>2. CASE ~ \E b \in Addrs : \E i \in Nat : u = <<b, i>>
        <4>1. t[2] \in Nat /\ u # t
          BY <1>1, <3>2
        <4>2. u \notin Acks(k, c) /\ u \notin Acks(l, c)
          BY <1>1, <3>2 DEF Acks
        <4>. QED  BY <4>1, <4>2
      <3>. QED  BY <3>1, <3>2
    <2>. HIDE DEF t
    <2>. QED  BY <2>2
  <1>. QED  BY <1>2, <1>3, FS_AddElement

LEMMA AcksSame ==
  ASSUME NEW l, NEW k, NEW c \in Caches, \A a \in Addrs : k[c][a].acks = l[c][a].acks
  PROVE  Acks(k, c) = Acks(l, c)
  BY DEF Acks

LEMMA AcksLess ==
  ASSUME NEW l, LinesOK(l), NEW k, LinesOK(k), NEW c \in Caches, NEW a \in Addrs,
         IsFiniteSet(Acks(l, c)), k[c][a].acks = l[c][a].acks - 1,
         \A b \in Addrs : b # a => k[c][b].acks = l[c][b].acks
  PROVE  /\ IsFiniteSet(Acks(k, c))
         /\ Cardinality(Acks(k, c)) = Cardinality(Acks(l, c)) - 1
  <1>1. \A b \in Addrs : l[c][b].acks \in Nat /\ k[c][b].acks \in Nat
    BY DEF LinesOK, Line
  <1>2. Acks(k, c) \subseteq Acks(l, c)
    <2>1. ASSUME NEW b \in Addrs PROVE 1..k[c][b].acks \subseteq 1..l[c][b].acks
      <3>1. k[c][b].acks <= l[c][b].acks
        BY <1>1
      <3>. QED  BY <1>1, <3>1
    <2>. QED  BY <2>1 DEF Acks
  <1>3. IsFiniteSet(Acks(k, c))
    BY <1>2, FS_Subset
  <1>4. l[c][a].acks = k[c][a].acks + 1
    BY <1>1
  <1>5. Cardinality(Acks(l, c)) = Cardinality(Acks(k, c)) + 1
    BY <1>3, <1>4, AcksMore
  <1>6. Cardinality(Acks(k, c)) \in Nat
    BY <1>3, FS_CardinalityType
  <1>. QED  BY <1>3, <1>5, <1>6

-----------------------------------------------------------------------------
(* The invariant                                                            *)

\* A line waits exactly while its request is under way, and there is one.
Booked(n, l) ==
    \A c \in Caches, a \in Addrs :
        /\ Single(n, <<c, a, READ>>) /\ (Has(n, <<c, a, READ>>) <=> l[c][a].reading)
        /\ Single(n, <<c, a, ACQUIRE_TOKENS>>) /\ (Has(n, <<c, a, ACQUIRE_TOKENS>>) <=> l[c][a].writing)

\* A write that is not completed is in the queue or waits at a line.
Counted(l, b, u) ==
    \A c \in Caches :
        /\ IsFiniteSet(Acks(l, c))
        /\ u[c] = Cardinality(QueuedWrites(b[c])) + Cardinality(Acks(l, c))

Good(n, l, b, u) ==
    /\ NetOK(n) /\ LinesOK(l) /\ b \in [Caches -> Seq(Request)] /\ u \in [Caches -> Int]
    /\ Booked(n, l) /\ Counted(l, b, u)

IInv ==
    /\ Good(net, lines, bus, unacked)
    /\ roots \in [Addrs -> Entry] /\ mem \in [Addrs -> Data]

LEMMA Quiet ==
  ASSUME NEW n, NEW l, NEW b, NEW u, Good(n, l, b, u),
         NEW g, NetOK(g), Same(n, g), NEW k, LinesOK(k), Keep(l, k)
  PROVE  Good(g, k, b, u)
  <1>1. Booked(g, k)
    <2>1. ASSUME NEW c \in Caches, NEW a \in Addrs
          PROVE  /\ Single(g, <<c, a, READ>>) /\ (Has(g, <<c, a, READ>>) <=> k[c][a].reading)
                 /\ Single(g, <<c, a, ACQUIRE_TOKENS>>) /\ (Has(g, <<c, a, ACQUIRE_TOKENS>>) <=> k[c][a].writing)
      <3>1. <<c, a, READ>> \in Tracked /\ <<c, a, ACQUIRE_TOKENS>> \in Tracked
        BY DEF Tracked
      <3>2. SameKey(n, g, <<c, a, READ>>) /\ SameKey(n, g, <<c, a, ACQUIRE_TOKENS>>)
        BY <3>1 DEF Same
      <3>3. k[c][a].reading = l[c][a].reading /\ k[c][a].writing = l[c][a].writing
        BY DEF Keep, Kept
      <3>. QED  BY <3>2, <3>3 DEF SameKey, Good, Booked
    <2>. QED  BY <2>1 DEF Booked
  <1>2. Counted(k, b, u)
    <2>1. ASSUME NEW c \in Caches PROVE Acks(k, c) = Acks(l, c)
      BY AcksSame DEF Keep, Kept
    <2>. QED  BY <2>1 DEF Good, Counted
  <1>. QED  BY <1>1, <1>2 DEF Good

\* A step after which every line waits for what it waited for.
LEMMA Still ==
  ASSUME IInv, NetOK(net'), Same(net, net'), LinesOK(lines'), Keep(lines, lines'),
         UNCHANGED <<bus, unacked>>, roots' \in [Addrs -> Entry], mem' \in [Addrs -> Data]
  PROVE  IInv'
  <1>1. Good(net', lines', bus, unacked)
    BY Quiet DEF IInv
  <1>. QED  BY <1>1 DEF IInv

\* Nothing happens to the lines.
LEMMA LinesStill ==
  ASSUME IInv, NetOK(net'), Same(net, net'), UNCHANGED <<lines, bus, unacked>>,
         roots' \in [Addrs -> Entry], mem' \in [Addrs -> Data]
  PROVE  IInv'
  <1>1. LinesOK(lines') /\ Keep(lines, lines')
    BY DEF IInv, Good, Keep, Kept
  <1>. QED  BY <1>1, Still

LEMMA NetStill == ASSUME NEW n, NetOK(n) PROVE Same(n, n)
  BY DEF Same, SameKey

LEMMA AbortKeeps ==
  ASSUME IInv, Abort
  PROVE  IInv'
  BY DEF Abort, IInv

LEMMA ChannelFacts ==
  /\ \A n \in Nodes : incoming(n) \in Channels /\ outgoing(n) \in Channels
  /\ \A r \in Roots : /\ requests(r) \in Channels /\ active(r) \in Channels /\ responses(r) \in Channels
                      /\ Root(r) \in Nodes
  /\ \A c \in Caches : Cache(c) \in Nodes
  /\ \A d \in Directories : Bottom(d) \in Nodes /\ Top(d) \in Nodes
  /\ \A n, o : incoming(n) # outgoing(o)
  /\ \A n, r : /\ incoming(n) # requests(r) /\ requests(r) # responses(n) /\ requests(r) # active(n)
               /\ active(r) # responses(n) /\ responses(r) # outgoing(n)
  BY DEF Channels, Nodes, incoming, outgoing, requests, active, responses

\* Only the queue of a root directory's requests is choosy.
LEMMA AnyPlace ==
  ASSUME NEW n, NEW m
  PROVE  /\ InPlace(incoming(n), m) /\ InPlace(outgoing(n), m)
         /\ InPlace(active(n), m) /\ InPlace(responses(n), m)
         /\ (m.ignore \/ m.type \in {READ, EVICTION} => InPlace(requests(n), m))
  BY DEF InPlace, incoming, outgoing, active, responses, requests

\* A message of the network and its line
LEMMA Held ==
  ASSUME IInv, NEW ch \in Channels, net[ch] # <<>>
  PROVE  /\ NetOK(net) /\ At(ch) \in Message /\ InPlace(ch, At(ch)) /\ Has(net, Key(At(ch)))
         /\ At(ch).addr \in Addrs /\ At(ch).source \in Caches /\ At(ch).type \in Types
         /\ At(ch).data \in Data /\ At(ch).tokens \in Int /\ At(ch).priority \in BOOLEAN
         /\ At(ch).transient \in BOOLEAN
  <1>1. NetOK(net)
    BY DEF IInv, Good
  <1>2. At(ch) \in Message /\ InPlace(ch, At(ch)) /\ Has(net, Key(At(ch)))
    BY <1>1, Drops DEF At
  <1>. QED  BY <1>1, <1>2 DEF Message

LEMMA HeldLine ==
  ASSUME IInv, NEW c \in Caches, NEW a \in Addrs
  PROVE  /\ LinesOK(lines) /\ lines[c][a] \in Line
         /\ lines[c][a].acks > 0 => lines[c][a].writing
         /\ lines[c][a].reading \/ lines[c][a].writing => lines[c][a].valid
         /\ lines[c][a].data \in Data /\ lines[c][a].tokens \in Int /\ lines[c][a].acks \in Nat
  BY DEF IInv, Good, LinesOK, Line

-----------------------------------------------------------------------------
(* A message moves on                                                       *)

LEMMA DoForwardKeeps ==
  ASSUME IInv, NEW n \in Nodes, DoForward(n)
  PROVE  IInv'
  <1>. DEFINE from == outgoing(n)
              to == incoming(NextNode(n))
              m == At(from)
  <1>1. from \in Channels /\ to \in Channels /\ from # to /\ net[from] # <<>>
    BY ChannelFacts, NextNodeIsNode DEF DoForward, Waits
  <1>2. NetOK(net) /\ m \in Message /\ Key(m) = Key(Head(net[from])) /\ InPlace(to, m)
    BY <1>1, Held, AnyPlace DEF At
  <1>3. net' = [net EXCEPT ![from] = Tail(@), ![to] = Append(@, m)]
    BY DEF DoForward, Passed
  <1>. HIDE DEF from, to, m
  <1>4. NetOK(net') /\ Same(net, net')
    BY <1>1, <1>2, <1>3, Passes
  <1>5. UNCHANGED <<lines, bus, unacked, roots, mem>>
    BY DEF DoForward
  <1>. QED  BY <1>4, <1>5, LinesStill DEF IInv

\* A cache passes a message on.
LEMMA PassKeeps ==
  ASSUME IInv, NEW c \in Caches, Waits(incoming(Cache(c))),
         NEW m \in Message, Key(m) = Key(At(incoming(Cache(c)))),
         NEW x \in Line, Kept(lines[c][m.addr], x), x.reading \/ x.writing => x.valid,
         Pass(c, m, x)
  PROVE  IInv'
  <1>. DEFINE from == incoming(Cache(c))
              to == outgoing(Cache(c))
  <1>1. from \in Channels /\ to \in Channels /\ from # to /\ net[from] # <<>>
    BY ChannelFacts DEF Waits
  <1>2. NetOK(net) /\ Key(m) = Key(Head(net[from])) /\ InPlace(to, m)
    BY <1>1, Held, AnyPlace DEF At
  <1>3. net' = [net EXCEPT ![from] = Tail(@), ![to] = Append(@, m)]
    BY DEF Pass, Passed
  <1>. HIDE DEF from, to
  <1>4. NetOK(net') /\ Same(net, net')
    BY <1>1, <1>2, <1>3, Passes
  <1>5. m.addr \in Addrs
    BY DEF Message
  <1>6. lines' = PutLine(lines, c, m.addr, x)
    BY DEF Pass, PutLine
  <1>7. LinesOK(lines)
    BY DEF IInv, Good
  <1>8. LinesOK(lines') /\ Keep(lines, lines')
    BY <1>5, <1>6, <1>7, LineKept
  <1>9. UNCHANGED <<bus, unacked, roots, mem>>
    BY DEF Pass
  <1>. QED  BY <1>4, <1>8, <1>9, Still DEF IInv

-----------------------------------------------------------------------------
(* The requests of the clients                                              *)

\* Nothing changes at the caches other than c.
Others(c, l, b, u, k, d, v) ==
    \A e \in Caches : e # c => d[e] = b[e] /\ v[e] = u[e] /\ \A a \in Addrs : k[e][a].acks = l[e][a].acks

LEMMA Recount ==
  ASSUME NEW n, NEW l, NEW b, NEW u, Good(n, l, b, u),
         NEW g, NetOK(g), NEW k, LinesOK(k), Booked(g, k),
         NEW d \in [Caches -> Seq(Request)], NEW v \in [Caches -> Int], NEW c \in Caches,
         Others(c, l, b, u, k, d, v),
         IsFiniteSet(Acks(k, c)),
         v[c] = Cardinality(QueuedWrites(d[c])) + Cardinality(Acks(k, c))
  PROVE  Good(g, k, d, v)
  <1>1. ASSUME NEW e \in Caches, e # c
        PROVE  /\ IsFiniteSet(Acks(k, e))
               /\ v[e] = Cardinality(QueuedWrites(d[e])) + Cardinality(Acks(k, e))
    <2>1. Acks(k, e) = Acks(l, e)
      BY <1>1, AcksSame DEF Others
    <2>. QED  BY <1>1, <2>1 DEF Good, Counted, Others
  <1>2. Counted(k, d, v)
    BY <1>1 DEF Counted
  <1>. QED  BY <1>2 DEF Good

LEMMA RebookRead ==
  ASSUME NEW n, NEW l, Booked(n, l), NEW c \in Caches, NEW a \in Addrs,
         NEW g, \A key \in Tracked : key # <<c, a, READ>> => SameKey(n, g, key),
         NEW k, \A d \in Caches, e \in Addrs :
                   /\ k[d][e].writing = l[d][e].writing
                   /\ d # c \/ e # a => k[d][e].reading = l[d][e].reading,
         Single(g, <<c, a, READ>>), Has(g, <<c, a, READ>>) <=> k[c][a].reading
  PROVE  Booked(g, k)
  <1>1. ASSUME NEW d \in Caches, NEW e \in Addrs
        PROVE  Single(g, <<d, e, READ>>) /\ (Has(g, <<d, e, READ>>) <=> k[d][e].reading)
    <2>1. CASE d = c /\ e = a
      BY <2>1
    <2>2. CASE d # c \/ e # a
      <3>1. SameKey(n, g, <<d, e, READ>>)
        BY <2>2 DEF Tracked
      <3>. QED  BY <2>2, <3>1 DEF Booked, SameKey
    <2>. QED  BY <2>1, <2>2
  <1>2. ASSUME NEW d \in Caches, NEW e \in Addrs
        PROVE  Single(g, <<d, e, ACQUIRE_TOKENS>>) /\ (Has(g, <<d, e, ACQUIRE_TOKENS>>) <=> k[d][e].writing)
    <2>1. SameKey(n, g, <<d, e, ACQUIRE_TOKENS>>)
      BY DEF READ, ACQUIRE_TOKENS, Tracked
    <2>. QED  BY <2>1 DEF Booked, SameKey
  <1>. QED  BY <1>1, <1>2 DEF Booked

LEMMA RebookWrite ==
  ASSUME NEW n, NEW l, Booked(n, l), NEW c \in Caches, NEW a \in Addrs,
         NEW g, \A key \in Tracked : key # <<c, a, ACQUIRE_TOKENS>> => SameKey(n, g, key),
         NEW k, \A d \in Caches, e \in Addrs :
                   /\ k[d][e].reading = l[d][e].reading
                   /\ d # c \/ e # a => k[d][e].writing = l[d][e].writing,
         Single(g, <<c, a, ACQUIRE_TOKENS>>), Has(g, <<c, a, ACQUIRE_TOKENS>>) <=> k[c][a].writing
  PROVE  Booked(g, k)
  <1>1. ASSUME NEW d \in Caches, NEW e \in Addrs
        PROVE  Single(g, <<d, e, ACQUIRE_TOKENS>>) /\ (Has(g, <<d, e, ACQUIRE_TOKENS>>) <=> k[d][e].writing)
    <2>1. CASE d = c /\ e = a
      BY <2>1
    <2>2. CASE d # c \/ e # a
      <3>1. SameKey(n, g, <<d, e, ACQUIRE_TOKENS>>)
        BY <2>2 DEF Tracked
      <3>. QED  BY <2>2, <3>1 DEF Booked, SameKey
    <2>. QED  BY <2>1, <2>2
  <1>2. ASSUME NEW d \in Caches, NEW e \in Addrs
        PROVE  Single(g, <<d, e, READ>>) /\ (Has(g, <<d, e, READ>>) <=> k[d][e].reading)
    <2>1. SameKey(n, g, <<d, e, READ>>)
      BY DEF READ, ACQUIRE_TOKENS, Tracked
    <2>. QED  BY <2>1 DEF Booked, SameKey
  <1>. QED  BY <1>1, <1>2 DEF Booked

\* A request of a client of cache c is queued.
LEMMA QueuedKeeps ==
  ASSUME IInv, NEW c \in Caches, NEW r \in Request,
         bus' = [bus EXCEPT ![c] = Append(@, r)],
         unacked' = [unacked EXCEPT ![c] = @ + IF r.write THEN 1 ELSE 0],
         UNCHANGED <<net, lines, roots, mem>>
  PROVE  IInv'
  <1>1. /\ Good(net, lines, bus, unacked) /\ NetOK(net) /\ LinesOK(lines) /\ Booked(net, lines)
        /\ bus \in [Caches -> Seq(Request)] /\ unacked \in [Caches -> Int] /\ IsFiniteSet(Acks(lines, c))
        /\ unacked[c] = Cardinality(QueuedWrites(bus[c])) + Cardinality(Acks(lines, c))
    BY DEF IInv, Good, Counted
  <1>2. /\ bus' \in [Caches -> Seq(Request)] /\ unacked' \in [Caches -> Int]
        /\ bus'[c] = Append(bus[c], r) /\ unacked'[c] = unacked[c] + IF r.write THEN 1 ELSE 0
        /\ \A e \in Caches : e # c => bus'[e] = bus[e] /\ unacked'[e] = unacked[e]
    BY <1>1
  <1>3. Cardinality(QueuedWrites(bus'[c])) = Cardinality(QueuedWrites(bus[c])) + IF r.write THEN 1 ELSE 0
    BY <1>1, <1>2, QueuedAppend
  <1>4. Cardinality(QueuedWrites(bus[c])) \in Nat /\ Cardinality(Acks(lines, c)) \in Nat
    <2>1. IsFiniteSet(QueuedWrites(bus[c]))
      <3>1. bus[c] \in Seq(Request)
        BY <1>1
      <3>2. QueuedWrites(bus[c]) \in SUBSET (1..Len(bus[c])) /\ Len(bus[c]) \in Nat
        BY <3>1 DEF QueuedWrites
      <3>3. IsFiniteSet(1..Len(bus[c]))
        BY <3>2, FS_Interval
      <3>. QED  BY <3>2, <3>3, FS_Subset
    <2>. QED  BY <1>1, <2>1, FS_CardinalityType
  <1>5. unacked'[c] = Cardinality(QueuedWrites(bus'[c])) + Cardinality(Acks(lines, c))
    BY <1>1, <1>2, <1>3, <1>4
  <1>6. Others(c, lines, bus, unacked, lines, bus', unacked')
    BY <1>2 DEF Others
  <1>7. Good(net, lines, bus', unacked')
    <2>1. \A d \in [Caches -> Seq(Request)], v \in [Caches -> Int] :
             /\ Others(c, lines, bus, unacked, lines, d, v)
             /\ v[c] = Cardinality(QueuedWrites(d[c])) + Cardinality(Acks(lines, c))
             => Good(net, lines, d, v)
      BY <1>1, Recount
    <2>. QED  BY <1>2, <1>5, <1>6, <2>1
  <1>. QED  BY <1>7 DEF IInv

LEMMA ClientReadKeeps ==
  ASSUME IInv, NEW c \in Caches, NEW a \in Addrs, ClientRead(c, a)
  PROVE  IInv'
  <1>. DEFINE r == [write |-> FALSE, addr |-> a, data |-> NoData]
  <1>1. r \in Request /\ ~r.write
    BY DataTypes DEF Request
  <1>2. bus' = [bus EXCEPT ![c] = Append(@, r)] /\ UNCHANGED <<net, lines, unacked, roots, mem>>
    BY DEF ClientRead
  <1>. HIDE DEF r
  <1>3. unacked' = [unacked EXCEPT ![c] = @ + IF r.write THEN 1 ELSE 0]
    <2>1. unacked \in [Caches -> Int]
      BY DEF IInv, Good
    <2>. QED  BY <1>1, <1>2, <2>1
  <1>. QED  BY <1>1, <1>2, <1>3, QueuedKeeps

LEMMA ClientWriteKeeps ==
  ASSUME IInv, NEW c \in Caches, NEW a \in Addrs, NEW w \in Writes, ClientWrite(c, a, w)
  PROVE  IInv'
  <1>. DEFINE r == [write |-> TRUE, addr |-> a, data |-> w]
  <1>1. r \in Request /\ r.write
    BY ZLCacheAssumption DEF Request
  <1>2. /\ bus' = [bus EXCEPT ![c] = Append(@, r)] /\ UNCHANGED <<net, lines, roots, mem>>
        /\ unacked' = [unacked EXCEPT ![c] = @ + 1]
    BY DEF ClientWrite
  <1>. HIDE DEF r
  <1>3. unacked' = [unacked EXCEPT ![c] = @ + IF r.write THEN 1 ELSE 0]
    BY <1>1, <1>2
  <1>. QED  BY <1>1, <1>2, <1>3, QueuedKeeps

LEMMA LineTypes ==
  /\ NoLine \in Line /\ ~NoLine.reading /\ ~NoLine.writing /\ NoLine.acks = 0 /\ ~NoLine.valid
  /\ NewLine \in Line /\ ~NewLine.reading /\ ~NewLine.writing /\ NewLine.acks = 0 /\ NewLine.valid
  <1>1. NoLine \in Line
    BY DataTypes DEF NoLine, Line
  <1>2. ~NoLine.reading /\ ~NoLine.writing /\ NoLine.acks = 0 /\ ~NoLine.valid
    BY DEF NoLine
  <1>3. /\ NewLine \in Line /\ NewLine.reading = NoLine.reading /\ NewLine.writing = NoLine.writing
        /\ NewLine.acks = NoLine.acks /\ NewLine.valid
    BY <1>1 DEF NewLine, Line
  <1>. QED  BY <1>1, <1>2, <1>3

LEMMA EvictLineKeeps ==
  ASSUME IInv, NEW c \in Caches, NEW a \in Addrs, EvictLine(c, a)
  PROVE  IInv'
  <1>. DEFINE to == outgoing(Cache(c))
  <1>1. PICK x \in Replaceable(c, a) :
            /\ net' = Sent(to, Evicted(c, x))
            /\ lines' = [lines EXCEPT ![c][x] = NoLine]
    BY DEF EvictLine
  <1>2. x \in Addrs /\ ~lines[c][x].reading /\ ~lines[c][x].writing
    BY DEF Replaceable, InSet
  <1>3. /\ LinesOK(lines) /\ lines[c][x] \in Line
        /\ lines[c][x].acks > 0 => lines[c][x].writing
    BY <1>2, HeldLine
  <1>4. Kept(lines[c][x], NoLine)
    BY <1>2, <1>3, LineTypes DEF Kept, Line
  <1>5. lines' = PutLine(lines, c, x, NoLine)
    BY <1>1 DEF PutLine
  <1>6. LinesOK(lines') /\ Keep(lines, lines')
    BY <1>2, <1>3, <1>4, <1>5, LineTypes, LineKept
  <1>. DEFINE m == Evicted(c, x)
  <1>7. m \in Message /\ m.type = EVICTION
    <2>1. /\ NewMessage(EVICTION, x, c) \in Message /\ NewMessage(EVICTION, x, c).type = EVICTION
      BY <1>2, NewMessageType DEF Types
    <2>. QED  BY <1>3, <2>1 DEF Evicted, Message, Line
  <1>8. to \in Channels /\ InPlace(to, m)
    BY ChannelFacts, AnyPlace
  <1>9. net' = [net EXCEPT ![to] = Append(@, m)] /\ NetOK(net)
    BY <1>1 DEF Sent, IInv, Good
  <1>. HIDE DEF m, to
  <1>10. NetOK(net') /\ Same(net, net')
    BY <1>7, <1>8, <1>9, SendsOther DEF EVICTION, READ, ACQUIRE_TOKENS
  <1>11. UNCHANGED <<bus, unacked, roots, mem>>
    BY DEF EvictLine
  <1>. QED  BY <1>6, <1>10, <1>11, Still DEF IInv

\* The request at the front of the bus is served; u is what is unacknowledged then.
LEMMA Served ==
  ASSUME IInv, NEW c \in Caches, bus[c] # <<>>, Serve(c)
  PROVE  /\ bus' \in [Caches -> Seq(Request)]
         /\ \A e \in Caches : e # c => bus'[e] = bus[e]
         /\ Cardinality(QueuedWrites(bus'[c])) =
              Cardinality(QueuedWrites(bus[c])) - IF Head(bus[c]).write THEN 1 ELSE 0
         /\ Cardinality(QueuedWrites(bus[c])) \in Nat
         /\ Head(bus[c]) \in Request
  <1>1. bus \in [Caches -> Seq(Request)] /\ bus[c] \in Seq(Request)
    BY DEF IInv, Good
  <1>2. Tail(bus[c]) \in Seq(Request) /\ Head(bus[c]) \in Request
    BY <1>1
  <1>3. bus' \in [Caches -> Seq(Request)] /\ bus'[c] = Tail(bus[c])
        /\ \A e \in Caches : e # c => bus'[e] = bus[e]
    BY <1>1, <1>2 DEF Serve
  <1>4. Cardinality(QueuedWrites(Tail(bus[c]))) =
              Cardinality(QueuedWrites(bus[c])) - IF Head(bus[c]).write THEN 1 ELSE 0
    BY <1>1, QueuedTail
  <1>5. Cardinality(QueuedWrites(bus[c])) \in Nat
    <2>1. QueuedWrites(bus[c]) \in SUBSET (1..Len(bus[c])) /\ Len(bus[c]) \in Nat
      BY <1>1 DEF QueuedWrites
    <2>2. IsFiniteSet(1..Len(bus[c]))
      BY <2>1, FS_Interval
    <2>3. IsFiniteSet(QueuedWrites(bus[c]))
      BY <2>1, <2>2, FS_Subset
    <2>. QED  BY <2>3, FS_CardinalityType
  <1>. QED  BY <1>2, <1>3, <1>4, <1>5

\* A step that serves a request of cache c, w of them a write
Elsewhere(c, l, u, k, v) ==
    \A e \in Caches : e # c => v[e] = u[e] /\ \A a \in Addrs : k[e][a].acks = l[e][a].acks
Balance(c, l, u, k, v, w) == v[c] + Cardinality(Acks(l, c)) + w = u[c] + Cardinality(Acks(k, c))

\* The state after a request is served: what has to hold for cache c.
LEMMA ServedGood ==
  ASSUME IInv, NEW c \in Caches, bus[c] # <<>>, Serve(c),
         NetOK(net'), LinesOK(lines'), Booked(net', lines'), unacked' \in [Caches -> Int],
         Elsewhere(c, lines, unacked, lines', unacked'), IsFiniteSet(Acks(lines', c)),
         NEW w \in {0, 1}, w = 1 <=> Head(bus[c]).write,
         Balance(c, lines, unacked, lines', unacked', w),
         UNCHANGED <<roots, mem>>
  PROVE  IInv'
  <1>1. /\ Good(net, lines, bus, unacked) /\ unacked \in [Caches -> Int] /\ IsFiniteSet(Acks(lines, c))
        /\ unacked[c] = Cardinality(QueuedWrites(bus[c])) + Cardinality(Acks(lines, c))
    BY DEF IInv, Good, Counted
  <1>2. /\ bus' \in [Caches -> Seq(Request)]
        /\ \A e \in Caches : e # c => bus'[e] = bus[e]
        /\ Cardinality(QueuedWrites(bus'[c])) =
              Cardinality(QueuedWrites(bus[c])) - IF Head(bus[c]).write THEN 1 ELSE 0
        /\ Cardinality(QueuedWrites(bus[c])) \in Nat
    BY Served
  <1>3. Cardinality(Acks(lines, c)) \in Nat /\ Cardinality(Acks(lines', c)) \in Nat
    BY <1>1, FS_CardinalityType
  <1>4. unacked'[c] = Cardinality(QueuedWrites(bus'[c])) + Cardinality(Acks(lines', c))
    <2>1. unacked[c] \in Int /\ unacked'[c] \in Int
      BY <1>1
    <2>2. Cardinality(QueuedWrites(bus'[c])) = Cardinality(QueuedWrites(bus[c])) - w
      <3>1. CASE w = 1
        BY <1>2, <3>1
      <3>2. CASE w = 0
        BY <1>2, <3>2
      <3>. QED  BY <3>1, <3>2
    <2>3. unacked'[c] + Cardinality(Acks(lines, c)) + w = unacked[c] + Cardinality(Acks(lines', c))
      BY DEF Balance
    <2>. DEFINE p == unacked[c]
                q == unacked'[c]
                i == Cardinality(Acks(lines, c))
                j == Cardinality(Acks(lines', c))
                x == Cardinality(QueuedWrites(bus[c]))
                y == Cardinality(QueuedWrites(bus'[c]))
    <2>4. /\ p \in Int /\ q \in Int /\ i \in Nat /\ j \in Nat /\ x \in Nat /\ y = x - w /\ w \in Int
          /\ q + i + w = p + j /\ p = x + i
      BY <1>1, <1>2, <1>3, <2>1, <2>2, <2>3
    <2>. HIDE DEF p, q, i, j, x, y
    <2>5. q = y + j
      BY <2>4
    <2>. QED  BY <2>5 DEF q, y, j
  <1>5. Others(c, lines, bus, unacked, lines', bus', unacked')
    BY <1>2 DEF Others, Elsewhere
  <1>6. Good(net', lines', bus', unacked')
    <2>1. \A k, g, d, v :
             /\ NetOK(g) /\ LinesOK(k) /\ Booked(g, k) /\ IsFiniteSet(Acks(k, c))
             /\ d \in [Caches -> Seq(Request)] /\ v \in [Caches -> Int]
             /\ Others(c, lines, bus, unacked, k, d, v)
             /\ v[c] = Cardinality(QueuedWrites(d[c])) + Cardinality(Acks(k, c))
             => Good(g, k, d, v)
      BY <1>1, Recount
    <2>. HIDE DEF IInv
    <2>. QED  BY <1>2, <1>4, <1>5, <2>1
  <1>. QED  BY <1>6 DEF IInv

LEMMA OnReadRequestKeeps ==
  ASSUME IInv, NEW c \in Caches, bus[c] # <<>>, ~Head(bus[c]).write, NEW a \in Addrs,
         OnReadRequest(c, a)
  PROVE  IInv'
  <1>. DEFINE l == lines[c][a]
              x == [(IF l.valid THEN l ELSE NewLine) EXCEPT !.reading = TRUE]
              to == outgoing(Cache(c))
              m == NewMessage(READ, a, c)
  <1>1. CASE ~l.valid /\ ~HasEmptyWay(c, a)
    BY <1>1, EvictLineKeeps DEF OnReadRequest
  <1>2. CASE ~(~l.valid /\ ~HasEmptyWay(c, a))
    <2>0. Serve(c) /\ UNCHANGED <<unacked, roots, mem>>
      BY <1>2 DEF OnReadRequest
    <2>a. /\ NetOK(net) /\ LinesOK(lines) /\ Booked(net, lines) /\ unacked \in [Caches -> Int]
          /\ IsFiniteSet(Acks(lines, c))
      BY DEF IInv, Good, Counted
    <2>1. CASE Complete(l.data) \/ l.reading
      <3>1. UNCHANGED <<net, lines>>
        BY <1>2, <2>1 DEF OnReadRequest
      <3>2. /\ NetOK(net') /\ LinesOK(lines') /\ Booked(net', lines') /\ unacked' \in [Caches -> Int]
            /\ IsFiniteSet(Acks(lines', c)) /\ UNCHANGED <<roots, mem>>
        BY <2>0, <2>a, <3>1
      <3>3. Elsewhere(c, lines, unacked, lines', unacked')
        BY <2>0, <3>1 DEF Elsewhere
      <3>4. Balance(c, lines, unacked, lines', unacked', 0)
        <4>1. unacked[c] \in Int /\ Cardinality(Acks(lines, c)) \in Nat
          BY <2>a, FS_CardinalityType
        <4>. QED  BY <2>0, <3>1, <4>1 DEF Balance
      <3>. QED  BY <2>0, <3>2, <3>3, <3>4, ServedGood
    <2>2. CASE ~(Complete(l.data) \/ l.reading)
      <3>1. net' = [net EXCEPT ![to] = Append(@, m)] /\ lines' = PutLine(lines, c, a, x)
        BY <1>2, <2>2 DEF OnReadRequest, Sent, PutLine
      <3>2. /\ l \in Line
            /\ l.acks > 0 => l.writing
            /\ l.reading \/ l.writing => l.valid
        BY HeldLine
      <3>3. /\ x \in Line /\ x.reading /\ x.valid
            /\ x.writing = l.writing /\ x.acks = l.acks
        <4>1. CASE l.valid
          BY <3>2, <4>1 DEF Line
        <4>2. CASE ~l.valid
          <5>1. /\ l.writing = FALSE /\ l.acks = 0
            BY <3>2, <4>2 DEF Line
          <5>2. x = [NewLine EXCEPT !.reading = TRUE]
            BY <4>2
          <5>3. NewLine.writing = FALSE
            BY LineTypes DEF Line
          <5>. HIDE DEF x, l
          <5>. QED  BY <5>1, <5>2, <5>3, LineTypes DEF Line
        <4>. QED  BY <4>1, <4>2
      <3>4. m \in Message /\ Key(m) = <<c, a, READ>>
        BY NewMessageType DEF Types, Key
      <3>5. to \in Channels /\ InPlace(to, m)
        BY ChannelFacts, AnyPlace
      <3>6. ~Has(net, <<c, a, READ>>)
        BY <2>a, <2>2 DEF Booked
      <3>. HIDE DEF m, to, x
      <3>7. /\ NetOK(net') /\ Has(net', <<c, a, READ>>) /\ Single(net', <<c, a, READ>>)
            /\ \A key : key # <<c, a, READ>> => SameKey(net, net', key)
        <4>1. /\ NetOK([net EXCEPT ![to] = Append(@, m)]) /\ Has([net EXCEPT ![to] = Append(@, m)], Key(m))
              /\ \A key : key # Key(m) => SameKey(net, [net EXCEPT ![to] = Append(@, m)], key)
              /\ ~Has(net, Key(m)) => Single([net EXCEPT ![to] = Append(@, m)], Key(m))
          BY <2>a, <3>4, <3>5, Sends
        <4>. QED  BY <3>1, <3>4, <3>6, <4>1
      <3>8. /\ LinesOK(lines') /\ lines'[c][a] = x
            /\ \A d \in Caches, b \in Addrs : d # c \/ b # a => lines'[d][b] = lines[d][b]
        <4>1. x.acks > 0 => x.writing
          BY <3>2, <3>3
        <4>. QED  BY <2>a, <3>1, <3>3, <4>1, LineSet
      <3>9. Booked(net', lines')
        <4>1. \A d \in Caches, e \in Addrs :
                   /\ lines'[d][e].writing = lines[d][e].writing
                   /\ lines'[d][e].acks = lines[d][e].acks
                   /\ d # c \/ e # a => lines'[d][e].reading = lines[d][e].reading
          BY <3>3, <3>8
        <4>2. Has(net', <<c, a, READ>>) <=> lines'[c][a].reading
          BY <3>3, <3>7, <3>8
        <4>. QED  BY <2>a, <3>7, <4>1, <4>2, RebookRead
      <3>10. \A d \in Caches, e \in Addrs : lines'[d][e].acks = lines[d][e].acks
        BY <3>3, <3>8
      <3>11. Acks(lines', c) = Acks(lines, c)
        BY <3>10, AcksSame
      <3>12. Elsewhere(c, lines, unacked, lines', unacked')
        BY <2>0, <3>10 DEF Elsewhere
      <3>13. Balance(c, lines, unacked, lines', unacked', 0)
        <4>1. unacked[c] \in Int /\ Cardinality(Acks(lines, c)) \in Nat
          BY <2>a, FS_CardinalityType
        <4>. QED  BY <2>0, <3>11, <4>1 DEF Balance
      <3>14. /\ NetOK(net') /\ LinesOK(lines') /\ Booked(net', lines') /\ unacked' \in [Caches -> Int]
             /\ IsFiniteSet(Acks(lines', c)) /\ UNCHANGED <<roots, mem>>
        BY <2>0, <2>a, <3>7, <3>8, <3>9, <3>11
      <3>. QED  BY <2>0, <3>12, <3>13, <3>14, ServedGood
    <2>. QED  BY <2>1, <2>2
  <1>. QED  BY <1>1, <1>2

LEMMA BookedFlags ==
  ASSUME NEW n, NEW l, Booked(n, l), NEW k,
         \A c \in Caches, a \in Addrs : k[c][a].reading = l[c][a].reading /\ k[c][a].writing = l[c][a].writing
  PROVE  Booked(n, k)
  BY DEF Booked

LEMMA OnWriteRequestKeeps ==
  ASSUME IInv, NEW c \in Caches, bus[c] # <<>>, Head(bus[c]).write, NEW a \in Addrs, NEW data \in Data,
         OnWriteRequest(c, a, data)
  PROVE  IInv'
  <1>. DEFINE old == lines[c][a]
              base == IF old.valid THEN old ELSE NewLine
              l == [base EXCEPT !.data = Blit(@, data), !.dirty = TRUE]
              exclusive == old.valid /\ ~l.transient /\ l.tokens = TotalTokens
              given == IF l.priority THEN 1 ELSE 0
              to == outgoing(Cache(c))
              m == [NewMessage(ACQUIRE_TOKENS, a, c) EXCEPT
                                !.data = l.data, !.tokens = given, !.priority = l.priority]
              y == [l EXCEPT !.acks = @ + 1]
              z == [l EXCEPT !.acks = @ + 1, !.writing = TRUE, !.priority = FALSE, !.tokens = @ - given]
  <1>a. /\ NetOK(net) /\ LinesOK(lines) /\ Booked(net, lines) /\ unacked \in [Caches -> Int]
        /\ IsFiniteSet(Acks(lines, c)) /\ unacked[c] \in Int
    BY DEF IInv, Good, Counted
  <1>b. Cardinality(Acks(lines, c)) \in Nat
    BY <1>a, FS_CardinalityType
  <1>c. /\ old \in Line
        /\ old.acks > 0 => old.writing
        /\ old.reading \/ old.writing => old.valid
    BY HeldLine
  <1>d. base \in Line /\ base.valid /\ Kept(old, base)
    <2>1. CASE old.valid
      BY <1>c, <2>1 DEF Kept
    <2>2. CASE ~old.valid
      <3>1. old.reading = FALSE /\ old.writing = FALSE /\ old.acks = 0
        BY <1>c, <2>2 DEF Line
      <3>2. NewLine.reading = FALSE /\ NewLine.writing = FALSE
        BY LineTypes DEF Line
      <3>. QED  BY <2>2, <3>1, <3>2, LineTypes DEF Kept
    <2>. QED  BY <2>1, <2>2
  <1>. HIDE DEF base
  <1>e. l \in Line /\ l.valid /\ Kept(old, l)
    <2>1. Blit(base.data, data) \in Data
      BY <1>d, DataTypes DEF Line
    <2>. QED  BY <1>d, <2>1 DEF Line, Kept
  <1>. HIDE DEF l
  <1>1. CASE ~old.valid /\ ~HasEmptyWay(c, a)
    BY <1>1, EvictLineKeeps DEF OnWriteRequest
  <1>2. CASE ~(~old.valid /\ ~HasEmptyWay(c, a)) /\ exclusive /\ ~l.priority
    BY <1>2, AbortKeeps DEF OnWriteRequest, l, base
  <1>3. CASE ~(~old.valid /\ ~HasEmptyWay(c, a)) /\ ~(exclusive /\ ~l.priority)
    <2>0. /\ Serve(c) /\ UNCHANGED <<roots, mem>>
          /\ IF exclusive
             THEN /\ lines' = [lines EXCEPT ![c][a] = l]
                  /\ unacked' = [unacked EXCEPT ![c] = @ - 1] /\ UNCHANGED net
             ELSE IF l.writing
             THEN /\ lines' = [lines EXCEPT ![c][a] = y]
                  /\ UNCHANGED <<net, unacked>>
             ELSE /\ net' = Sent(to, m)
                  /\ lines' = [lines EXCEPT ![c][a] = z]
                  /\ UNCHANGED unacked
      BY <1>3 DEF OnWriteRequest, l, base
    <2>1. CASE exclusive
      <3>1. lines' = PutLine(lines, c, a, l) /\ net' = net /\ unacked' = [unacked EXCEPT ![c] = @ - 1]
        BY <2>0, <2>1 DEF PutLine
      <3>2. LinesOK(lines') /\ Keep(lines, lines')
        BY <1>a, <1>e, <3>1, LineKept
      <3>3. Booked(net', lines')
        <4>1. Booked(net, lines')
          BY <1>a, <3>2, BookedFlags DEF Keep, Kept
        <4>. QED  BY <3>1, <4>1
      <3>4. Acks(lines', c) = Acks(lines, c)
        BY <3>2, AcksSame DEF Keep, Kept
      <3>5. unacked' \in [Caches -> Int] /\ unacked'[c] = unacked[c] - 1
            /\ \A e \in Caches : e # c => unacked'[e] = unacked[e]
        BY <1>a, <3>1
      <3>6. Elsewhere(c, lines, unacked, lines', unacked')
        BY <3>2, <3>5 DEF Elsewhere, Keep, Kept
      <3>7. Balance(c, lines, unacked, lines', unacked', 1)
        BY <1>a, <1>b, <3>4, <3>5 DEF Balance
      <3>8. NetOK(net') /\ IsFiniteSet(Acks(lines', c))
        BY <1>a, <3>1, <3>4
      <3>. QED  BY <2>0, <3>2, <3>3, <3>5, <3>6, <3>7, <3>8, ServedGood
    <2>2. CASE ~exclusive /\ l.writing
      <3>1. lines' = PutLine(lines, c, a, y) /\ net' = net /\ unacked' = unacked
        BY <2>0, <2>2 DEF PutLine
      <3>2. y \in Line /\ y.writing /\ y.valid /\ y.reading = old.reading /\ y.writing = old.writing
            /\ y.acks = old.acks + 1
        <4>1. /\ y \in Line /\ y.writing = l.writing /\ y.valid = l.valid /\ y.reading = l.reading
              /\ y.acks = l.acks + 1
          <5>1. l.acks + 1 \in Nat
            BY <1>e DEF Line
          <5>2. y \in Line
            BY <1>e, <5>1 DEF Line
          <5>3. y.acks = l.acks + 1
            BY <1>e DEF Line
          <5>4. y.writing = l.writing /\ y.valid = l.valid /\ y.reading = l.reading
            BY <1>e DEF Line
          <5>. QED  BY <5>2, <5>3, <5>4
        <4>. HIDE DEF y, old
        <4>. QED  BY <1>e, <2>2, <4>1 DEF Kept
      <3>. HIDE DEF y
      <3>3. /\ LinesOK(lines') /\ lines'[c][a] = y
            /\ \A d \in Caches, b \in Addrs : d # c \/ b # a => lines'[d][b] = lines[d][b]
        BY <1>a, <3>1, <3>2, LineSet
      <3>4. Booked(net', lines')
        <4>1. \A d \in Caches, b \in Addrs : /\ lines'[d][b].reading = lines[d][b].reading
                                            /\ lines'[d][b].writing = lines[d][b].writing
          BY <3>2, <3>3
        <4>2. Booked(net, lines')
          BY <1>a, <4>1, BookedFlags
        <4>. QED  BY <3>1, <4>2
      <3>5. /\ IsFiniteSet(Acks(lines', c))
            /\ Cardinality(Acks(lines', c)) = Cardinality(Acks(lines, c)) + 1
        <4>1. lines'[c][a].acks = lines[c][a].acks + 1
          BY <3>2, <3>3
        <4>2. \A b \in Addrs : b # a => lines'[c][b].acks = lines[c][b].acks
          BY <3>3
        <4>. QED  BY <1>a, <3>3, <4>1, <4>2, AcksMore
      <3>6. Elsewhere(c, lines, unacked, lines', unacked')
        BY <3>1, <3>3 DEF Elsewhere
      <3>7. Balance(c, lines, unacked, lines', unacked', 1)
        BY <1>a, <1>b, <3>1, <3>5 DEF Balance
      <3>8. NetOK(net') /\ unacked' \in [Caches -> Int]
        BY <1>a, <3>1
      <3>. QED  BY <2>0, <3>3, <3>4, <3>5, <3>6, <3>7, <3>8, ServedGood
    <2>3. CASE ~exclusive /\ ~l.writing
      <3>1. net' = [net EXCEPT ![to] = Append(@, m)] /\ lines' = PutLine(lines, c, a, z) /\ unacked' = unacked
        BY <2>0, <2>3 DEF Sent, PutLine
      <3>2. z \in Line /\ z.writing /\ z.valid /\ z.reading = old.reading /\ z.acks = old.acks + 1 /\ ~old.writing
        <4>1. given \in Int
          OBVIOUS
        <4>. HIDE DEF given
        <4>2. /\ z \in Line /\ z.writing = TRUE /\ z.valid = l.valid /\ z.reading = l.reading
              /\ z.acks = l.acks + 1
          <5>1. l.acks + 1 \in Nat /\ l.tokens - given \in Int
            BY <1>e, <4>1 DEF Line
          <5>2. z \in Line
            BY <1>e, <5>1 DEF Line
          <5>3. z.acks = l.acks + 1
            BY <1>e DEF Line
          <5>4. z.valid = l.valid /\ z.reading = l.reading
            BY <1>e DEF Line
          <5>5. z.writing = TRUE
            BY <1>e DEF Line
          <5>. QED  BY <5>2, <5>3, <5>4, <5>5
        <4>. HIDE DEF z, old
        <4>. QED  BY <1>e, <2>3, <4>2 DEF Kept
      <3>3. m \in Message /\ Key(m) = <<c, a, ACQUIRE_TOKENS>>
        <4>. DEFINE m0 == NewMessage(ACQUIRE_TOKENS, a, c)
        <4>1. m0 \in Message /\ m0.type = ACQUIRE_TOKENS /\ m0.addr = a /\ m0.source = c
          BY NewMessageType DEF Types
        <4>a. given \in Int
          OBVIOUS
        <4>. HIDE DEF m0, given
        <4>2. [m0 EXCEPT !.data = l.data, !.tokens = given, !.priority = l.priority] \in Message
          BY <1>e, <4>a, <4>1 DEF Message, Line
        <4>3. Key([m0 EXCEPT !.data = l.data, !.tokens = given, !.priority = l.priority]) = <<c, a, ACQUIRE_TOKENS>>
          BY <4>1 DEF Message, Key
        <4>. QED  BY <4>2, <4>3 DEF m0, given
      <3>4. to \in Channels /\ InPlace(to, m)
        BY ChannelFacts, AnyPlace
      <3>5. ~Has(net, <<c, a, ACQUIRE_TOKENS>>)
        BY <1>a, <3>2 DEF Booked
      <3>. HIDE DEF m, to, z
      <3>6. /\ NetOK(net') /\ Has(net', <<c, a, ACQUIRE_TOKENS>>) /\ Single(net', <<c, a, ACQUIRE_TOKENS>>)
            /\ \A key : key # <<c, a, ACQUIRE_TOKENS>> => SameKey(net, net', key)
        <4>1. /\ NetOK([net EXCEPT ![to] = Append(@, m)]) /\ Has([net EXCEPT ![to] = Append(@, m)], Key(m))
              /\ \A key : key # Key(m) => SameKey(net, [net EXCEPT ![to] = Append(@, m)], key)
              /\ ~Has(net, Key(m)) => Single([net EXCEPT ![to] = Append(@, m)], Key(m))
          BY <1>a, <3>3, <3>4, Sends
        <4>. QED  BY <3>1, <3>3, <3>5, <4>1
      <3>7. /\ LinesOK(lines') /\ lines'[c][a] = z
            /\ \A d \in Caches, b \in Addrs : d # c \/ b # a => lines'[d][b] = lines[d][b]
        BY <1>a, <3>1, <3>2, LineSet
      <3>8. Booked(net', lines')
        <4>1. \A d \in Caches, b \in Addrs :
                   /\ lines'[d][b].reading = lines[d][b].reading
                   /\ d # c \/ b # a => lines'[d][b].writing = lines[d][b].writing
          BY <3>2, <3>7
        <4>2. Has(net', <<c, a, ACQUIRE_TOKENS>>) <=> lines'[c][a].writing
          BY <3>2, <3>6, <3>7
        <4>. QED  BY <1>a, <3>6, <4>1, <4>2, RebookWrite
      <3>9. /\ IsFiniteSet(Acks(lines', c))
            /\ Cardinality(Acks(lines', c)) = Cardinality(Acks(lines, c)) + 1
        <4>1. lines'[c][a].acks = lines[c][a].acks + 1
          BY <3>2, <3>7
        <4>2. \A b \in Addrs : b # a => lines'[c][b].acks = lines[c][b].acks
          BY <3>7
        <4>. QED  BY <1>a, <3>7, <4>1, <4>2, AcksMore
      <3>10. Elsewhere(c, lines, unacked, lines', unacked')
        BY <3>1, <3>7 DEF Elsewhere
      <3>11. Balance(c, lines, unacked, lines', unacked', 1)
        BY <1>a, <1>b, <3>1, <3>9 DEF Balance
      <3>12. unacked' \in [Caches -> Int]
        BY <1>a, <3>1
      <3>. QED  BY <2>0, <3>6, <3>7, <3>8, <3>9, <3>10, <3>11, <3>12, ServedGood
    <2>. QED  BY <2>1, <2>2, <2>3
  <1>. QED  BY <1>1, <1>2, <1>3

LEMMA DoRequestsKeeps ==
  ASSUME IInv, NEW c \in Caches, DoRequests(c)
  PROVE  IInv'
  <1>. DEFINE r == Head(bus[c])
  <1>1. bus[c] # <<>> /\ IF r.write THEN OnWriteRequest(c, r.addr, r.data) ELSE OnReadRequest(c, r.addr)
    BY DEF DoRequests
  <1>2. r \in Request
    <2>1. bus[c] \in Seq(Request)
      BY DEF IInv, Good
    <2>. QED  BY <1>1, <2>1
  <1>3. r.addr \in Addrs /\ r.data \in Data
    BY <1>2 DEF Request
  <1>4. CASE r.write
    BY <1>1, <1>3, <1>4, OnWriteRequestKeeps
  <1>5. CASE ~r.write
    BY <1>1, <1>3, <1>5, OnReadRequestKeeps
  <1>. QED  BY <1>4, <1>5

-----------------------------------------------------------------------------
(* The messages a cache receives                                            *)

\* What a handler may do to the message and the line it passes on
EditOf(m, g) == g \in Message /\ Key(g) = Key(m)
Waits4(x, y) == y \in Line /\ Kept(x, y) /\ y.valid = x.valid

LEMMA MessageSame ==
  ASSUME NEW m \in Message
  PROVE  EditOf(m, m)
  BY DEF EditOf

LEMMA MessageEmptied ==
  ASSUME NEW m \in Message
  PROVE  EditOf(m, [m EXCEPT !.tokens = 0, !.priority = FALSE])
  <1>1. \A t \in Int : \A p \in BOOLEAN : [m EXCEPT !.tokens = t, !.priority = p] \in Message
    BY DEF Message
  <1>2. 0 \in Int /\ FALSE \in BOOLEAN
    OBVIOUS
  <1>3. [m EXCEPT !.tokens = 0, !.priority = FALSE] \in Message
    BY <1>1, <1>2, Zenon
  <1>4. Key([m EXCEPT !.tokens = 0, !.priority = FALSE]) = Key(m)
    BY DEF Message, Key
  <1>. QED  BY <1>3, <1>4 DEF EditOf

LEMMA EditTwice ==
  ASSUME NEW m, NEW g, NEW h, EditOf(m, g), EditOf(g, h)
  PROVE  EditOf(m, h)
  BY DEF EditOf

LEMMA LineSame ==
  ASSUME NEW l \in Line
  PROVE  Waits4(l, l)
  BY DEF Waits4, Kept

LEMMA LineTwice ==
  ASSUME NEW l, NEW x, NEW y, Waits4(l, x), Waits4(x, y)
  PROVE  Waits4(l, y)
  BY DEF Waits4, Kept

LEMMA MessageFields ==
  ASSUME NEW m \in Message
  PROVE  /\ m.addr \in Addrs /\ m.source \in Caches /\ m.type \in Types /\ m.data \in Data
         /\ m.tokens \in Int /\ m.priority \in BOOLEAN /\ m.transient \in BOOLEAN
         /\ m.ignore \in BOOLEAN /\ m.dirty \in BOOLEAN
  BY DEF Message

LEMMA LineFields ==
  ASSUME NEW l \in Line
  PROVE  /\ l.data \in Data /\ l.tokens \in Int /\ l.priority \in BOOLEAN /\ l.transient \in BOOLEAN
         /\ l.dirty \in BOOLEAN /\ l.valid \in BOOLEAN /\ l.reading \in BOOLEAN /\ l.writing \in BOOLEAN
         /\ l.acks \in Nat
  BY DEF Line

\* The message and the line at work; a message is passed on, or changed.
LEMMA AtWork ==
  ASSUME IInv, NEW c \in Caches, Waits(incoming(Cache(c)))
  PROVE  /\ At(incoming(Cache(c))) \in Message
         /\ lines[c][At(incoming(Cache(c))).addr] \in Line
  <1>1. incoming(Cache(c)) \in Channels /\ net[incoming(Cache(c))] # <<>>
    BY ChannelFacts DEF Waits
  <1>2. At(incoming(Cache(c))) \in Message /\ At(incoming(Cache(c))).addr \in Addrs
    BY <1>1, Held
  <1>. QED  BY <1>2, HeldLine

LEMMA PassEdit ==
  ASSUME IInv, NEW c \in Caches, Waits(incoming(Cache(c))),
         NEW m, EditOf(At(incoming(Cache(c))), m), NEW x, Waits4(lines[c][At(incoming(Cache(c))).addr], x),
         Pass(c, m, x)
  PROVE  IInv'
  <1>. DEFINE a == At(incoming(Cache(c))).addr
  <1>1. m \in Message /\ Key(m) = Key(At(incoming(Cache(c)))) /\ m.addr = a /\ a \in Addrs
    <2>1. a \in Addrs
      BY AtWork, MessageFields
    <2>. QED  BY <2>1 DEF EditOf, Key
  <1>2. x \in Line /\ Kept(lines[c][a], x) /\ x.valid = lines[c][a].valid
    BY DEF Waits4
  <1>3. /\ lines[c][a] \in Line
        /\ lines[c][a].reading \/ lines[c][a].writing => lines[c][a].valid
    BY <1>1, HeldLine
  <1>. HIDE DEF a
  <1>4. x.reading \/ x.writing => x.valid
    BY <1>2, <1>3 DEF Kept
  <1>5. Kept(lines[c][m.addr], x)
    BY <1>1, <1>2
  <1>. QED  BY <1>1, <1>2, <1>4, <1>5, PassKeeps

\* The line of the message is changed and the message stays, or is merged.
LEMMA LineEdit ==
  ASSUME IInv, NEW c \in Caches, NEW a \in Addrs, NEW x, Waits4(lines[c][a], x),
         lines' = [lines EXCEPT ![c][a] = x],
         NetOK(net'), Same(net, net'), UNCHANGED <<bus, unacked, roots, mem>>
  PROVE  IInv'
  <1>1. /\ LinesOK(lines) /\ lines[c][a] \in Line
        /\ lines[c][a].reading \/ lines[c][a].writing => lines[c][a].valid
    BY HeldLine
  <1>2. x \in Line /\ Kept(lines[c][a], x) /\ x.valid = lines[c][a].valid
    BY DEF Waits4
  <1>3. x.reading \/ x.writing => x.valid
    BY <1>1, <1>2 DEF Kept
  <1>4. lines' = PutLine(lines, c, a, x)
    BY DEF PutLine
  <1>5. LinesOK(lines') /\ Keep(lines, lines')
    BY <1>1, <1>2, <1>3, <1>4, LineKept
  <1>. QED  BY <1>5, Still DEF IInv

\* A line stops or starts to wait, and no write is completed.
LEMMA Settle ==
  ASSUME IInv, NetOK(net'), LinesOK(lines'), Booked(net', lines'),
         \A c \in Caches, a \in Addrs : lines'[c][a].acks = lines[c][a].acks,
         UNCHANGED <<bus, unacked, roots, mem>>
  PROVE  IInv'
  <1>1. \A c \in Caches : Acks(lines', c) = Acks(lines, c)
    BY AcksSame
  <1>2. Counted(lines', bus', unacked')
    BY <1>1 DEF IInv, Good, Counted
  <1>. QED  BY <1>2 DEF IInv, Good

LEMMA OnEvictionKeeps ==
  ASSUME IInv, NEW c \in Caches, Waits(incoming(Cache(c))),
         At(incoming(Cache(c))).type = EVICTION, OnEviction(c, At(incoming(Cache(c))))
  PROVE  IInv'
  <1>. DEFINE from == incoming(Cache(c))
              m == At(from)
              l == lines[c][m.addr]
              kept == l.valid /\ ~l.transient
              injected == ~l.valid /\ Inject /\ HasEmptyWay(c, m.addr)
              x == [l EXCEPT !.data = Fill(@, m.data), !.tokens = @ + m.tokens,
                             !.priority = @ \/ m.priority, !.dirty = @ \/ m.dirty]
  <1>1. m \in Message /\ l \in Line /\ m.addr \in Addrs
    BY AtWork, MessageFields
  <1>2. CASE ~kept /\ ~injected
    <2>1. Pass(c, m, l)
      BY <1>2 DEF OnEviction
    <2>. QED  BY <1>1, <2>1, PassEdit, MessageSame, LineSame
  <1>3. CASE ~(~kept /\ ~injected)
    <2>1. /\ net' = [net EXCEPT ![from] = Tail(@)]
          /\ lines' = IF injected THEN lines ELSE [lines EXCEPT ![c][m.addr] = x]
          /\ UNCHANGED <<bus, unacked, roots, mem>>
      BY <1>3 DEF OnEviction, Dropped
    <2>2. NetOK(net') /\ Same(net, net')
      <3>1. from \in Channels /\ net[from] # <<>> /\ NetOK(net) /\ Head(net[from]).type = EVICTION
        BY ChannelFacts DEF Waits, At, IInv, Good
      <3>2. EVICTION \notin {READ, ACQUIRE_TOKENS}
        BY DEF EVICTION, READ, ACQUIRE_TOKENS
      <3>. HIDE DEF from
      <3>. QED  BY <2>1, <3>1, <3>2, DropsOther
    <2>3. CASE injected
      BY <2>1, <2>2, <2>3, LinesStill DEF IInv
    <2>4. CASE ~injected
      <3>1. Fill(l.data, m.data) \in Data /\ l.tokens + m.tokens \in Int
            /\ (l.priority \/ m.priority) \in BOOLEAN /\ (l.dirty \/ m.dirty) \in BOOLEAN
        BY <1>1, MessageFields, LineFields, DataTypes
      <3>2. Waits4(l, x)
        BY <1>1, <3>1 DEF Waits4, Kept, Line
      <3>. QED  BY <1>1, <2>1, <2>2, <2>4, <3>2, LineEdit
    <2>. QED  BY <2>3, <2>4
  <1>. QED  BY <1>2, <1>3

LEMMA OnReadRetKeeps ==
  ASSUME IInv, NEW c \in Caches, Waits(incoming(Cache(c))),
         At(incoming(Cache(c))).type = READ, At(incoming(Cache(c))).source = c,
         OnReadRet(c, At(incoming(Cache(c))))
  PROVE  IInv'
  <1>. DEFINE from == incoming(Cache(c))
              m == At(from)
              a == m.addr
              l0 == lines[c][a]
              l == [l0 EXCEPT !.data = Fill(@, m.data), !.tokens = @ + m.tokens, !.priority = @ \/ m.priority]
              x == [l EXCEPT !.reading = FALSE]
  <1>1. m \in Message /\ l0 \in Line /\ a \in Addrs
    BY AtWork, MessageFields
  <1>2. Waits4(l0, l)
    <2>1. Fill(l0.data, m.data) \in Data /\ l0.tokens + m.tokens \in Int
            /\ (l0.priority \/ m.priority) \in BOOLEAN
      BY <1>1, MessageFields, LineFields, DataTypes
    <2>. QED  BY <1>1, <2>1 DEF Waits4, Kept, Line
  <1>0. IF m.transient \/ ~l0.valid \/ ~l0.reading THEN Abort
        ELSE IF ~Complete(l.data) THEN Pass(c, [m EXCEPT !.tokens = 0, !.priority = FALSE], l)
        ELSE /\ net' = [net EXCEPT ![from] = Tail(@)]
             /\ lines' = [lines EXCEPT ![c][a] = x]
             /\ UNCHANGED <<bus, unacked, dirs, roots, mem, aborted>>
    BY DEF OnReadRet, Dropped
  <1>. HIDE DEF l
  <1>3. CASE m.transient \/ ~l0.valid \/ ~l0.reading
    BY <1>0, <1>3, AbortKeeps
  <1>4. CASE ~(m.transient \/ ~l0.valid \/ ~l0.reading) /\ ~Complete(l.data)
    <2>1. Pass(c, [m EXCEPT !.tokens = 0, !.priority = FALSE], l)
      BY <1>0, <1>4
    <2>2. EditOf(m, [m EXCEPT !.tokens = 0, !.priority = FALSE])
      BY <1>1, MessageEmptied
    <2>. QED  BY <1>2, <2>1, <2>2, PassEdit
  <1>5. CASE ~(m.transient \/ ~l0.valid \/ ~l0.reading) /\ Complete(l.data)
    <2>1. /\ net' = [net EXCEPT ![from] = Tail(@)]
          /\ lines' = PutLine(lines, c, a, x)
          /\ UNCHANGED <<bus, unacked, roots, mem>>
      BY <1>0, <1>5 DEF PutLine
    <2>2. /\ NetOK(net) /\ LinesOK(lines) /\ Booked(net, lines)
          /\ from \in Channels /\ net[from] # <<>> /\ Key(Head(net[from])) = <<c, a, READ>>
      BY ChannelFacts DEF Waits, At, IInv, Good, Key
    <2>3. /\ l0.acks > 0 => l0.writing
          /\ l0.valid
      BY <1>1, <1>5, HeldLine
    <2>4. /\ x \in Line /\ x.reading = FALSE /\ x.writing = l0.writing /\ x.acks = l0.acks /\ x.valid
      <3>1. l \in Line /\ Kept(l0, l) /\ l.valid = l0.valid
        BY <1>2 DEF Waits4
      <3>. HIDE DEF l
      <3>2. x \in Line /\ x.reading = FALSE /\ x.writing = l.writing /\ x.acks = l.acks /\ x.valid = l.valid
        BY <3>1 DEF Line
      <3>. HIDE DEF x, l0
      <3>. QED  BY <2>3, <3>1, <3>2 DEF Kept
    <2>5. Single(net, <<c, a, READ>>)
      BY <1>1, <2>2 DEF Booked
    <2>. HIDE DEF from, m, a, x
    <2>6. /\ NetOK(net') /\ ~Has(net', <<c, a, READ>>)
          /\ \A key : key # <<c, a, READ>> => SameKey(net, net', key)
      <3>. DEFINE g == [net EXCEPT ![from] = Tail(@)]
      <3>1. /\ NetOK(g) /\ ~Has(g, <<c, a, READ>>)
            /\ \A key : key # <<c, a, READ>> => SameKey(net, g, key)
        BY <2>2, <2>5, Drops
      <3>. QED  BY <2>1, <3>1
    <2>7. Single(net', <<c, a, READ>>)
      BY <2>6 DEF Has, Single
    <2>8. /\ LinesOK(lines') /\ lines'[c][a] = x
          /\ \A d \in Caches, b \in Addrs : d # c \/ b # a => lines'[d][b] = lines[d][b]
      <3>1. x.acks > 0 => x.writing
        BY <2>3, <2>4
      <3>. QED  BY <1>1, <2>1, <2>2, <2>4, <3>1, LineSet
    <2>9. \A d \in Caches, e \in Addrs :
                   /\ lines'[d][e].writing = lines[d][e].writing
                   /\ lines'[d][e].acks = lines[d][e].acks
                   /\ d # c \/ e # a => lines'[d][e].reading = lines[d][e].reading
      BY <2>4, <2>8
    <2>10. Booked(net', lines')
      <3>1. Has(net', <<c, a, READ>>) <=> lines'[c][a].reading
        BY <2>4, <2>6, <2>8
      <3>. QED  BY <1>1, <2>2, <2>6, <2>7, <2>9, <3>1, RebookRead
    <2>. QED  BY <2>1, <2>6, <2>8, <2>9, <2>10, Settle
  <1>. QED  BY <1>3, <1>4, <1>5

LEMMA OnReadRemKeeps ==
  ASSUME IInv, NEW c \in Caches, Waits(incoming(Cache(c))), OnReadRem(c, At(incoming(Cache(c))))
  PROVE  IInv'
  <1>. DEFINE from == incoming(Cache(c))
              m0 == At(from)
              l0 == lines[c][m0.addr]
              m == [m0 EXCEPT !.data = Blit(@, l0.data)]
              l == [l0 EXCEPT !.data = Fill(@, m0.data)]
              steals == l.writing /\ (~l.transient \/ m.priority)
              grabs == ~l.writing /\ m.tokens = 0 /\ l.tokens > 1
              m1 == IF steals THEN [m EXCEPT !.tokens = 0, !.priority = FALSE]
                    ELSE IF grabs THEN [m EXCEPT !.tokens = 1] ELSE m
              l1 == IF steals
                    THEN [l EXCEPT !.tokens = @ + m.tokens, !.priority = @ \/ m.priority, !.transient = FALSE]
                    ELSE IF grabs THEN [l EXCEPT !.tokens = @ - 1] ELSE l
  <1>1. m0 \in Message /\ l0 \in Line /\ m0.addr \in Addrs
    BY AtWork, MessageFields
  <1>2. EditOf(m0, m) /\ Waits4(l0, l)
    <2>1. Blit(m0.data, l0.data) \in Data /\ Fill(l0.data, m0.data) \in Data
      BY <1>1, MessageFields, LineFields, DataTypes
    <2>. QED  BY <1>1, <2>1 DEF EditOf, Key, Message, Waits4, Kept, Line
  <1>3. m \in Message /\ l \in Line /\ m.addr = m0.addr
    BY <1>2 DEF EditOf, Waits4, Key
  <1>4. IF m.transient THEN Abort
        ELSE IF CanSend(Cache(c), MINSPACE_FORWARD) THEN Pass(c, m1, l1)
        ELSE /\ net' = Changed(from, m1)
             /\ lines' = [lines EXCEPT ![c][m.addr] = l1]
             /\ UNCHANGED <<bus, unacked, dirs, roots, mem, aborted>>
    BY DEF OnReadRem
  <1>. HIDE DEF m, l
  <1>6. EditOf(m, m1)
    <2>. HIDE DEF steals, grabs
    <2>1. EditOf(m, [m EXCEPT !.tokens = 0, !.priority = FALSE])
      BY <1>3, MessageEmptied
    <2>2. EditOf(m, [m EXCEPT !.tokens = 1])
      BY <1>3 DEF EditOf, Message, Key
    <2>. QED  BY <1>3, <2>1, <2>2, MessageSame
  <1>7. Waits4(l, l1)
    <2>1. l.tokens + m.tokens \in Int /\ l.tokens - 1 \in Int /\ (l.priority \/ m.priority) \in BOOLEAN
      BY <1>3, MessageFields, LineFields
    <2>. HIDE DEF steals, grabs
    <2>2. /\ Waits4(l, [l EXCEPT !.tokens = @ + m.tokens, !.priority = @ \/ m.priority, !.transient = FALSE])
          /\ Waits4(l, [l EXCEPT !.tokens = @ - 1]) /\ Waits4(l, l)
      BY <1>3, <2>1 DEF Waits4, Kept, Line
    <2>. QED  BY <2>2
  <1>. HIDE DEF m1, l1
  <1>8. EditOf(m0, m1) /\ Waits4(l0, l1)
    BY <1>2, <1>6, <1>7, EditTwice, LineTwice
  <1>9. CASE m.transient
    BY <1>4, <1>9, AbortKeeps
  <1>10. CASE Pass(c, m1, l1)
    BY <1>8, <1>10, PassEdit
  <1>11. CASE /\ net' = Changed(from, m1)
              /\ lines' = [lines EXCEPT ![c][m.addr] = l1]
              /\ UNCHANGED <<bus, unacked, roots, mem>>
    <2>1. from \in Channels /\ net[from] # <<>> /\ NetOK(net) /\ Key(m1) = Key(Head(net[from])) /\ m1 \in Message
          /\ InPlace(from, m1)
      BY <1>8, ChannelFacts, AnyPlace DEF Waits, At, IInv, Good, EditOf
    <2>2. net' = [net EXCEPT ![from][1] = m1]
      BY <1>11 DEF Changed
    <2>3. NetOK(net') /\ Same(net, net')
      <3>. HIDE DEF from
      <3>. QED  BY <2>1, <2>2, Changes
    <2>. QED  BY <1>1, <1>3, <1>8, <1>11, <2>3, LineEdit
  <1>. QED  BY <1>4, <1>9, <1>10, <1>11

\* The line goes with the message: nothing waits for it.
LEMMA PassLine ==
  ASSUME IInv, NEW c \in Caches, Waits(incoming(Cache(c))),
         NEW m, EditOf(At(incoming(Cache(c))), m),
         ~lines[c][m.addr].reading, ~lines[c][m.addr].writing, Pass(c, m, NoLine)
  PROVE  IInv'
  <1>1. m \in Message /\ Key(m) = Key(At(incoming(Cache(c)))) /\ m.addr \in Addrs
    BY MessageFields DEF EditOf
  <1>2. /\ lines[c][m.addr] \in Line
        /\ lines[c][m.addr].acks > 0 => lines[c][m.addr].writing
    BY <1>1, HeldLine
  <1>3. /\ lines[c][m.addr].reading = FALSE /\ lines[c][m.addr].writing = FALSE
        /\ lines[c][m.addr].acks = 0
    BY <1>2, LineFields
  <1>4. NoLine.reading = FALSE /\ NoLine.writing = FALSE /\ NoLine.acks = 0 /\ NoLine \in Line
    BY LineTypes DEF Line
  <1>5. Kept(lines[c][m.addr], NoLine)
    BY <1>3, <1>4 DEF Kept
  <1>6. NoLine.reading \/ NoLine.writing => NoLine.valid
    BY <1>4
  <1>. QED  BY <1>1, <1>4, <1>5, <1>6, PassKeeps

LEMMA OnAcquireTokensRemKeeps ==
  ASSUME IInv, NEW c \in Caches, Waits(incoming(Cache(c))), OnAcquireTokensRem(c, At(incoming(Cache(c))))
  PROVE  IInv'
  <1>. DEFINE from == incoming(Cache(c))
              to == outgoing(Cache(c))
              m0 == At(from)
              l0 == lines[c][m0.addr]
              m == [m0 EXCEPT !.data = Fill(@, l0.data)]
              l == [l0 EXCEPT !.data = Fill(@, m0.data)]
              all == [m EXCEPT !.tokens = @ + l.tokens]
              given == [all EXCEPT !.priority = @ \/ l.priority, !.transient = FALSE]
              gone == [all EXCEPT !.priority = @ \/ l.priority, !.transient = @ /\ ~l.priority]
              marked == [all EXCEPT !.transient = TRUE]
              empty == [m EXCEPT !.tokens = 0, !.transient = FALSE]
              poor == [l EXCEPT !.tokens = 0, !.priority = FALSE]
              bare == [l EXCEPT !.tokens = 0]
              taken == [l EXCEPT !.tokens = @ + m.tokens]
              held == [l EXCEPT !.tokens = all.tokens, !.transient = TRUE]
              note == Notification(c, m.addr, m.tokens)
  <1>1. m0 \in Message /\ l0 \in Line /\ m0.addr \in Addrs
    BY AtWork, MessageFields
  <1>2. EditOf(m0, m) /\ Waits4(l0, l) /\ l.reading = l0.reading /\ l.writing = l0.writing
    <2>1. Fill(m0.data, l0.data) \in Data /\ Fill(l0.data, m0.data) \in Data
      BY <1>1, MessageFields, LineFields, DataTypes
    <2>2. EditOf(m0, m) /\ Waits4(l0, l)
      BY <1>1, <2>1 DEF EditOf, Key, Message, Waits4, Kept, Line
    <2>. HIDE DEF m, l, m0
    <2>. QED  BY <2>2 DEF Waits4, Kept
  <1>0. IF l.reading
        THEN IF ~m.transient \/ l.priority THEN Pass(c, given, poor) ELSE Pass(c, m, l)
        ELSE IF ~l.writing
        THEN IF l.tokens = 0 \/ l.transient THEN Abort ELSE Pass(c, gone, NoLine)
        ELSE IF m.priority
        THEN IF m.transient \/ l.priority THEN Abort ELSE Pass(c, all, bare)
        ELSE IF l.priority
        THEN IF l.transient \/ (m.transient /\ m.tokens = 0) THEN Abort
             ELSE IF ~m.transient THEN Pass(c, empty, taken)
             ELSE /\ CanSend(Cache(c), MINSPACE_FORWARD)
                  /\ net' = [net EXCEPT ![from][1] = empty, ![to] = Append(@, note)]
                  /\ lines' = [lines EXCEPT ![c][m.addr] = taken]
                  /\ UNCHANGED <<bus, unacked, dirs, roots, mem, aborted>>
        ELSE IF ~m.transient /\ ~l.transient THEN Pass(c, marked, held)
        ELSE Pass(c, m, l)
    BY DEF OnAcquireTokensRem
  <1>3. m \in Message /\ l \in Line /\ m.addr = m0.addr
    BY <1>2 DEF EditOf, Waits4, Key
  <1>. HIDE DEF m, l
  <1>4. all \in Message /\ EditOf(m, all) /\ all.tokens \in Int
    <2>1. m.tokens + l.tokens \in Int
      BY <1>3, MessageFields, LineFields
    <2>2. all \in Message /\ Key(all) = Key(m)
      BY <1>3, <2>1 DEF Message, Key
    <2>. QED  BY <2>2, MessageFields DEF EditOf
  <1>. HIDE DEF all
  <1>5. EditOf(all, given) /\ EditOf(all, gone) /\ EditOf(all, marked)
    <2>1. /\ (all.priority \/ l.priority) \in BOOLEAN /\ (all.transient /\ ~l.priority) \in BOOLEAN
      OBVIOUS
    <2>2. EditOf(all, given)
      BY <1>4, <2>1 DEF EditOf, Message, Key
    <2>3. EditOf(all, gone)
      BY <1>4, <2>1 DEF EditOf, Message, Key
    <2>4. EditOf(all, marked)
      BY <1>4 DEF EditOf, Message, Key
    <2>. QED  BY <2>2, <2>3, <2>4
  <1>6. EditOf(m, empty)
    <2>1. \A t \in Int : \A p \in BOOLEAN : [m EXCEPT !.tokens = t, !.transient = p] \in Message
      BY <1>3 DEF Message
    <2>2. 0 \in Int /\ FALSE \in BOOLEAN
      OBVIOUS
    <2>3. empty \in Message
      BY <2>1, <2>2, Zenon
    <2>4. Key(empty) = Key(m)
      BY <1>3 DEF Message, Key
    <2>. QED  BY <2>3, <2>4 DEF EditOf
  <1>7. Waits4(l, poor) /\ Waits4(l, bare) /\ Waits4(l, taken) /\ Waits4(l, held)
    <2>1. l.tokens + m.tokens \in Int
      BY <1>3, MessageFields, LineFields
    <2>2. Waits4(l, poor)
      <3>1. \A t \in Int : \A p \in BOOLEAN : [l EXCEPT !.tokens = t, !.priority = p] \in Line
        BY <1>3 DEF Line
      <3>2. 0 \in Int /\ FALSE \in BOOLEAN
        OBVIOUS
      <3>3. poor \in Line
        BY <3>1, <3>2, Zenon
      <3>4. Kept(l, poor) /\ poor.valid = l.valid
        BY <1>3 DEF Line, Kept
      <3>. QED  BY <3>3, <3>4 DEF Waits4
    <2>3. Waits4(l, bare)
      BY <1>3 DEF Waits4, Kept, Line
    <2>4. Waits4(l, taken)
      BY <1>3, <2>1 DEF Waits4, Kept, Line
    <2>5. Waits4(l, held)
      <3>1. \A t \in Int : \A p \in BOOLEAN : [l EXCEPT !.tokens = t, !.transient = p] \in Line
        BY <1>3 DEF Line
      <3>2. TRUE \in BOOLEAN
        OBVIOUS
      <3>3. held \in Line
        BY <1>4, <3>1, <3>2, Zenon
      <3>4. Kept(l, held) /\ held.valid = l.valid
        BY <1>3 DEF Line, Kept
      <3>. QED  BY <3>3, <3>4 DEF Waits4
    <2>. QED  BY <2>2, <2>3, <2>4, <2>5
  <1>. HIDE DEF given, gone, marked, empty, poor, bare, taken, held
  <1>8. /\ EditOf(m0, m) /\ EditOf(m0, all) /\ EditOf(m0, given) /\ EditOf(m0, gone) /\ EditOf(m0, marked)
        /\ EditOf(m0, empty)
    BY <1>2, <1>4, <1>5, <1>6 DEF EditOf
  <1>9. /\ Waits4(l0, l) /\ Waits4(l0, poor) /\ Waits4(l0, bare) /\ Waits4(l0, taken) /\ Waits4(l0, held)
    BY <1>2, <1>7, LineTwice
  <1>10. CASE Abort
    BY <1>10, AbortKeeps
  <1>11. CASE ~l.reading /\ ~l.writing /\ Pass(c, gone, NoLine)
    <2>1. gone.addr = m0.addr
      BY <1>8 DEF EditOf, Key
    <2>2. ~lines[c][gone.addr].reading /\ ~lines[c][gone.addr].writing
      BY <1>2, <1>11, <2>1
    <2>. QED  BY <1>8, <1>11, <2>2, PassLine
  <1>12. CASE \/ Pass(c, given, poor) \/ Pass(c, m, l) \/ Pass(c, all, bare) \/ Pass(c, empty, taken)
              \/ Pass(c, marked, held)
    BY <1>8, <1>9, <1>12, PassEdit
  <1>13. CASE /\ net' = [net EXCEPT ![from][1] = empty, ![to] = Append(@, note)]
              /\ lines' = [lines EXCEPT ![c][m.addr] = taken]
              /\ UNCHANGED <<bus, unacked, dirs, roots, mem, aborted>>
    <2>1. from \in Channels /\ to \in Channels /\ net[from] # <<>> /\ NetOK(net)
          /\ Key(empty) = Key(Head(net[from])) /\ empty \in Message /\ InPlace(from, empty)
      <3>1. from \in Channels /\ to \in Channels /\ net[from] # <<>> /\ NetOK(net) /\ m0 = Head(net[from])
        BY ChannelFacts DEF Waits, At, IInv, Good
      <3>2. Key(empty) = Key(m0) /\ empty \in Message
        BY <1>8 DEF EditOf
      <3>3. InPlace(from, empty)
        BY AnyPlace
      <3>. HIDE DEF from, to, m0
      <3>. QED  BY <3>1, <3>2, <3>3
    <2>2. note \in Message /\ note.type = LOCALDIR_NOTIFICATION /\ InPlace(to, note)
      <3>1. /\ NewMessage(LOCALDIR_NOTIFICATION, m.addr, c) \in Message
            /\ NewMessage(LOCALDIR_NOTIFICATION, m.addr, c).type = LOCALDIR_NOTIFICATION
        BY <1>1, <1>3, NewMessageType DEF Types
      <3>2. m.tokens \in Int
        BY <1>3, MessageFields
      <3>3. note \in Message /\ note.type = LOCALDIR_NOTIFICATION
        BY <3>1, <3>2 DEF Notification, Message
      <3>. QED  BY <3>3, AnyPlace
    <2>3. from # to /\ note.type \notin {READ, ACQUIRE_TOKENS}
      BY <2>2, ChannelFacts DEF READ, ACQUIRE_TOKENS, LOCALDIR_NOTIFICATION
    <2>. HIDE DEF note, from, to
    <2>4. net' = [net EXCEPT ![from][1] = empty, ![to] = Append(@, note)]
      BY <1>13
    <2>6. NetOK(net') /\ Same(net, net')
      BY <2>1, <2>2, <2>3, <2>4, ChangesAndSends
    <2>7. Waits4(lines[c][m.addr], taken) /\ m.addr \in Addrs
      BY <1>1, <1>3, <1>9
    <2>. QED  BY <1>13, <2>6, <2>7, LineEdit
  <1>. HIDE DEF note, from, to, m0, l0
  <1>. QED  BY <1>0, <1>10, <1>11, <1>12, <1>13

LEMMA OnAcquireTokensRetKeeps ==
  ASSUME IInv, NEW c \in Caches, Waits(incoming(Cache(c))),
         At(incoming(Cache(c))).type = ACQUIRE_TOKENS, At(incoming(Cache(c))).source = c,
         OnAcquireTokensRet(c, At(incoming(Cache(c))))
  PROVE  IInv'
  <1>. DEFINE from == incoming(Cache(c))
              out == outgoing(Cache(c))
              m == At(from)
              a == m.addr
              key == <<c, a, ACQUIRE_TOKENS>>
              l0 == lines[c][m.addr]
              takes == ~m.transient \/ l0.priority
              tokens == (IF l0.transient /\ ~m.priority THEN 0 ELSE l0.tokens) + (IF takes THEN m.tokens ELSE 0)
              l == [l0 EXCEPT !.data = Fill(@, m.data), !.transient = FALSE,
                              !.priority = @ \/ (takes /\ m.priority)]
              notify == takes /\ m.transient /\ m.tokens > 0
              note == Notification(c, m.addr, m.tokens)
              noted == IF notify THEN Sent(out, note) ELSE net
              x == [l EXCEPT !.tokens = tokens]
              y == [l EXCEPT !.acks = @ - 1]
              z == [l EXCEPT !.tokens = tokens, !.writing = FALSE]
  <1>0. IF ~(l0.valid /\ l0.writing /\ l0.dirty) \/ (l0.transient /\ l0.priority) THEN Abort
        ELSE IF tokens < TotalTokens
        THEN IF notify THEN CanSend(Cache(c), MINSPACE_FORWARD) /\ Abort
             ELSE /\ TokensNow(m.addr) + tokens - l.tokens <= MaxTokens
                  /\ Pass(c, m, x)
        ELSE /\ notify => CanSend(Cache(c), MINSPACE_FORWARD)
             /\ IF l.acks > 0
                THEN /\ net' = noted
                     /\ lines' = [lines EXCEPT ![c][m.addr] = y]
                     /\ unacked' = [unacked EXCEPT ![c] = @ - 1]
                ELSE /\ net' = [noted EXCEPT ![from] = Tail(@)]
                     /\ lines' = [lines EXCEPT ![c][m.addr] = z]
                     /\ UNCHANGED unacked
             /\ UNCHANGED <<bus, dirs, roots, mem, aborted>>
    BY DEF OnAcquireTokensRet
  <1>1. m \in Message /\ l0 \in Line /\ a \in Addrs
    BY AtWork, MessageFields
  <1>2. tokens \in Int
    <2>1. l0.tokens \in Int /\ m.tokens \in Int
      BY <1>1, MessageFields, LineFields
    <2>. HIDE DEF m, l0, takes
    <2>. QED  BY <2>1
  <1>3. l \in Line /\ Waits4(l0, l)
    <2>1. Fill(l0.data, m.data) \in Data /\ (l0.priority \/ (takes /\ m.priority)) \in BOOLEAN
      BY <1>1, MessageFields, LineFields, DataTypes
    <2>2. \A d \in Data : \A s \in BOOLEAN, p \in BOOLEAN :
             [l0 EXCEPT !.data = d, !.transient = s, !.priority = p] \in Line
      BY <1>1 DEF Line
    <2>3. FALSE \in BOOLEAN
      OBVIOUS
    <2>4. l \in Line
      BY <2>1, <2>2, <2>3, Zenon
    <2>5. Kept(l0, l) /\ l.valid = l0.valid
      BY <1>1 DEF Line, Kept
    <2>. QED  BY <2>4, <2>5 DEF Waits4
  <1>4. from \in Channels /\ out \in Channels /\ from # out /\ net[from] # <<>> /\ NetOK(net)
        /\ m = Head(net[from]) /\ Key(m) = key
    BY ChannelFacts DEF Waits, At, IInv, Good, Key
  <1>5. note \in Message /\ note.type = LOCALDIR_NOTIFICATION /\ InPlace(out, note)
    <2>1. /\ NewMessage(LOCALDIR_NOTIFICATION, a, c) \in Message
          /\ NewMessage(LOCALDIR_NOTIFICATION, a, c).type = LOCALDIR_NOTIFICATION
      BY <1>1, NewMessageType DEF Types
    <2>2. m.tokens \in Int
      BY <1>1, MessageFields
    <2>3. note \in Message /\ note.type = LOCALDIR_NOTIFICATION
      <3>. HIDE DEF m
      <3>. QED  BY <2>1, <2>2 DEF Notification, Message
    <2>. QED  BY <2>3, AnyPlace
  <1>6. /\ LinesOK(lines) /\ Booked(net, lines) /\ unacked \in [Caches -> Int]
        /\ bus \in [Caches -> Seq(Request)] /\ Good(net, lines, bus, unacked)
        /\ IsFiniteSet(Acks(lines, c))
        /\ unacked[c] = Cardinality(QueuedWrites(bus[c])) + Cardinality(Acks(lines, c))
    BY DEF IInv, Good, Counted
  <1>7. CASE Abort
    BY <1>7, AbortKeeps
  <1>8. CASE Pass(c, m, x)
    <2>1. Waits4(l0, x)
      <3>. HIDE DEF l, tokens
      <3>1. Waits4(l, x)
        BY <1>2, <1>3 DEF Waits4, Kept, Line
      <3>. HIDE DEF x, l0
      <3>. QED  BY <1>3, <3>1, LineTwice
    <2>2. EditOf(m, m)
      BY <1>1, MessageSame
    <2>. HIDE DEF x
    <2>. QED  BY <1>8, <2>1, <2>2, PassEdit
  <1>. HIDE DEF note, from, out, m
  <1>9. /\ NetOK(noted) /\ Same(net, noted) /\ noted[from] = net[from]
    <2>1. CASE notify
      <3>1. note.type \notin {READ, ACQUIRE_TOKENS}
        BY <1>5 DEF READ, ACQUIRE_TOKENS, LOCALDIR_NOTIFICATION
      <3>2. noted = [net EXCEPT ![out] = Append(@, note)]
        BY <2>1 DEF Sent
      <3>3. NetOK([net EXCEPT ![out] = Append(@, note)]) /\ Same(net, [net EXCEPT ![out] = Append(@, note)])
        BY <1>4, <1>5, <3>1, SendsOther
      <3>4. [net EXCEPT ![out] = Append(@, note)][from] = net[from]
        BY <1>4 DEF NetOK
      <3>. QED  BY <3>2, <3>3, <3>4
    <2>2. CASE ~notify
      BY <1>4, <2>2, NetStill
    <2>. QED  BY <2>1, <2>2
  <1>. HIDE DEF noted, l, tokens
  <1>10. CASE /\ l.acks > 0 /\ l0.writing /\ l0.valid /\ net' = noted
              /\ lines' = [lines EXCEPT ![c][m.addr] = y]
              /\ unacked' = [unacked EXCEPT ![c] = @ - 1]
              /\ UNCHANGED <<bus, dirs, roots, mem, aborted>>
    <2>1. y \in Line /\ y.reading = l0.reading /\ y.writing = l0.writing /\ y.acks = l0.acks - 1 /\ y.valid = l0.valid
      <3>1. l.acks - 1 \in Nat
        BY <1>3, <1>10 DEF Line
      <3>2. y \in Line /\ y.acks = l.acks - 1
        BY <1>3, <3>1 DEF Line
      <3>3. y.reading = l.reading /\ y.writing = l.writing /\ y.valid = l.valid
        BY <1>3 DEF Line
      <3>. HIDE DEF y, l0
      <3>. QED  BY <1>3, <3>2, <3>3 DEF Waits4, Kept
    <2>2. lines' = PutLine(lines, c, a, y)
      BY <1>10 DEF PutLine
    <2>. HIDE DEF y
    <2>3. /\ LinesOK(lines') /\ lines'[c][a] = y
          /\ \A d \in Caches, b \in Addrs : d # c \/ b # a => lines'[d][b] = lines[d][b]
      <3>1. (y.acks > 0 => y.writing) /\ (y.reading \/ y.writing => y.valid)
        BY <1>10, <2>1
      <3>. QED  BY <1>1, <1>6, <2>1, <2>2, <3>1, LineSet
    <2>4. Booked(net', lines')
      <3>1. \A d \in Caches, b \in Addrs : /\ lines'[d][b].reading = lines[d][b].reading
                                          /\ lines'[d][b].writing = lines[d][b].writing
        BY <2>1, <2>3
      <3>2. Booked(net, lines')
        BY <1>6, <3>1, BookedFlags
      <3>3. \A e \in Tracked : SameKey(net, net', e)
        BY <1>9, <1>10 DEF Same
      <3>4. ASSUME NEW d \in Caches, NEW b \in Addrs
            PROVE SameKey(net, net', <<d, b, READ>>) /\ SameKey(net, net', <<d, b, ACQUIRE_TOKENS>>)
        <4>1. <<d, b, READ>> \in Tracked /\ <<d, b, ACQUIRE_TOKENS>> \in Tracked
          BY DEF Tracked
        <4>. QED  BY <3>3, <4>1
      <3>. QED  BY <3>2, <3>4 DEF Booked, SameKey
    <2>5. /\ IsFiniteSet(Acks(lines', c))
          /\ Cardinality(Acks(lines', c)) = Cardinality(Acks(lines, c)) - 1
      <3>1. lines'[c][a].acks = lines[c][a].acks - 1
        BY <2>1, <2>3
      <3>2. \A b \in Addrs : b # a => lines'[c][b].acks = lines[c][b].acks
        BY <2>3
      <3>. QED  BY <1>1, <1>6, <2>3, <3>1, <3>2, AcksLess
    <2>6. /\ unacked' \in [Caches -> Int] /\ unacked'[c] = unacked[c] - 1
          /\ \A e \in Caches : e # c => unacked'[e] = unacked[e]
      BY <1>6, <1>10
    <2>7. Others(c, lines, bus, unacked, lines', bus, unacked')
      BY <2>3, <2>6 DEF Others
    <2>8. unacked'[c] = Cardinality(QueuedWrites(bus[c])) + Cardinality(Acks(lines', c))
      <3>1. Cardinality(Acks(lines, c)) \in Nat /\ Cardinality(QueuedWrites(bus[c])) \in Nat
        <4>1. bus[c] \in Seq(Request)
          BY <1>6
        <4>2. QueuedWrites(bus[c]) \in SUBSET (1..Len(bus[c])) /\ Len(bus[c]) \in Nat
          BY <4>1 DEF QueuedWrites
        <4>3. IsFiniteSet(1..Len(bus[c]))
          BY <4>2, FS_Interval
        <4>4. IsFiniteSet(QueuedWrites(bus[c]))
          BY <4>2, <4>3, FS_Subset
        <4>. QED  BY <1>6, <4>4, FS_CardinalityType
      <3>. QED  BY <1>6, <2>5, <2>6, <3>1
    <2>9. Good(net', lines', bus, unacked')
      <3>1. NetOK(net')
        BY <1>9, <1>10
      <3>2. \A k, g, v :
             /\ NetOK(g) /\ LinesOK(k) /\ Booked(g, k) /\ IsFiniteSet(Acks(k, c))
             /\ v \in [Caches -> Int]
             /\ Others(c, lines, bus, unacked, k, bus, v)
             /\ v[c] = Cardinality(QueuedWrites(bus[c])) + Cardinality(Acks(k, c))
             => Good(g, k, bus, v)
        BY <1>6, Recount
      <3>. QED  BY <2>3, <2>4, <2>5, <2>6, <2>7, <2>8, <3>1, <3>2
    <2>. QED  BY <1>10, <2>9 DEF IInv
  <1>11. CASE /\ ~(l.acks > 0) /\ l0.writing /\ l0.valid /\ net' = [noted EXCEPT ![from] = Tail(@)]
              /\ lines' = [lines EXCEPT ![c][m.addr] = z]
              /\ UNCHANGED unacked
              /\ UNCHANGED <<bus, dirs, roots, mem, aborted>>
    <2>1. z \in Line /\ z.reading = l0.reading /\ z.writing = FALSE /\ z.acks = 0 /\ l0.acks = 0 /\ z.valid
      <3>1. l.acks = 0
        BY <1>3, <1>11 DEF Line
      <3>2. \A t \in Int : \A p \in BOOLEAN : [l EXCEPT !.tokens = t, !.writing = p] \in Line
        BY <1>3 DEF Line
      <3>3. FALSE \in BOOLEAN
        OBVIOUS
      <3>4. z \in Line
        BY <1>2, <3>2, <3>3, Zenon
      <3>5. z.acks = l.acks
        BY <1>3 DEF Line
      <3>6. z.reading = l.reading /\ z.valid = l.valid
        BY <1>3 DEF Line
      <3>7. z.writing = FALSE
        BY <1>3 DEF Line
      <3>. HIDE DEF z, l0
      <3>. QED  BY <1>3, <1>11, <3>1, <3>4, <3>5, <3>6, <3>7 DEF Waits4, Kept
    <2>2. lines' = PutLine(lines, c, a, z)
      BY <1>11 DEF PutLine
    <2>. HIDE DEF z
    <2>3. /\ LinesOK(lines') /\ lines'[c][a] = z
          /\ \A d \in Caches, b \in Addrs : d # c \/ b # a => lines'[d][b] = lines[d][b]
      <3>1. (z.acks > 0 => z.writing) /\ (z.reading \/ z.writing => z.valid)
        BY <2>1
      <3>. QED  BY <1>1, <1>6, <2>1, <2>2, <3>1, LineSet
    <2>4. key \in Tracked
      BY <1>1 DEF Tracked
    <2>5. Single(noted, key)
      <3>1. Single(net, key)
        BY <1>1, <1>6 DEF Booked
      <3>. QED  BY <1>9, <2>4, <3>1 DEF Same, SameKey
    <2>. HIDE DEF a
    <2>6. /\ NetOK(net') /\ ~Has(net', key)
          /\ \A e : e # key => SameKey(noted, net', e)
      <3>. DEFINE g == [noted EXCEPT ![from] = Tail(@)]
      <3>1. noted[from] # <<>> /\ Key(Head(noted[from])) = key
        BY <1>4, <1>9
      <3>2. /\ NetOK(g) /\ ~Has(g, key)
            /\ \A e : e # key => SameKey(noted, g, e)
        BY <1>4, <1>9, <2>5, <3>1, Drops
      <3>. QED  BY <1>11, <3>2
    <2>7. \A e \in Tracked : e # key => SameKey(net, net', e)
      BY <1>9, <2>6 DEF Same, SameKey
    <2>8. Single(net', key)
      BY <2>6 DEF Has, Single
    <2>9. \A d \in Caches, e \in Addrs :
                   /\ lines'[d][e].reading = lines[d][e].reading
                   /\ lines'[d][e].acks = lines[d][e].acks
                   /\ d # c \/ e # a => lines'[d][e].writing = lines[d][e].writing
      BY <2>1, <2>3 DEF a
    <2>10. Booked(net', lines')
      <3>1. Has(net', key) <=> lines'[c][a].writing
        BY <2>1, <2>3, <2>6
      <3>2. \A d \in Caches, e \in Addrs :
                   /\ lines'[d][e].reading = lines[d][e].reading
                   /\ d # c \/ e # a => lines'[d][e].writing = lines[d][e].writing
        BY <2>9
      <3>. DEFINE g == net'
                  k == lines'
      <3>3. /\ Single(g, <<c, a, ACQUIRE_TOKENS>>)
            /\ Has(g, <<c, a, ACQUIRE_TOKENS>>) <=> k[c][a].writing
            /\ \A e \in Tracked : e # <<c, a, ACQUIRE_TOKENS>> => SameKey(net, g, e)
            /\ \A d \in Caches, e \in Addrs :
                   /\ k[d][e].reading = lines[d][e].reading
                   /\ d # c \/ e # a => k[d][e].writing = lines[d][e].writing
        BY <2>7, <2>8, <3>1, <3>2
      <3>. HIDE DEF g, k
      <3>4. ASSUME NEW b \in Addrs, b = a PROVE Booked(g, k)
        <4>1. /\ Single(g, <<c, b, ACQUIRE_TOKENS>>)
              /\ Has(g, <<c, b, ACQUIRE_TOKENS>>) <=> k[c][b].writing
          BY <3>3, <3>4
        <4>2. \A e \in Tracked : e # <<c, b, ACQUIRE_TOKENS>> => SameKey(net, g, e)
          BY <3>3, <3>4
        <4>3. \A d \in Caches, e \in Addrs :
                   /\ k[d][e].reading = lines[d][e].reading
                   /\ d # c \/ e # b => k[d][e].writing = lines[d][e].writing
          BY <3>3, <3>4
        <4>4. Booked(net, lines)
          BY <1>6
        <4>. QED  BY <4>1, <4>2, <4>3, <4>4, RebookWrite
      <3>. QED  BY <1>1, <3>4 DEF g, k
    <2>. QED  BY <1>11, <2>3, <2>6, <2>9, <2>10, Settle
  <1>. HIDE DEF x, y, z, takes, notify
  <1>12. CASE ~(l0.valid /\ l0.writing /\ l0.dirty) \/ (l0.transient /\ l0.priority)
    BY <1>0, <1>7, <1>12
  <1>13. CASE ~(~(l0.valid /\ l0.writing /\ l0.dirty) \/ (l0.transient /\ l0.priority)) /\ tokens < TotalTokens
    BY <1>0, <1>7, <1>8, <1>13
  <1>14. CASE ~(~(l0.valid /\ l0.writing /\ l0.dirty) \/ (l0.transient /\ l0.priority)) /\ ~(tokens < TotalTokens)
    <2>1. CASE l.acks > 0
      BY <1>0, <1>10, <1>14, <2>1
    <2>2. CASE ~(l.acks > 0)
      BY <1>0, <1>11, <1>14, <2>2
    <2>. QED  BY <2>1, <2>2
  <1>. QED  BY <1>12, <1>13, <1>14

LEMMA DoReceiveKeeps ==
  ASSUME IInv, NEW c \in Caches, DoReceive(c)
  PROVE  IInv'
  <1>. DEFINE m == At(incoming(Cache(c)))
              l == lines[c][m.addr]
  <1>1. Waits(incoming(Cache(c)))
    BY DEF DoReceive
  <1>2. m \in Message /\ l \in Line /\ m.type \in Types
    BY <1>1, AtWork, MessageFields
  <1>3. EditOf(m, m) /\ Waits4(l, l)
    BY <1>2, MessageSame, LineSame
  <1>4. IF m.ignore \/ m.type = LOCALDIR_NOTIFICATION
        THEN IF ~m.ignore /\ m.source = c THEN Abort ELSE Pass(c, m, l)
        ELSE IF m.type = EVICTION THEN OnEviction(c, m)
        ELSE IF m.source = c
        THEN IF m.type = READ THEN OnReadRet(c, m) ELSE OnAcquireTokensRet(c, m)
        ELSE IF ~l.valid THEN Pass(c, m, l)
        ELSE IF m.type = READ THEN OnReadRem(c, m) ELSE OnAcquireTokensRem(c, m)
    BY DEF DoReceive
  <1>5. CASE Abort
    BY <1>5, AbortKeeps
  <1>6. CASE Pass(c, m, l)
    BY <1>1, <1>3, <1>6, PassEdit
  <1>7. CASE m.type = EVICTION /\ OnEviction(c, m)
    BY <1>1, <1>7, OnEvictionKeeps
  <1>8. CASE m.type = READ /\ m.source = c /\ OnReadRet(c, m)
    BY <1>1, <1>8, OnReadRetKeeps
  <1>9. CASE m.type = ACQUIRE_TOKENS /\ m.source = c /\ OnAcquireTokensRet(c, m)
    BY <1>1, <1>9, OnAcquireTokensRetKeeps
  <1>10. CASE OnReadRem(c, m)
    BY <1>1, <1>10, OnReadRemKeeps
  <1>11. CASE OnAcquireTokensRem(c, m)
    BY <1>1, <1>11, OnAcquireTokensRemKeeps
  <1>12. m.type \in {READ, ACQUIRE_TOKENS, EVICTION, LOCALDIR_NOTIFICATION}
    BY <1>2 DEF Types
  <1>. HIDE DEF m, l
  <1>. QED  BY <1>4, <1>5, <1>6, <1>7, <1>8, <1>9, <1>10, <1>11, <1>12

-----------------------------------------------------------------------------
(* The directories                                                          *)

\* A message moves from one buffer to another, and keeps its identity.
LEMMA Moves ==
  ASSUME IInv, NEW from \in Channels, NEW to \in Channels, from # to, net[from] # <<>>,
         NEW m, EditOf(At(from), m), InPlace(to, m), net' = Passed(from, to, m),
         UNCHANGED <<lines, bus, unacked>>, roots' \in [Addrs -> Entry], mem' \in [Addrs -> Data]
  PROVE  IInv'
  <1>1. NetOK(net) /\ m \in Message /\ Key(m) = Key(Head(net[from]))
    BY DEF IInv, Good, EditOf, At
  <1>2. net' = [net EXCEPT ![from] = Tail(@), ![to] = Append(@, m)]
    BY DEF Passed
  <1>3. NetOK(net') /\ Same(net, net')
    BY <1>1, <1>2, Passes
  <1>. QED  BY <1>3, LinesStill

\* A message that is no request ends.
LEMMA Leaves ==
  ASSUME IInv, NEW from \in Channels, net[from] # <<>>, At(from).type \notin {READ, ACQUIRE_TOKENS},
         net' = Dropped(from),
         UNCHANGED <<lines, bus, unacked>>, roots' \in [Addrs -> Entry], mem' \in [Addrs -> Data]
  PROVE  IInv'
  <1>1. NetOK(net)
    BY DEF IInv, Good
  <1>2. net' = [net EXCEPT ![from] = Tail(@)]
    BY DEF Dropped
  <1>3. NetOK([net EXCEPT ![from] = Tail(@)]) /\ Same(net, [net EXCEPT ![from] = Tail(@)])
    BY <1>1, DropsOther DEF At
  <1>4. NetOK(net') /\ Same(net, net')
    BY <1>2, <1>3
  <1>. QED  BY <1>4, LinesStill

LEMMA MessageIgnored ==
  ASSUME NEW m \in Message, NEW i \in BOOLEAN
  PROVE  EditOf(m, [m EXCEPT !.ignore = i]) /\ [m EXCEPT !.ignore = i].ignore = i
  BY DEF EditOf, Message, Key

LEMMA RootsAndMemory == ASSUME IInv PROVE roots \in [Addrs -> Entry] /\ mem \in [Addrs -> Data]
  BY DEF IInv

LEMMA DoInBottomKeeps ==
  ASSUME IInv, NEW d \in Directories, DoInBottom(d)
  PROVE  IInv'
  <1>. DEFINE from == incoming(Bottom(d))
              to == outgoing(Top(d))
              m == At(from)
              notified == m.type = LOCALDIR_NOTIFICATION /\ ~m.ignore
  <1>1. from \in Channels /\ to \in Channels /\ from # to /\ net[from] # <<>>
    BY ChannelFacts DEF DoInBottom, Waits
  <1>2. m \in Message
    BY <1>1, Held
  <1>3. \/ Abort
        \/ notified /\ net' = Dropped(from) /\ UNCHANGED <<lines, bus, unacked, roots, mem>>
        \/ net' = Passed(from, to, [m EXCEPT !.ignore = FALSE]) /\ UNCHANGED <<lines, bus, unacked, roots, mem>>
    BY DEF DoInBottom
  <1>4. EditOf(m, [m EXCEPT !.ignore = FALSE]) /\ InPlace(to, [m EXCEPT !.ignore = FALSE])
    BY <1>2, MessageIgnored, AnyPlace
  <1>5. notified => m.type \notin {READ, ACQUIRE_TOKENS}
    BY DEF LOCALDIR_NOTIFICATION, READ, ACQUIRE_TOKENS
  <1>6. CASE Abort
    BY <1>6, AbortKeeps
  <1>7. CASE notified /\ net' = Dropped(from) /\ UNCHANGED <<lines, bus, unacked, roots, mem>>
    <2>1. At(from).type \notin {READ, ACQUIRE_TOKENS}
      BY <1>5, <1>7
    <2>2. roots' \in [Addrs -> Entry] /\ mem' \in [Addrs -> Data]
      BY <1>7, RootsAndMemory
    <2>. HIDE DEF from
    <2>. QED  BY <1>1, <1>7, <2>1, <2>2, Leaves
  <1>8. CASE net' = Passed(from, to, [m EXCEPT !.ignore = FALSE]) /\ UNCHANGED <<lines, bus, unacked, roots, mem>>
    <2>. DEFINE g == [m EXCEPT !.ignore = FALSE]
    <2>1. EditOf(At(from), g) /\ InPlace(to, g) /\ net' = Passed(from, to, g)
      BY <1>4, <1>8
    <2>2. roots' \in [Addrs -> Entry] /\ mem' \in [Addrs -> Data]
      BY <1>8, RootsAndMemory
    <2>. HIDE DEF from, to, g
    <2>. QED  BY <1>1, <1>8, <2>1, <2>2, Moves
  <1>. HIDE DEF from, to, m, notified
  <1>. QED  BY <1>3, <1>6, <1>7, <1>8

LEMMA DoInTopKeeps ==
  ASSUME IInv, NEW d \in Directories, DoInTop(d)
  PROVE  IInv'
  <1>. DEFINE from == incoming(Top(d))
              up == outgoing(Top(d))
              down == outgoing(Bottom(d))
              m == At(from)
              g == [m EXCEPT !.ignore = TRUE]
              same == UNCHANGED <<lines, bus, unacked, roots, mem>>
  <1>1. /\ from \in Channels /\ up \in Channels /\ down \in Channels
        /\ from # up /\ from # down /\ net[from] # <<>>
    BY ChannelFacts DEF DoInTop, Waits
  <1>2. m \in Message
    BY <1>1, Held
  <1>3. \/ Abort
        \/ net' = Passed(from, down, m) /\ same
        \/ net' = net /\ same
        \/ net' = Passed(from, up, m) /\ same
        \/ net' = Passed(from, down, g) /\ same
    BY DEF DoInTop
  <1>4. EditOf(m, m) /\ EditOf(m, g) /\ InPlace(down, m) /\ InPlace(up, m) /\ InPlace(down, g)
    BY <1>2, MessageSame, MessageIgnored, AnyPlace
  <1>5. roots \in [Addrs -> Entry] /\ mem \in [Addrs -> Data]
    BY RootsAndMemory
  <1>6. ASSUME NEW to \in {up, down}, NEW h \in {m, g}, net' = Passed(from, to, h), same, InPlace(to, h)
        PROVE  IInv'
    <2>1. EditOf(At(from), h) /\ to \in Channels /\ from # to
      BY <1>1, <1>4
    <2>. HIDE DEF from, up, down, g
    <2>. QED  BY <1>1, <1>5, <1>6, <2>1, Moves
  <1>7. CASE net' = net /\ same
    <2>1. NetOK(net') /\ Same(net, net')
      BY <1>7, NetStill DEF IInv, Good
    <2>. QED  BY <1>5, <1>7, <2>1, LinesStill
  <1>8. ASSUME Abort PROVE IInv'
    BY <1>8, AbortKeeps
  <1>. HIDE DEF from, up, down, m, g, same
  <1>. QED  BY <1>3, <1>4, <1>6, <1>7, <1>8

-----------------------------------------------------------------------------
(* The root directories                                                     *)

LEMMA EntryTypes ==
  /\ NoEntry \in Entry /\ Introduced \in Entry
  /\ \A e \in Entry : /\ e.valid \in BOOLEAN /\ e.tokens \in Int /\ e.priority \in BOOLEAN
                      /\ Without(e) \in Entry
  /\ \A e \in Entry : \A b \in BOOLEAN : [e EXCEPT !.loading = b] \in Entry /\ [e EXCEPT !.data = b] \in Entry
  /\ \A e \in Entry : \A t \in Int, p \in BOOLEAN : [e EXCEPT !.tokens = t, !.priority = p] \in Entry
  <1>1. NoEntry \in Entry
    BY DEF NoEntry, Entry
  <1>2. \A e \in Entry : /\ e.valid \in BOOLEAN /\ e.tokens \in Int /\ e.priority \in BOOLEAN
    BY DEF Entry
  <1>3. \A e \in Entry : \A b \in BOOLEAN : /\ [e EXCEPT !.loading = b] \in Entry
                                            /\ [e EXCEPT !.data = b] \in Entry /\ [e EXCEPT !.valid = b] \in Entry
    BY DEF Entry
  <1>4. \A e \in Entry : \A t \in Int, p \in BOOLEAN : [e EXCEPT !.tokens = t, !.priority = p] \in Entry
    BY DEF Entry
  <1>5. TRUE \in BOOLEAN /\ FALSE \in BOOLEAN /\ 0 \in Int
    OBVIOUS
  <1>6. [NoEntry EXCEPT !.valid = TRUE] \in Entry
    BY <1>1, <1>3, <1>5, Zenon
  <1>7. \A e \in Entry : [e EXCEPT !.tokens = 0, !.priority = FALSE] \in Entry
    BY <1>4, <1>5, Zenon
  <1>. QED  BY <1>1, <1>2, <1>3, <1>4, <1>6, <1>7 DEF Introduced, Without

LEMMA WithTokensEdits ==
  ASSUME NEW m \in Message
  PROVE  /\ EditOf(m, WithAll(m)) /\ WithAll(m).type = m.type
         /\ \A e \in Entry : EditOf(m, WithTokens(m, e)) /\ WithTokens(m, e).type = m.type
  <1>1. \A t \in Int : \A p \in BOOLEAN :
           /\ [m EXCEPT !.tokens = t, !.priority = p] \in Message
           /\ Key([m EXCEPT !.tokens = t, !.priority = p]) = Key(m)
           /\ [m EXCEPT !.tokens = t, !.priority = p].type = m.type
    BY DEF Message, Key
  <1>2. TotalTokens \in Int /\ TRUE \in BOOLEAN
    BY ZLNodeAssumption DEF TotalTokens
  <1>3. /\ [m EXCEPT !.tokens = TotalTokens, !.priority = TRUE] \in Message
        /\ Key([m EXCEPT !.tokens = TotalTokens, !.priority = TRUE]) = Key(m)
        /\ [m EXCEPT !.tokens = TotalTokens, !.priority = TRUE].type = m.type
    BY <1>1, <1>2, Zenon
  <1>4. ASSUME NEW e \in Entry
        PROVE  /\ WithTokens(m, e) \in Message /\ Key(WithTokens(m, e)) = Key(m)
               /\ WithTokens(m, e).type = m.type
    <2>1. m.tokens \in Int /\ m.priority \in BOOLEAN /\ e.tokens \in Int /\ e.priority \in BOOLEAN
      BY MessageFields, EntryTypes
    <2>2. m.tokens + e.tokens \in Int
      BY <2>1
    <2>3. (m.priority \/ e.priority) \in BOOLEAN
      BY <2>1
    <2>4. /\ [m EXCEPT !.tokens = m.tokens + e.tokens, !.priority = m.priority \/ e.priority] \in Message
          /\ Key([m EXCEPT !.tokens = m.tokens + e.tokens, !.priority = m.priority \/ e.priority]) = Key(m)
          /\ [m EXCEPT !.tokens = m.tokens + e.tokens, !.priority = m.priority \/ e.priority].type = m.type
      BY <1>1, <2>2, <2>3, Zenon
    <2>. QED  BY <2>4 DEF WithTokens
  <1>. QED  BY <1>3, <1>4 DEF EditOf, WithAll

LEMMA RootsSet ==
  ASSUME NEW a \in Addrs, NEW e \in Entry, IInv, roots' = [roots EXCEPT ![a] = e]
  PROVE  roots' \in [Addrs -> Entry]
  BY RootsAndMemory

\* A request goes to the next node, or joins the queue.
LEMMA ForwardKeeps ==
  ASSUME IInv, NEW r \in Roots, Waits(incoming(Root(r))),
         NEW m, EditOf(At(incoming(Root(r))), m), NEW e \in Entry, Forward(r, m, e),
         UNCHANGED <<lines, bus, unacked, mem>>
  PROVE  IInv'
  <1>. DEFINE from == incoming(Root(r))
              out == outgoing(Root(r))
              in == requests(r)
              g == [m EXCEPT !.ignore = TRUE]
  <1>1. /\ from \in Channels /\ out \in Channels /\ in \in Channels
        /\ from # out /\ from # in /\ net[from] # <<>>
    BY ChannelFacts DEF Waits
  <1>2. m \in Message /\ m.addr \in Addrs
    BY MessageFields DEF EditOf
  <1>3. EditOf(m, g) /\ g.ignore
    BY <1>2, MessageIgnored
  <1>4. EditOf(At(from), g)
    BY <1>3, EditTwice
  <1>5. InPlace(out, m) /\ InPlace(in, g)
    BY <1>3, AnyPlace
  <1>6. /\ roots' = [roots EXCEPT ![m.addr] = e]
        /\ net' = Passed(from, out, m) \/ net' = Passed(from, in, g)
    BY DEF Forward
  <1>7. roots' \in [Addrs -> Entry] /\ mem' \in [Addrs -> Data]
    BY <1>2, <1>6, RootsSet, RootsAndMemory
  <1>8. EditOf(At(from), m)
    OBVIOUS
  <1>. HIDE DEF from, out, in, g
  <1>9. CASE net' = Passed(from, out, m)
    BY <1>1, <1>5, <1>7, <1>8, <1>9, Moves
  <1>10. CASE net' = Passed(from, in, g)
    BY <1>1, <1>4, <1>5, <1>7, <1>10, Moves
  <1>. QED  BY <1>6, <1>9, <1>10

LEMMA FetchKeeps ==
  ASSUME IInv, NEW r \in Roots, Waits(incoming(Root(r))),
         NEW m, EditOf(At(incoming(Root(r))), m), m.type = READ, NEW e \in Entry, Fetch(r, m, e),
         UNCHANGED <<lines, bus, unacked, mem>>
  PROVE  IInv'
  <1>. DEFINE from == incoming(Root(r))
              in == requests(r)
  <1>1. from \in Channels /\ in \in Channels /\ from # in /\ net[from] # <<>>
    BY ChannelFacts DEF Waits
  <1>2. m \in Message /\ m.addr \in Addrs
    BY MessageFields DEF EditOf
  <1>3. InPlace(in, m)
    BY AnyPlace
  <1>4. roots' = [roots EXCEPT ![m.addr] = e] /\ net' = Passed(from, in, m)
    BY DEF Fetch
  <1>5. roots' \in [Addrs -> Entry] /\ mem' \in [Addrs -> Data]
    BY <1>2, <1>4, RootsSet, RootsAndMemory
  <1>6. EditOf(At(from), m)
    OBVIOUS
  <1>. HIDE DEF from, in
  <1>. QED  BY <1>1, <1>3, <1>4, <1>5, <1>6, Moves

LEMMA RootReadKeeps ==
  ASSUME IInv, NEW r \in Roots, Waits(incoming(Root(r))), At(incoming(Root(r))).type = READ,
         NEW e \in Entry, RootRead(r, At(incoming(Root(r))), e), UNCHANGED <<lines, bus, unacked, mem>>
  PROVE  IInv'
  <1>. DEFINE m == At(incoming(Root(r)))
              wa == WithAll(m)
              wt == WithTokens(m, e)
              e1 == [Introduced EXCEPT !.loading = TRUE]
              e2 == [Without(e) EXCEPT !.data = TRUE]
              e3 == [Without(e) EXCEPT !.loading = TRUE]
              e4 == Without(e)
  <1>1. m \in Message
    BY ChannelFacts, Held DEF Waits
  <1>2. \/ Fetch(r, wa, e1) \/ Forward(r, m, e) \/ Forward(r, wt, e2) \/ Fetch(r, wt, e3) \/ Forward(r, wt, e4)
    BY DEF RootRead
  <1>3. e1 \in Entry /\ e2 \in Entry /\ e3 \in Entry /\ e4 \in Entry
    BY EntryTypes
  <1>4. EditOf(m, m) /\ EditOf(m, wa) /\ EditOf(m, wt) /\ wa.type = READ /\ wt.type = READ
    BY <1>1, MessageSame, WithTokensEdits
  <1>5. ASSUME NEW g \in {m, wa, wt}, NEW f \in {e, e1, e2, e3, e4}, Forward(r, g, f) PROVE IInv'
    <2>1. EditOf(At(incoming(Root(r))), g) /\ f \in Entry
      BY <1>3, <1>4
    <2>. HIDE DEF m, wa, wt, e1, e2, e3, e4
    <2>. QED  BY <1>5, <2>1, ForwardKeeps
  <1>6. ASSUME NEW g \in {wa, wt}, NEW f \in {e1, e3}, Fetch(r, g, f) PROVE IInv'
    <2>1. EditOf(At(incoming(Root(r))), g) /\ f \in Entry /\ g.type = READ
      BY <1>3, <1>4
    <2>. HIDE DEF m, wa, wt, e1, e2, e3, e4
    <2>. QED  BY <1>6, <2>1, FetchKeeps
  <1>. HIDE DEF m, wa, wt, e1, e2, e3, e4
  <1>. QED  BY <1>2, <1>5, <1>6

LEMMA RootAcquireKeeps ==
  ASSUME IInv, NEW r \in Roots, Waits(incoming(Root(r))),
         NEW e \in Entry, RootAcquire(r, At(incoming(Root(r))), e), UNCHANGED <<lines, bus, unacked, mem>>
  PROVE  IInv'
  <1>. DEFINE m == At(incoming(Root(r)))
              wa == WithAll(m)
              wt == WithTokens(m, e)
              e4 == Without(e)
  <1>1. m \in Message
    BY ChannelFacts, Held DEF Waits
  <1>2. \/ Forward(r, m, e) \/ Forward(r, wa, Introduced) \/ Forward(r, wt, e4)
    BY DEF RootAcquire
  <1>3. Introduced \in Entry /\ e4 \in Entry
    BY EntryTypes
  <1>4. EditOf(m, m) /\ EditOf(m, wa) /\ EditOf(m, wt)
    BY <1>1, MessageSame, WithTokensEdits
  <1>5. ASSUME NEW g \in {m, wa, wt}, NEW f \in {e, Introduced, e4}, Forward(r, g, f) PROVE IInv'
    <2>1. EditOf(At(incoming(Root(r))), g) /\ f \in Entry
      BY <1>3, <1>4
    <2>. HIDE DEF m, wa, wt, e4
    <2>. QED  BY <1>5, <2>1, ForwardKeeps
  <1>. HIDE DEF m, wa, wt, e4
  <1>. QED  BY <1>2, <1>5

LEMMA RootEvictionKeeps ==
  ASSUME IInv, NEW r \in Roots, Waits(incoming(Root(r))), At(incoming(Root(r))).type = EVICTION,
         NEW e \in Entry, RootEviction(r, At(incoming(Root(r))), e), UNCHANGED <<lines, bus, unacked, mem>>
  PROVE  IInv'
  <1>. DEFINE from == incoming(Root(r))
              in == requests(r)
              m == At(from)
              e1 == [e EXCEPT !.tokens = @ + m.tokens, !.priority = @ \/ m.priority]
              e2 == IF e1.tokens = TotalTokens THEN NoEntry ELSE e1
  <1>1. from \in Channels /\ in \in Channels /\ from # in /\ net[from] # <<>>
    BY ChannelFacts DEF Waits
  <1>2. m \in Message /\ m.addr \in Addrs /\ EditOf(m, m) /\ InPlace(in, m)
    BY <1>1, Held, MessageFields, MessageSame, AnyPlace
  <1>3. e1 \in Entry
    <2>1. m.tokens \in Int /\ m.priority \in BOOLEAN /\ e.tokens \in Int /\ e.priority \in BOOLEAN
      BY <1>2, MessageFields, EntryTypes
    <2>2. e.tokens + m.tokens \in Int /\ (e.priority \/ m.priority) \in BOOLEAN
      BY <2>1
    <2>. QED  BY <2>2, EntryTypes, Zenon
  <1>4. e2 \in Entry
    BY <1>3, EntryTypes
  <1>5. /\ roots' = [roots EXCEPT ![m.addr] = e2]
        /\ net' = Passed(from, in, m) \/ net' = Dropped(from)
    BY DEF RootEviction
  <1>. HIDE DEF e1, e2
  <1>6. roots' \in [Addrs -> Entry] /\ mem' \in [Addrs -> Data]
    BY <1>2, <1>4, <1>5, RootsSet, RootsAndMemory
  <1>7. At(from).type \notin {READ, ACQUIRE_TOKENS}
    BY DEF EVICTION, READ, ACQUIRE_TOKENS
  <1>. HIDE DEF from, in
  <1>8. CASE net' = Passed(from, in, m)
    BY <1>1, <1>2, <1>6, <1>8, Moves
  <1>9. CASE net' = Dropped(from)
    BY <1>1, <1>6, <1>7, <1>9, Leaves
  <1>. QED  BY <1>5, <1>8, <1>9

LEMMA DoIncomingKeeps ==
  ASSUME IInv, NEW r \in Roots, DoIncoming(r)
  PROVE  IInv'
  <1>. DEFINE m == At(incoming(Root(r)))
              e == roots[m.addr]
              same == UNCHANGED <<lines, bus, unacked, mem>>
  <1>1. Waits(incoming(Root(r)))
    BY DEF DoIncoming
  <1>2. m \in Message /\ m.addr \in Addrs
    BY <1>1, ChannelFacts, Held DEF Waits
  <1>3. e \in Entry
    BY <1>2, RootsAndMemory
  <1>4. \/ Forward(r, m, e) /\ same
        \/ Abort
        \/ m.type = READ /\ RootRead(r, m, e) /\ same
        \/ RootAcquire(r, m, e) /\ same
        \/ m.type = EVICTION /\ RootEviction(r, m, e) /\ same
    <2>. DEFINE handled == CASE m.type = READ           -> RootRead(r, m, e)
                             [] m.type = ACQUIRE_TOKENS -> RootAcquire(r, m, e)
                             [] m.type = EVICTION       -> RootEviction(r, m, e)
    <2>1. IF RootOf(m.addr) # r THEN Forward(r, m, e) /\ same
          ELSE IF ~RootAsserts(m, e) THEN Abort ELSE handled /\ same
      <3>1. IF RootOf(m.addr) # r THEN Forward(r, m, e) /\ UNCHANGED <<lines, bus, unacked, dirs, mem, aborted>>
            ELSE IF ~RootAsserts(m, e) THEN Abort
            ELSE handled /\ UNCHANGED <<lines, bus, unacked, dirs, mem, aborted>>
        BY DEF DoIncoming
      <3>. HIDE DEF handled, m, e
      <3>. QED  BY <3>1
    <2>2. RootAsserts(m, e) => m.type \in {READ, ACQUIRE_TOKENS, EVICTION}
      BY DEF RootAsserts
    <2>3. m.type = READ => (handled <=> RootRead(r, m, e))
      BY DEF READ, ACQUIRE_TOKENS, EVICTION
    <2>4. m.type = ACQUIRE_TOKENS => (handled <=> RootAcquire(r, m, e))
      BY DEF READ, ACQUIRE_TOKENS, EVICTION
    <2>5. m.type = EVICTION => (handled <=> RootEviction(r, m, e))
      BY DEF READ, ACQUIRE_TOKENS, EVICTION
    <2>. HIDE DEF m, e, handled, same
    <2>. QED  BY <2>1, <2>2, <2>3, <2>4, <2>5
  <1>5. ASSUME Forward(r, m, e), same PROVE IInv'
    <2>1. EditOf(m, m)
      BY <1>2, MessageSame
    <2>. HIDE DEF e
    <2>. QED  BY <1>1, <1>3, <1>5, <2>1, ForwardKeeps
  <1>6. ASSUME Abort PROVE IInv'
    BY <1>6, AbortKeeps
  <1>7. ASSUME m.type = READ, RootRead(r, m, e), same PROVE IInv'
    <2>. HIDE DEF e
    <2>. QED  BY <1>1, <1>3, <1>7, RootReadKeeps
  <1>8. ASSUME RootAcquire(r, m, e), same PROVE IInv'
    <2>. HIDE DEF e
    <2>. QED  BY <1>1, <1>3, <1>8, RootAcquireKeeps
  <1>9. ASSUME m.type = EVICTION, RootEviction(r, m, e), same PROVE IInv'
    <2>. HIDE DEF e
    <2>. QED  BY <1>1, <1>3, <1>9, RootEvictionKeeps
  <1>. HIDE DEF m, e, same
  <1>. QED  BY <1>4, <1>5, <1>6, <1>7, <1>8, <1>9

LEMMA RootDoRequestsKeeps ==
  ASSUME IInv, NEW r \in Roots, RootDoRequests(r)
  PROVE  IInv'
  <1>. DEFINE from == requests(r)
              ready == responses(r)
              ddr == active(r)
              m == At(from)
              same == UNCHANGED <<lines, bus, unacked, roots>>
  <1>1. /\ from \in Channels /\ ready \in Channels /\ ddr \in Channels
        /\ from # ready /\ from # ddr /\ net[from] # <<>>
    BY ChannelFacts DEF RootDoRequests, Waits
  <1>2. m \in Message /\ m.addr \in Addrs /\ m.data \in Data /\ EditOf(m, m) /\ InPlace(from, m)
    BY <1>1, Held, MessageSame
  <1>3. InPlace(ready, m) /\ InPlace(ddr, m)
    BY AnyPlace
  <1>4. m.ignore \/ m.type \in {READ, EVICTION}
    BY <1>2 DEF InPlace, requests
  <1>5. \/ net' = Passed(from, ready, m) /\ UNCHANGED mem /\ same
        \/ net' = Passed(from, ddr, m) /\ UNCHANGED mem /\ same
        \/ ~m.ignore /\ m.type # READ /\ net' = Dropped(from) /\ mem' = [mem EXCEPT ![m.addr] = m.data] /\ same
    BY DEF RootDoRequests
  <1>6. roots \in [Addrs -> Entry] /\ mem \in [Addrs -> Data]
    BY RootsAndMemory
  <1>7. ASSUME NEW to \in {ready, ddr}, net' = Passed(from, to, m), UNCHANGED mem, same
        PROVE  IInv'
    <2>1. to \in Channels /\ from # to /\ InPlace(to, m) /\ EditOf(At(from), m)
      BY <1>1, <1>2, <1>3
    <2>. HIDE DEF from, ready, ddr, m
    <2>. QED  BY <1>1, <1>6, <1>7, <2>1, Moves
  <1>8. ASSUME ~m.ignore, m.type # READ, net' = Dropped(from), mem' = [mem EXCEPT ![m.addr] = m.data], same
        PROVE  IInv'
    <2>1. At(from).type \notin {READ, ACQUIRE_TOKENS}
      BY <1>4, <1>8 DEF EVICTION, READ, ACQUIRE_TOKENS
    <2>2. mem' \in [Addrs -> Data]
      BY <1>2, <1>6, <1>8
    <2>. HIDE DEF from, m
    <2>. QED  BY <1>1, <1>6, <1>8, <2>1, <2>2, Leaves
  <1>. HIDE DEF from, ready, ddr, m, same
  <1>. QED  BY <1>5, <1>7, <1>8

LEMMA OnReadCompletedKeeps ==
  ASSUME IInv, NEW r \in Roots, OnReadCompleted(r)
  PROVE  IInv'
  <1>. DEFINE from == active(r)
              to == responses(r)
              m == At(from)
              d == Fill(m.data, mem[m.addr])
              g == [m EXCEPT !.data = d, !.dirty = FALSE]
  <1>1. from \in Channels /\ to \in Channels /\ from # to /\ net[from] # <<>>
    BY ChannelFacts DEF OnReadCompleted, Waits
  <1>2. m \in Message /\ m.addr \in Addrs /\ m.data \in Data
    BY <1>1, Held
  <1>3. d \in Data
    BY <1>2, RootsAndMemory, DataTypes
  <1>4. net' = Passed(from, to, g) /\ UNCHANGED <<lines, bus, unacked, roots, mem>>
    BY DEF OnReadCompleted
  <1>. HIDE DEF d
  <1>5. EditOf(m, g)
    BY <1>2, <1>3 DEF EditOf, Message, Key
  <1>6. InPlace(to, g)
    BY AnyPlace
  <1>7. roots \in [Addrs -> Entry] /\ mem \in [Addrs -> Data]
    BY RootsAndMemory
  <1>. HIDE DEF from, to, g
  <1>. QED  BY <1>1, <1>4, <1>5, <1>6, <1>7, Moves

LEMMA DoResponsesKeeps ==
  ASSUME IInv, NEW r \in Roots, DoResponses(r)
  PROVE  IInv'
  <1>. DEFINE from == responses(r)
              to == outgoing(Root(r))
              m == At(from)
              g == [m EXCEPT !.ignore = FALSE]
              loaded == [roots EXCEPT ![m.addr].loading = FALSE, ![m.addr].data = TRUE]
  <1>1. from \in Channels /\ to \in Channels /\ from # to /\ net[from] # <<>>
    BY ChannelFacts DEF DoResponses, Waits
  <1>2. m \in Message /\ m.addr \in Addrs
    BY <1>1, Held
  <1>3. EditOf(m, g) /\ InPlace(to, g)
    BY <1>2, MessageIgnored, AnyPlace
  <1>4. \/ Abort
        \/ /\ net' = Passed(from, to, g) /\ UNCHANGED <<lines, bus, unacked, mem>>
           /\ roots' = roots \/ roots' = loaded
    BY DEF DoResponses
  <1>5. roots \in [Addrs -> Entry] /\ mem \in [Addrs -> Data]
    BY RootsAndMemory
  <1>6. loaded \in [Addrs -> Entry]
    <2>. DEFINE e == roots[m.addr]
                f == [[e EXCEPT !.loading = FALSE] EXCEPT !.data = TRUE]
    <2>1. [e EXCEPT !.loading = FALSE] \in Entry
      BY <1>2, <1>5, EntryTypes
    <2>2. f \in Entry
      BY <2>1, EntryTypes
    <2>3. loaded = [roots EXCEPT ![m.addr] = f]
      BY <1>2, <1>5
    <2>. HIDE DEF f
    <2>. QED  BY <1>2, <1>5, <2>2, <2>3
  <1>7. CASE Abort
    BY <1>7, AbortKeeps
  <1>. HIDE DEF from, to, g, loaded
  <1>8. CASE /\ net' = Passed(from, to, g) /\ UNCHANGED <<lines, bus, unacked, mem>>
             /\ roots' = roots \/ roots' = loaded
    <2>1. roots' \in [Addrs -> Entry] /\ mem' \in [Addrs -> Data]
      BY <1>5, <1>6, <1>8
    <2>. QED  BY <1>1, <1>3, <1>8, <2>1, Moves
  <1>. QED  BY <1>4, <1>7, <1>8

-----------------------------------------------------------------------------
(* The initial states, and every step                                       *)

LEMMA InitHolds ==
  ASSUME Init
  PROVE  IInv
  <1>1. NetOK(net) /\ \A key : Single(net, key) /\ ~Has(net, key)
    <2>1. net \in [Channels -> Seq(Message)] /\ \A ch \in Channels : net[ch] = <<>> /\ Len(net[ch]) = 0
      BY DEF Init
    <2>2. \A ch \in Channels : 1..Len(net[ch]) = {}
      BY <2>1
    <2>. QED  BY <2>1, <2>2 DEF NetOK, Single, Has
  <1>2. /\ LinesOK(lines)
        /\ \A c \in Caches, a \in Addrs : /\ ~lines[c][a].reading /\ ~lines[c][a].writing
                                          /\ lines[c][a].acks = 0
    <2>1. NoLine \in Line /\ ~NoLine.reading /\ ~NoLine.writing /\ NoLine.acks = 0
      BY DataTypes DEF NoLine, Line
    <2>2. lines \in [Caches -> [Addrs -> Line]]
      BY <2>1 DEF Init
    <2>3. \A c \in Caches, a \in Addrs : lines[c][a] = NoLine
      BY DEF Init
    <2>. QED  BY <2>1, <2>2, <2>3 DEF LinesOK
  <1>3. /\ bus \in [Caches -> Seq(Request)] /\ unacked \in [Caches -> Int]
        /\ \A c \in Caches : bus[c] = <<>> /\ unacked[c] = 0
    BY DEF Init
  <1>4. Booked(net, lines)
    BY <1>1, <1>2 DEF Booked
  <1>5. Counted(lines, bus, unacked)
    <2>1. ASSUME NEW c \in Caches PROVE Acks(lines, c) = {} /\ QueuedWrites(bus[c]) = {}
      <3>1. \A a \in Addrs : 1..lines[c][a].acks = {}
        BY <1>2
      <3>2. Acks(lines, c) = {}
        BY <3>1 DEF Acks
      <3>3. QueuedWrites(bus[c]) = {}
        BY <1>3 DEF QueuedWrites
      <3>. QED  BY <3>2, <3>3
    <2>2. IsFiniteSet({}) /\ Cardinality({}) = 0
      BY FS_EmptySet
    <2>3. ASSUME NEW c \in Caches
          PROVE  /\ IsFiniteSet(Acks(lines, c))
                 /\ unacked[c] = Cardinality(QueuedWrites(bus[c])) + Cardinality(Acks(lines, c))
      <3>1. Cardinality(Acks(lines, c)) = 0 /\ IsFiniteSet(Acks(lines, c))
        BY <2>1, <2>2
      <3>2. Cardinality(QueuedWrites(bus[c])) = 0
        BY <2>1, <2>2
      <3>3. unacked[c] = 0
        BY <1>3
      <3>. QED  BY <3>1, <3>2, <3>3
    <2>. QED  BY <2>3 DEF Counted
  <1>6. roots \in [Addrs -> Entry]
    BY EntryTypes DEF Init
  <1>7. mem \in [Addrs -> Data]
    <2>1. (CHOOSE v \in Values : TRUE) \in Values
      BY ZLNodeAssumption
    <2>. QED  BY <2>1 DEF Init, Data
  <1>. QED  BY <1>1, <1>2, <1>3, <1>4, <1>5, <1>6, <1>7 DEF IInv, Good

LEMMA NextKeeps ==
  ASSUME IInv, [Next]_zlVars
  PROVE  IInv'
  <1>1. ASSUME NEW c \in Caches, NEW a \in Addrs, ClientRead(c, a) PROVE IInv'
    BY <1>1, ClientReadKeeps
  <1>2. ASSUME NEW c \in Caches, NEW a \in Addrs, NEW w \in Writes, ClientWrite(c, a, w) PROVE IInv'
    BY <1>2, ClientWriteKeeps
  <1>3. ASSUME NEW n \in Nodes, DoForward(n) PROVE IInv'
    BY <1>3, DoForwardKeeps
  <1>4. ASSUME NEW c \in Caches, DoRequests(c) PROVE IInv'
    BY <1>4, DoRequestsKeeps
  <1>5. ASSUME NEW c \in Caches, DoReceive(c) PROVE IInv'
    BY <1>5, DoReceiveKeeps
  <1>6. ASSUME NEW d \in Directories, DoInBottom(d) PROVE IInv'
    BY <1>6, DoInBottomKeeps
  <1>7. ASSUME NEW d \in Directories, DoInTop(d) PROVE IInv'
    BY <1>7, DoInTopKeeps
  <1>8. ASSUME NEW r \in Roots, DoIncoming(r) PROVE IInv'
    BY <1>8, DoIncomingKeeps
  <1>9. ASSUME NEW r \in Roots, RootDoRequests(r) PROVE IInv'
    BY <1>9, RootDoRequestsKeeps
  <1>10. ASSUME NEW r \in Roots, OnReadCompleted(r) PROVE IInv'
    BY <1>10, OnReadCompletedKeeps
  <1>11. ASSUME NEW r \in Roots, DoResponses(r) PROVE IInv'
    BY <1>11, DoResponsesKeeps
  <1>12. CASE UNCHANGED zlVars
    BY <1>12 DEF zlVars, IInv
  <1>. QED  BY <1>1, <1>2, <1>3, <1>4, <1>5, <1>6, <1>7, <1>8, <1>9, <1>10, <1>11, <1>12 DEF Next

\* The requests of a cache for a line, counted as the run counts them
LEMMA CountOfOne ==
  ASSUME IInv, NEW c \in Caches, NEW a \in Addrs, NEW type,
         Single(net, <<c, a, type>>), NEW b \in BOOLEAN, Has(net, <<c, a, type>>) <=> b
  PROVE  Cardinality({p \in Under(a, type) : Msg(p).source = c}) = IF b THEN 1 ELSE 0
  <1>. DEFINE mine == {p \in Under(a, type) : Msg(p).source = c}
  <1>1. net \in [Channels -> Seq(Message)]
    BY DEF IInv, Good, NetOK
  <1>2. \A ch \in Channels : DOMAIN net[ch] = 1..Len(net[ch])
    BY <1>1
  <1>3. \A p : p \in mine <=> \E ch \in Channels : \E k \in 1..Len(net[ch]) :
                                  p = <<ch, k>> /\ Key(net[ch][k]) = <<c, a, type>>
    <2>1. \A p : p \in Places <=> \E ch \in Channels : \E k \in 1..Len(net[ch]) : p = <<ch, k>>
      BY <1>2 DEF Places
    <2>2. \A p : p \in mine <=> p \in Places /\ Key(Msg(p)) = <<c, a, type>>
      BY DEF Under, Key
    <2>3. \A ch, k : Msg(<<ch, k>>) = net[ch][k]
      BY DEF Msg
    <2>. HIDE DEF mine
    <2>. QED  BY <2>1, <2>2, <2>3
  <1>. HIDE DEF mine
  <1>4. CASE b
    <2>1. PICK ch \in Channels : \E k \in 1..Len(net[ch]) : Key(net[ch][k]) = <<c, a, type>>
      BY <1>4 DEF Has
    <2>2. PICK k \in 1..Len(net[ch]) : Key(net[ch][k]) = <<c, a, type>>
      BY <2>1
    <2>3. mine = {<<ch, k>>}
      <3>1. <<ch, k>> \in mine
        BY <1>3, <2>2
      <3>2. ASSUME NEW p \in mine PROVE p = <<ch, k>>
        <4>1. PICK x \in Channels : \E i \in 1..Len(net[x]) : p = <<x, i>> /\ Key(net[x][i]) = <<c, a, type>>
          BY <1>3
        <4>2. PICK i \in 1..Len(net[x]) : p = <<x, i>> /\ Key(net[x][i]) = <<c, a, type>>
          BY <4>1
        <4>3. x = ch /\ i = k
          BY <2>2, <4>2 DEF Single
        <4>. QED  BY <4>2, <4>3
      <3>. QED  BY <3>1, <3>2
    <2>4. Cardinality(mine) = 1
      BY <2>3, FS_Singleton
    <2>. QED  BY <1>4, <2>4 DEF mine
  <1>5. CASE ~b
    <2>1. mine = {}
      BY <1>3, <1>5 DEF Has
    <2>2. Cardinality(mine) = 0
      BY <2>1, FS_EmptySet
    <2>. QED  BY <1>5, <2>2 DEF mine
  <1>. QED  BY <1>4, <1>5

-----------------------------------------------------------------------------
(* What the network keeps                                                   *)

\* The state of the network has its types, only requests that the root
\* directory may queue are queued (DoIncoming), every pending line has its
\* one request, and every write that is not completed is accounted for.
THEOREM NetworkAccounted == Spec => []IInv
  <1>1. Init => IInv
    BY InitHolds
  <1>2. IInv /\ [Next]_zlVars => IInv'
    BY NextKeeps
  <1>. QED  BY <1>1, <1>2, PTL DEF Spec

\* A line is LINE_READING or acquires tokens exactly while one READ or
\* ACQUIRE_TOKENS of its cache is under way, wherever the caches, directories
\* and root directories have sent it (the assertions of Cache::OnReadRet and
\* Cache::OnAcquireTokensRet rely on it).
THEOREM PendingLineHasOneRequest == Spec => []OneRequestPerPendingLine
  <1>1. ASSUME IInv PROVE OneRequestPerPendingLine
    <2>1. ASSUME NEW c \in Caches, NEW a \in Addrs
          PROVE  /\ Cardinality({p \in Under(a, READ) : Msg(p).source = c})
                        = IF lines[c][a].reading THEN 1 ELSE 0
                 /\ Cardinality({p \in Under(a, ACQUIRE_TOKENS) : Msg(p).source = c})
                        = IF lines[c][a].writing THEN 1 ELSE 0
      <3>1. /\ Single(net, <<c, a, READ>>) /\ (Has(net, <<c, a, READ>>) <=> lines[c][a].reading)
            /\ Single(net, <<c, a, ACQUIRE_TOKENS>>)
            /\ (Has(net, <<c, a, ACQUIRE_TOKENS>>) <=> lines[c][a].writing)
        BY <1>1 DEF IInv, Good, Booked
      <3>2. lines[c][a].reading \in BOOLEAN /\ lines[c][a].writing \in BOOLEAN
        BY <1>1, HeldLine, LineFields
      <3>. QED  BY <1>1, <3>1, <3>2, CountOfOne
    <2>. QED  BY <2>1 DEF OneRequestPerPendingLine
  <1>2. IInv => OneRequestPerPendingLine
    BY <1>1
  <1>. QED  BY <1>2, NetworkAccounted, PTL

\* Every write of a client is acknowledged once: it waits on the bus
\* (m_requests) or in the ack_queue of a line that acquires tokens, however
\* many writes have joined the line and however the tokens arrive.
THEOREM WriteIsAckedOnce == Spec => []WritesAckedOnce
  <1>1. ASSUME IInv PROVE WritesAckedOnce
    <2>1. ASSUME NEW c \in Caches
          PROVE  /\ \A a \in Addrs : lines[c][a].acks > 0 => lines[c][a].writing
                 /\ unacked[c] = Cardinality({k \in DOMAIN bus[c] : bus[c][k].write}) + Cardinality(Waiting(c))
      <3>1. \A a \in Addrs : lines[c][a].acks > 0 => lines[c][a].writing
        BY <1>1, HeldLine
      <3>2. unacked[c] = Cardinality(QueuedWrites(bus[c])) + Cardinality(Acks(lines, c))
        BY <1>1 DEF IInv, Good, Counted
      <3>3. Waiting(c) = Acks(lines, c)
        BY DEF Waiting, Acks
      <3>4. {k \in DOMAIN bus[c] : bus[c][k].write} = QueuedWrites(bus[c])
        <4>1. bus[c] \in Seq(Request)
          BY <1>1 DEF IInv, Good
        <4>. QED  BY <4>1 DEF QueuedWrites
      <3>. QED  BY <3>1, <3>2, <3>3, <3>4
    <2>. QED  BY <2>1 DEF WritesAckedOnce
  <1>2. IInv => WritesAckedOnce
    BY <1>1
  <1>. QED  BY <1>2, NetworkAccounted, PTL

=============================================================================
