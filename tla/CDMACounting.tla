---------------------------- MODULE CDMACounting ----------------------------
(***************************************************************************)
(* Proofs of the properties of the CDMA network that count: tokens, read    *)
(* requests and updates, for any number of caches, lines and buffer slots.  *)
(*                                                                         *)
(* What is counted is a weight of the messages in the network.  Marks has   *)
(* one element for every unit of weight, so that a count is a cardinality   *)
(* and no sum over the channels has to be formed.                          *)
(***************************************************************************)
EXTENDS CDMAProofs

-----------------------------------------------------------------------------
(* Cardinalities                                                           *)

LEMMA BijectionCount ==
  ASSUME NEW S, NEW T, IsFiniteSet(S), NEW f \in [S -> T],
         \A x, y \in S : f[x] = f[y] => x = y,
         \A t \in T : \E x \in S : f[x] = t
  PROVE  IsFiniteSet(T) /\ Cardinality(T) = Cardinality(S)
  <1>1. f \in Bijection(S, T)
    BY DEF Bijection, Injection, Surjection, IsInjective
  <1> QED
    BY <1>1, FS_Bijection DEF ExistsBijection

LEMMA DisjointCount ==
  ASSUME NEW S, NEW T, IsFiniteSet(S), IsFiniteSet(T), S \cap T = {}
  PROVE  /\ IsFiniteSet(S \cup T)
         /\ Cardinality(S \cup T) = Cardinality(S) + Cardinality(T)
  <1>1. Cardinality(S) \in Nat /\ Cardinality(T) \in Nat
    BY FS_CardinalityType
  <1> QED
    BY <1>1, FS_Union, FS_EmptySet

\* The elements <<x, 1>>, ..., <<x, w>>
Row(x, w) == {<<x, i>> : i \in 1..w}

LEMMA RowCount ==
  ASSUME NEW x, NEW w \in Nat
  PROVE  IsFiniteSet(Row(x, w)) /\ Cardinality(Row(x, w)) = w
  <1> DEFINE f == [i \in 1..w |-> <<x, i>>]
  <1>1. f \in [1..w -> Row(x, w)]
    BY DEF Row
  <1>2. \A i, j \in 1..w : f[i] = f[j] => i = j
    OBVIOUS
  <1>3. \A t \in Row(x, w) : \E i \in 1..w : f[i] = t
    BY DEF Row
  <1>4. IsFiniteSet(1..w) /\ Cardinality(1..w) = w
    BY FS_Interval
  <1> HIDE DEF f
  <1> QED
    BY <1>1, <1>2, <1>3, <1>4, BijectionCount

-----------------------------------------------------------------------------
(* The weight of the messages in a network n                               *)

Weights == [Channels \X Message -> Nat]

Marks(n, W) ==
  {t \in (Channels \X Nat) \X Nat :
     /\ t[1][2] \in 1..Len(n[t[1][1]])
     /\ t[2] \in 1..W[<<t[1][1], n[t[1][1]][t[1][2]]>>]}

Count(n, W) == Cardinality(Marks(n, W))

Networks == [Channels -> Seq(Message)]

\* The elements of Marks, by channel, position and unit
LEMMA MarkParts ==
  ASSUME NEW n, NEW W, NEW t \in Marks(n, W)
  PROVE  /\ t = <<<<t[1][1], t[1][2]>>, t[2]>>
         /\ t[1][1] \in Channels /\ t[1][2] \in Nat /\ t[2] \in Nat
         /\ t[1][2] \in 1..Len(n[t[1][1]])
         /\ t[2] \in 1..W[<<t[1][1], n[t[1][1]][t[1][2]]>>]
  BY DEF Marks

LEMMA MarkIs ==
  ASSUME NEW n, NEW W, NEW ch \in Channels, NEW k \in Nat, NEW i \in Nat
  PROVE  <<<<ch, k>>, i>> \in Marks(n, W) <=>
           k \in 1..Len(n[ch]) /\ i \in 1..W[<<ch, n[ch][k]>>]
  BY DEF Marks

LEMMA TakeCount ==
  ASSUME NEW n \in Networks, NEW ch \in Channels, n[ch] # <<>>, NEW W \in Weights,
         IsFiniteSet(Marks(n, W)), NEW n2, n2 = [n EXCEPT ![ch] = Tail(@)]
  PROVE  /\ n2 \in Networks
         /\ W[<<ch, Head(n[ch])>>] \in Nat
         /\ IsFiniteSet(Marks(n2, W))
         /\ Count(n2, W) = Count(n, W) - W[<<ch, Head(n[ch])>>]
  <1> DEFINE w    == W[<<ch, Head(n[ch])>>]
             R    == Row(<<ch, 1>>, w)
             Rest == Marks(n, W) \ R
             f    == [t \in Rest |-> IF t[1][1] = ch THEN <<<<ch, t[1][2] - 1>>, t[2]>> ELSE t]
  <1>1. Head(n[ch]) = n[ch][1] /\ n[ch][1] \in Message /\ 1 \in 1..Len(n[ch])
    BY DEF Networks
  <1>2. w \in Nat
    BY <1>1 DEF Weights
  <1>3. /\ n2 \in Networks
        /\ Len(n2[ch]) = Len(n[ch]) - 1
        /\ \A k \in 1..Len(n2[ch]) : n2[ch][k] = n[ch][k + 1]
        /\ \A x \in Channels : x # ch => n2[x] = n[x]
    BY DEF Networks
  <1>4. R \subseteq Marks(n, W)
    BY <1>1, <1>2 DEF Row, Marks
  <1>5. IsFiniteSet(R) /\ Cardinality(R) = w
    BY <1>2, RowCount
  <1>6. IsFiniteSet(Rest) /\ Cardinality(Rest) = Count(n, W) - w
    <2>1. IsFiniteSet(Rest) /\ R \cap Rest = {} /\ R \cup Rest = Marks(n, W)
      BY <1>4, FS_Subset
    <2>2. Cardinality(Marks(n, W)) = Cardinality(R) + Cardinality(Rest)
      BY <1>5, <2>1, DisjointCount
    <2>3. Cardinality(Rest) \in Nat
      BY <2>1, FS_CardinalityType
    <2> QED
      BY <1>2, <1>5, <2>1, <2>2, <2>3 DEF Count
  <1>7. \A t \in Rest : t[1][1] = ch => t[1][2] # 1
    BY <1>1 DEF Row, Marks
  <1>8. ASSUME NEW t \in Rest
        PROVE  /\ t[1][1] = ch => /\ t[1][2] - 1 \in 1..Len(n2[ch])
                                 /\ f[t] = <<<<ch, t[1][2] - 1>>, t[2]>>
                                 /\ n2[ch][t[1][2] - 1] = n[ch][t[1][2]]
               /\ t[1][1] # ch => f[t] = t
               /\ f[t] \in Marks(n2, W)
    <2>0. /\ t \in Marks(n, W)
          /\ t = <<<<t[1][1], t[1][2]>>, t[2]>>
          /\ t[1][1] \in Channels /\ t[1][2] \in Nat /\ t[2] \in Nat
          /\ t[1][2] \in 1..Len(n[t[1][1]])
          /\ t[2] \in 1..W[<<t[1][1], n[t[1][1]][t[1][2]]>>]
      BY MarkParts
    <2>1. CASE t[1][1] = ch
      <3> DEFINE k == t[1][2]
                 i == t[2]
      <3>1. /\ k \in Nat /\ k # 1 /\ k \in 1..Len(n[ch]) /\ i \in Nat
            /\ i \in 1..W[<<ch, n[ch][k]>>]
        BY <2>0, <2>1, <1>7
      <3>2. f[t] = <<<<ch, k - 1>>, i>>
        BY <2>1
      <3> HIDE DEF k, i, f
      <3>3. k - 1 \in Nat /\ k - 1 \in 1..Len(n2[ch]) /\ (k - 1) + 1 = k
        BY <3>1, <1>3 DEF Networks
      <3>4. n2[ch][k - 1] = n[ch][k]
        BY <3>3, <1>3
      <3>5. <<<<ch, k - 1>>, i>> \in Marks(n2, W)
        BY <3>1, <3>3, <3>4, MarkIs
      <3> QED
        BY <2>1, <3>2, <3>3, <3>4, <3>5 DEF k, i
    <2>2. CASE t[1][1] # ch
      <3>1. f[t] = t
        BY <2>2
      <3> QED
        BY <2>2, <1>3, <3>1 DEF Marks
    <2> QED
      BY <2>1, <2>2
  <1>9. ASSUME NEW x \in Rest, NEW y \in Rest, f[x] = f[y] PROVE x = y
    <2>1. /\ x = <<<<x[1][1], x[1][2]>>, x[2]>> /\ x[1][2] \in Nat
          /\ y = <<<<y[1][1], y[1][2]>>, y[2]>> /\ y[1][2] \in Nat
      BY MarkParts
    <2>2. f[x][1][1] = x[1][1] /\ f[y][1][1] = y[1][1]
      BY <2>1
    <2>3. CASE x[1][1] = ch
      <3>1. y[1][1] = ch
        BY <1>9, <2>2, <2>3
      <3>2. <<<<ch, x[1][2] - 1>>, x[2]>> = <<<<ch, y[1][2] - 1>>, y[2]>>
        BY <1>8, <1>9, <2>3, <3>1
      <3>3. x[1][2] - 1 = y[1][2] - 1 /\ x[2] = y[2]
        BY <3>2
      <3>4. x[1][2] = y[1][2]
        BY <2>1, <3>3
      <3> QED
        BY <2>1, <2>3, <3>1, <3>3, <3>4
    <2>4. CASE x[1][1] # ch
      BY <1>8, <1>9, <2>2, <2>4
    <2> QED
      BY <2>3, <2>4
  <1>10. ASSUME NEW t \in Marks(n2, W) PROVE \E x \in Rest : f[x] = t
    <2>0. /\ t = <<<<t[1][1], t[1][2]>>, t[2]>>
          /\ t[1][1] \in Channels /\ t[1][2] \in Nat /\ t[2] \in Nat
          /\ t[1][2] \in 1..Len(n2[t[1][1]])
          /\ t[2] \in 1..W[<<t[1][1], n2[t[1][1]][t[1][2]]>>]
      BY MarkParts
    <2>1. CASE t[1][1] = ch
      <3> DEFINE k == t[1][2]
                 i == t[2]
                 x == <<<<ch, k + 1>>, i>>
      <3>1. /\ k \in Nat /\ k \in 1..Len(n2[ch]) /\ i \in Nat /\ t = <<<<ch, k>>, i>>
            /\ i \in 1..W[<<ch, n2[ch][k]>>]
        BY <2>0, <2>1
      <3> HIDE DEF k, i
      <3>2. k + 1 \in Nat /\ k + 1 \in 1..Len(n[ch]) /\ n2[ch][k] = n[ch][k + 1]
        BY <3>1, <1>3 DEF Networks
      <3>3. x \in Marks(n, W)
        BY <3>1, <3>2, MarkIs
      <3>4. x \notin R
        BY <3>1 DEF Row
      <3>5. f[x] = <<<<ch, (k + 1) - 1>>, i>>
        BY <3>3, <3>4
      <3>6. (k + 1) - 1 = k
        BY <3>1
      <3> QED
        BY <3>1, <3>3, <3>4, <3>5, <3>6
    <2>2. CASE t[1][1] # ch
      <3>1. t \in Marks(n, W)
        BY <2>2, <1>3 DEF Marks
      <3>2. t \notin R
        BY <2>2 DEF Row
      <3> QED
        BY <2>2, <3>1, <3>2
    <2> QED
      BY <2>1, <2>2
  <1> HIDE DEF f, Rest, R, w
  <1>11. IsFiniteSet(Marks(n2, W)) /\ Cardinality(Marks(n2, W)) = Cardinality(Rest)
    <2>1. f \in [Rest -> Marks(n2, W)]
      BY <1>8 DEF f
    <2> QED
      BY <1>6, <1>9, <1>10, <2>1, BijectionCount
  <1> QED
    BY <1>2, <1>3, <1>6, <1>11 DEF Count, w

LEMMA PutCount ==
  ASSUME NEW n \in Networks, NEW ch \in Channels, NEW m \in Message, NEW W \in Weights,
         IsFiniteSet(Marks(n, W)), NEW n2, n2 = [n EXCEPT ![ch] = Append(@, m)]
  PROVE  /\ n2 \in Networks
         /\ W[<<ch, m>>] \in Nat
         /\ IsFiniteSet(Marks(n2, W))
         /\ Count(n2, W) = Count(n, W) + W[<<ch, m>>]
  <1> DEFINE w == W[<<ch, m>>]
             l == Len(n[ch]) + 1
             R == Row(<<ch, l>>, w)
  <1>1. w \in Nat
    BY DEF Weights
  <1>2. /\ n2 \in Networks
        /\ l \in Nat /\ Len(n2[ch]) = l /\ n2[ch][l] = m
        /\ \A k \in 1..Len(n[ch]) : n2[ch][k] = n[ch][k]
        /\ \A x \in Channels : x # ch => n2[x] = n[x]
    BY DEF Networks
  <1>3. R \cap Marks(n, W) = {}
    BY <1>2 DEF Row, Marks, Networks
  <1>4. Marks(n2, W) = R \cup Marks(n, W)
    <2>0. l \notin 1..Len(n[ch]) /\ 1..l = 1..Len(n[ch]) \cup {l}
      BY <1>2 DEF Networks
    <2>1. ASSUME NEW x \in Channels, NEW k \in Nat, NEW i \in Nat
          PROVE  <<<<x, k>>, i>> \in Marks(n2, W) <=>
                   <<<<x, k>>, i>> \in R \cup Marks(n, W)
      <3>1. <<<<x, k>>, i>> \in R <=> x = ch /\ k = l /\ i \in 1..w
        BY DEF Row
      <3>2. /\ <<<<x, k>>, i>> \in Marks(n2, W) <=>
                  k \in 1..Len(n2[x]) /\ i \in 1..W[<<x, n2[x][k]>>]
            /\ <<<<x, k>>, i>> \in Marks(n, W) <=>
                  k \in 1..Len(n[x]) /\ i \in 1..W[<<x, n[x][k]>>]
        BY MarkIs
      <3> HIDE DEF R, w, l
      <3>3. CASE x = ch /\ k = l
        BY <3>1, <3>2, <3>3, <1>2, <2>0 DEF w
      <3>4. CASE x = ch /\ k # l
        BY <3>1, <3>2, <3>4, <1>2, <2>0
      <3>5. CASE x # ch
        BY <3>1, <3>2, <3>5, <1>2
      <3> QED
        BY <3>3, <3>4, <3>5
    <2>2. \A t \in R : t = <<<<t[1][1], t[1][2]>>, t[2]>> /\ t[1][1] \in Channels
                       /\ t[1][2] \in Nat /\ t[2] \in Nat
      BY <1>1, <1>2 DEF Row
    <2>3. ASSUME NEW t PROVE t \in Marks(n2, W) <=> t \in R \cup Marks(n, W)
      <3>1. t \in Marks(n2, W) \/ t \in R \/ t \in Marks(n, W)
              => /\ t = <<<<t[1][1], t[1][2]>>, t[2]>>
                 /\ t[1][1] \in Channels /\ t[1][2] \in Nat /\ t[2] \in Nat
        BY <2>2, MarkParts
      <3> HIDE DEF R
      <3> QED
        BY <2>1, <3>1
    <2> QED
      BY <2>3
  <1>5. IsFiniteSet(R) /\ Cardinality(R) = w
    BY <1>1, RowCount
  <1>6. IsFiniteSet(Marks(n2, W)) /\ Cardinality(Marks(n2, W)) = w + Cardinality(Marks(n, W))
    BY <1>3, <1>4, <1>5, DisjointCount
  <1> QED
    BY <1>1, <1>2, <1>6, FS_CardinalityType DEF Count

-----------------------------------------------------------------------------
(* What a step does to the network                                         *)

\* The messages, each with its channel
Letters(n) == UNION {{<<ch, n[ch][k]>> : k \in 1..Len(n[ch])} : ch \in Channels}

NetFinite(n) == n \in Networks /\ \A W \in Weights : IsFiniteSet(Marks(n, W))

LEMMA LettersType ==
  ASSUME NEW n \in Networks
  PROVE  /\ Letters(n) \subseteq Channels \X Message
         /\ \A ch \in Channels : n[ch] # <<>> => <<ch, Head(n[ch])>> \in Letters(n)
  BY DEF Letters, Networks

LEMMA CountType ==
  ASSUME NEW n, NetFinite(n), NEW W \in Weights
  PROVE  Count(n, W) \in Nat
  BY FS_CardinalityType DEF NetFinite, Count

\* A message in the network weighs no more than all of them
LEMMA CountsAll ==
  ASSUME NEW n, NetFinite(n), NEW W \in Weights, NEW x \in Letters(n)
  PROVE  W[x] \in Nat /\ W[x] <= Count(n, W)
  <1>0. PICK ch \in Channels : x \in {<<ch, n[ch][k]>> : k \in 1..Len(n[ch])}
    BY DEF Letters
  <1>1. PICK k \in 1..Len(n[ch]) : x = <<ch, n[ch][k]>>
    BY <1>0
  <1>2. W[x] \in Nat /\ k \in Nat
    BY <1>1, LettersType DEF NetFinite, Weights
  <1>3. Row(<<ch, k>>, W[x]) \subseteq Marks(n, W)
    <2> SUFFICES ASSUME NEW i \in 1..W[x] PROVE <<<<ch, k>>, i>> \in Marks(n, W)
      BY DEF Row
    <2>1. i \in Nat
      BY <1>2
    <2> QED
      BY <1>1, <1>2, <2>1, MarkIs
  <1>4. Cardinality(Row(<<ch, k>>, W[x])) = W[x]
    BY <1>2, RowCount
  <1> QED
    BY <1>2, <1>3, <1>4, FS_Subset DEF NetFinite, Count

\* A network after the front message of ch left it, or m joined ch
Without(n, ch) == [n EXCEPT ![ch] = Tail(@)]
With(n, ch, m) == [n EXCEPT ![ch] = Append(@, m)]

LEMMA WithoutLetters ==
  ASSUME NEW n \in Networks, NEW ch \in Channels, n[ch] # <<>>
  PROVE  /\ Without(n, ch) \in Networks
         /\ Letters(Without(n, ch)) \subseteq Letters(n)
  <1> DEFINE n2 == Without(n, ch)
  <1>1. n2 \in Networks /\ n2 = [n EXCEPT ![ch] = Tail(@)]
    BY DEF Without, Networks
  <1> HIDE DEF n2
  <1>2. ASSUME NEW x \in Channels, NEW k \in 1..Len(n2[x])
        PROVE  \E j \in 1..Len(n[x]) : n2[x][k] = n[x][j]
    <2>1. CASE x = ch
      <3>1. n2[x] = Tail(n[x]) /\ n[x] \in Seq(Message) /\ n[x] # <<>>
        BY <1>1, <2>1 DEF Networks
      <3>2. k + 1 \in 1..Len(n[x]) /\ n2[x][k] = n[x][k + 1]
        BY <3>1
      <3> QED
        BY <3>2
    <2>2. CASE x # ch
      BY <1>1, <2>2 DEF Networks
    <2> QED
      BY <2>1, <2>2
  <1>3. Letters(n2) \subseteq Letters(n)
    BY <1>2 DEF Letters
  <1> QED
    BY <1>1, <1>3 DEF n2

LEMMA WithLetters ==
  ASSUME NEW n \in Networks, NEW ch \in Channels, NEW m \in Message
  PROVE  /\ With(n, ch, m) \in Networks
         /\ Letters(With(n, ch, m)) \subseteq Letters(n) \cup {<<ch, m>>}
  <1> DEFINE n2 == With(n, ch, m)
  <1>1. n2 \in Networks /\ n2 = [n EXCEPT ![ch] = Append(@, m)]
    BY DEF With, Networks
  <1> HIDE DEF n2
  <1>2. ASSUME NEW x \in Channels, NEW k \in 1..Len(n2[x])
        PROVE  \/ x = ch /\ n2[x][k] = m
               \/ k \in 1..Len(n[x]) /\ n2[x][k] = n[x][k]
    <2>1. CASE x = ch
      <3>1. n2[x] = Append(n[x], m) /\ n[x] \in Seq(Message)
        BY <1>1, <2>1 DEF Networks
      <3>2. k = Len(n[x]) + 1 \/ k \in 1..Len(n[x])
        BY <3>1
      <3> QED
        BY <2>1, <3>1, <3>2
    <2>2. CASE x # ch
      BY <1>1, <2>2 DEF Networks
    <2> QED
      BY <2>1, <2>2
  <1>3. Letters(n2) \subseteq Letters(n) \cup {<<ch, m>>}
    BY <1>2 DEF Letters
  <1> QED
    BY <1>1, <1>3 DEF n2

LEMMA WithoutFlow ==
  ASSUME NEW n, NetFinite(n), NEW ch \in Channels, n[ch] # <<>>
  PROVE  /\ NetFinite(Without(n, ch))
         /\ \A W \in Weights :
              Count(Without(n, ch), W) = Count(n, W) - W[<<ch, Head(n[ch])>>]
  <1>1. n \in Networks /\ \A W \in Weights : IsFiniteSet(Marks(n, W))
    BY DEF NetFinite
  <1> QED
    BY <1>1, WithoutLetters, TakeCount DEF NetFinite, Without

LEMMA WithFlow ==
  ASSUME NEW n, NetFinite(n), NEW ch \in Channels, NEW m \in Message
  PROVE  /\ NetFinite(With(n, ch, m))
         /\ \A W \in Weights : Count(With(n, ch, m), W) = Count(n, W) + W[<<ch, m>>]
  <1>1. n \in Networks /\ \A W \in Weights : IsFiniteSet(Marks(n, W))
    BY DEF NetFinite
  <1> QED
    BY <1>1, WithLetters, PutCount DEF NetFinite, With

\* The three ways in which a handler changes the network
LEMMA Moves ==
  ASSUME net \in Networks, NEW from \in Channels, NEW to \in Channels, NEW m
  PROVE  /\ Take(from) => net' = Without(net, from)
         /\ Put(to, m) => net' = With(net, to, m)
         /\ Pass(from, to, m) /\ from # to => net' = With(Without(net, from), to, m)
  BY DEF Take, Put, Pass, With, Without, Networks

LEMMA MoveLetters ==
  ASSUME net \in Networks, NEW from \in Channels, NEW to \in Channels, from # to,
         NEW m \in Message
  PROVE  /\ net[from] # <<>> /\ Take(from) => Letters(net') \subseteq Letters(net)
         /\ Put(to, m) => Letters(net') \subseteq Letters(net) \cup {<<to, m>>}
         /\ net[from] # <<>> /\ Pass(from, to, m)
              => Letters(net') \subseteq Letters(net) \cup {<<to, m>>}
  BY Moves, WithoutLetters, WithLetters

-----------------------------------------------------------------------------
(* Loaded data: what a byte that was never loaded or written cannot reach.   *)

LineLoaded(l) ==
  /\ \A b \in l.valid : l.data[b] \in Values
  /\ l.state = LINE_FULL => l.valid = Bytes

MsgLoaded(m) ==
  /\ m.type \in {REQUEST_DATA, REQUEST_DATA_TOKEN, EVICTION} =>
       \A b \in Bytes : m.data[b] \in Values
  /\ m.type = UPDATE => \A b \in m.mask : m.data[b] \in Values

LoadedLines    == \A c \in Caches, a \in Addrs : LineLoaded(lines[c][a])
LoadedMessages == \A x \in Letters(net) : MsgLoaded(x[2])
LoadedBus      == \A c \in Caches : \A k \in 1..Len(bus[c]) :
                    \A b \in bus[c][k].mask : bus[c][k].data[b] \in Values
LoadedMemory   == \A a \in Addrs : \A b \in Bytes : mem[a][b] \in Values

LoadedInv == LoadedLines /\ LoadedMessages /\ LoadedBus /\ LoadedMemory

LEMMA LoadedImplies == IInv /\ LoadedInv => AllLoaded
  <1> SUFFICES ASSUME IInv, LoadedInv PROVE AllLoaded
    OBVIOUS
  <1>1. ASSUME NEW c \in Caches, NEW a \in Addrs, lines[c][a].state = LINE_FULL
        PROVE  lines[c][a].data \in [Bytes -> Values]
    <2>1. lines[c][a].data \in Data
      BY Parts DEF LinesOK, Line
    <2>2. \A b \in Bytes : lines[c][a].data[b] \in Values
      BY <1>1 DEF LoadedInv, LoadedLines, LineLoaded
    <2> QED
      BY <2>1, <2>2 DEF Data
  <1>2. ASSUME NEW p \in Places, At(p).type \in {REQUEST_DATA, REQUEST_DATA_TOKEN, EVICTION}
        PROVE  At(p).data \in [Bytes -> Values]
    <2>1. PICK ch \in Channels : p \in {<<ch, k>> : k \in DOMAIN net[ch]}
      BY DEF Places
    <2>2. PICK k \in DOMAIN net[ch] : p = <<ch, k>>
      BY <2>1
    <2>3. k \in 1..Len(net[ch]) /\ At(p) = net[ch][k] /\ net[ch][k] \in Message
      BY <2>2, Parts DEF NetOK, At
    <2>4. <<ch, At(p)>> \in Letters(net) /\ At(p).data \in Data
      BY <2>3 DEF Letters, Message
    <2>5. \A b \in Bytes : At(p).data[b] \in Values
      BY <1>2, <2>4 DEF LoadedInv, LoadedMessages, MsgLoaded
    <2> QED
      BY <2>4, <2>5 DEF Data
  <1>3. mem \in [Addrs -> [Bytes -> Values]]
    <2>1. mem \in [Addrs -> Data]
      BY Parts DEF Others
    <2> QED
      BY <2>1 DEF LoadedInv, LoadedMemory, Data
  <1> QED
    BY <1>1, <1>2, <1>3 DEF AllLoaded

LEMMA NetworkType == IInv => net \in Networks
  BY Parts DEF NetOK, Networks

\* A handler that adds a loaded message, or none, keeps the messages loaded
LEMMA LoadedMove ==
  ASSUME IInv, LoadedMessages, NEW from \in Channels, NEW to \in Channels, from # to,
         NEW m \in Message
  PROVE  /\ net[from] # <<>> /\ Take(from) => LoadedMessages'
         /\ MsgLoaded(m) /\ Put(to, m) => LoadedMessages'
         /\ MsgLoaded(m) /\ net[from] # <<>> /\ Pass(from, to, m) => LoadedMessages'
         /\ net[from] # <<>> => MsgLoaded(Head(net[from]))
  <1>1. net \in Networks
    BY NetworkType
  <1>2. /\ net[from] # <<>> /\ Take(from) => Letters(net') \subseteq Letters(net)
        /\ Put(to, m) => Letters(net') \subseteq Letters(net) \cup {<<to, m>>}
        /\ net[from] # <<>> /\ Pass(from, to, m)
             => Letters(net') \subseteq Letters(net) \cup {<<to, m>>}
    BY <1>1, MoveLetters
  <1>3. net[from] # <<>> => <<from, Head(net[from])>> \in Letters(net)
    BY <1>1, LettersType
  <1> QED
    BY <1>2, <1>3 DEF LoadedMessages

LEMMA LoadedSetLine ==
  ASSUME IInv, LoadedLines, NEW c \in Caches, NEW a \in Addrs, NEW l, LineLoaded(l),
         SetLine(c, a, l)
  PROVE  LoadedLines'
  BY Parts DEF LoadedLines, SetLine, LinesOK

LEMMA LoadedBlit ==
  ASSUME NEW dst, NEW src, NEW mask
  PROVE  \A b \in Bytes : blit(dst, src, mask)[b] = IF b \in mask THEN src[b] ELSE dst[b]
  BY DEF blit

\* The queue of requests: a new request, or one less
LEMMA LoadedClient ==
  ASSUME IInv, LoadedInv, ClientRead \/ ClientWrite
  PROVE  LoadedInv'
  <1>1. PICK c \in Caches, r \in Request :
          /\ bus' = [bus EXCEPT ![c] = Append(@, r)]
          /\ \A b \in r.mask : r.data[b] \in Values
    <2>1. CASE ClientRead
      <3>1. PICK c \in Caches, a \in Addrs : Read(c, a)
        BY <2>1 DEF ClientRead
      <3> DEFINE r == [write |-> FALSE, addr |-> a, data |-> NoData, mask |-> {}]
      <3>2. r \in Request /\ \A b \in r.mask : r.data[b] \in Values
        BY DEF Request, NoData, Data
      <3> QED
        BY <3>1, <3>2 DEF Read
    <2>2. CASE ClientWrite
      <3>1. PICK c \in Caches, a \in Addrs, w \in Writes : Write(c, a, WriteData(w), w.mask)
        BY <2>2 DEF ClientWrite
      <3> DEFINE r == [write |-> TRUE, addr |-> a, data |-> WriteData(w), mask |-> w.mask]
      <3>2. w.mask \in SUBSET Bytes /\ w.value \in Values
        BY CDMAAssumption
      <3>3. r \in Request /\ \A b \in r.mask : r.data[b] \in Values
        BY <3>2 DEF Request, WriteData, Data
      <3> QED
        BY <3>1, <3>3 DEF Write
    <2> QED
      BY <2>1, <2>2
  <1>2. LoadedBus'
    <2> SUFFICES ASSUME NEW x \in Caches, NEW k \in 1..Len(bus'[x])
                 PROVE  \A b \in bus'[x][k].mask : bus'[x][k].data[b] \in Values
      BY DEF LoadedBus
    <2>1. bus \in [Caches -> Seq(Request)]
      BY Parts DEF Others
    <2>2. (x = c /\ bus'[x][k] = r) \/ (k \in 1..Len(bus[x]) /\ bus'[x][k] = bus[x][k])
      <3>1. CASE x = c
        <4>1. bus'[x] = Append(bus[x], r) /\ bus[x] \in Seq(Request)
          BY <1>1, <2>1, <3>1
        <4>2. k = Len(bus[x]) + 1 \/ k \in 1..Len(bus[x])
          BY <4>1
        <4> QED
          BY <3>1, <4>1, <4>2
      <3>2. CASE x # c
        BY <1>1, <2>1, <3>2
      <3> QED
        BY <3>1, <3>2
    <2> QED
      BY <1>1, <2>2 DEF LoadedInv, LoadedBus
  <1>3. UNCHANGED <<net, lines, mem>>
    BY DEF ClientRead, ClientWrite, Read, Write
  <1> QED
    BY <1>2, <1>3 DEF LoadedInv, LoadedLines, LoadedMessages, LoadedMemory

LEMMA LoadedPop ==
  ASSUME IInv, LoadedBus, NEW c \in Caches, bus[c] # <<>>, PopRequest(c) \/ bus' = bus
  PROVE  LoadedBus'
  <1>1. CASE PopRequest(c)
    <2> SUFFICES ASSUME NEW x \in Caches, NEW k \in 1..Len(bus'[x])
                 PROVE  \A b \in bus'[x][k].mask : bus'[x][k].data[b] \in Values
      BY DEF LoadedBus
    <2>1. bus \in [Caches -> Seq(Request)]
      BY Parts DEF Others
    <2>2. \E j \in 1..Len(bus[x]) : bus'[x][k] = bus[x][j]
      <3>1. CASE x = c
        <4>1. bus'[x] = Tail(bus[x]) /\ bus[x] \in Seq(Request) /\ bus[x] # <<>>
          BY <1>1, <2>1, <3>1 DEF PopRequest
        <4>2. k + 1 \in 1..Len(bus[x]) /\ bus'[x][k] = bus[x][k + 1]
          BY <4>1
        <4> QED
          BY <4>2
      <3>2. CASE x # c
        BY <1>1, <2>1, <3>2 DEF PopRequest
      <3> QED
        BY <3>1, <3>2
    <2> QED
      BY <2>2 DEF LoadedBus
  <1>2. CASE bus' = bus
    BY <1>2 DEF LoadedBus
  <1> QED
    BY <1>1, <1>2

LEMMA LoadedForward ==
  ASSUME IInv, LoadedInv, NEW n \in Nodes, DoForward(n)
  PROVE  LoadedInv'
  <1> DEFINE m == Head(net[outgoing(n)])
  <1>1. /\ outgoing(n) \in Channels /\ incoming(NextNode[n]) \in Channels
        /\ outgoing(n) # incoming(NextNode[n])
    BY NodeChannels, NodeAssumption, DistinctChannels
  <1>2. m \in Message
    BY <1>1, FrontOK, Parts DEF DoForward
  <1>3. LoadedMessages'
    BY <1>1, <1>2, LoadedMove DEF DoForward, LoadedInv
  <1> QED
    BY <1>3 DEF DoForward, LoadedInv, LoadedLines, LoadedBus, LoadedMemory

LEMMA LoadedRequests ==
  ASSUME IInv, LoadedInv, NEW c \in Caches, DoRequests(c)
  PROVE  LoadedInv'
  <1> DEFINE req  == Head(bus[c])
             line == lines[c][req.addr]
  <1>0. bus[c] # <<>> /\ (PopRequest(c) \/ bus' = bus) /\ mem' = mem
    BY DEF DoRequests, MissEvict, MissLoad, ReadHit, WriteHitExclusive, WriteHitShared
  <1>1. req \in Request /\ req.addr \in Addrs /\ req.data \in Data
    BY <1>0, Parts, BusHead DEF Request
  <1>2. \A b \in req.mask : req.data[b] \in Values
    <2>1. bus[c] \in Seq(Request) /\ 1 \in 1..Len(bus[c]) /\ req = bus[c][1]
      BY <1>0, Parts DEF Others
    <2> QED
      BY <2>1 DEF LoadedInv, LoadedBus
  <1>3. LineOK(line) /\ LineLoaded(line)
    BY <1>1, Parts DEF LinesOK, LoadedInv, LoadedLines
  <1>4. LoadedBus' /\ LoadedMemory'
    BY <1>0, LoadedPop DEF LoadedInv, LoadedMemory
  <1>5. LineLoaded(EmptyLine) /\ LineLoaded(LoadingLine)
    BY DEF LineLoaded, EmptyLine, LoadingLine, LINE_EMPTY, LINE_LOADING, LINE_FULL
  <1>6. LineLoaded(Written(line, req))
        /\ LineLoaded([Written(line, req) EXCEPT !.updating = @ + 1])
    <2>1. req.mask \subseteq Bytes /\ line.valid \subseteq Bytes
      BY <1>1, <1>3 DEF Request, LineOK, Line
    <2>2. \A b \in line.valid \cup req.mask : blit(line.data, req.data, req.mask)[b] \in Values
      BY <1>2, <1>3, <2>1, LoadedBlit DEF LineLoaded
    <2>3. /\ Written(line, req).data = blit(line.data, req.data, req.mask)
          /\ Written(line, req).valid = line.valid \cup req.mask
          /\ Written(line, req).state = line.state
          /\ Written(line, req) \in Line
      BY <1>1, <1>3, WrittenOK DEF Written, LineOK, Line
    <2>4. LineLoaded(Written(line, req))
      BY <1>3, <2>1, <2>2, <2>3 DEF LineLoaded
    <2> QED
      BY <2>3, <2>4 DEF LineLoaded, Line
  <1>7. /\ c \in Nodes /\ outgoing(c) \in Channels /\ incoming(c) \in Channels
        /\ incoming(c) # outgoing(c)
    BY NodeChannels, DistinctChannels
  <1>8. CASE MissEvict(c)
    <2>1. PICK v \in Addrs : lines[c][v].state = LINE_FULL /\ EvictLine(c, v)
      BY <1>8 DEF MissEvict, Replaceable
    <2>2. MsgLoaded(EvictionMsg(c, v)) /\ EvictionMsg(c, v) \in Message
      <3>1. /\ EvictionMsg(c, v) \in Message
            /\ EvictionMsg(c, v).type = EVICTION
            /\ EvictionMsg(c, v).data = lines[c][v].data
        BY <2>1, EvictionMsgOK, Parts DEF RingOK, EvictionMsg, RequestMsg
      <3> QED
        BY <2>1, <3>1 DEF MsgLoaded, LoadedInv, LoadedLines, LineLoaded, EVICTION, UPDATE
    <2>3. LoadedMessages' /\ LoadedLines'
      BY <1>5, <1>7, <2>1, <2>2, LoadedMove, LoadedSetLine DEF EvictLine, LoadedInv
    <2> QED
      BY <1>4, <2>3 DEF LoadedInv
  <1>9. CASE MissLoad(c)
    <2>1. RequestMsg(c, req.addr) \in Message /\ MsgLoaded(RequestMsg(c, req.addr))
      BY <1>1, RequestMsgOK DEF RingOK, MsgLoaded, RequestMsg, REQUEST, REQUEST_DATA,
         REQUEST_DATA_TOKEN, EVICTION, UPDATE
    <2>2. LoadedMessages' /\ LoadedLines'
      BY <1>1, <1>5, <1>7, <1>9, <2>1, LoadedMove, LoadedSetLine DEF MissLoad, LoadedInv
    <2> QED
      BY <1>4, <2>2 DEF LoadedInv
  <1>10. CASE ReadHit(c)
    BY <1>4, <1>10 DEF ReadHit, LoadedInv, LoadedMessages, LoadedLines
  <1>11. CASE WriteHitExclusive(c)
    <2>1. LoadedLines' /\ net' = net
      BY <1>1, <1>6, <1>11, LoadedSetLine DEF WriteHitExclusive, LoadedInv
    <2> QED
      BY <1>4, <2>1 DEF LoadedInv, LoadedMessages
  <1>12. CASE WriteHitShared(c)
    <2>1. UpdateMsg(c, req) \in Message /\ MsgLoaded(UpdateMsg(c, req))
      <3>1. /\ UpdateMsg(c, req) \in Message /\ UpdateMsg(c, req).type = UPDATE
            /\ UpdateMsg(c, req).data = req.data /\ UpdateMsg(c, req).mask = req.mask
        BY <1>1, UpdateMsgOK DEF RingOK, UpdateMsg, RequestMsg
      <3> QED
        BY <1>2, <3>1 DEF MsgLoaded, REQUEST_DATA, REQUEST_DATA_TOKEN, EVICTION, UPDATE
    <2>2. LoadedMessages' /\ LoadedLines'
      BY <1>1, <1>6, <1>7, <1>12, <2>1, LoadedMove, LoadedSetLine DEF WriteHitShared, LoadedInv
    <2> QED
      BY <1>4, <2>2 DEF LoadedInv
  <1> QED
    BY <1>8, <1>9, <1>10, <1>11, <1>12 DEF DoRequests

\* A message that a node passes on keeps its bytes
LEMMA LoadedPass ==
  ASSUME IInv, LoadedInv, NEW from \in Channels, NEW to \in Channels, from # to,
         net[from] # <<>>, NEW m \in Message,
         m.type = Head(net[from]).type, m.data = Head(net[from]).data,
         m.mask = Head(net[from]).mask, Pass(from, to, m)
  PROVE  LoadedMessages'
  <1>1. MsgLoaded(m)
    BY LoadedMove DEF LoadedInv, MsgLoaded
  <1> QED
    BY <1>1, LoadedMove DEF LoadedInv

LEMMA LoadedReceive ==
  ASSUME IInv, LoadedInv, NEW c \in Caches, DoReceive(c)
  PROVE  LoadedInv'
  <1> DEFINE msg  == Front(c)
             line == lines[c][msg.addr]
  <1>0. /\ c \in Nodes /\ outgoing(c) \in Channels /\ incoming(c) \in Channels
        /\ incoming(c) # outgoing(c) /\ net[incoming(c)] # <<>>
        /\ msg = Head(net[incoming(c)])
    BY NodeChannels, DistinctChannels DEF DoReceive, ReceiveIgnored, ReceiveRequest,
       ReceiveResponse, ReceiveEviction, IsEviction, ReceiveOwnUpdate, ReceiveUpdate,
       HasMessage, Front
  <1>1. msg \in Message /\ RingOK(msg) /\ msg.addr \in Addrs
    BY <1>0, NodeFront DEF RingOK, Message
  <1>2. LineOK(line) /\ LineLoaded(line)
    BY <1>1, Parts DEF LinesOK, LoadedInv, LoadedLines
  <1>3. MsgLoaded(msg)
    BY <1>0, <1>1, LoadedMove DEF LoadedInv
  <1>4. LoadedBus' /\ LoadedMemory'
    BY DEF DoReceive, ReceiveIgnored, ReceiveRequest, ReceiveResponse, ReceiveEviction,
       ReceiveOwnUpdate, ReceiveUpdate, LoadedInv, LoadedBus, LoadedMemory
  <1>5. Take(incoming(c)) => LoadedMessages'
    BY <1>0, <1>1, LoadedMove DEF LoadedInv
  <1>6. Forward(c, msg) => LoadedMessages'
    BY <1>0, <1>1, <1>3, LoadedMove DEF Forward, LoadedInv
  <1>7. CASE ReceiveIgnored(c)
    BY <1>4, <1>6, <1>7 DEF ReceiveIgnored, LoadedInv, LoadedLines
  <1>8. CASE ReceiveRequest(c)
    <2>1. Answered(msg, line) \in Message /\ MsgLoaded(Answered(msg, line))
      <3>0. RingOK(Answered(msg, line))
        BY <1>1, <1>2, <1>8, AnsweredOK DEF ReceiveRequest
      <3>1. Answered(msg, line) \in Message
        BY <3>0 DEF RingOK
      <3>2. CASE Answered(msg, line) = msg
        BY <1>3, <3>1, <3>2
      <3>3. CASE GivesToken(line) \/ GivesData(line, msg)
        <4>1. /\ Answered(msg, line).type \in {REQUEST_DATA, REQUEST_DATA_TOKEN}
              /\ Answered(msg, line).data = line.data
          BY <1>1, <3>3 DEF Answered, Message
        <4>2. \A b \in Bytes : line.data[b] \in Values
          BY <1>2, <3>3 DEF GivesToken, GivesData, LineLoaded
        <4>3. Answered(msg, line).type # UPDATE
          BY <4>1 DEF REQUEST_DATA, REQUEST_DATA_TOKEN, UPDATE
        <4> QED
          BY <3>1, <4>1, <4>2, <4>3 DEF MsgLoaded
      <3> QED
        BY <3>1, <3>2, <3>3 DEF Answered
    <2>2. LoadedMessages'
      BY <1>0, <1>8, <2>1, LoadedMove DEF ReceiveRequest, Forward, LoadedInv
    <2>3. LineLoaded([line EXCEPT !.tokens = @ - 1])
      BY <1>2 DEF LineLoaded, LineOK, Line
    <2>4. LoadedLines'
      BY <1>1, <1>2, <1>8, <2>3, LoadedSetLine DEF ReceiveRequest, LoadedInv
    <2> QED
      BY <1>4, <2>2, <2>4 DEF LoadedInv
  <1>9. CASE ReceiveResponse(c)
    <2>1. LineLoaded(Filled(line, msg))
      <3>1. /\ Filled(line, msg).valid = Bytes
            /\ Filled(line, msg).data = blit(msg.data, line.data, line.valid)
        BY <1>1, <1>2 DEF Filled, LineOK, Line
      <3>2. \A b \in Bytes : msg.data[b] \in Values
        BY <1>3, <1>9 DEF MsgLoaded, ReceiveResponse
      <3> QED
        BY <1>2, <3>1, <3>2, LoadedBlit DEF LineLoaded
    <2>2. LoadedLines'
      BY <1>1, <1>9, <2>1, LoadedSetLine DEF ReceiveResponse, LoadedInv
    <2> QED
      BY <1>4, <1>5, <1>9, <2>2 DEF ReceiveResponse, LoadedInv
  <1>10. CASE ReceiveEviction(c)
    <2>1. LineLoaded(Merged(line, msg))
      BY <1>1, <1>2 DEF Merged, LineLoaded, LineOK, Line
    <2>2. LineLoaded(Stored(msg))
      <3>1. Stored(msg).valid = Bytes /\ Stored(msg).data = msg.data
        BY DEF Stored, EmptyLine
      <3>2. \A b \in Bytes : msg.data[b] \in Values
        BY <1>3, <1>10 DEF MsgLoaded, ReceiveEviction, IsEviction
      <3> QED
        BY <3>1, <3>2 DEF LineLoaded
    <2>3. \/ SetLine(c, msg.addr, Merged(line, msg)) /\ Take(incoming(c))
          \/ SetLine(c, msg.addr, Stored(msg)) /\ Take(incoming(c))
          \/ Forward(c, msg) /\ lines' = lines
      BY <1>10 DEF ReceiveEviction
    <2>4. LoadedLines' /\ LoadedMessages'
      BY <1>1, <1>5, <1>6, <2>1, <2>2, <2>3, LoadedSetLine DEF LoadedInv, LoadedLines
    <2> QED
      BY <1>4, <2>4 DEF LoadedInv
  <1>11. CASE ReceiveOwnUpdate(c)
    <2>1. LineLoaded([line EXCEPT !.updating = @ - 1])
      BY <1>2 DEF LineLoaded, LineOK, Line
    <2>2. SetLine(c, msg.addr, [line EXCEPT !.updating = @ - 1])
      BY <1>1, <1>11, Parts DEF ReceiveOwnUpdate, SetLine, LinesOK
    <2>3. LoadedLines'
      BY <1>1, <2>1, <2>2, LoadedSetLine DEF LoadedInv
    <2> QED
      BY <1>4, <1>5, <1>11, <2>3 DEF ReceiveOwnUpdate, LoadedInv
  <1>12. CASE ReceiveUpdate(c)
    <2>1. LineLoaded(Updated(line, msg))
      <3>1. CASE line.state = LINE_EMPTY
        BY <1>2, <3>1 DEF Updated
      <3>2. CASE line.state # LINE_EMPTY
        <4>1. /\ Updated(line, msg).data = blit(line.data, msg.data, msg.mask)
              /\ Updated(line, msg).valid = line.valid \cup msg.mask
              /\ Updated(line, msg).state = line.state
          BY <1>2, <3>2 DEF Updated, LineOK, Line
        <4>2. line.valid \subseteq Bytes /\ msg.mask \subseteq Bytes
          BY <1>1, <1>2 DEF LineOK, Line, Message
        <4>3. \A b \in msg.mask : msg.data[b] \in Values
          BY <1>3, <1>12 DEF MsgLoaded, ReceiveUpdate
        <4> QED
          BY <1>2, <4>1, <4>2, <4>3, LoadedBlit DEF LineLoaded
      <3> QED
        BY <3>1, <3>2
    <2>2. LoadedLines'
      BY <1>1, <1>12, <2>1, LoadedSetLine DEF ReceiveUpdate, LoadedInv
    <2> QED
      BY <1>4, <1>6, <1>12, <2>2 DEF ReceiveUpdate, LoadedInv
  <1> QED
    BY <1>7, <1>8, <1>9, <1>10, <1>11, <1>12 DEF DoReceive

LEMMA LoadedDirectory ==
  ASSUME IInv, LoadedInv, NEW d \in Directories, DirectoryStep(d)
  PROVE  LoadedInv'
  <1>1. UNCHANGED <<lines, bus, mem>>
    BY DEF DirectoryStep, DoInBottom, DoInTop
  <1>2. /\ incoming(Top(d)) \in Channels /\ outgoing(Top(d)) \in Channels
        /\ incoming(Bottom(d)) \in Channels /\ outgoing(Bottom(d)) \in Channels
    BY NodeChannels
  <1>3. PICK n \in {Top(d), Bottom(d)}, to \in {outgoing(Top(d)), outgoing(Bottom(d))},
             i \in BOOLEAN :
          net[incoming(n)] # <<>> /\ LET msg == Head(net[incoming(n)]) IN
            Pass(incoming(n), to, [msg EXCEPT !.ignore = i]) \/ Pass(incoming(n), to, msg)
    BY DEF DirectoryStep, DoInBottom, DoInTop
  <1> DEFINE msg == Head(net[incoming(n)])
             fl  == [msg EXCEPT !.ignore = i]
  <1>4. msg \in Message
    BY <1>2, <1>3, FrontOK, Parts
  <1>5. /\ fl \in Message /\ fl.type = msg.type /\ fl.data = msg.data
        /\ fl.mask = msg.mask
    BY <1>4 DEF Message
  <1>6. LoadedMessages'
    <2> HIDE DEF fl
    <2> QED
      BY <1>2, <1>3, <1>4, <1>5, LoadedPass, DistinctChannels DEF fl
  <1> QED
    BY <1>1, <1>6 DEF LoadedInv, LoadedLines, LoadedBus, LoadedMemory

LEMMA LoadedRoot ==
  ASSUME IInv, LoadedInv, NEW r \in Roots, RootStep(r)
  PROVE  LoadedInv'
  <1>1. UNCHANGED <<lines, bus>>
    BY DEF RootStep, DoIncoming, RootPass, RootRequest, RootRequestData, RootEviction,
       DoMemory, OnReadCompleted, DoResponses
  <1>2. /\ r \in Nodes /\ incoming(r) \in Channels /\ outgoing(r) \in Channels
        /\ requests(r) \in Channels /\ responses(r) \in Channels /\ active(r) \in Channels
    BY NodeChannels
  <1>3. CASE DoIncoming(r)
    <2> DEFINE msg == Head(net[incoming(r)])
               fl  == [msg EXCEPT !.ignore = TRUE]
    <2>1. net[incoming(r)] # <<>> /\ mem' = mem
      BY <1>3 DEF DoIncoming, RootPass, RootRequest, RootRequestData, RootEviction, AtRoot
    <2>2. msg \in Message /\ MsgLoaded(msg)
      BY <1>2, <2>1, FrontOK, Parts, LoadedMove, DistinctChannels DEF LoadedInv
    <2>3. /\ fl \in Message /\ fl.type = msg.type /\ fl.data = msg.data
          /\ fl.mask = msg.mask
      BY <2>2 DEF Message
    <2>4. ForwardRoot(r, msg) => LoadedMessages'
      <3> HIDE DEF fl
      <3> QED
        BY <1>2, <2>1, <2>2, <2>3, LoadedPass, DistinctChannels DEF ForwardRoot, fl
    <2>5. Take(incoming(r)) \/ Pass(incoming(r), requests(r), msg) => LoadedMessages'
      BY <1>2, <2>1, <2>2, LoadedMove, DistinctChannels DEF LoadedInv
    <2>6. ASSUME RootRequestData(r) PROVE LoadedMessages'
      <3> DEFINE give == IF dir[r][msg.addr].state = DIR_EMPTY THEN TotalTokens
                         ELSE dir[r][msg.addr].tokens
                 ans  == [msg EXCEPT !.type = REQUEST_DATA_TOKEN, !.tokens = give]
                 afl  == [ans EXCEPT !.ignore = TRUE]
      <3>1. msg.type = REQUEST_DATA
        BY <2>6 DEF RootRequestData, AtRoot
      <3>2. give \in Nat
        BY <1>2, <2>2, TotalTokensType, Parts DEF Others, Entry, Message
      <3>3. /\ ans \in Message /\ ans.type = REQUEST_DATA_TOKEN /\ ans.data = msg.data
            /\ afl \in Message /\ afl.type = REQUEST_DATA_TOKEN /\ afl.data = msg.data
        <4> HIDE DEF give
        <4> QED
          BY <2>2, <3>2 DEF Message, MsgType
      <3>4. MsgLoaded(ans) /\ MsgLoaded(afl)
        BY <2>2, <3>1, <3>3 DEF MsgLoaded, REQUEST_DATA, REQUEST_DATA_TOKEN, UPDATE
      <3>5. ForwardRoot(r, ans) \/ ForwardRoot(r, msg)
        BY <2>6 DEF RootRequestData
      <3> HIDE DEF ans, give
      <3>6. ForwardRoot(r, ans) => LoadedMessages'
        <4>1. ForwardRoot(r, ans) =>
                Pass(incoming(r), outgoing(r), ans) \/ Pass(incoming(r), requests(r), afl)
          BY DEF ForwardRoot
        <4> HIDE DEF afl
        <4> QED
          BY <1>2, <2>1, <3>3, <3>4, <4>1, LoadedMove, DistinctChannels DEF LoadedInv
      <3> QED
        BY <2>4, <3>5, <3>6
    <2>7. LoadedMessages'
      BY <1>3, <2>4, <2>5, <2>6 DEF DoIncoming, RootPass, RootRequest, RootEviction
    <2> QED
      BY <1>1, <2>1, <2>7 DEF LoadedInv, LoadedLines, LoadedBus, LoadedMemory
  <1>4. CASE DoMemory(r)
    <2> DEFINE msg == Head(net[requests(r)])
    <2>1. net[requests(r)] # <<>>
      BY <1>4 DEF DoMemory
    <2>2. msg \in Message /\ msg.addr \in Addrs /\ MsgLoaded(msg)
      BY <1>2, <2>1, PipeFront, LoadedMove, DistinctChannels DEF LoadedInv, MsgOK
    <2>3. \/ Pass(requests(r), responses(r), msg) \/ Pass(requests(r), active(r), msg)
          \/ Take(requests(r))
      BY <1>4 DEF DoMemory
    <2>4. LoadedMessages'
      BY <1>2, <2>1, <2>2, <2>3, LoadedMove, DistinctChannels DEF LoadedInv
    <2>5. mem' = mem \/ (msg.type = EVICTION /\ mem' = [mem EXCEPT ![msg.addr] = msg.data])
      BY <1>4 DEF DoMemory
    <2>6. LoadedMemory'
      BY <2>2, <2>5, Parts DEF LoadedInv, LoadedMemory, MsgLoaded, Others
    <2> QED
      BY <1>1, <2>4, <2>6 DEF LoadedInv, LoadedLines, LoadedBus
  <1>5. CASE OnReadCompleted(r)
    <2> DEFINE msg == Head(net[active(r)])
               ans == [msg EXCEPT !.type = REQUEST_DATA_TOKEN, !.dirty = FALSE,
                                  !.data = mem[msg.addr]]
    <2>1. net[active(r)] # <<>> /\ Pass(active(r), responses(r), ans) /\ mem' = mem
      BY <1>5 DEF OnReadCompleted
    <2>2. msg \in Message /\ msg.addr \in Addrs /\ mem[msg.addr] \in Data
      BY <1>2, <2>1, PipeFront, Parts DEF MsgOK, Others
    <2>3. ans \in Message /\ ans.type = REQUEST_DATA_TOKEN /\ ans.data = mem[msg.addr]
      BY <2>2 DEF Message, MsgType
    <2> HIDE DEF ans
    <2>4. MsgLoaded(ans)
      BY <2>2, <2>3 DEF MsgLoaded, LoadedInv, LoadedMemory, REQUEST_DATA_TOKEN, UPDATE
    <2>5. LoadedMessages'
      BY <1>2, <2>1, <2>3, <2>4, LoadedMove, DistinctChannels DEF LoadedInv
    <2> QED
      BY <1>1, <2>1, <2>5 DEF LoadedInv, LoadedLines, LoadedBus, LoadedMemory
  <1>6. CASE DoResponses(r)
    <2> DEFINE msg == Head(net[responses(r)])
               fl  == [msg EXCEPT !.ignore = FALSE]
               ans == [msg EXCEPT !.tokens = TotalTokens,
                                  !.sender = dir[r][msg.addr].sender]
    <2>1. /\ net[responses(r)] # <<>> /\ mem' = mem
          /\ Pass(responses(r), outgoing(r), fl) \/ Pass(responses(r), outgoing(r), ans)
      BY <1>6 DEF DoResponses
    <2>2. msg \in Message /\ dir[r][msg.addr].sender \in Caches
      BY <1>2, <2>1, PipeFront, Parts DEF MsgOK, Others, Entry
    <2>3. /\ fl \in Message /\ fl.type = msg.type /\ fl.data = msg.data /\ fl.mask = msg.mask
          /\ ans \in Message /\ ans.type = msg.type /\ ans.data = msg.data
          /\ ans.mask = msg.mask
      BY <2>2, TotalTokensType DEF Message
    <2> HIDE DEF fl, ans
    <2>4. LoadedMessages'
      BY <1>2, <2>1, <2>3, LoadedPass, DistinctChannels
    <2> QED
      BY <1>1, <2>1, <2>4 DEF LoadedInv, LoadedLines, LoadedBus, LoadedMemory
  <1> QED
    BY <1>3, <1>4, <1>5, <1>6 DEF RootStep

LEMMA LoadedInit == Init => LoadedInv
  <1> SUFFICES ASSUME Init PROVE LoadedInv
    OBVIOUS
  <1>1. LoadedLines
    BY DEF Init, InitCache, LoadedLines, LineLoaded, EmptyLine, LINE_EMPTY, LINE_FULL
  <1>2. LoadedMessages /\ LoadedBus
    BY DEF Init, InitCache, LoadedMessages, LoadedBus, Letters
  <1>3. LoadedMemory
    BY CDMAAssumption DEF Init, LoadedMemory, Memory
  <1> QED
    BY <1>1, <1>2, <1>3 DEF LoadedInv

LEMMA LoadedNext == IInv /\ LoadedInv /\ [Next]_vars => LoadedInv'
  <1> SUFFICES ASSUME IInv, LoadedInv, [Next]_vars PROVE LoadedInv'
    OBVIOUS
  <1>1. CASE UNCHANGED vars
    BY <1>1 DEF vars, LoadedInv, LoadedLines, LoadedMessages, LoadedBus, LoadedMemory
  <1> QED
    BY <1>1, LoadedClient, LoadedForward, LoadedRequests, LoadedReceive, LoadedDirectory,
       LoadedRoot DEF Next, CacheStep

(* No byte that was never loaded or written reaches a full line, a message   *)
(* with data or memory: the validity masks of Cache.cpp suffice for every    *)
(* line length, number of caches and order of messages.                     *)
THEOREM LoadedOnly == Spec => []AllLoaded
  <1> QED
    BY InitOK, NextOK, LoadedInit, LoadedNext, LoadedImplies, PTL DEF Spec

-----------------------------------------------------------------------------
(* The quantities the protocol keeps equal: weights of a letter x            *)

\* A read that waits for its data from memory
Pending(x) == x[1][1] \in MemoryPipe /\ ~ x[2].ignore /\ x[2].type # EVICTION

\* The tokens it carries; those of a writeback are spent
Tok(x) ==
  IF /\ x[2].type \in CarriesTokens
     /\ ~ (x[1][1] = "requests" /\ x[2].type = EVICTION /\ ~ x[2].ignore)
  THEN x[2].tokens ELSE 0

\* Those that count for the directory of a low ring
RingTok(d, x) == IF x[1] \in RingChannels(d) /\ ~ x[2].ignore THEN Tok(x) ELSE 0

TokW(a)     == [x \in Channels \X Message |-> IF x[2].addr = a THEN Tok(x) ELSE 0]
RingW(d, a) == [x \in Channels \X Message |-> IF x[2].addr = a THEN RingTok(d, x) ELSE 0]
PendW(a)    == [x \in Channels \X Message |-> IF x[2].addr = a /\ Pending(x) THEN 1 ELSE 0]
ReqW(c, a)  == [x \in Channels \X Message |->
                  IF x[2].addr = a /\ x[2].sender = c /\ x[2].type \in RequestTypes
                  THEN 1 ELSE 0]
UpdW(c, a)  == [x \in Channels \X Message |->
                  IF x[2].addr = a /\ x[2].sender = c /\ x[2].type = UPDATE THEN 1 ELSE 0]
AllUpdW(c)  == [x \in Channels \X Message |->
                  IF x[2].sender = c /\ x[2].type = UPDATE THEN 1 ELSE 0]

LEMMA WeightTypes ==
  /\ \A a : TokW(a) \in Weights /\ PendW(a) \in Weights
  /\ \A d, a : RingW(d, a) \in Weights
  /\ \A c, a : ReqW(c, a) \in Weights /\ UpdW(c, a) \in Weights
  /\ \A c : AllUpdW(c) \in Weights
  <1>1. \A x \in Channels \X Message : Tok(x) \in Nat
    BY DEF Tok, Message
  <1>2. \A d : \A x \in Channels \X Message : RingTok(d, x) \in Nat
    BY <1>1 DEF RingTok
  <1> QED
    BY <1>1, <1>2 DEF Weights, TokW, PendW, RingW, ReqW, UpdW, AllUpdW

LEMMA WeightValues ==
  ASSUME NEW x \in Channels \X Message
  PROVE  /\ \A a : /\ TokW(a)[x] = IF x[2].addr = a THEN Tok(x) ELSE 0
                   /\ PendW(a)[x] = IF x[2].addr = a /\ Pending(x) THEN 1 ELSE 0
         /\ \A d, a : RingW(d, a)[x] = IF x[2].addr = a THEN RingTok(d, x) ELSE 0
         /\ \A c, a :
              /\ ReqW(c, a)[x] = IF x[2].addr = a /\ x[2].sender = c
                                    /\ x[2].type \in RequestTypes THEN 1 ELSE 0
              /\ UpdW(c, a)[x] = IF x[2].addr = a /\ x[2].sender = c
                                    /\ x[2].type = UPDATE THEN 1 ELSE 0
         /\ \A c : AllUpdW(c)[x] = IF x[2].sender = c /\ x[2].type = UPDATE THEN 1 ELSE 0
  BY DEF TokW, PendW, RingW, ReqW, UpdW, AllUpdW

LEMMA LetterTokens ==
  ASSUME NEW x \in Channels \X Message
  PROVE  Tok(x) \in Nat /\ \A d : RingTok(d, x) \in Nat
  BY DEF Tok, RingTok, Message

-----------------------------------------------------------------------------
(* The tokens in the caches                                                *)

Held(ls, a, C) == UNION {Row(c, ls[c][a].tokens) : c \in C}

LEMMA HeldSet ==
  ASSUME LinesOK(lines), NEW c \in Caches, NEW a \in Addrs, NEW l, LineOK(l),
         SetLine(c, a, l), NEW C \in SUBSET Caches, IsFiniteSet(Held(lines, a, C))
  PROVE  /\ IsFiniteSet(Held(lines', a, C))
         /\ Cardinality(Held(lines', a, C)) =
              IF c \in C THEN Cardinality(Held(lines, a, C)) - lines[c][a].tokens + l.tokens
              ELSE Cardinality(Held(lines, a, C))
         /\ \A b \in Addrs : b # a => Held(lines', b, C) = Held(lines, b, C)
  <1>1. /\ \A x \in Caches, b \in Addrs :
             lines'[x][b] = IF x = c /\ b = a THEN l ELSE lines[x][b]
        /\ lines[c][a].tokens \in Nat /\ l.tokens \in Nat
    BY DEF LinesOK, LineOK, Line, SetLine
  <1>2. \A b \in Addrs : b # a => Held(lines', b, C) = Held(lines, b, C)
    BY <1>1 DEF Held
  <1>3. CASE c \notin C
    <2>1. Held(lines', a, C) = Held(lines, a, C)
      BY <1>1, <1>3 DEF Held
    <2> QED
      BY <1>2, <1>3, <2>1
  <1>4. CASE c \in C
    <2> DEFINE O == Held(lines, a, C \ {c})
               R(k) == Row(c, k)
    <2>1. /\ Held(lines, a, C) = O \cup R(lines[c][a].tokens)
          /\ Held(lines', a, C) = O \cup R(l.tokens)
      BY <1>1, <1>4 DEF Held
    <2>2. O \cap R(lines[c][a].tokens) = {} /\ O \cap R(l.tokens) = {}
      BY DEF Held, Row
    <2>3. IsFiniteSet(O)
      BY <2>1, FS_Subset
    <2>4. /\ IsFiniteSet(R(l.tokens)) /\ Cardinality(R(l.tokens)) = l.tokens
          /\ IsFiniteSet(R(lines[c][a].tokens))
          /\ Cardinality(R(lines[c][a].tokens)) = lines[c][a].tokens
      BY <1>1, RowCount
    <2>5. Cardinality(O) \in Nat
      BY <2>3, FS_CardinalityType
    <2> HIDE DEF O, R
    <2>6. /\ IsFiniteSet(Held(lines', a, C))
          /\ Cardinality(Held(lines, a, C)) = Cardinality(O) + lines[c][a].tokens
          /\ Cardinality(Held(lines', a, C)) = Cardinality(O) + l.tokens
      BY <2>1, <2>2, <2>3, <2>4, DisjointCount
    <2> QED
      BY <1>1, <1>2, <1>4, <2>5, <2>6
  <1> QED
    BY <1>3, <1>4

\* A change of a line that keeps its tokens
LEMMA HeldSame ==
  ASSUME LinesOK(lines), NEW c \in Caches, NEW a \in Addrs, NEW l,
         l.tokens = lines[c][a].tokens, SetLine(c, a, l)
  PROVE  \A b \in Addrs, C \in SUBSET Caches : Held(lines', b, C) = Held(lines, b, C)
  <1>1. \A x \in Caches, b \in Addrs : lines'[x][b].tokens = lines[x][b].tokens
    BY DEF LinesOK, SetLine
  <1> QED
    BY <1>1 DEF Held

-----------------------------------------------------------------------------
(* The writes in the queue of requests                                     *)

QueuedWrites(s) == {k \in DOMAIN s : s[k].write}

LEMMA QueuedAppend ==
  ASSUME NEW s \in Seq(Request), NEW r \in Request
  PROVE  Cardinality(QueuedWrites(Append(s, r))) =
           Cardinality(QueuedWrites(s)) + IF r.write THEN 1 ELSE 0
  <1> DEFINE l == Len(s) + 1
  <1>1. IsFiniteSet(QueuedWrites(s)) /\ l \notin QueuedWrites(s)
    <2>1. IsFiniteSet(1..Len(s)) /\ QueuedWrites(s) \in SUBSET (1..Len(s))
      BY FS_Interval DEF QueuedWrites
    <2> QED
      BY <2>1, FS_Subset
  <1>2. QueuedWrites(Append(s, r)) = IF r.write THEN QueuedWrites(s) \cup {l} ELSE QueuedWrites(s)
    <2>1. /\ DOMAIN Append(s, r) = DOMAIN s \cup {l} /\ l \notin DOMAIN s
          /\ Append(s, r)[l] = r /\ \A k \in DOMAIN s : Append(s, r)[k] = s[k]
      OBVIOUS
    <2> HIDE DEF l
    <2> QED
      BY <2>1 DEF QueuedWrites
  <1>3. Cardinality(QueuedWrites(s)) \in Nat
    BY <1>1, FS_CardinalityType
  <1>4. Cardinality(QueuedWrites(s) \cup {l}) = Cardinality(QueuedWrites(s)) + 1
    BY <1>1, FS_AddElement
  <1> QED
    BY <1>2, <1>3, <1>4

LEMMA QueuedTail ==
  ASSUME NEW s \in Seq(Request), s # <<>>
  PROVE  Cardinality(QueuedWrites(Tail(s))) =
           Cardinality(QueuedWrites(s)) - IF Head(s).write THEN 1 ELSE 0
  <1> DEFINE Rest == QueuedWrites(s) \ {1}
             f    == [k \in Rest |-> k - 1]
  <1>1. /\ Head(s) = s[1] /\ 1 \in DOMAIN s /\ DOMAIN s = 1..Len(s)
        /\ DOMAIN Tail(s) = 1..(Len(s) - 1)
        /\ \A k \in 1..(Len(s) - 1) : Tail(s)[k] = s[k + 1]
    OBVIOUS
  <1>2. IsFiniteSet(QueuedWrites(s)) /\ Cardinality(QueuedWrites(s)) \in Nat
    <2>1. IsFiniteSet(1..Len(s)) /\ QueuedWrites(s) \in SUBSET (1..Len(s))
      BY FS_Interval DEF QueuedWrites
    <2> QED
      BY <2>1, FS_Subset, FS_CardinalityType
  <1>3. /\ IsFiniteSet(Rest)
        /\ Cardinality(Rest) = Cardinality(QueuedWrites(s)) - IF Head(s).write THEN 1 ELSE 0
    <2>1. 1 \in QueuedWrites(s) <=> Head(s).write
      BY <1>1 DEF QueuedWrites
    <2> QED
      BY <1>2, <2>1, FS_RemoveElement
  <1>4. f \in [Rest -> QueuedWrites(Tail(s))]
    BY <1>1 DEF QueuedWrites
  <1>5. \A i, j \in Rest : f[i] = f[j] => i = j
    BY <1>1 DEF QueuedWrites
  <1>6. ASSUME NEW t \in QueuedWrites(Tail(s)) PROVE \E k \in Rest : f[k] = t
    <2>1. t + 1 \in Rest /\ f[t + 1] = t
      BY <1>1 DEF QueuedWrites
    <2> QED
      BY <2>1
  <1> HIDE DEF f, Rest
  <1>7. Cardinality(QueuedWrites(Tail(s))) = Cardinality(Rest)
    BY <1>3, <1>4, <1>5, <1>6, BijectionCount
  <1> QED
    BY <1>3, <1>7

-----------------------------------------------------------------------------
(* What a step does to the counts                                          *)

EntryOf(a) == dir[RootOf[a]][a]

TokensHeld(a)     == Cardinality(Held(lines, a, Caches))
TokensMoving(a)   == Count(net, TokW(a))
ReadsPending(a)   == Count(net, PendW(a))
RequestsOf(c, a)  == Count(net, ReqW(c, a))

One(p) == IF p THEN 1 ELSE 0

IsRequestOf(c, x) == x[2].sender = c /\ x[2].type \in RequestTypes

\* The counts of all lines after letter x left the network
Leaves(x) ==
  \A a \in Addrs :
    /\ TokensMoving(a)' = TokensMoving(a) - IF x[2].addr = a THEN Tok(x) ELSE 0
    /\ ReadsPending(a)' = ReadsPending(a) - One(x[2].addr = a /\ Pending(x))
    /\ \A c : RequestsOf(c, a)' = RequestsOf(c, a) - One(x[2].addr = a /\ IsRequestOf(c, x))

Joins(y) ==
  \A a \in Addrs :
    /\ TokensMoving(a)' = TokensMoving(a) + IF y[2].addr = a THEN Tok(y) ELSE 0
    /\ ReadsPending(a)' = ReadsPending(a) + One(y[2].addr = a /\ Pending(y))
    /\ \A c : RequestsOf(c, a)' = RequestsOf(c, a) + One(y[2].addr = a /\ IsRequestOf(c, y))

Becomes(x, y) ==
  \A a \in Addrs :
    /\ TokensMoving(a)' = TokensMoving(a) - (IF x[2].addr = a THEN Tok(x) ELSE 0)
                                          + (IF y[2].addr = a THEN Tok(y) ELSE 0)
    /\ ReadsPending(a)' = ReadsPending(a) - One(x[2].addr = a /\ Pending(x))
                                          + One(y[2].addr = a /\ Pending(y))
    /\ \A c : RequestsOf(c, a)' = RequestsOf(c, a) - One(x[2].addr = a /\ IsRequestOf(c, x))
                                                   + One(y[2].addr = a /\ IsRequestOf(c, y))

LEMMA CountsType ==
  ASSUME NetFinite(net), NEW a
  PROVE  /\ TokensMoving(a) \in Nat /\ ReadsPending(a) \in Nat
         /\ \A c : RequestsOf(c, a) \in Nat
  BY CountType, WeightTypes DEF TokensMoving, ReadsPending, RequestsOf

\* The change of one weight
LEMMA MoveCounts ==
  ASSUME NetFinite(net), NEW from \in Channels, NEW to \in Channels, from # to,
         NEW m \in Message
  PROVE  /\ net[from] # <<>> /\ Take(from) =>
              /\ NetFinite(net')
              /\ \A W \in Weights :
                   Count(net', W) = Count(net, W) - W[<<from, Head(net[from])>>]
         /\ Put(to, m) =>
              /\ NetFinite(net')
              /\ \A W \in Weights : Count(net', W) = Count(net, W) + W[<<to, m>>]
         /\ net[from] # <<>> /\ Pass(from, to, m) =>
              /\ NetFinite(net')
              /\ \A W \in Weights : Count(net', W) = Count(net, W) - W[<<from, Head(net[from])>>]
                                                     + W[<<to, m>>]
  <1>0. net \in Networks
    BY DEF NetFinite
  <1>1. /\ Take(from) => net' = Without(net, from)
        /\ Put(to, m) => net' = With(net, to, m)
        /\ Pass(from, to, m) => net' = With(Without(net, from), to, m)
    BY <1>0, Moves
  <1>2. net[from] # <<>> =>
          /\ NetFinite(Without(net, from))
          /\ \A W \in Weights :
               Count(Without(net, from), W) = Count(net, W) - W[<<from, Head(net[from])>>]
    BY WithoutFlow
  <1>3. \A n : NetFinite(n) =>
          /\ NetFinite(With(n, to, m))
          /\ \A W \in Weights : Count(With(n, to, m), W) = Count(n, W) + W[<<to, m>>]
    BY WithFlow
  <1> QED
    BY <1>1, <1>2, <1>3

LEMMA Flow ==
  ASSUME NetFinite(net), NEW from \in Channels, NEW to \in Channels, from # to,
         NEW m \in Message
  PROVE  /\ net[from] # <<>> /\ Take(from) =>
              NetFinite(net') /\ Leaves(<<from, Head(net[from])>>)
         /\ Put(to, m) => NetFinite(net') /\ Joins(<<to, m>>)
         /\ net[from] # <<>> /\ Pass(from, to, m) =>
              NetFinite(net') /\ Becomes(<<from, Head(net[from])>>, <<to, m>>)
  <1> DEFINE x == <<from, Head(net[from])>>
             y == <<to, m>>
  <1>1. y \in Channels \X Message /\ (net[from] # <<>> => x \in Channels \X Message)
    BY LettersType DEF NetFinite
  <1>2. \A z \in Channels \X Message :
          /\ \A a : /\ TokW(a)[z] = IF z[2].addr = a THEN Tok(z) ELSE 0
                    /\ PendW(a)[z] = One(z[2].addr = a /\ Pending(z))
          /\ \A c, a : ReqW(c, a)[z] = One(z[2].addr = a /\ IsRequestOf(c, z))
    BY WeightValues DEF One, IsRequestOf
  <1>3. \A a : /\ TokW(a) \in Weights /\ PendW(a) \in Weights
               /\ \A c : ReqW(c, a) \in Weights
    BY WeightTypes
  <1> HIDE DEF x, y
  <1>4. ASSUME net[from] # <<>>, Take(from) PROVE NetFinite(net') /\ Leaves(x)
    <2>1. NetFinite(net') /\ \A W \in Weights : Count(net', W) = Count(net, W) - W[x]
      BY <1>4, MoveCounts DEF x
    <2> QED
      BY <1>1, <1>2, <1>3, <1>4, <2>1 DEF Leaves, TokensMoving, ReadsPending, RequestsOf
  <1>5. ASSUME Put(to, m) PROVE NetFinite(net') /\ Joins(y)
    <2>1. NetFinite(net') /\ \A W \in Weights : Count(net', W) = Count(net, W) + W[y]
      BY <1>5, MoveCounts DEF y
    <2> QED
      BY <1>1, <1>2, <1>3, <1>5, <2>1 DEF Joins, TokensMoving, ReadsPending, RequestsOf
  <1>6. ASSUME net[from] # <<>>, Pass(from, to, m) PROVE NetFinite(net') /\ Becomes(x, y)
    <2>1. NetFinite(net') /\ \A W \in Weights : Count(net', W) = Count(net, W) - W[x] + W[y]
      BY <1>6, MoveCounts DEF x, y
    <2> QED
      BY <1>1, <1>2, <1>3, <1>6, <2>1 DEF Becomes, TokensMoving, ReadsPending, RequestsOf
  <1> QED
    BY <1>4, <1>5, <1>6 DEF x, y

\* A network that nothing moved in
LEMMA Still ==
  ASSUME NetFinite(net), net' = net
  PROVE  /\ NetFinite(net') /\ Letters(net') = Letters(net)
         /\ \A a \in Addrs : /\ TokensMoving(a)' = TokensMoving(a)
                             /\ ReadsPending(a)' = ReadsPending(a)
                             /\ \A c : RequestsOf(c, a)' = RequestsOf(c, a)
  BY DEF TokensMoving, ReadsPending, RequestsOf

-----------------------------------------------------------------------------
(* The books of tokens and read requests                                   *)

\* A request without an answer has no tokens; a read that waits for memory is
\* the one the entry was made for; a writeback is never answered
LetterOK(entries, x) ==
  LET m == x[2] IN
  /\ m.type \in {REQUEST, REQUEST_DATA} => m.tokens = 0
  /\ Pending(x) =>
       /\ x[1][2] = RootOf[m.addr]
       /\ m.sender = entries[RootOf[m.addr]][m.addr].sender
       /\ m.tokens = 0
       /\ m.type = IF x[1][1] = "responses" THEN REQUEST_DATA_TOKEN ELSE REQUEST
  /\ x[1][1] \in MemoryPipe /\ ~ m.ignore /\ m.type = EVICTION => x[1][1] = "requests"

LettersSound == \A x \in Letters(net) : LetterOK(dir, x)

TokenBook(a) ==
  /\ IsFiniteSet(Held(lines, a, Caches))
  /\ TokensHeld(a) + TokensMoving(a) + EntryOf(a).tokens =
       IF EntryOf(a).state = DIR_FULL THEN TotalTokens ELSE 0
  /\ ReadsPending(a) = One(EntryOf(a).state = DIR_LOADING)

RequestBook(c, a) == RequestsOf(c, a) = One(lines[c][a].state = LINE_LOADING)

TokenInv ==
  /\ NetFinite(net)
  /\ LettersSound
  /\ \A a \in Addrs : TokenBook(a)
  /\ \A c \in Caches, a \in Addrs : RequestBook(c, a)

LEMMA BookTypes ==
  ASSUME IInv, TokenInv, NEW a \in Addrs
  PROVE  /\ EntryOf(a) \in Entry /\ EntryOf(a).tokens \in Nat
         /\ TokensHeld(a) \in Nat /\ TokensMoving(a) \in Nat /\ ReadsPending(a) \in Nat
         /\ \A c : RequestsOf(c, a) \in Nat
         /\ \A c \in Caches : /\ LineOK(lines[c][a]) /\ lines[c][a].tokens \in Nat
                              /\ lines[c][a].state \in {LINE_EMPTY, LINE_LOADING, LINE_FULL}
  <1>1. EntryOf(a) \in Entry
    BY Parts, RootAssumption DEF Others, EntryOf
  <1>2. \A c \in Caches : LineOK(lines[c][a]) /\ lines[c][a] \in Line
    BY Parts DEF LinesOK, LineOK
  <1>3. TokensHeld(a) \in Nat
    BY FS_CardinalityType DEF TokenInv, TokenBook, TokensHeld
  <1> QED
    BY <1>1, <1>2, <1>3, CountsType DEF Entry, Line, TokenInv

\* No cache has more tokens than there are
LEMMA HeldAll ==
  ASSUME IInv, TokenInv, NEW c \in Caches, NEW a \in Addrs
  PROVE  lines[c][a].tokens <= TokensHeld(a)
  <1>1. lines[c][a].tokens \in Nat
    BY BookTypes
  <1>2. Row(c, lines[c][a].tokens) \subseteq Held(lines, a, Caches)
    BY DEF Held
  <1>3. IsFiniteSet(Held(lines, a, Caches))
    BY DEF TokenInv, TokenBook
  <1> QED
    BY <1>1, <1>2, <1>3, RowCount, FS_Subset DEF TokensHeld

\* What the books say of one message
LEMMA LetterFacts ==
  ASSUME IInv, TokenInv, NEW x \in Letters(net)
  PROVE  /\ x \in Channels \X Message /\ x[2].addr \in Addrs /\ LetterOK(dir, x)
         /\ Tok(x) > 0 => EntryOf(x[2].addr).state = DIR_FULL
         /\ Pending(x) => EntryOf(x[2].addr).state = DIR_LOADING
         /\ \A c \in Caches :
              IsRequestOf(c, x) => /\ lines[c][x[2].addr].state = LINE_LOADING
                                   /\ RequestsOf(c, x[2].addr) = 1
  <1> DEFINE a == x[2].addr
  <1>1. x \in Channels \X Message /\ a \in Addrs /\ LetterOK(dir, x)
    BY LettersType DEF TokenInv, NetFinite, LettersSound, Message
  <1>2. /\ TokW(a)[x] = Tok(x) /\ Tok(x) \in Nat
        /\ PendW(a)[x] = One(Pending(x))
        /\ \A c : ReqW(c, a)[x] = One(IsRequestOf(c, x))
    BY <1>1, WeightValues, LetterTokens DEF One, IsRequestOf
  <1>3. /\ TokW(a)[x] <= TokensMoving(a) /\ PendW(a)[x] <= ReadsPending(a)
        /\ \A c : ReqW(c, a)[x] <= RequestsOf(c, a)
    BY CountsAll, WeightTypes DEF TokenInv, TokensMoving, ReadsPending, RequestsOf
  <1>4. TokenBook(a) /\ \A c \in Caches : RequestBook(c, a)
    BY <1>1 DEF TokenInv
  <1>5. /\ TokensHeld(a) \in Nat /\ TokensMoving(a) \in Nat /\ ReadsPending(a) \in Nat
        /\ EntryOf(a).tokens \in Nat /\ \A c : RequestsOf(c, a) \in Nat
    BY <1>1, BookTypes
  <1> HIDE DEF a
  <1>6. Tok(x) > 0 => EntryOf(a).state = DIR_FULL
    BY <1>2, <1>3, <1>4, <1>5 DEF TokenBook
  <1>7. Pending(x) => EntryOf(a).state = DIR_LOADING
    BY <1>2, <1>3, <1>4, <1>5 DEF TokenBook, One
  <1>8. \A c \in Caches : IsRequestOf(c, x) => lines[c][a].state = LINE_LOADING
                                               /\ RequestsOf(c, a) = 1
    BY <1>2, <1>3, <1>4, <1>5 DEF RequestBook, One
  <1> QED
    BY <1>1, <1>6, <1>7, <1>8 DEF a

\* What they say of a line that is not in the system
LEMMA EntryFacts ==
  ASSUME IInv, TokenInv, NEW a \in Addrs, EntryOf(a).state # DIR_FULL
  PROVE  /\ EntryOf(a).tokens = 0 /\ TokensHeld(a) = 0 /\ TokensMoving(a) = 0
         /\ \A c \in Caches : lines[c][a].tokens = 0
         /\ EntryOf(a).state = DIR_EMPTY => ReadsPending(a) = 0
  <1>1. TokenBook(a)
    BY DEF TokenInv
  <1>2. EntryOf(a).tokens = 0 /\ TokensHeld(a) = 0 /\ TokensMoving(a) = 0
    BY <1>1, BookTypes DEF TokenBook
  <1>3. \A c \in Caches : lines[c][a].tokens = 0
    BY <1>2, HeldAll, BookTypes
  <1> QED
    BY <1>1, <1>2, <1>3 DEF TokenBook, One, DIR_EMPTY, DIR_LOADING

\* The lines after one is set
LEMMA SetLineBooks ==
  ASSUME IInv, TokenInv, NEW c \in Caches, NEW a \in Addrs, NEW l, LineOK(l),
         SetLine(c, a, l)
  PROVE  /\ \A b \in Addrs :
              /\ IsFiniteSet(Held(lines', b, Caches))
              /\ TokensHeld(b)' = TokensHeld(b) + IF b = a THEN l.tokens - lines[c][a].tokens ELSE 0
         /\ \A d \in Caches, b \in Addrs :
              lines'[d][b] = IF d = c /\ b = a THEN l ELSE lines[d][b]
  <1>1. LinesOK(lines) /\ \A b \in Addrs : IsFiniteSet(Held(lines, b, Caches))
    BY Parts DEF TokenInv, TokenBook
  <1>2. /\ lines[c][a].tokens \in Nat /\ l.tokens \in Nat
        /\ \A b \in Addrs : TokensHeld(b) \in Nat
    BY BookTypes DEF LineOK, Line
  <1>3. /\ IsFiniteSet(Held(lines', a, Caches))
        /\ Cardinality(Held(lines', a, Caches)) =
             Cardinality(Held(lines, a, Caches)) - lines[c][a].tokens + l.tokens
        /\ \A b \in Addrs : b # a => Held(lines', b, Caches) = Held(lines, b, Caches)
    BY <1>1, HeldSet
  <1>4. \A d \in Caches, b \in Addrs :
          lines'[d][b] = IF d = c /\ b = a THEN l ELSE lines[d][b]
    BY <1>1 DEF SetLine, LinesOK
  <1> QED
    BY <1>1, <1>2, <1>3, <1>4 DEF TokensHeld

-----------------------------------------------------------------------------
(* Steps that keep the books                                               *)

\* No entry that waits for memory changes hands
SendersKept ==
  \A a \in Addrs : EntryOf(a).state = DIR_LOADING => EntryOf(a)'.sender = EntryOf(a).sender

LEMMA LettersKept ==
  ASSUME IInv, TokenInv, SendersKept,
         \A x \in Letters(net') : x \in Letters(net) \/ LetterOK(dir', x)
  PROVE  LettersSound'
  <1> SUFFICES ASSUME NEW x \in Letters(net') PROVE LetterOK(dir', x)
    BY DEF LettersSound
  <1>1. CASE LetterOK(dir', x)
    BY <1>1
  <1>2. CASE x \in Letters(net)
    <2>1. /\ x[2].addr \in Addrs /\ LetterOK(dir, x)
          /\ Pending(x) => EntryOf(x[2].addr).state = DIR_LOADING
      BY <1>2, LetterFacts
    <2>2. Pending(x) => EntryOf(x[2].addr)'.sender = EntryOf(x[2].addr).sender
      BY <2>1 DEF SendersKept
    <2> QED
      BY <2>1, <2>2 DEF LetterOK, EntryOf
  <1> QED
    BY <1>1, <1>2

\* The entries and the tokens and states of the lines do not change
QuietLines ==
  \A c \in Caches, a \in Addrs : /\ lines'[c][a].tokens = lines[c][a].tokens
                                 /\ lines'[c][a].state = lines[c][a].state
Quiet == QuietLines /\ dir' = dir

LEMMA QuietFacts ==
  ASSUME Quiet
  PROVE  /\ \A a \in Addrs : /\ Held(lines', a, Caches) = Held(lines, a, Caches)
                             /\ TokensHeld(a)' = TokensHeld(a)
                             /\ EntryOf(a)' = EntryOf(a)
         /\ SendersKept
  <1>1. \A a \in Addrs : Held(lines', a, Caches) = Held(lines, a, Caches)
    BY DEF Quiet, QuietLines, Held
  <1>2. \A a \in Addrs : EntryOf(a)' = EntryOf(a)
    BY DEF Quiet, EntryOf
  <1> QED
    BY <1>1, <1>2 DEF TokensHeld, SendersKept

\* A message that is replaced by one of the same weights
SameWeights(x, y) ==
  /\ y[2].addr = x[2].addr /\ Tok(y) = Tok(x)
  /\ Pending(y) <=> Pending(x)
  /\ \A c \in Caches : IsRequestOf(c, y) <=> IsRequestOf(c, x)

LEMMA QuietStep ==
  ASSUME IInv, TokenInv, Quiet, net' = net
  PROVE  TokenInv'
  <1>1. /\ NetFinite(net') /\ Letters(net') = Letters(net)
        /\ \A a \in Addrs : /\ TokensMoving(a)' = TokensMoving(a)
                            /\ ReadsPending(a)' = ReadsPending(a)
                            /\ \A c : RequestsOf(c, a)' = RequestsOf(c, a)
    BY Still DEF TokenInv
  <1>2. LettersSound'
    BY <1>1, LettersKept, QuietFacts
  <1>3. \A a \in Addrs : TokenBook(a)'
    BY <1>1, QuietFacts DEF TokenInv, TokenBook
  <1>4. \A c \in Caches, a \in Addrs : RequestBook(c, a)'
    BY <1>1 DEF TokenInv, RequestBook, Quiet, QuietLines
  <1> QED
    BY <1>1, <1>2, <1>3, <1>4 DEF TokenInv

LEMMA QuietPass ==
  ASSUME IInv, TokenInv, Quiet, NEW from \in Channels, NEW to \in Channels, from # to,
         NEW m \in Message, net[from] # <<>>, Pass(from, to, m),
         SameWeights(<<from, Head(net[from])>>, <<to, m>>),
         LetterOK(dir, <<to, m>>)
  PROVE  TokenInv'
  <1> DEFINE x == <<from, Head(net[from])>>
             y == <<to, m>>
  <1>1. NetFinite(net') /\ Becomes(x, y)
    BY Flow DEF TokenInv
  <1>2. Letters(net') \subseteq Letters(net) \cup {y}
    BY MoveLetters DEF TokenInv, NetFinite
  <1>3. Tok(x) \in Nat
    BY LettersType, LetterTokens DEF TokenInv, NetFinite
  <1>4. SameWeights(x, y) /\ LetterOK(dir', y)
    BY DEF Quiet
  <1> HIDE DEF x, y
  <1>5. LettersSound'
    BY <1>2, <1>4, LettersKept, QuietFacts
  <1>6. \A a \in Addrs : /\ TokensMoving(a)' = TokensMoving(a)
                         /\ ReadsPending(a)' = ReadsPending(a)
                         /\ \A c \in Caches : RequestsOf(c, a)' = RequestsOf(c, a)
    BY <1>1, <1>3, <1>4, BookTypes DEF Becomes, SameWeights, One
  <1>7. \A a \in Addrs : TokenBook(a)'
    BY <1>6, QuietFacts DEF TokenInv, TokenBook
  <1>8. \A c \in Caches, a \in Addrs : RequestBook(c, a)'
    BY <1>6 DEF TokenInv, RequestBook, Quiet, QuietLines
  <1> QED
    BY <1>1, <1>5, <1>7, <1>8 DEF TokenInv

\* A message without weight leaves or joins
Weightless(x) == /\ Tok(x) = 0 /\ ~ Pending(x) /\ \A c \in Caches : ~ IsRequestOf(c, x)

LEMMA QuietTakePut ==
  ASSUME IInv, TokenInv, Quiet, NEW from \in Channels, NEW to \in Channels, from # to,
         NEW m \in Message
  PROVE  /\ net[from] # <<>> /\ Take(from) /\ Weightless(<<from, Head(net[from])>>)
              => TokenInv'
         /\ Put(to, m) /\ Weightless(<<to, m>>) /\ LetterOK(dir, <<to, m>>) => TokenInv'
  <1> DEFINE x == <<from, Head(net[from])>>
             y == <<to, m>>
             Same == \A a \in Addrs : /\ TokensMoving(a)' = TokensMoving(a)
                                      /\ ReadsPending(a)' = ReadsPending(a)
                                      /\ \A c \in Caches : RequestsOf(c, a)' = RequestsOf(c, a)
  <1>1. /\ net[from] # <<>> /\ Take(from) =>
             NetFinite(net') /\ Leaves(x) /\ Letters(net') \subseteq Letters(net)
        /\ Put(to, m) =>
             NetFinite(net') /\ Joins(y) /\ Letters(net') \subseteq Letters(net) \cup {y}
    BY Flow, MoveLetters DEF TokenInv, NetFinite
  <1>2. dir' = dir
    BY DEF Quiet
  <1> HIDE DEF x, y
  <1>3. /\ Leaves(x) /\ Weightless(x) => Same
        /\ Joins(y) /\ Weightless(y) => Same
    BY BookTypes DEF Leaves, Joins, Weightless, One
  <1>4. ASSUME NetFinite(net'), Same, LettersSound' PROVE TokenInv'
    <2>1. \A a \in Addrs : TokenBook(a)'
      BY <1>4, QuietFacts DEF TokenInv, TokenBook
    <2>2. \A c \in Caches, a \in Addrs : RequestBook(c, a)'
      BY <1>4 DEF TokenInv, RequestBook, Quiet, QuietLines
    <2> QED
      BY <1>4, <2>1, <2>2 DEF TokenInv
  <1> HIDE DEF Same
  <1>5. ASSUME net[from] # <<>>, Take(from), Weightless(x) PROVE TokenInv'
    <2>1. LettersSound'
      BY <1>1, <1>5, LettersKept, QuietFacts
    <2> QED
      BY <1>1, <1>3, <1>4, <1>5, <2>1
  <1>6. ASSUME Put(to, m), Weightless(y), LetterOK(dir, y) PROVE TokenInv'
    <2>1. LettersSound'
      BY <1>1, <1>2, <1>6, LettersKept, QuietFacts
    <2> QED
      BY <1>1, <1>3, <1>4, <1>6, <2>1
  <1> QED
    BY <1>5, <1>6 DEF x, y

-----------------------------------------------------------------------------
(* The weights of a message, by channel                                    *)

LEMMA RingLetter ==
  ASSUME NEW n, NEW m, NEW ch \in {incoming(n), outgoing(n)}
  PROVE  /\ Tok(<<ch, m>>) = IF m.type \in CarriesTokens THEN m.tokens ELSE 0
         /\ ~ Pending(<<ch, m>>)
         /\ \A c : IsRequestOf(c, <<ch, m>>) <=> m.sender = c /\ m.type \in RequestTypes
         /\ \A e : LetterOK(e, <<ch, m>>) <=>
                     (m.type \in {REQUEST, REQUEST_DATA} => m.tokens = 0)
  <1>1. ch[1] \in {"incoming", "outgoing"}
    BY DEF incoming, outgoing
  <1>2. ch[1] # "requests" /\ ch[1] \notin MemoryPipe
    BY <1>1 DEF MemoryPipe
  <1> QED
    BY <1>2 DEF Tok, Pending, IsRequestOf, LetterOK

LEMMA RequestsLetter ==
  ASSUME NEW r, NEW m
  PROVE  /\ Tok(<<requests(r), m>>) =
              IF m.type \in CarriesTokens /\ (m.type = EVICTION => m.ignore) THEN m.tokens ELSE 0
         /\ Pending(<<requests(r), m>>) <=> ~ m.ignore /\ m.type # EVICTION
         /\ \A c : IsRequestOf(c, <<requests(r), m>>) <=> m.sender = c /\ m.type \in RequestTypes
         /\ requests(r)[1] = "requests" /\ requests(r)[2] = r
  BY DEF requests, MemoryPipe, Tok, Pending, IsRequestOf

\* The channels behind the DDR channel
LEMMA PipeLetter ==
  ASSUME NEW r, NEW m
  PROVE  /\ \A ch \in {responses(r), active(r)} :
              /\ Tok(<<ch, m>>) = IF m.type \in CarriesTokens THEN m.tokens ELSE 0
              /\ Pending(<<ch, m>>) <=> ~ m.ignore /\ m.type # EVICTION
              /\ \A c : IsRequestOf(c, <<ch, m>>) <=> m.sender = c /\ m.type \in RequestTypes
              /\ ch[2] = r
         /\ responses(r)[1] = "responses" /\ active(r)[1] = "active"
  BY DEF responses, active, MemoryPipe, Tok, Pending, IsRequestOf

LEMMA TypesDiffer ==
  /\ RequestTypes = {REQUEST, REQUEST_DATA, REQUEST_DATA_TOKEN}
  /\ CarriesTokens = {EVICTION, REQUEST_DATA_TOKEN}
  /\ REQUEST # REQUEST_DATA /\ REQUEST # REQUEST_DATA_TOKEN /\ REQUEST # EVICTION
  /\ REQUEST # UPDATE /\ REQUEST_DATA # REQUEST_DATA_TOKEN /\ REQUEST_DATA # EVICTION
  /\ REQUEST_DATA # UPDATE /\ REQUEST_DATA_TOKEN # EVICTION
  /\ REQUEST_DATA_TOKEN # UPDATE /\ EVICTION # UPDATE
  BY DEF RequestTypes, CarriesTokens, REQUEST, REQUEST_DATA, REQUEST_DATA_TOKEN, EVICTION,
         UPDATE

LEMMA StatesDiffer ==
  /\ LINE_EMPTY # LINE_LOADING /\ LINE_EMPTY # LINE_FULL /\ LINE_LOADING # LINE_FULL
  /\ DIR_EMPTY # DIR_LOADING /\ DIR_EMPTY # DIR_FULL /\ DIR_LOADING # DIR_FULL
  BY DEF LINE_EMPTY, LINE_LOADING, LINE_FULL, DIR_EMPTY, DIR_LOADING, DIR_FULL

-----------------------------------------------------------------------------
(* Every step keeps the books                                              *)

\* The books after a step about line a only
LEMMA BooksAt ==
  ASSUME IInv, TokenInv, NEW a \in Addrs, NetFinite(net'), LettersSound',
         \A b \in Addrs :
           /\ IsFiniteSet(Held(lines', b, Caches))
           /\ b # a => /\ TokensHeld(b)' = TokensHeld(b)
                       /\ TokensMoving(b)' = TokensMoving(b)
                       /\ ReadsPending(b)' = ReadsPending(b)
                       /\ EntryOf(b)' = EntryOf(b)
                       /\ \A c \in Caches : /\ RequestsOf(c, b)' = RequestsOf(c, b)
                                            /\ lines'[c][b].state = lines[c][b].state,
         TokensHeld(a)' + TokensMoving(a)' + EntryOf(a)'.tokens =
           IF EntryOf(a)'.state = DIR_FULL THEN TotalTokens ELSE 0,
         ReadsPending(a)' = One(EntryOf(a)'.state = DIR_LOADING),
         \A c \in Caches : RequestsOf(c, a)' = One(lines'[c][a].state = LINE_LOADING)
  PROVE  TokenInv'
  <1>1. \A b \in Addrs : TokenBook(b)'
    BY DEF TokenInv, TokenBook
  <1>2. \A c \in Caches, b \in Addrs : RequestBook(c, b)'
    BY DEF TokenInv, RequestBook
  <1> QED
    BY <1>1, <1>2 DEF TokenInv

LEMMA TokenClients ==
  ASSUME IInv, TokenInv, ClientRead \/ ClientWrite
  PROVE  TokenInv'
  <1>1. UNCHANGED <<net, lines, dir>>
    BY DEF ClientRead, ClientWrite, Read, Write
  <1> QED
    BY <1>1, QuietStep DEF Quiet, QuietLines

LEMMA TokenForward ==
  ASSUME IInv, TokenInv, NEW n \in Nodes, DoForward(n)
  PROVE  TokenInv'
  <1> DEFINE m    == Head(net[outgoing(n)])
             from == outgoing(n)
             to   == incoming(NextNode[n])
  <1>1. from \in Channels /\ to \in Channels /\ from # to
    BY NodeChannels, NodeAssumption, DistinctChannels
  <1>2. m \in Message /\ LetterOK(dir, <<from, m>>)
    <2>1. <<from, m>> \in Letters(net) /\ <<from, m>> \in Channels \X Message
      BY <1>1, LettersType DEF TokenInv, NetFinite, DoForward
    <2> QED
      BY <2>1, LetterFacts
  <1>3. SameWeights(<<from, m>>, <<to, m>>) /\ LetterOK(dir, <<to, m>>)
    BY <1>2, RingLetter DEF SameWeights
  <1>4. Quiet /\ net[from] # <<>> /\ Pass(from, to, m)
    BY DEF DoForward, Quiet, QuietLines
  <1> QED
    BY <1>1, <1>2, <1>3, <1>4, QuietPass

\* A step of a cache that sets one line: what the line gains, messages lose
LEMMA CacheMove ==
  ASSUME IInv, TokenInv, NEW c \in Caches, NEW a \in Addrs, NEW l, LineOK(l),
         SetLine(c, a, l), dir' = dir, NetFinite(net'), LettersSound',
         \A b \in Addrs :
           /\ TokensMoving(b)' =
                TokensMoving(b) + IF b = a THEN lines[c][a].tokens - l.tokens ELSE 0
           /\ ReadsPending(b)' = ReadsPending(b)
           /\ \A d \in Caches : RequestsOf(d, b)' = RequestsOf(d, b)
                + IF b = a /\ d = c
                  THEN One(l.state = LINE_LOADING) - One(lines[c][a].state = LINE_LOADING)
                  ELSE 0
  PROVE  TokenInv'
  <1>1. /\ \A b \in Addrs :
             /\ IsFiniteSet(Held(lines', b, Caches))
             /\ TokensHeld(b)' = TokensHeld(b) + IF b = a THEN l.tokens - lines[c][a].tokens ELSE 0
        /\ \A d \in Caches, b \in Addrs :
             lines'[d][b] = IF d = c /\ b = a THEN l ELSE lines[d][b]
    BY SetLineBooks
  <1>2. \A b \in Addrs : EntryOf(b)' = EntryOf(b)
    BY DEF EntryOf
  <1>3. /\ TokenBook(a) /\ \A d \in Caches : RequestBook(d, a)
        /\ lines[c][a].tokens \in Nat /\ l.tokens \in Nat
    BY BookTypes DEF TokenInv, LineOK, Line
  <1>4. \A b \in Addrs : b # a =>
           /\ TokensHeld(b)' = TokensHeld(b)
           /\ TokensMoving(b)' = TokensMoving(b)
           /\ \A d \in Caches : /\ RequestsOf(d, b)' = RequestsOf(d, b)
                                /\ lines'[d][b].state = lines[d][b].state
    BY <1>1, BookTypes
  <1>5. \A d \in Caches : RequestsOf(d, a)' = One(lines'[d][a].state = LINE_LOADING)
    <2>1. \A d \in Caches : RequestsOf(d, a) = One(lines[d][a].state = LINE_LOADING)
      BY <1>3 DEF RequestBook
    <2> QED
      BY <1>1, <2>1 DEF One
  <1>6. /\ TokensHeld(a)' + TokensMoving(a)' + EntryOf(a)'.tokens =
             IF EntryOf(a)'.state = DIR_FULL THEN TotalTokens ELSE 0
        /\ ReadsPending(a)' = One(EntryOf(a)'.state = DIR_LOADING)
    BY <1>1, <1>2, <1>3, BookTypes DEF TokenBook
  <1> QED
    BY <1>1, <1>2, <1>4, <1>5, <1>6, BooksAt

LEMMA CacheChannels ==
  ASSUME NEW c \in Caches
  PROVE  /\ c \in Nodes /\ outgoing(c) \in Channels /\ incoming(c) \in Channels
         /\ incoming(c) # outgoing(c)
  BY NodeChannels, DistinctChannels

\* A cache inserts a message about the line it sets
LEMMA CachePut ==
  ASSUME IInv, TokenInv, NEW c \in Caches, NEW a \in Addrs, NEW l, LineOK(l),
         SetLine(c, a, l), dir' = dir, NEW m \in Message, m.addr = a, m.sender = c,
         Put(outgoing(c), m),
         m.type \in {REQUEST, REQUEST_DATA} => m.tokens = 0,
         lines[c][a].tokens = l.tokens + IF m.type \in CarriesTokens THEN m.tokens ELSE 0,
         One(l.state = LINE_LOADING) =
           One(lines[c][a].state = LINE_LOADING) + One(m.type \in RequestTypes)
  PROVE  TokenInv'
  <1> DEFINE y == <<outgoing(c), m>>
  <1>1. /\ Tok(y) = (IF m.type \in CarriesTokens THEN m.tokens ELSE 0)
        /\ ~ Pending(y) /\ \A d : IsRequestOf(d, y) <=> d = c /\ m.type \in RequestTypes
        /\ LetterOK(dir', y) /\ y[2].addr = a
    BY RingLetter
  <1>2. NetFinite(net') /\ Joins(y) /\ Letters(net') \subseteq Letters(net) \cup {y}
    BY CacheChannels, Flow, MoveLetters DEF TokenInv, NetFinite
  <1> HIDE DEF y
  <1>3. SendersKept
    BY DEF EntryOf, SendersKept
  <1>4. LettersSound'
    BY <1>1, <1>2, <1>3, LettersKept
  <1>5. lines[c][a].tokens \in Nat /\ l.tokens \in Nat /\ m.tokens \in Nat
    BY BookTypes DEF LineOK, Line, Message
  <1>6. \A b \in Addrs :
           /\ TokensMoving(b)' =
                TokensMoving(b) + IF b = a THEN lines[c][a].tokens - l.tokens ELSE 0
           /\ ReadsPending(b)' = ReadsPending(b)
           /\ \A d \in Caches : RequestsOf(d, b)' = RequestsOf(d, b)
                + IF b = a /\ d = c
                  THEN One(l.state = LINE_LOADING) - One(lines[c][a].state = LINE_LOADING)
                  ELSE 0
    BY <1>1, <1>2, <1>5, BookTypes DEF Joins, One
  <1> QED
    BY <1>2, <1>4, <1>6, CacheMove

\* It takes one from the ring
LEMMA CacheTake ==
  ASSUME IInv, TokenInv, NEW c \in Caches, NEW a \in Addrs, NEW l, LineOK(l),
         SetLine(c, a, l), dir' = dir, net[incoming(c)] # <<>>, Take(incoming(c)),
         NEW m, m = Head(net[incoming(c)]), m.addr = a,
         l.tokens = lines[c][a].tokens + IF m.type \in CarriesTokens THEN m.tokens ELSE 0,
         m.type \in RequestTypes => m.sender = c,
         One(lines[c][a].state = LINE_LOADING) =
           One(l.state = LINE_LOADING) + One(m.type \in RequestTypes)
  PROVE  TokenInv'
  <1> DEFINE x == <<incoming(c), Head(net[incoming(c)])>>
  <1>0. m \in Message
    BY CacheChannels, LettersType DEF TokenInv, NetFinite
  <1>1. /\ Tok(x) = (IF m.type \in CarriesTokens THEN m.tokens ELSE 0)
        /\ ~ Pending(x) /\ \A d : IsRequestOf(d, x) <=> d = c /\ m.type \in RequestTypes
        /\ x[2].addr = a
    BY RingLetter
  <1>2. NetFinite(net') /\ Leaves(x) /\ Letters(net') \subseteq Letters(net)
    BY <1>0, CacheChannels, Flow, MoveLetters DEF TokenInv, NetFinite
  <1> HIDE DEF x
  <1>3. SendersKept
    BY DEF EntryOf, SendersKept
  <1>4. LettersSound'
    BY <1>2, <1>3, LettersKept
  <1>5. lines[c][a].tokens \in Nat /\ l.tokens \in Nat /\ m.tokens \in Nat
    BY <1>0, BookTypes DEF LineOK, Line, Message
  <1>6. \A b \in Addrs :
           /\ TokensMoving(b)' =
                TokensMoving(b) + IF b = a THEN lines[c][a].tokens - l.tokens ELSE 0
           /\ ReadsPending(b)' = ReadsPending(b)
           /\ \A d \in Caches : RequestsOf(d, b)' = RequestsOf(d, b)
                + IF b = a /\ d = c
                  THEN One(l.state = LINE_LOADING) - One(lines[c][a].state = LINE_LOADING)
                  ELSE 0
    BY <1>1, <1>2, <1>5, BookTypes DEF Leaves, One
  <1> QED
    BY <1>2, <1>4, <1>6, CacheMove

\* A read request on a ring, handed on with or without a token of the line
LEMMA CachePass ==
  ASSUME IInv, TokenInv, NEW c \in Caches, NEW a \in Addrs, NEW l, LineOK(l),
         SetLine(c, a, l), dir' = dir, l.state = lines[c][a].state, net[incoming(c)] # <<>>,
         NEW m, m = Head(net[incoming(c)]), m.addr = a, m.type \in {REQUEST, REQUEST_DATA},
         NEW n \in Message, Pass(incoming(c), outgoing(c), n), n.addr = a,
         n.sender = m.sender, n.type \in RequestTypes,
         n.type \in {REQUEST, REQUEST_DATA} => n.tokens = 0,
         lines[c][a].tokens = l.tokens + IF n.type \in CarriesTokens THEN n.tokens ELSE 0
  PROVE  TokenInv'
  <1> DEFINE x == <<incoming(c), Head(net[incoming(c)])>>
             y == <<outgoing(c), n>>
  <1>0. m \in Message
    BY CacheChannels, LettersType DEF TokenInv, NetFinite
  <1>1. /\ Tok(x) = 0 /\ ~ Pending(x) /\ x[2].addr = a
        /\ Tok(y) = (IF n.type \in CarriesTokens THEN n.tokens ELSE 0)
        /\ ~ Pending(y) /\ y[2].addr = a
        /\ \A d : IsRequestOf(d, x) <=> IsRequestOf(d, y)
        /\ LetterOK(dir', y)
    <2>1. /\ Tok(x) = (IF m.type \in CarriesTokens THEN m.tokens ELSE 0)
          /\ ~ Pending(x) /\ \A d : IsRequestOf(d, x) <=> m.sender = d /\ m.type \in RequestTypes
      BY RingLetter
    <2>2. /\ Tok(y) = (IF n.type \in CarriesTokens THEN n.tokens ELSE 0)
          /\ ~ Pending(y) /\ \A d : IsRequestOf(d, y) <=> n.sender = d /\ n.type \in RequestTypes
          /\ LetterOK(dir', y)
      BY RingLetter
    <2>3. m.type \notin CarriesTokens /\ m.type \in RequestTypes
      BY TypesDiffer
    <2> QED
      BY <2>1, <2>2, <2>3
  <1>2. NetFinite(net') /\ Becomes(x, y) /\ Letters(net') \subseteq Letters(net) \cup {y}
    BY CacheChannels, Flow, MoveLetters DEF TokenInv, NetFinite
  <1> HIDE DEF x, y
  <1>3. SendersKept
    BY DEF EntryOf, SendersKept
  <1>4. LettersSound'
    BY <1>1, <1>2, <1>3, LettersKept
  <1>5. lines[c][a].tokens \in Nat /\ l.tokens \in Nat /\ n.tokens \in Nat
    BY BookTypes DEF LineOK, Line, Message
  <1>6. \A b \in Addrs :
           /\ TokensMoving(b)' =
                TokensMoving(b) + IF b = a THEN lines[c][a].tokens - l.tokens ELSE 0
           /\ ReadsPending(b)' = ReadsPending(b)
           /\ \A d \in Caches : RequestsOf(d, b)' = RequestsOf(d, b)
                + IF b = a /\ d = c
                  THEN One(l.state = LINE_LOADING) - One(lines[c][a].state = LINE_LOADING)
                  ELSE 0
    BY <1>1, <1>2, <1>5, BookTypes DEF Becomes, One
  <1> QED
    BY <1>2, <1>4, <1>6, CacheMove

\* The types of the messages a cache makes
LEMMA NewMessages ==
  ASSUME NEW c \in Caches, NEW a \in Addrs, LinesOK(lines)
  PROVE  /\ RequestMsg(c, a) \in Message /\ RequestMsg(c, a).type = REQUEST
         /\ RequestMsg(c, a).addr = a /\ RequestMsg(c, a).sender = c
         /\ RequestMsg(c, a).tokens = 0
         /\ lines[c][a].state = LINE_FULL =>
              /\ EvictionMsg(c, a) \in Message /\ EvictionMsg(c, a).type = EVICTION
              /\ EvictionMsg(c, a).addr = a /\ EvictionMsg(c, a).sender = c
              /\ EvictionMsg(c, a).tokens = lines[c][a].tokens
         /\ \A req \in Request : req.addr = a =>
              /\ UpdateMsg(c, req) \in Message /\ UpdateMsg(c, req).type = UPDATE
              /\ UpdateMsg(c, req).addr = a /\ UpdateMsg(c, req).sender = c
  <1>1. RequestMsg(c, a) \in Message /\ RequestMsg(c, a).type = REQUEST
        /\ RequestMsg(c, a).addr = a /\ RequestMsg(c, a).sender = c
        /\ RequestMsg(c, a).tokens = 0
    BY RequestMsgOK DEF RingOK, RequestMsg
  <1>2. lines[c][a].state = LINE_FULL =>
          /\ EvictionMsg(c, a) \in Message /\ EvictionMsg(c, a).type = EVICTION
          /\ EvictionMsg(c, a).addr = a /\ EvictionMsg(c, a).sender = c
          /\ EvictionMsg(c, a).tokens = lines[c][a].tokens
    BY EvictionMsgOK DEF RingOK, EvictionMsg, RequestMsg
  <1>3. \A req \in Request : req.addr = a =>
          /\ UpdateMsg(c, req) \in Message /\ UpdateMsg(c, req).type = UPDATE
          /\ UpdateMsg(c, req).addr = a /\ UpdateMsg(c, req).sender = c
    BY UpdateMsgOK DEF RingOK, UpdateMsg, RequestMsg
  <1> QED
    BY <1>1, <1>2, <1>3

LEMMA TokenRequests ==
  ASSUME IInv, TokenInv, NEW c \in Caches, DoRequests(c)
  PROVE  TokenInv'
  <1> DEFINE req  == Head(bus[c])
             line == lines[c][req.addr]
  <1>0. bus[c] # <<>> /\ dir' = dir
    BY DEF DoRequests, MissEvict, MissLoad, ReadHit, WriteHitExclusive, WriteHitShared
  <1>1. req \in Request /\ req.addr \in Addrs
    BY <1>0, Parts, BusHead DEF Request
  <1>2. LinesOK(lines) /\ LineOK(line) /\ line \in Line
    BY <1>1, Parts DEF LinesOK, LineOK
  <1>3. CASE MissEvict(c)
    <2>1. PICK v \in Addrs : lines[c][v].state = LINE_FULL /\ EvictLine(c, v)
      BY <1>3 DEF MissEvict, Replaceable
    <2>2. /\ EmptyLine.tokens = 0 /\ EmptyLine.state = LINE_EMPTY /\ LineOK(EmptyLine)
          /\ Put(outgoing(c), EvictionMsg(c, v)) /\ SetLine(c, v, EmptyLine)
      BY <2>1, EmptyLineOK DEF EvictLine, EmptyLine
    <2>3. /\ EvictionMsg(c, v) \in Message /\ EvictionMsg(c, v).type = EVICTION
          /\ EvictionMsg(c, v).addr = v /\ EvictionMsg(c, v).sender = c
          /\ EvictionMsg(c, v).tokens = lines[c][v].tokens
      BY <1>2, <2>1, NewMessages
    <2>4. lines[c][v].tokens \in Nat
      BY BookTypes
    <2>5. One(EmptyLine.state = LINE_LOADING) =
            One(lines[c][v].state = LINE_LOADING) + One(EvictionMsg(c, v).type \in RequestTypes)
      BY <2>1, <2>2, <2>3, TypesDiffer, StatesDiffer DEF One
    <2>6. /\ EvictionMsg(c, v).type \in CarriesTokens
          /\ EvictionMsg(c, v).type \notin {REQUEST, REQUEST_DATA}
      BY <2>3, TypesDiffer
    <2> QED
      BY <1>0, <2>2, <2>3, <2>4, <2>5, <2>6, CachePut
  <1>4. CASE MissLoad(c)
    <2> DEFINE m == RequestMsg(c, req.addr)
    <2>1. /\ m \in Message /\ m.type = REQUEST /\ m.addr = req.addr /\ m.sender = c
          /\ m.tokens = 0
      BY <1>1, <1>2, NewMessages
    <2>2. /\ Put(outgoing(c), m) /\ SetLine(c, req.addr, LoadingLine)
          /\ line.state = LINE_EMPTY
      BY <1>4 DEF MissLoad
    <2>3. /\ LoadingLine.tokens = 0 /\ LoadingLine.state = LINE_LOADING /\ LineOK(LoadingLine)
      BY EmptyLineOK DEF LoadingLine, EmptyLine
    <2>4. line.tokens = 0
      BY <1>2, <2>2, StatesDiffer DEF LineOK, Line
    <2> HIDE DEF m
    <2>5. /\ m.type \notin CarriesTokens
          /\ One(LoadingLine.state = LINE_LOADING) =
               One(line.state = LINE_LOADING) + One(m.type \in RequestTypes)
      BY <2>1, <2>2, <2>3, TypesDiffer, StatesDiffer DEF One
    <2> QED
      BY <1>0, <1>1, <2>1, <2>2, <2>3, <2>4, <2>5, CachePut
  <1>5. CASE ReadHit(c)
    BY <1>5, QuietStep DEF ReadHit, Quiet, QuietLines
  <1>6. CASE WriteHitExclusive(c) \/ WriteHitShared(c)
    <2> DEFINE l == [Written(line, req) EXCEPT !.updating = @ + 1]
    <2>1. /\ Written(line, req).tokens = line.tokens /\ Written(line, req).state = line.state
          /\ l.tokens = line.tokens /\ l.state = line.state
      BY <1>1, <1>2, WrittenOK DEF Written, Line, LineOK
    <2>2. SetLine(c, req.addr, Written(line, req)) \/ SetLine(c, req.addr, l)
      BY <1>6 DEF WriteHitExclusive, WriteHitShared
    <2> HIDE DEF l
    <2>3. Quiet
      BY <1>0, <1>1, <1>2, <2>1, <2>2 DEF Quiet, QuietLines, SetLine, LinesOK
    <2>4. CASE WriteHitExclusive(c)
      BY <2>3, <2>4, QuietStep DEF WriteHitExclusive
    <2>5. CASE WriteHitShared(c)
      <3> DEFINE m == UpdateMsg(c, req)
      <3>1. m \in Message /\ m.type = UPDATE /\ Put(outgoing(c), m)
        BY <1>1, <1>2, <2>5, NewMessages DEF WriteHitShared
      <3> HIDE DEF m
      <3>2. Weightless(<<outgoing(c), m>>) /\ LetterOK(dir, <<outgoing(c), m>>)
        BY <3>1, RingLetter, TypesDiffer DEF Weightless
      <3> QED
        BY <2>3, <3>1, <3>2, CacheChannels, QuietTakePut
    <2> QED
      BY <1>6, <2>4, <2>5
  <1> QED
    BY <1>3, <1>4, <1>5, <1>6 DEF DoRequests

\* A node hands a message on without a change that the books see
LEMMA TokenHandOn ==
  ASSUME IInv, TokenInv, Quiet, NEW n \in Nodes, NEW to \in Channels,
         NEW p \in Nodes, to \in {incoming(p), outgoing(p)}, to # incoming(n),
         net[incoming(n)] # <<>>, NEW m \in Message,
         m.type = Head(net[incoming(n)]).type, m.addr = Head(net[incoming(n)]).addr,
         m.sender = Head(net[incoming(n)]).sender, m.tokens = Head(net[incoming(n)]).tokens,
         Pass(incoming(n), to, m)
  PROVE  TokenInv'
  <1> DEFINE h == Head(net[incoming(n)])
             x == <<incoming(n), h>>
             y == <<to, m>>
  <1>1. incoming(n) \in Channels
    BY NodeChannels
  <1>2. x \in Letters(net)
    BY <1>1, LettersType DEF TokenInv, NetFinite
  <1>3. LetterOK(dir, x)
    BY <1>2, LetterFacts
  <1>4. SameWeights(x, y) /\ LetterOK(dir, y)
    <2>1. /\ Tok(x) = (IF h.type \in CarriesTokens THEN h.tokens ELSE 0) /\ ~ Pending(x)
          /\ \A c : IsRequestOf(c, x) <=> h.sender = c /\ h.type \in RequestTypes
          /\ h.type \in {REQUEST, REQUEST_DATA} => h.tokens = 0
      BY <1>3, RingLetter
    <2>2. /\ Tok(y) = (IF m.type \in CarriesTokens THEN m.tokens ELSE 0) /\ ~ Pending(y)
          /\ \A c : IsRequestOf(c, y) <=> m.sender = c /\ m.type \in RequestTypes
          /\ LetterOK(dir, y) <=> (m.type \in {REQUEST, REQUEST_DATA} => m.tokens = 0)
      BY RingLetter
    <2> QED
      BY <2>1, <2>2 DEF SameWeights
  <1> QED
    BY <1>1, <1>4, QuietPass

LEMMA TokenReceive ==
  ASSUME IInv, TokenInv, NEW c \in Caches, DoReceive(c)
  PROVE  TokenInv'
  <1> DEFINE msg  == Head(net[incoming(c)])
             x    == <<incoming(c), msg>>
             line == lines[c][msg.addr]
  <1>0. /\ net[incoming(c)] # <<>> /\ dir' = dir /\ Front(c) = msg
    BY DEF DoReceive, ReceiveIgnored, ReceiveRequest, ReceiveResponse, ReceiveEviction,
       IsEviction, ReceiveOwnUpdate, ReceiveUpdate, HasMessage, Front
  <1>1. msg \in Message /\ RingOK(msg) /\ msg.addr \in Addrs /\ x \in Letters(net)
    BY <1>0, CacheChannels, NodeFront, LettersType DEF RingOK, Message, TokenInv, NetFinite
  <1>2. LineOK(line) /\ line \in Line /\ LinesOK(lines)
    BY <1>1, Parts DEF LinesOK, LineOK
  <1>3. /\ msg.type \in RequestTypes /\ msg.sender = c => line.state = LINE_LOADING
        /\ msg.type \in {REQUEST, REQUEST_DATA} => msg.tokens = 0
    <2>1. LetterOK(dir, x) /\ (IsRequestOf(c, x) => line.state = LINE_LOADING)
      BY <1>1, LetterFacts
    <2> QED
      BY <2>1, RingLetter
  <1>4. Forward(c, msg) /\ Quiet => TokenInv'
    BY <1>0, <1>1, CacheChannels, TokenHandOn DEF Forward
  <1>5. msg.type \in {REQUEST_DATA_TOKEN, EVICTION} => msg.tokens > 0
    BY <1>1 DEF RingOK, CarriesTokens
  <1>6. CASE ReceiveIgnored(c)
    BY <1>0, <1>4, <1>6 DEF ReceiveIgnored, Quiet, QuietLines
  <1>7. CASE ReceiveRequest(c)
    <2> DEFINE n == Answered(msg, line)
               l == IF GivesToken(line) THEN [line EXCEPT !.tokens = @ - 1] ELSE line
    <2>1. /\ msg.type \in {REQUEST, REQUEST_DATA} /\ Pass(incoming(c), outgoing(c), n)
          /\ SetLine(c, msg.addr, l)
      BY <1>0, <1>7 DEF ReceiveRequest, Forward
    <2>2. /\ n \in Message /\ n.addr = msg.addr /\ n.sender = msg.sender
          /\ n.type \in RequestTypes
          /\ GivesToken(line) => n.type = REQUEST_DATA_TOKEN /\ n.tokens = 1
          /\ ~ GivesToken(line) => n.type \in {REQUEST, REQUEST_DATA} /\ n.tokens = 0
      <3>1. RingOK(n)
        BY <1>1, <1>2, <2>1, AnsweredOK
      <3>2. n \in Message
        BY <3>1 DEF RingOK
      <3>3. CASE GivesToken(line)
        <4>1. n = [msg EXCEPT !.type = REQUEST_DATA_TOKEN, !.tokens = 1,
                              !.dirty = line.dirty, !.data = line.data]
          BY <3>3 DEF Answered
        <4> HIDE DEF n
        <4> QED
          BY <1>1, <3>2, <3>3, <4>1, TypesDiffer DEF Message
      <3>4. CASE ~ GivesToken(line) /\ GivesData(line, msg)
        <4>1. n = [msg EXCEPT !.type = REQUEST_DATA, !.dirty = line.dirty, !.data = line.data]
          BY <3>4 DEF Answered
        <4> HIDE DEF n
        <4> QED
          BY <1>1, <1>3, <2>1, <3>2, <3>4, <4>1, TypesDiffer DEF Message
      <3>5. CASE ~ GivesToken(line) /\ ~ GivesData(line, msg)
        <4>1. n = msg
          BY <3>5 DEF Answered
        <4> HIDE DEF n
        <4> QED
          BY <1>1, <1>3, <2>1, <3>2, <3>5, <4>1, TypesDiffer
      <3> QED
        BY <3>3, <3>4, <3>5
    <2>3. /\ LineOK(l) /\ l.state = line.state
          /\ l.tokens = line.tokens - IF GivesToken(line) THEN 1 ELSE 0
      <3> DEFINE k == [line EXCEPT !.tokens = @ - 1]
      <3>0. k.state = line.state /\ k.tokens = line.tokens - 1
        BY <1>2 DEF Line
      <3>1. GivesToken(line) => LineOK(k)
        BY <1>2 DEF LineOK, Line, GivesToken
      <3>2. line.tokens \in Nat /\ l = IF GivesToken(line) THEN k ELSE line
        BY <1>2 DEF Line
      <3> HIDE DEF k, l
      <3> QED
        BY <1>2, <3>0, <3>1, <3>2
    <2>4. line.tokens \in Nat
      BY <1>2 DEF Line
    <2> HIDE DEF n, l
    <2>5. line.tokens = l.tokens + IF n.type \in CarriesTokens THEN n.tokens ELSE 0
      BY <2>2, <2>3, <2>4, TypesDiffer
    <2>6. n.type \in {REQUEST, REQUEST_DATA} => n.tokens = 0
      BY <2>2, TypesDiffer
    <2> QED
      BY <1>0, <1>1, <2>1, <2>2, <2>3, <2>5, <2>6, CachePass
  <1>8. CASE ReceiveResponse(c)
    <2> DEFINE l == Filled(line, msg)
    <2>1. /\ msg.type = REQUEST_DATA_TOKEN /\ msg.sender = c
          /\ SetLine(c, msg.addr, l) /\ Take(incoming(c))
      BY <1>0, <1>8 DEF ReceiveResponse
    <2>2. LineOK(l) /\ l.tokens = msg.tokens /\ l.state = LINE_FULL /\ msg.tokens \in Nat
      BY <1>1, <1>2, <1>5, <2>1, FilledOK DEF Filled, Line, LineOK, Message
    <2>3. line.state = LINE_LOADING /\ line.tokens = 0
      BY <1>2, <1>3, <2>1, TypesDiffer, StatesDiffer DEF LineOK, Line
    <2> HIDE DEF l
    <2>4. /\ l.tokens = line.tokens + IF msg.type \in CarriesTokens THEN msg.tokens ELSE 0
          /\ One(line.state = LINE_LOADING) =
               One(l.state = LINE_LOADING) + One(msg.type \in RequestTypes)
      BY <2>1, <2>2, <2>3, TypesDiffer, StatesDiffer DEF One
    <2> QED
      BY <1>0, <1>1, <2>1, <2>2, <2>4, CacheTake
  <1>9. CASE ReceiveEviction(c)
    <2>0. msg.type = EVICTION /\ msg.tokens > 0 /\ msg.tokens \in Nat
      BY <1>0, <1>1, <1>5, <1>9 DEF ReceiveEviction, IsEviction, Message
    <2>1. ASSUME NEW l, LineOK(l), l.state = LINE_FULL, SetLine(c, msg.addr, l),
                 Take(incoming(c)), l.tokens = line.tokens + msg.tokens,
                 line.state # LINE_LOADING
          PROVE  TokenInv'
      <3>1. /\ l.tokens = line.tokens + IF msg.type \in CarriesTokens THEN msg.tokens ELSE 0
            /\ One(line.state = LINE_LOADING) =
                 One(l.state = LINE_LOADING) + One(msg.type \in RequestTypes)
            /\ msg.type \notin RequestTypes
        BY <2>0, <2>1, TypesDiffer, StatesDiffer DEF One
      <3> QED
        BY <1>0, <1>1, <2>1, <3>1, CacheTake
    <2>2. CASE CanMerge(c) /\ SetLine(c, msg.addr, Merged(line, msg)) /\ Take(incoming(c))
      <3>1. /\ line.state = LINE_FULL
            /\ Merged(line, msg).tokens = line.tokens + msg.tokens
            /\ Merged(line, msg).state = LINE_FULL
            /\ LineOK(Merged(line, msg))
        BY <1>0, <1>1, <1>2, <2>2, MergedOK DEF CanMerge, Merged, Line
      <3> QED
        BY <2>1, <2>2, <3>1, StatesDiffer
    <2>3. CASE CanStore(c) /\ SetLine(c, msg.addr, Stored(msg)) /\ Take(incoming(c))
      <3>1. /\ line.state = LINE_EMPTY /\ line.tokens = 0
            /\ Stored(msg).tokens = msg.tokens /\ Stored(msg).state = LINE_FULL
            /\ LineOK(Stored(msg))
        <4>1. line.state = LINE_EMPTY
          BY <1>0, <2>3 DEF CanStore
        <4>2. line.tokens = 0
          BY <1>2, <4>1, StatesDiffer DEF LineOK, Line
        <4>3. Stored(msg).tokens = msg.tokens /\ Stored(msg).state = LINE_FULL
          BY DEF Stored, EmptyLine
        <4>4. LineOK(Stored(msg))
          BY <1>1, <2>0, StoredOK
        <4> QED
          BY <4>1, <4>2, <4>3, <4>4
      <3> QED
        BY <2>0, <2>1, <2>3, <3>1, StatesDiffer
    <2>4. CASE Forward(c, msg) /\ lines' = lines
      BY <1>0, <1>4, <2>4 DEF Quiet, QuietLines
    <2> QED
      BY <1>0, <1>9, <2>2, <2>3, <2>4 DEF ReceiveEviction
  <1>10. CASE ReceiveOwnUpdate(c)
    <2>1. /\ msg.type = UPDATE /\ Take(incoming(c))
          /\ lines' = [lines EXCEPT ![c][msg.addr].updating = @ - 1]
      BY <1>0, <1>10 DEF ReceiveOwnUpdate
    <2>2. Quiet
      BY <1>0, <1>1, <1>2, <2>1 DEF Quiet, QuietLines, LinesOK, Line
    <2>3. Weightless(x)
      BY <2>1, RingLetter, TypesDiffer DEF Weightless
    <2> QED
      BY <1>0, <1>1, <2>1, <2>2, <2>3, CacheChannels, QuietTakePut
  <1>11. CASE ReceiveUpdate(c)
    <2>1. /\ Forward(c, msg) /\ SetLine(c, msg.addr, Updated(line, msg))
      BY <1>0, <1>11 DEF ReceiveUpdate
    <2>2. Updated(line, msg).tokens = line.tokens /\ Updated(line, msg).state = line.state
      BY <1>2 DEF Updated, Line
    <2>3. Quiet
      BY <1>0, <1>1, <1>2, <2>1, <2>2 DEF Quiet, QuietLines, SetLine, LinesOK
    <2> QED
      BY <1>4, <2>1, <2>3
  <1> QED
    BY <1>6, <1>7, <1>8, <1>9, <1>10, <1>11 DEF DoReceive

-----------------------------------------------------------------------------
(* Ignored messages                                                        *)

\* Messages flagged to be ignored are on low rings and on the way through the
\* memory queues only
IgnoredLetter(x) ==
  x[1][1] \in {"incoming", "outgoing"} /\ x[2].ignore =>
    \E d \in Directories : x[1][2] \in LowRing(d)

IgnoredBelow == \A x \in Letters(net) : IgnoredLetter(x)

LEMMA NotIgnored ==
  ASSUME net \in Networks, IgnoredBelow, NEW n \in Nodes, net[incoming(n)] # <<>>,
         \/ n \in Roots
         \/ \E d \in Directories : n = Top(d)
  PROVE  ~ Head(net[incoming(n)]).ignore
  <1>1. incoming(n) \in Channels
    BY NodeChannels
  <1>2. IgnoredLetter(<<incoming(n), Head(net[incoming(n)])>>)
    BY <1>1, LettersType DEF IgnoredBelow
  <1>3. \A d \in Directories : n \notin LowRing(d)
    <2>1. \A d, e : Top(d) # Bottom(e)
      BY DEF Top, Bottom
    <2>2. \A d \in Directories : Below[d] \subseteq Caches
      BY DirectoryAssumption
    <2> QED
      BY <2>1, <2>2, DirectoryAssumption, NodeAssumption DEF LowRing
  <1> QED
    BY <1>2, <1>3 DEF IgnoredLetter, incoming

LEMMA IgnoredKept ==
  ASSUME IgnoredBelow, \A x \in Letters(net') : x \in Letters(net) \/ IgnoredLetter(x)
  PROVE  IgnoredBelow'
  BY DEF IgnoredBelow, IgnoredLetter

LEMMA IgnoredForward ==
  ASSUME IInv, IgnoredBelow, NEW n \in Nodes, DoForward(n)
  PROVE  IgnoredBelow'
  <1> DEFINE m == Head(net[outgoing(n)])
             p == NextNode[n]
  <1>1. /\ outgoing(n) \in Channels /\ incoming(p) \in Channels
        /\ outgoing(n) # incoming(p) /\ net \in Networks /\ net[outgoing(n)] # <<>>
    BY NodeChannels, NodeAssumption, DistinctChannels, NetworkType DEF DoForward
  <1>2. <<outgoing(n), m>> \in Letters(net) /\ m \in Message
    BY <1>1, LettersType
  <1>3. Letters(net') \subseteq Letters(net) \cup {<<incoming(p), m>>}
    BY <1>1, <1>2, MoveLetters DEF DoForward
  <1>4. IgnoredLetter(<<outgoing(n), m>>)
    BY <1>2 DEF IgnoredBelow
  <1>5. m.ignore => \E d \in Directories : n \in LowRing(d)
    BY <1>4 DEF IgnoredLetter, outgoing
  <1>6. m.ignore => \E d \in Directories : p \in LowRing(d)
    BY <1>5, DirectoryAssumption
  <1> HIDE DEF p
  <1>7. IgnoredLetter(<<incoming(p), m>>)
    BY <1>6 DEF IgnoredLetter, incoming
  <1> QED
    BY <1>3, <1>7, IgnoredKept

LEMMA IgnoredCache ==
  ASSUME IInv, IgnoredBelow, NEW c \in Caches, CacheStep(c)
  PROVE  IgnoredBelow'
  <1>0. net \in Networks /\ LinesOK(lines)
    BY NetworkType, Parts
  <1>1. CASE net' = net
    BY <1>1, IgnoredKept
  <1>2. ASSUME NEW m \in Message, Put(outgoing(c), m), ~ m.ignore PROVE IgnoredBelow'
    <2>1. Letters(net') \subseteq Letters(net) \cup {<<outgoing(c), m>>}
      BY <1>0, <1>2, CacheChannels, MoveLetters
    <2>2. IgnoredLetter(<<outgoing(c), m>>)
      BY <1>2 DEF IgnoredLetter
    <2> QED
      BY <2>1, <2>2, IgnoredKept
  <1>3. ASSUME NEW m \in Message, net[incoming(c)] # <<>>, Pass(incoming(c), outgoing(c), m),
               m.ignore => Head(net[incoming(c)]).ignore
        PROVE  IgnoredBelow'
    <2>1. Letters(net') \subseteq Letters(net) \cup {<<outgoing(c), m>>}
      BY <1>0, <1>3, CacheChannels, MoveLetters
    <2>2. IgnoredLetter(<<incoming(c), Head(net[incoming(c)])>>)
      BY <1>0, <1>3, CacheChannels, LettersType DEF IgnoredBelow
    <2>3. IgnoredLetter(<<outgoing(c), m>>)
      BY <1>3, <2>2 DEF IgnoredLetter, incoming, outgoing
    <2> QED
      BY <2>1, <2>3, IgnoredKept
  <1>4. CASE net[incoming(c)] # <<>> /\ Take(incoming(c))
    <2>1. Letters(net') \subseteq Letters(net)
      BY <1>0, <1>4, CacheChannels, Moves, WithoutLetters
    <2> QED
      BY <2>1, IgnoredKept
  <1>5. CASE DoRequests(c)
    <2> DEFINE req == Head(bus[c])
    <2>0. req \in Request /\ req.addr \in Addrs
      BY <1>5, Parts, BusHead
         DEF DoRequests, MissEvict, MissLoad, ReadHit, WriteHitExclusive, WriteHitShared, Request
    <2>1. CASE MissEvict(c)
      <3>1. PICK v \in Addrs : lines[c][v].state = LINE_FULL /\ EvictLine(c, v)
        BY <2>1 DEF MissEvict, Replaceable
      <3>2. EvictionMsg(c, v) \in Message /\ ~ EvictionMsg(c, v).ignore
        BY <1>0, <3>1, NewMessages DEF EvictionMsg, RequestMsg
      <3> QED
        BY <1>2, <3>1, <3>2 DEF EvictLine
    <2>2. CASE MissLoad(c)
      <3>1. RequestMsg(c, req.addr) \in Message /\ ~ RequestMsg(c, req.addr).ignore
        BY <1>0, <2>0, NewMessages DEF RequestMsg
      <3> QED
        BY <1>2, <2>2, <3>1 DEF MissLoad
    <2>3. CASE WriteHitShared(c)
      <3>1. UpdateMsg(c, req) \in Message /\ ~ UpdateMsg(c, req).ignore
        BY <1>0, <2>0, NewMessages DEF UpdateMsg, RequestMsg
      <3> QED
        BY <1>2, <2>3, <3>1 DEF WriteHitShared
    <2> QED
      BY <1>1, <1>5, <2>1, <2>2, <2>3 DEF DoRequests, ReadHit, WriteHitExclusive
  <1>6. CASE DoReceive(c)
    <2> DEFINE msg  == Head(net[incoming(c)])
               line == lines[c][msg.addr]
    <2>1. net[incoming(c)] # <<>> /\ Front(c) = msg
      BY <1>6 DEF DoReceive, ReceiveIgnored, ReceiveRequest, ReceiveResponse, ReceiveEviction,
         IsEviction, ReceiveOwnUpdate, ReceiveUpdate, HasMessage, Front
    <2>2. msg \in Message /\ msg.addr \in Addrs /\ RingOK(msg)
      BY <2>1, CacheChannels, NodeFront DEF RingOK, Message
    <2>3. Forward(c, msg) => IgnoredBelow'
      BY <1>3, <2>1, <2>2 DEF Forward
    <2>4. CASE ReceiveRequest(c)
      <3>1. ~ msg.ignore /\ Pass(incoming(c), outgoing(c), Answered(msg, line))
            /\ msg.type \in {REQUEST, REQUEST_DATA}
        BY <2>1, <2>4 DEF ReceiveRequest, Forward
      <3>2. LineOK(line)
        BY <2>2, Parts DEF LinesOK
      <3>3. Answered(msg, line) \in Message
        BY <2>2, <3>1, <3>2, AnsweredOK DEF RingOK
      <3>4. ~ Answered(msg, line).ignore
        BY <2>2, <3>1 DEF Answered, Message
      <3> QED
        BY <1>3, <2>1, <3>1, <3>3, <3>4
    <2> QED
      BY <1>4, <1>6, <2>1, <2>3, <2>4
         DEF DoReceive, ReceiveIgnored, ReceiveResponse, ReceiveEviction, ReceiveOwnUpdate,
             ReceiveUpdate
  <1> QED
    BY <1>5, <1>6 DEF CacheStep

LEMMA DirectoryChannels ==
  ASSUME NEW d \in Directories
  PROVE  /\ Top(d) \in Nodes /\ Bottom(d) \in Nodes
         /\ incoming(Top(d)) \in Channels /\ outgoing(Top(d)) \in Channels
         /\ incoming(Bottom(d)) \in Channels /\ outgoing(Bottom(d)) \in Channels
         /\ \A n, p : incoming(n) # outgoing(p)
  BY NodeChannels, DistinctChannels

\* What the two halves of a directory do to the network
LEMMA DirectoryMoves ==
  ASSUME IInv, NEW d \in Directories, DirectoryStep(d)
  PROVE  \E n \in {Top(d), Bottom(d)}, to \in {outgoing(Top(d)), outgoing(Bottom(d))},
            m \in Message :
           /\ net[incoming(n)] # <<>> /\ Pass(incoming(n), to, m)
           /\ m.type = Head(net[incoming(n)]).type
           /\ m.addr = Head(net[incoming(n)]).addr
           /\ m.sender = Head(net[incoming(n)]).sender
           /\ m.tokens = Head(net[incoming(n)]).tokens
           /\ m.ignore => to = outgoing(Bottom(d)) \/ m = Head(net[incoming(n)])
           /\ to = outgoing(Top(d)) => n = Top(d) \/ ~ m.ignore
  <1>1. CASE DoInBottom(d)
    <2> DEFINE msg == Head(net[incoming(Bottom(d))])
               fl  == [msg EXCEPT !.ignore = FALSE]
    <2>1. net[incoming(Bottom(d))] # <<>> /\ Pass(incoming(Bottom(d)), outgoing(Top(d)), fl)
      BY <1>1 DEF DoInBottom
    <2>2. msg \in Message
      BY <2>1, DirectoryChannels, FrontOK, Parts
    <2>3. /\ fl \in Message /\ fl.type = msg.type /\ fl.addr = msg.addr
          /\ fl.sender = msg.sender /\ fl.tokens = msg.tokens /\ ~ fl.ignore
      BY <2>2 DEF Message
    <2> HIDE DEF fl
    <2> QED
      BY <2>1, <2>3
  <1>2. CASE DoInTop(d)
    <2> DEFINE msg == Head(net[incoming(Top(d))])
               fl  == [msg EXCEPT !.ignore = TRUE]
    <2>1. /\ net[incoming(Top(d))] # <<>>
          /\ \/ Pass(incoming(Top(d)), outgoing(Bottom(d)), msg)
             \/ Pass(incoming(Top(d)), outgoing(Top(d)), msg)
             \/ Pass(incoming(Top(d)), outgoing(Bottom(d)), fl)
      BY <1>2 DEF DoInTop
    <2>2. msg \in Message
      BY <2>1, DirectoryChannels, FrontOK, Parts
    <2>3. /\ fl \in Message /\ fl.type = msg.type /\ fl.addr = msg.addr
          /\ fl.sender = msg.sender /\ fl.tokens = msg.tokens
      BY <2>2 DEF Message
    <2>4. outgoing(Top(d)) # outgoing(Bottom(d))
      BY DEF outgoing, Top, Bottom
    <2> HIDE DEF fl
    <2>5. CASE Pass(incoming(Top(d)), outgoing(Bottom(d)), fl)
      BY <2>1, <2>3, <2>4, <2>5
    <2>6. CASE \/ Pass(incoming(Top(d)), outgoing(Bottom(d)), msg)
               \/ Pass(incoming(Top(d)), outgoing(Top(d)), msg)
      BY <2>1, <2>2, <2>4, <2>6
    <2> QED
      BY <2>1, <2>5, <2>6
  <1> QED
    BY <1>1, <1>2 DEF DirectoryStep

LEMMA TokenDirectory ==
  ASSUME IInv, TokenInv, NEW d \in Directories, DirectoryStep(d)
  PROVE  TokenInv'
  <1>1. PICK n \in {Top(d), Bottom(d)}, to \in {outgoing(Top(d)), outgoing(Bottom(d))},
             m \in Message :
           /\ net[incoming(n)] # <<>> /\ Pass(incoming(n), to, m)
           /\ m.type = Head(net[incoming(n)]).type
           /\ m.addr = Head(net[incoming(n)]).addr
           /\ m.sender = Head(net[incoming(n)]).sender
           /\ m.tokens = Head(net[incoming(n)]).tokens
    BY DirectoryMoves
  <1>2. Quiet
    BY DEF DirectoryStep, DoInBottom, DoInTop, Quiet, QuietLines
  <1>3. /\ n \in Nodes /\ to \in Channels /\ to # incoming(n)
        /\ \E p \in Nodes : to \in {incoming(p), outgoing(p)}
    BY DirectoryChannels
  <1> QED
    BY <1>1, <1>2, <1>3, TokenHandOn

LEMMA IgnoredDirectory ==
  ASSUME IInv, IgnoredBelow, NEW d \in Directories, DirectoryStep(d)
  PROVE  IgnoredBelow'
  <1>1. PICK n \in {Top(d), Bottom(d)}, to \in {outgoing(Top(d)), outgoing(Bottom(d))},
             m \in Message :
           /\ net[incoming(n)] # <<>> /\ Pass(incoming(n), to, m)
           /\ m.ignore => to = outgoing(Bottom(d)) \/ m = Head(net[incoming(n)])
           /\ to = outgoing(Top(d)) => n = Top(d) \/ ~ m.ignore
    BY DirectoryMoves
  <1>2. net \in Networks /\ incoming(n) \in Channels /\ to \in Channels /\ to # incoming(n)
    BY NetworkType, DirectoryChannels
  <1>3. Letters(net') \subseteq Letters(net) \cup {<<to, m>>}
    BY <1>1, <1>2, MoveLetters
  <1>4. CASE to = outgoing(Bottom(d))
    <2>1. IgnoredLetter(<<to, m>>)
      BY <1>4 DEF IgnoredLetter, outgoing, LowRing
    <2> QED
      BY <1>3, <2>1, IgnoredKept
  <1>5. CASE to = outgoing(Top(d)) /\ to # outgoing(Bottom(d))
    <2>1. n = Top(d) => ~ Head(net[incoming(n)]).ignore
      BY <1>1, <1>2, DirectoryChannels, NotIgnored
    <2>2. ~ m.ignore
      BY <1>1, <1>5, <2>1
    <2>3. IgnoredLetter(<<to, m>>)
      BY <2>2 DEF IgnoredLetter
    <2> QED
      BY <1>3, <2>3, IgnoredKept
  <1> QED
    BY <1>4, <1>5

LEMMA RootChannels ==
  ASSUME NEW r \in Roots
  PROVE  /\ r \in Nodes /\ incoming(r) \in Channels /\ outgoing(r) \in Channels
         /\ requests(r) \in Channels /\ responses(r) \in Channels /\ active(r) \in Channels
         /\ incoming(r) # outgoing(r) /\ incoming(r) # requests(r)
         /\ requests(r) # responses(r) /\ requests(r) # active(r)
         /\ active(r) # responses(r) /\ responses(r) # outgoing(r)
  BY NodeChannels, DistinctChannels DEF incoming, outgoing, requests, responses, active

LEMMA IgnoredRoot ==
  ASSUME IInv, IgnoredBelow, NEW r \in Roots, RootStep(r)
  PROVE  IgnoredBelow'
  <1>0. net \in Networks
    BY NetworkType
  <1>1. ASSUME NEW from \in Channels, net[from] # <<>>, Take(from) PROVE IgnoredBelow'
    <2>1. Letters(net') \subseteq Letters(net)
      BY <1>0, <1>1, Moves, WithoutLetters
    <2> QED
      BY <2>1, IgnoredKept
  <1>2. ASSUME NEW from \in Channels, NEW to \in Channels, from # to, net[from] # <<>>,
               NEW m \in Message, Pass(from, to, m),
               ~ m.ignore \/ to[1] \in MemoryPipe
        PROVE  IgnoredBelow'
    <2>1. Letters(net') \subseteq Letters(net) \cup {<<to, m>>}
      BY <1>0, <1>2, MoveLetters
    <2>2. IgnoredLetter(<<to, m>>)
      BY <1>2 DEF IgnoredLetter, MemoryPipe
    <2> QED
      BY <2>1, <2>2, IgnoredKept
  <1>3. \A ch \in {requests(r), responses(r), active(r)} : ch[1] \in MemoryPipe
    BY DEF requests, responses, active, MemoryPipe
  <1>4. CASE DoIncoming(r)
    <2> DEFINE msg == Head(net[incoming(r)])
    <2>1. net[incoming(r)] # <<>>
      BY <1>4 DEF DoIncoming, RootPass, RootRequest, RootRequestData, RootEviction, AtRoot
    <2>2. msg \in Message /\ ~ msg.ignore /\ msg.addr \in Addrs
      BY <1>0, <2>1, RootChannels, FrontOK, Parts, NotIgnored DEF Message
    <2>3. ASSUME NEW m \in Message, ~ m.ignore, ForwardRoot(r, m) PROVE IgnoredBelow'
      <3> DEFINE fl == [m EXCEPT !.ignore = TRUE]
      <3>1. fl \in Message
        BY <2>3 DEF Message
      <3>2. Pass(incoming(r), outgoing(r), m) \/ Pass(incoming(r), requests(r), fl)
        BY <2>3 DEF ForwardRoot
      <3> HIDE DEF fl
      <3> QED
        BY <1>2, <1>3, <2>1, <2>3, <3>1, <3>2, RootChannels
    <2>4. CASE RootPass(r)
      BY <2>2, <2>3, <2>4 DEF RootPass
    <2>5. CASE RootRequest(r)
      <3>1. Pass(incoming(r), requests(r), msg) \/ ForwardRoot(r, msg)
        BY <2>5 DEF RootRequest
      <3> QED
        BY <1>2, <1>3, <2>1, <2>2, <2>3, <3>1, RootChannels
    <2>6. CASE RootRequestData(r)
      <3> DEFINE give == IF dir[r][msg.addr].state = DIR_EMPTY THEN TotalTokens
                         ELSE dir[r][msg.addr].tokens
                 ans  == [msg EXCEPT !.type = REQUEST_DATA_TOKEN, !.tokens = give]
      <3>1. ForwardRoot(r, ans) \/ ForwardRoot(r, msg)
        BY <2>6 DEF RootRequestData
      <3>2. give \in Nat
        BY <2>2, TotalTokensType, Parts DEF Others, Entry
      <3> HIDE DEF give
      <3>3. ans \in Message /\ ~ ans.ignore
        BY <2>2, <3>2 DEF Message, MsgType
      <3> HIDE DEF ans
      <3> QED
        BY <2>2, <2>3, <3>1, <3>3
    <2>7. CASE RootEviction(r)
      <3>1. Pass(incoming(r), requests(r), msg) \/ Take(incoming(r))
        BY <2>7 DEF RootEviction
      <3> QED
        BY <1>1, <1>2, <1>3, <2>1, <2>2, <3>1, RootChannels
    <2> QED
      BY <1>4, <2>4, <2>5, <2>6, <2>7 DEF DoIncoming
  <1>5. CASE DoMemory(r)
    <2> DEFINE msg == Head(net[requests(r)])
    <2>1. /\ net[requests(r)] # <<>>
          /\ \/ Pass(requests(r), responses(r), msg) \/ Pass(requests(r), active(r), msg)
             \/ Take(requests(r))
      BY <1>5 DEF DoMemory
    <2>2. msg \in Message
      BY <2>1, RootChannels, PipeFront DEF MsgOK
    <2> HIDE DEF msg
    <2> QED
      BY <1>1, <1>2, <1>3, <2>1, <2>2, RootChannels
  <1>6. CASE OnReadCompleted(r)
    <2> DEFINE msg == Head(net[active(r)])
               ans == [msg EXCEPT !.type = REQUEST_DATA_TOKEN, !.dirty = FALSE,
                                  !.data = mem[msg.addr]]
    <2>1. net[active(r)] # <<>> /\ Pass(active(r), responses(r), ans)
      BY <1>6 DEF OnReadCompleted
    <2>2. msg \in Message /\ msg.addr \in Addrs /\ mem[msg.addr] \in Data
      BY <2>1, RootChannels, PipeFront, Parts DEF MsgOK, Others, Message
    <2>3. ans \in Message
      BY <2>2 DEF Message, MsgType
    <2> HIDE DEF ans
    <2> QED
      BY <1>2, <1>3, <2>1, <2>3, RootChannels
  <1>7. CASE DoResponses(r)
    <2> DEFINE msg == Head(net[responses(r)])
               fl  == [msg EXCEPT !.ignore = FALSE]
               ans == [msg EXCEPT !.tokens = TotalTokens,
                                  !.sender = dir[r][msg.addr].sender]
    <2>1. /\ net[responses(r)] # <<>>
          /\ \/ Pass(responses(r), outgoing(r), fl)
             \/ ~ msg.ignore /\ Pass(responses(r), outgoing(r), ans)
      BY <1>7 DEF DoResponses
    <2>2. msg \in Message /\ msg.addr \in Addrs /\ dir[r][msg.addr].sender \in Caches
      BY <2>1, RootChannels, PipeFront, Parts DEF MsgOK, Others, Entry, Message
    <2>3. fl \in Message /\ ~ fl.ignore /\ ans \in Message /\ ans.ignore = msg.ignore
      BY <2>2, TotalTokensType DEF Message
    <2> HIDE DEF fl, ans
    <2> QED
      BY <1>2, <2>1, <2>3, RootChannels
  <1> QED
    BY <1>4, <1>5, <1>6, <1>7 DEF RootStep

\* The entry of line a becomes e, the others stay
EntryBecomes(a, e) ==
  EntryOf(a)' = e /\ \A b \in Addrs : b # a => EntryOf(b)' = EntryOf(b)

LEMMA EntrySet ==
  ASSUME IInv, NEW r \in Roots, NEW a \in Addrs, RootOf[a] = r, NEW e,
         dir' = [dir EXCEPT ![r][a] = e]
  PROVE  EntryBecomes(a, e)
  BY Parts, RootAssumption DEF Others, EntryOf, EntryBecomes

\* Entry e fits when letter x left the network and t tokens and p reads joined it
Balanced(a, e, x, t, p) ==
  /\ TokensHeld(a) + TokensMoving(a) - Tok(x) + t + e.tokens
       = IF e.state = DIR_FULL THEN TotalTokens ELSE 0
  /\ ReadsPending(a) - One(Pending(x)) + p = One(e.state = DIR_LOADING)

LEMMA RootBooks ==
  ASSUME IInv, TokenInv, NEW a \in Addrs, NEW e \in Entry, EntryBecomes(a, e), lines' = lines,
         NetFinite(net'), LettersSound',
         \A b \in Addrs :
           /\ b # a => /\ TokensMoving(b)' = TokensMoving(b)
                       /\ ReadsPending(b)' = ReadsPending(b)
           /\ \A c \in Caches : RequestsOf(c, b)' = RequestsOf(c, b),
         TokensHeld(a) + TokensMoving(a)' + e.tokens =
           IF e.state = DIR_FULL THEN TotalTokens ELSE 0,
         ReadsPending(a)' = One(e.state = DIR_LOADING)
  PROVE  TokenInv'
  <1>1. \A b \in Addrs : /\ IsFiniteSet(Held(lines', b, Caches))
                         /\ TokensHeld(b)' = TokensHeld(b)
    BY DEF TokenInv, TokenBook, TokensHeld
  <1>2. \A c \in Caches, b \in Addrs : RequestsOf(c, b) = One(lines[c][b].state = LINE_LOADING)
    BY DEF TokenInv, RequestBook
  <1> QED
    BY <1>1, <1>2, BooksAt DEF EntryBecomes

\* A root directory passes a message on and sets its entry
LEMMA RootPassOn ==
  ASSUME IInv, TokenInv, NEW a \in Addrs, NEW e \in Entry, EntryBecomes(a, e), lines' = lines,
         EntryOf(a).state = DIR_LOADING => e.sender = EntryOf(a).sender,
         NEW from \in Channels, NEW to \in Channels, from # to, net[from] # <<>>,
         NEW m \in Message, Pass(from, to, m),
         Head(net[from]).addr = a, m.addr = a, LetterOK(dir', <<to, m>>),
         \A c \in Caches :
           IsRequestOf(c, <<to, m>>) <=> IsRequestOf(c, <<from, Head(net[from])>>),
         Balanced(a, e, <<from, Head(net[from])>>, Tok(<<to, m>>), One(Pending(<<to, m>>)))
  PROVE  TokenInv'
  <1> DEFINE x == <<from, Head(net[from])>>
             y == <<to, m>>
  <1>0. net \in Networks /\ NetFinite(net)
    BY DEF TokenInv, NetFinite
  <1>1. /\ NetFinite(net') /\ Becomes(x, y)
        /\ Letters(net') \subseteq Letters(net) \cup {y}
    BY <1>0, Flow, MoveLetters
  <1>2. /\ x[2].addr = a /\ y[2].addr = a /\ Tok(x) \in Nat /\ Tok(y) \in Nat
        /\ e.tokens \in Nat /\ \A c \in Caches : IsRequestOf(c, y) <=> IsRequestOf(c, x)
    BY <1>0, LettersType, LetterTokens DEF Entry
  <1>3. LettersSound'
    <2>1. SendersKept
      BY DEF SendersKept, EntryBecomes
    <2> QED
      BY <1>1, <2>1, LettersKept
  <1>4. \A b \in Addrs : /\ TokensHeld(b) \in Nat /\ TokensMoving(b) \in Nat
                         /\ ReadsPending(b) \in Nat /\ \A c : RequestsOf(c, b) \in Nat
    BY BookTypes
  <1> HIDE DEF x, y
  <1>5. \A b \in Addrs :
          /\ b # a => /\ TokensMoving(b)' = TokensMoving(b)
                      /\ ReadsPending(b)' = ReadsPending(b)
          /\ \A c \in Caches : RequestsOf(c, b)' = RequestsOf(c, b)
    BY <1>1, <1>2, <1>4 DEF Becomes, One
  <1>6. /\ TokensMoving(a)' = TokensMoving(a) - Tok(x) + Tok(y)
        /\ ReadsPending(a)' = ReadsPending(a) - One(Pending(x)) + One(Pending(y))
    BY <1>1, <1>2 DEF Becomes, One
  <1>7. Balanced(a, e, x, Tok(y), One(Pending(y)))
    BY DEF x, y
  <1>8. TokensHeld(a) + TokensMoving(a)' + e.tokens
          = IF e.state = DIR_FULL THEN TotalTokens ELSE 0
    BY <1>2, <1>4, <1>6, <1>7 DEF Balanced
  <1>9. ReadsPending(a)' = One(e.state = DIR_LOADING)
    BY <1>6, <1>7 DEF Balanced
  <1> QED
    BY <1>1, <1>3, <1>5, <1>8, <1>9, RootBooks

\* A root directory takes a message and sets its entry
LEMMA RootTakes ==
  ASSUME IInv, TokenInv, NEW a \in Addrs, NEW e \in Entry, EntryBecomes(a, e), lines' = lines,
         EntryOf(a).state = DIR_LOADING => e.sender = EntryOf(a).sender,
         NEW from \in Channels, net[from] # <<>>, Take(from), Head(net[from]).addr = a,
         \A c \in Caches : ~ IsRequestOf(c, <<from, Head(net[from])>>),
         Balanced(a, e, <<from, Head(net[from])>>, 0, 0)
  PROVE  TokenInv'
  <1> DEFINE x == <<from, Head(net[from])>>
  <1>0. net \in Networks /\ NetFinite(net) /\ Head(net[from]) \in Message
    BY LettersType DEF TokenInv, NetFinite
  <1>1. NetFinite(net') /\ Leaves(x) /\ Letters(net') \subseteq Letters(net)
    <2>1. PICK to \in Channels : to # from
      <3>1. Roots # {}
        BY RootAssumption
      <3> QED
        BY <3>1, RootChannels
    <2> QED
      BY <1>0, <2>1, Flow, MoveLetters
  <1>2. x[2].addr = a /\ Tok(x) \in Nat /\ e.tokens \in Nat
    BY <1>0, LettersType, LetterTokens DEF Entry
  <1>3. LettersSound'
    <2>1. SendersKept
      BY DEF SendersKept, EntryBecomes
    <2> QED
      BY <1>1, <2>1, LettersKept
  <1>4. \A b \in Addrs : /\ TokensHeld(b) \in Nat /\ TokensMoving(b) \in Nat
                         /\ ReadsPending(b) \in Nat /\ \A c : RequestsOf(c, b) \in Nat
    BY BookTypes
  <1> HIDE DEF x
  <1>5. \A b \in Addrs :
          /\ b # a => /\ TokensMoving(b)' = TokensMoving(b)
                      /\ ReadsPending(b)' = ReadsPending(b)
          /\ \A c \in Caches : RequestsOf(c, b)' = RequestsOf(c, b)
    BY <1>1, <1>2, <1>4 DEF Leaves, One, x
  <1>6. /\ TokensMoving(a)' = TokensMoving(a) - Tok(x)
        /\ ReadsPending(a)' = ReadsPending(a) - One(Pending(x))
    BY <1>1, <1>2 DEF Leaves, One
  <1>7. Balanced(a, e, x, 0, 0)
    BY DEF x
  <1>8. TokensHeld(a) + TokensMoving(a)' + e.tokens
          = IF e.state = DIR_FULL THEN TotalTokens ELSE 0
    BY <1>2, <1>4, <1>6, <1>7 DEF Balanced
  <1>9. ReadsPending(a)' = One(e.state = DIR_LOADING)
    BY <1>4, <1>6, <1>7 DEF Balanced, One
  <1> QED
    BY <1>1, <1>3, <1>5, <1>8, <1>9, RootBooks

\* A message has no more tokens than all messages
LEMMA MovingAll ==
  ASSUME TokenInv, NEW x \in Letters(net)
  PROVE  Tok(x) \in Nat /\ Tok(x) <= TokensMoving(x[2].addr)
  <1>1. x \in Channels \X Message
    BY LettersType DEF TokenInv, NetFinite
  <1>2. TokW(x[2].addr)[x] = Tok(x)
    BY <1>1, WeightValues
  <1> QED
    BY <1>2, CountsAll, WeightTypes DEF TokenInv, TokensMoving

LEMMA TokenIncoming ==
  ASSUME IInv, TokenInv, IgnoredBelow, NEW r \in Roots, DoIncoming(r)
  PROVE  TokenInv'
  <1> DEFINE msg == Head(net[incoming(r)])
             x   == <<incoming(r), msg>>
  <1>0. net[incoming(r)] # <<>> /\ lines' = lines
    BY DEF DoIncoming, RootPass, RootRequest, RootRequestData, RootEviction, AtRoot
  <1>1. PICK a \in Addrs : msg.addr = a
    BY <1>0, RootChannels, NodeFront DEF RingOK, Message
  <1> DEFINE entry == dir[r][a]
  <1>2. /\ msg \in Message /\ ~ msg.ignore /\ msg.addr = a /\ msg.sender \in Caches
        /\ msg.tokens \in Nat /\ RingOK(msg) /\ x \in Letters(net)
    BY <1>0, <1>1, RootChannels, NodeFront, LettersType, NetworkType, NotIgnored
       DEF RingOK, Message
  <1>3. /\ Tok(x) = (IF msg.type \in CarriesTokens THEN msg.tokens ELSE 0) /\ ~ Pending(x)
        /\ \A c : IsRequestOf(c, x) <=> msg.sender = c /\ msg.type \in RequestTypes
        /\ LetterOK(dir, x) <=> (msg.type \in {REQUEST, REQUEST_DATA} => msg.tokens = 0)
    BY RingLetter
  <1>4. msg.type \in {REQUEST, REQUEST_DATA} => msg.tokens = 0
    BY <1>2, <1>3, LetterFacts
  <1>5. /\ entry \in Entry /\ entry.tokens \in Nat
        /\ RootOf[a] = r => EntryOf(a) = entry
        /\ TokenBook(a)
        /\ TokensHeld(a) \in Nat /\ TokensMoving(a) \in Nat /\ ReadsPending(a) \in Nat
    <2>1. entry \in Entry /\ entry.tokens \in Nat
      BY Parts DEF Others, Entry
    <2>2. TokenBook(a)
      BY DEF TokenInv
    <2> QED
      BY <2>1, <2>2, BookTypes DEF EntryOf
  <1>6. ASSUME ForwardRoot(r, msg), dir' = dir PROVE TokenInv'
    <2>0. Quiet
      BY <1>0, <1>6 DEF Quiet, QuietLines
    <2>1. CASE Pass(incoming(r), outgoing(r), msg)
      BY <1>0, <1>2, <2>0, <2>1, RootChannels, TokenHandOn
    <2>2. CASE Pass(incoming(r), requests(r), [msg EXCEPT !.ignore = TRUE])
      <3> DEFINE fl == [msg EXCEPT !.ignore = TRUE]
                 y  == <<requests(r), fl>>
      <3>1. /\ fl \in Message /\ fl.type = msg.type /\ fl.addr = a /\ fl.sender = msg.sender
            /\ fl.tokens = msg.tokens /\ fl.ignore
        BY <1>2 DEF Message
      <3> HIDE DEF fl
      <3>2. /\ Tok(y) = (IF fl.type \in CarriesTokens THEN fl.tokens ELSE 0) /\ ~ Pending(y)
            /\ \A c : IsRequestOf(c, y) <=> fl.sender = c /\ fl.type \in RequestTypes
        BY <3>1, RequestsLetter
      <3>3. SameWeights(x, y)
        BY <1>2, <1>3, <3>1, <3>2 DEF SameWeights
      <3>4. LetterOK(dir, y)
        BY <1>4, <3>1, <3>2 DEF LetterOK
      <3> QED
        BY <1>0, <2>0, <2>2, <3>1, <3>3, <3>4, RootChannels, QuietPass DEF fl
    <2> QED
      BY <1>6, <2>1, <2>2 DEF ForwardRoot
  <1>7. CASE RootPass(r)
    BY <1>6, <1>7 DEF RootPass
  <1>8. CASE RootRequest(r)
    <2>1. RootOf[a] = r /\ msg.type = REQUEST
      BY <1>2, <1>8 DEF RootRequest, AtRoot, IsLocalAddress
    <2>2. CASE entry.state = DIR_EMPTY
      <3> DEFINE e == [state |-> DIR_LOADING, tokens |-> 0, sender |-> msg.sender]
                 y == <<requests(r), msg>>
      <3>1. Pass(incoming(r), requests(r), msg) /\ dir' = [dir EXCEPT ![r][a] = e]
        BY <1>2, <1>8, <2>2 DEF RootRequest
      <3>2. /\ e \in Entry /\ e.state = DIR_LOADING /\ e.tokens = 0
            /\ e.sender = msg.sender
        BY <1>2 DEF Entry
      <3> HIDE DEF e
      <3>3. EntryBecomes(a, e)
        BY <2>1, <3>1, EntrySet
      <3>4. /\ Tok(y) = 0 /\ Pending(y) /\ y[1][1] = "requests" /\ y[1][2] = r
            /\ \A c : IsRequestOf(c, y) <=> IsRequestOf(c, x)
        BY <1>2, <1>3, <2>1, RequestsLetter, TypesDiffer
      <3>5. LetterOK(dir', y)
        BY <1>2, <1>4, <2>1, <3>2, <3>3, <3>4, TypesDiffer DEF LetterOK, EntryOf, EntryBecomes
      <3>6. TokensHeld(a) = 0 /\ TokensMoving(a) = 0 /\ ReadsPending(a) = 0 /\ Tok(x) = 0
        BY <1>2, <1>3, <1>5, <2>1, <2>2, EntryFacts, TypesDiffer, StatesDiffer
      <3>7. EntryOf(a).state # DIR_LOADING
        BY <1>5, <2>1, <2>2, StatesDiffer
      <3>8. Balanced(a, e, x, Tok(y), One(Pending(y)))
        BY <1>3, <3>2, <3>4, <3>6, StatesDiffer DEF One, Balanced
      <3> QED
        BY <1>0, <1>2, <3>1, <3>2, <3>3, <3>4, <3>5, <3>7, <3>8, RootChannels, RootPassOn
    <2>3. CASE entry.state # DIR_EMPTY
      BY <1>2, <1>6, <1>8, <2>3 DEF RootRequest
    <2> QED
      BY <2>2, <2>3
  <1>9. CASE RootRequestData(r)
    <2> DEFINE give == IF entry.state = DIR_EMPTY THEN TotalTokens ELSE entry.tokens
               ans  == [msg EXCEPT !.type = REQUEST_DATA_TOKEN, !.tokens = give]
               afl  == [ans EXCEPT !.ignore = TRUE]
               st   == IF entry.state = DIR_EMPTY THEN DIR_FULL ELSE entry.state
               e    == [entry EXCEPT !.tokens = 0, !.state = st]
    <2>1. RootOf[a] = r /\ msg.type = REQUEST_DATA
      BY <1>2, <1>9 DEF RootRequestData, AtRoot, IsLocalAddress
    <2>2. give \in Nat
      BY <1>5, TotalTokensType
    <2>3. CASE ~ give > 0
      BY <1>2, <1>6, <1>9, <2>3 DEF RootRequestData
    <2>4. CASE give > 0
      <3>1. /\ ForwardRoot(r, ans)
            /\ dir' = [dir EXCEPT ![r][a].tokens = 0, ![r][a].state = st]
        BY <1>2, <1>5, <1>9, <2>4, Parts DEF RootRequestData, Others
      <3>2. entry.state = DIR_EMPTY \/ entry.state = DIR_FULL
        BY <1>2, <1>5, <2>1, <2>4, EntryFacts, StatesDiffer DEF Entry
      <3>3. st = DIR_FULL
        BY <3>2
      <3>4. e \in Entry /\ e.tokens = 0 /\ e.state = DIR_FULL /\ EntryBecomes(a, e)
        <4> HIDE DEF give, ans, st
        <4>1. e \in Entry /\ e.tokens = 0 /\ e.state = DIR_FULL
          BY <1>5, <3>3 DEF Entry
        <4>2. dir' = [dir EXCEPT ![r][a] = e]
          BY <3>1, Parts DEF Others
        <4> HIDE DEF e
        <4> QED
          BY <2>1, <4>1, <4>2, EntrySet
      <3>5. /\ ans \in Message /\ ans.type = REQUEST_DATA_TOKEN /\ ans.tokens = give
            /\ ans.addr = a /\ ans.sender = msg.sender /\ ~ ans.ignore
        <4> HIDE DEF give
        <4> QED
          BY <1>2, <2>2 DEF Message, MsgType
      <3>6. /\ afl \in Message /\ afl.type = REQUEST_DATA_TOKEN /\ afl.tokens = give
            /\ afl.addr = a /\ afl.sender = msg.sender /\ afl.ignore
        <4> HIDE DEF ans
        <4> QED
          BY <3>5 DEF Message
      <3>7. Pass(incoming(r), outgoing(r), ans) \/ Pass(incoming(r), requests(r), afl)
        BY <3>1 DEF ForwardRoot
      <3>8. TokensHeld(a) + TokensMoving(a) + give = TotalTokens /\ ReadsPending(a) = 0
        <4>1. CASE entry.state = DIR_EMPTY
          BY <1>2, <1>5, <2>1, <4>1, EntryFacts, TotalTokensType, StatesDiffer
        <4>2. CASE entry.state = DIR_FULL
          BY <1>5, <2>1, <4>2, StatesDiffer DEF TokenBook, One
        <4> QED
          BY <3>2, <4>1, <4>2
      <3>9. EntryOf(a).state # DIR_LOADING
        BY <1>5, <2>1, <3>2, StatesDiffer
      <3> HIDE DEF give, ans, afl, st, e
      <3>10. ASSUME NEW m \in Message, NEW to \in {outgoing(r), requests(r)},
                    Pass(incoming(r), to, m), m.type = REQUEST_DATA_TOKEN, m.tokens = give,
                    m.addr = a, m.sender = msg.sender, to = requests(r) => m.ignore
             PROVE  TokenInv'
        <4> DEFINE y == <<to, m>>
        <4>1. /\ Tok(y) = give /\ ~ Pending(y)
              /\ \A c : IsRequestOf(c, y) <=> IsRequestOf(c, x)
          <5>1. CASE to = outgoing(r)
            <6>1. /\ Tok(y) = (IF m.type \in CarriesTokens THEN m.tokens ELSE 0) /\ ~ Pending(y)
                  /\ \A c : IsRequestOf(c, y) <=> m.sender = c /\ m.type \in RequestTypes
              BY <5>1, RingLetter
            <6> QED
              BY <1>3, <2>1, <3>10, <6>1, TypesDiffer
          <5>2. CASE to = requests(r)
            <6>1. /\ Tok(y) = (IF m.type \in CarriesTokens THEN m.tokens ELSE 0) /\ ~ Pending(y)
                  /\ \A c : IsRequestOf(c, y) <=> m.sender = c /\ m.type \in RequestTypes
              BY <3>10, <5>2, RequestsLetter
            <6> QED
              BY <1>3, <2>1, <3>10, <6>1, TypesDiffer
          <5> QED
            BY <5>1, <5>2
        <4>2. LetterOK(dir', y)
          BY <3>10, <4>1, TypesDiffer DEF LetterOK
        <4>3. Tok(x) = 0
          BY <1>3, <2>1, TypesDiffer
        <4>4. Balanced(a, e, x, Tok(y), One(Pending(y)))
          <5>1. TokensHeld(a) + TokensMoving(a) - Tok(x) + Tok(y) + e.tokens = TotalTokens
            BY <1>5, <2>2, <3>4, <3>8, <4>1, <4>3
          <5> QED
            BY <1>3, <3>4, <3>8, <4>1, <5>1, StatesDiffer DEF One, Balanced
        <4>5. to \in Channels /\ to # incoming(r)
          BY RootChannels
        <4> QED
          BY <1>0, <1>2, <3>4, <3>9, <3>10, <4>1, <4>2, <4>4, <4>5, RootChannels, RootPassOn
      <3>11. outgoing(r) # requests(r)
        BY DEF outgoing, requests
      <3> QED
        BY <3>5, <3>6, <3>7, <3>10, <3>11
    <2> QED
      BY <2>3, <2>4
  <1>10. CASE RootEviction(r)
    <2> DEFINE sum == msg.tokens + entry.tokens
               e   == [entry EXCEPT !.tokens = sum]
               y   == <<requests(r), msg>>
    <2>1. RootOf[a] = r /\ msg.type = EVICTION
      BY <1>2, <1>10 DEF RootEviction, AtRoot, IsLocalAddress
    <2>2. Tok(x) = msg.tokens /\ msg.tokens > 0 /\ msg.tokens <= TokensMoving(a)
      BY <1>2, <1>3, <2>1, MovingAll, TypesDiffer DEF RingOK
    <2>3. entry.state = DIR_FULL
      BY <1>2, <1>5, <2>1, <2>2, LetterFacts
    <2>4. TokensHeld(a) + TokensMoving(a) + entry.tokens = TotalTokens /\ ReadsPending(a) = 0
      BY <1>5, <2>1, <2>3, StatesDiffer DEF TokenBook, One
    <2>5. \A c \in Caches : ~ IsRequestOf(c, x)
      BY <1>3, <2>1, TypesDiffer
    <2>6. EntryOf(a).state # DIR_LOADING
      BY <1>5, <2>1, <2>3, StatesDiffer
    <2>7. CASE sum < TotalTokens
      <3>1. Take(incoming(r)) /\ dir' = [dir EXCEPT ![r][a].tokens = sum]
        BY <1>2, <1>10, <2>7 DEF RootEviction
      <3>2. e \in Entry /\ e.tokens = sum /\ e.state = DIR_FULL /\ EntryBecomes(a, e)
        <4>1. sum \in Nat
          BY <1>2, <1>5
        <4> HIDE DEF sum
        <4>2. e \in Entry /\ e.tokens = sum /\ e.state = DIR_FULL
          BY <1>5, <2>3, <4>1 DEF Entry
        <4>3. dir' = [dir EXCEPT ![r][a] = e]
          BY <3>1, Parts DEF Others
        <4> HIDE DEF e
        <4> QED
          BY <2>1, <4>2, <4>3, EntrySet
      <3> HIDE DEF e
      <3>3. Balanced(a, e, x, 0, 0)
        <4>1. TokensHeld(a) + TokensMoving(a) - Tok(x) + 0 + e.tokens = TotalTokens
          BY <1>2, <1>5, <2>2, <2>4, <3>2
        <4>2. ReadsPending(a) - One(Pending(x)) + 0 = One(e.state = DIR_LOADING)
          <5>1. One(Pending(x)) = 0
            BY <1>3 DEF One
          <5>2. One(e.state = DIR_LOADING) = 0
            BY <3>2, StatesDiffer DEF One
          <5> QED
            BY <2>4, <5>1, <5>2
        <4> QED
          BY <3>2, <4>1, <4>2 DEF Balanced
      <3> QED
        BY <1>0, <1>2, <2>5, <2>6, <3>1, <3>2, <3>3, RootChannels, RootTakes
    <2>8. CASE ~ sum < TotalTokens
      <3>1. /\ Take(incoming(r)) \/ Pass(incoming(r), requests(r), msg)
            /\ dir' = [dir EXCEPT ![r][a] = NoEntry]
        BY <1>2, <1>10, <2>8 DEF RootEviction
      <3>2. /\ NoEntry \in Entry /\ NoEntry.tokens = 0 /\ NoEntry.state = DIR_EMPTY
            /\ EntryBecomes(a, NoEntry)
        BY <1>2, <2>1, <3>1, EntrySet DEF NoEntry, Entry
      <3>3. TokensHeld(a) + TokensMoving(a) - Tok(x) = 0
        BY <1>2, <1>5, <2>2, <2>4, <2>8, TotalTokensType
      <3>4. /\ Tok(y) = 0 /\ ~ Pending(y) /\ y[1][1] = "requests"
            /\ \A c \in Caches : ~ IsRequestOf(c, y)
        BY <1>2, <2>1, RequestsLetter, TypesDiffer
      <3>5. LetterOK(dir', y)
        BY <2>1, <3>4, TypesDiffer DEF LetterOK
      <3>6. /\ Balanced(a, NoEntry, x, 0, 0)
            /\ Balanced(a, NoEntry, x, Tok(y), One(Pending(y)))
        <4>1. /\ TokensHeld(a) + TokensMoving(a) - Tok(x) + 0 + NoEntry.tokens = 0
              /\ TokensHeld(a) + TokensMoving(a) - Tok(x) + Tok(y) + NoEntry.tokens = 0
          BY <3>2, <3>3, <3>4
        <4>2. /\ ReadsPending(a) - One(Pending(x)) + 0 = One(NoEntry.state = DIR_LOADING)
              /\ ReadsPending(a) - One(Pending(x)) + One(Pending(y))
                   = One(NoEntry.state = DIR_LOADING)
          <5>1. One(Pending(x)) = 0 /\ One(Pending(y)) = 0
            BY <1>3, <3>4 DEF One
          <5>2. One(NoEntry.state = DIR_LOADING) = 0
            BY <3>2, StatesDiffer DEF One
          <5> QED
            BY <2>4, <5>1, <5>2
        <4> QED
          BY <3>2, <4>1, <4>2, StatesDiffer DEF Balanced
      <3>7. CASE Take(incoming(r))
        BY <1>0, <1>2, <2>5, <2>6, <3>2, <3>6, <3>7, RootChannels, RootTakes
      <3>8. CASE Pass(incoming(r), requests(r), msg)
        BY <1>0, <1>2, <2>5, <2>6, <3>2, <3>4, <3>5, <3>6, <3>8, RootChannels, RootPassOn
      <3> QED
        BY <3>1, <3>7, <3>8
    <2> QED
      BY <2>7, <2>8
  <1> QED
    BY <1>7, <1>8, <1>9, <1>10 DEF DoIncoming

LEMMA TokenMemory ==
  ASSUME IInv, TokenInv, NEW r \in Roots, DoMemory(r)
  PROVE  TokenInv'
  <1> DEFINE msg == Head(net[requests(r)])
             x   == <<requests(r), msg>>
  <1>0. net[requests(r)] # <<>> /\ Quiet
    BY DEF DoMemory, Quiet, QuietLines
  <1>1. msg \in Message /\ x \in Letters(net)
    BY <1>0, RootChannels, PipeFront, LettersType, NetworkType DEF MsgOK
  <1>2. /\ Tok(x) = IF msg.type \in CarriesTokens /\ (msg.type = EVICTION => msg.ignore)
                    THEN msg.tokens ELSE 0
        /\ Pending(x) <=> ~ msg.ignore /\ msg.type # EVICTION
        /\ \A c : IsRequestOf(c, x) <=> msg.sender = c /\ msg.type \in RequestTypes
        /\ requests(r)[1] = "requests" /\ requests(r)[2] = r
    BY RequestsLetter
  <1>3. LetterOK(dir, x)
    BY <1>1, LetterFacts
  <1>4. \A ch \in {responses(r), active(r)} :
          /\ Tok(<<ch, msg>>) = IF msg.type \in CarriesTokens THEN msg.tokens ELSE 0
          /\ Pending(<<ch, msg>>) <=> ~ msg.ignore /\ msg.type # EVICTION
          /\ \A c : IsRequestOf(c, <<ch, msg>>) <=> msg.sender = c /\ msg.type \in RequestTypes
          /\ ch[2] = r
    BY PipeLetter
  <1>5. CASE msg.ignore /\ Pass(requests(r), responses(r), msg)
    <2> DEFINE y == <<responses(r), msg>>
    <2>1. SameWeights(x, y)
      BY <1>2, <1>4, <1>5 DEF SameWeights
    <2>2. LetterOK(dir, y)
      BY <1>3, <1>4, <1>5 DEF LetterOK
    <2> QED
      BY <1>0, <1>1, <1>5, <2>1, <2>2, RootChannels, QuietPass
  <1>6. CASE ~ msg.ignore /\ msg.type = REQUEST /\ Pass(requests(r), active(r), msg)
    <2> DEFINE y == <<active(r), msg>>
    <2>1. SameWeights(x, y)
      BY <1>2, <1>4, <1>6, TypesDiffer DEF SameWeights
    <2>2. LetterOK(dir, y)
      <3>1. y[1][1] = "active" /\ y[1][2] = r /\ Pending(x)
        BY <1>2, <1>4, <1>6, PipeLetter, TypesDiffer
      <3> QED
        BY <1>2, <1>3, <1>6, <3>1, TypesDiffer DEF LetterOK
    <2> QED
      BY <1>0, <1>1, <1>6, <2>1, <2>2, RootChannels, QuietPass
  <1>7. CASE ~ msg.ignore /\ msg.type = EVICTION /\ Take(requests(r))
    <2>1. Weightless(x)
      BY <1>2, <1>7, TypesDiffer DEF Weightless
    <2> QED
      BY <1>0, <1>1, <1>7, <2>1, RootChannels, QuietTakePut
  <1> QED
    BY <1>5, <1>6, <1>7 DEF DoMemory

LEMMA TokenReadCompleted ==
  ASSUME IInv, TokenInv, NEW r \in Roots, OnReadCompleted(r)
  PROVE  TokenInv'
  <1> DEFINE msg == Head(net[active(r)])
             ans == [msg EXCEPT !.type = REQUEST_DATA_TOKEN, !.dirty = FALSE,
                                !.data = mem[msg.addr]]
             x   == <<active(r), msg>>
             y   == <<responses(r), ans>>
  <1>0. net[active(r)] # <<>> /\ Pass(active(r), responses(r), ans) /\ Quiet
    BY DEF OnReadCompleted, Quiet, QuietLines
  <1>1. /\ msg \in Message /\ InPlace(active(r), msg) /\ x \in Letters(net)
        /\ msg.addr \in Addrs /\ mem[msg.addr] \in Data
    BY <1>0, RootChannels, PipeFront, LettersType, NetworkType, Parts DEF MsgOK, Others
  <1>2. /\ Tok(x) = (IF msg.type \in CarriesTokens THEN msg.tokens ELSE 0)
        /\ Pending(x) <=> ~ msg.ignore /\ msg.type # EVICTION
        /\ \A c : IsRequestOf(c, x) <=> msg.sender = c /\ msg.type \in RequestTypes
        /\ active(r)[1] = "active" /\ active(r)[2] = r
    BY PipeLetter
  <1>3. LetterOK(dir, x)
    BY <1>1, LetterFacts
  <1>4. ~ msg.ignore
    BY <1>1, <1>2 DEF InPlace
  <1>5. msg.type # EVICTION
    BY <1>2, <1>3, <1>4 DEF LetterOK, MemoryPipe
  <1>6. /\ msg.type = REQUEST /\ msg.tokens = 0 /\ r = RootOf[msg.addr]
        /\ msg.sender = dir[RootOf[msg.addr]][msg.addr].sender
    BY <1>2, <1>3, <1>4, <1>5 DEF LetterOK
  <1>7. /\ ans \in Message /\ ans.type = REQUEST_DATA_TOKEN /\ ans.addr = msg.addr
        /\ ans.sender = msg.sender /\ ans.tokens = 0 /\ ~ ans.ignore
    BY <1>1, <1>4, <1>6 DEF Message, MsgType
  <1> HIDE DEF ans
  <1>8. /\ Tok(y) = 0 /\ Pending(y)
        /\ \A c : IsRequestOf(c, y) <=> ans.sender = c /\ ans.type \in RequestTypes
        /\ y[1][1] = "responses" /\ y[1][2] = r
    <2>1. /\ Tok(y) = (IF ans.type \in CarriesTokens THEN ans.tokens ELSE 0)
          /\ Pending(y) <=> ~ ans.ignore /\ ans.type # EVICTION
          /\ \A c : IsRequestOf(c, y) <=> ans.sender = c /\ ans.type \in RequestTypes
          /\ y[1][1] = "responses" /\ y[1][2] = r
      BY PipeLetter
    <2> QED
      BY <1>7, <2>1, TypesDiffer
  <1>9. SameWeights(x, y)
    BY <1>2, <1>4, <1>6, <1>7, <1>8, TypesDiffer DEF SameWeights
  <1>10. LetterOK(dir, y)
    BY <1>6, <1>7, <1>8, TypesDiffer DEF LetterOK
  <1> QED
    BY <1>0, <1>7, <1>9, <1>10, RootChannels, QuietPass

LEMMA TokenResponses ==
  ASSUME IInv, TokenInv, NEW r \in Roots, DoResponses(r)
  PROVE  TokenInv'
  <1> DEFINE msg == Head(net[responses(r)])
             x   == <<responses(r), msg>>
  <1>0. net[responses(r)] # <<>> /\ lines' = lines
    BY DEF DoResponses
  <1>1. PICK a \in Addrs : msg.addr = a
    BY <1>0, RootChannels, PipeFront
  <1>2. msg \in Message /\ x \in Letters(net)
    BY <1>0, RootChannels, PipeFront, LettersType, NetworkType DEF MsgOK
  <1>3. /\ Tok(x) = (IF msg.type \in CarriesTokens THEN msg.tokens ELSE 0)
        /\ Pending(x) <=> ~ msg.ignore /\ msg.type # EVICTION
        /\ \A c : IsRequestOf(c, x) <=> msg.sender = c /\ msg.type \in RequestTypes
        /\ responses(r)[1] = "responses" /\ responses(r)[2] = r
    BY PipeLetter
  <1>4. /\ LetterOK(dir, x)
        /\ Pending(x) => EntryOf(a).state = DIR_LOADING
    BY <1>1, <1>2, LetterFacts
  <1>5. CASE msg.ignore
    <2> DEFINE fl == [msg EXCEPT !.ignore = FALSE]
               y  == <<outgoing(r), fl>>
    <2>1. Pass(responses(r), outgoing(r), fl) /\ Quiet
      BY <1>0, <1>5 DEF DoResponses, Quiet, QuietLines
    <2>2. /\ fl \in Message /\ fl.type = msg.type /\ fl.addr = msg.addr
          /\ fl.sender = msg.sender /\ fl.tokens = msg.tokens
      BY <1>2 DEF Message
    <2> HIDE DEF fl
    <2>3. /\ Tok(y) = (IF fl.type \in CarriesTokens THEN fl.tokens ELSE 0) /\ ~ Pending(y)
          /\ \A c : IsRequestOf(c, y) <=> fl.sender = c /\ fl.type \in RequestTypes
          /\ LetterOK(dir, y) <=> (fl.type \in {REQUEST, REQUEST_DATA} => fl.tokens = 0)
      BY RingLetter
    <2>4. SameWeights(x, y)
      BY <1>3, <1>5, <2>2, <2>3 DEF SameWeights
    <2>5. LetterOK(dir, y)
      BY <1>4, <2>2, <2>3 DEF LetterOK
    <2> QED
      BY <1>0, <2>1, <2>2, <2>4, <2>5, RootChannels, QuietPass
  <1>6. CASE ~ msg.ignore
    <2> DEFINE entry == dir[r][a]
               ans   == [msg EXCEPT !.tokens = TotalTokens, !.sender = entry.sender]
               e     == [entry EXCEPT !.state = DIR_FULL]
               y     == <<outgoing(r), ans>>
    <2>1. msg.type # EVICTION
      BY <1>3, <1>4, <1>6 DEF LetterOK, MemoryPipe
    <2>2. /\ Pending(x) /\ msg.type = REQUEST_DATA_TOKEN /\ msg.tokens = 0 /\ r = RootOf[a]
          /\ msg.sender = entry.sender
      BY <1>1, <1>3, <1>4, <1>6, <2>1 DEF LetterOK
    <2>3. /\ Pass(responses(r), outgoing(r), ans)
          /\ dir' = [dir EXCEPT ![r][a].state = DIR_FULL]
      BY <1>1, <1>6 DEF DoResponses
    <2>4. entry \in Entry /\ EntryOf(a) = entry /\ entry.state = DIR_LOADING
      BY <1>4, <2>2, BookTypes DEF EntryOf
    <2>5. /\ e \in Entry /\ e.state = DIR_FULL /\ e.tokens = entry.tokens
          /\ e.sender = entry.sender
      BY <2>4 DEF Entry
    <2>6. EntryBecomes(a, e)
      <3>1. dir' = [dir EXCEPT ![r][a] = e]
        BY <2>3, Parts DEF Others
      <3> HIDE DEF e
      <3> QED
        BY <2>2, <3>1, EntrySet
    <2>7. /\ ans \in Message /\ ans.type = REQUEST_DATA_TOKEN /\ ans.addr = a
          /\ ans.sender = msg.sender /\ ans.tokens = TotalTokens
      BY <1>1, <1>2, <2>2, <2>4, TotalTokensType DEF Message, Entry
    <2> HIDE DEF ans, e
    <2>8. /\ Tok(y) = TotalTokens /\ ~ Pending(y)
          /\ \A c : IsRequestOf(c, y) <=> IsRequestOf(c, x)
          /\ LetterOK(dir', y)
      <3>1. /\ Tok(y) = (IF ans.type \in CarriesTokens THEN ans.tokens ELSE 0) /\ ~ Pending(y)
            /\ \A c : IsRequestOf(c, y) <=> ans.sender = c /\ ans.type \in RequestTypes
            /\ LetterOK(dir', y) <=> (ans.type \in {REQUEST, REQUEST_DATA} => ans.tokens = 0)
        BY RingLetter
      <3> QED
        BY <1>3, <2>2, <2>7, <3>1, TypesDiffer
    <2>9. /\ TokensHeld(a) = 0 /\ TokensMoving(a) = 0 /\ entry.tokens = 0 /\ Tok(x) = 0
          /\ ReadsPending(a) = 1
      <3>1. TokensHeld(a) = 0 /\ TokensMoving(a) = 0 /\ entry.tokens = 0
        BY <2>4, EntryFacts, StatesDiffer
      <3>2. ReadsPending(a) = 1
        BY <2>4 DEF TokenInv, TokenBook, One
      <3> QED
        BY <1>3, <2>2, <3>1, <3>2
    <2>10. Balanced(a, e, x, Tok(y), One(Pending(y)))
      <3>1. TokensHeld(a) + TokensMoving(a) - Tok(x) + Tok(y) + e.tokens = TotalTokens
        BY <2>5, <2>8, <2>9, TotalTokensType
      <3>2. One(Pending(x)) = 1 /\ One(Pending(y)) = 0 /\ One(e.state = DIR_LOADING) = 0
        BY <2>2, <2>5, <2>8, StatesDiffer DEF One
      <3>3. ReadsPending(a) - One(Pending(x)) + One(Pending(y)) = One(e.state = DIR_LOADING)
        BY <2>9, <3>2
      <3> QED
        BY <2>5, <3>1, <3>3 DEF Balanced
    <2>11. EntryOf(a).state = DIR_LOADING => e.sender = EntryOf(a).sender
      BY <2>4, <2>5
    <2> QED
      BY <1>0, <1>1, <2>3, <2>5, <2>6, <2>7, <2>8, <2>10, <2>11, RootChannels, RootPassOn
  <1> QED
    BY <1>5, <1>6

-----------------------------------------------------------------------------
(* The invariant of the books                                              *)

LEMMA EmptyNetwork ==
  ASSUME Init
  PROVE  /\ NetFinite(net) /\ Letters(net) = {}
         /\ \A W \in Weights : Count(net, W) = 0
  <1>1. net \in Networks /\ \A ch \in Channels : net[ch] = <<>>
    BY DEF Init, Networks
  <1>2. Letters(net) = {}
    BY <1>1 DEF Letters
  <1>3. ASSUME NEW W \in Weights PROVE Marks(net, W) = {}
    BY <1>1 DEF Marks
  <1> QED
    BY <1>1, <1>2, <1>3, FS_EmptySet DEF NetFinite, Count

LEMMA TokenInit == Init => TokenInv /\ IgnoredBelow
  <1> SUFFICES ASSUME Init PROVE TokenInv /\ IgnoredBelow
    OBVIOUS
  <1>1. /\ NetFinite(net) /\ Letters(net) = {}
        /\ \A W \in Weights : Count(net, W) = 0
    BY EmptyNetwork
  <1>2. \A c \in Caches, a \in Addrs : /\ lines[c][a].tokens = 0
                                       /\ lines[c][a].state = LINE_EMPTY
    BY DEF Init, InitCache, EmptyLine
  <1>3. ASSUME NEW a \in Addrs PROVE TokenBook(a)
    <2>1. Held(lines, a, Caches) = {}
      BY <1>2 DEF Held, Row
    <2>2. IsFiniteSet(Held(lines, a, Caches)) /\ TokensHeld(a) = 0
      BY <2>1, FS_EmptySet DEF TokensHeld
    <2>3. EntryOf(a).tokens = 0 /\ EntryOf(a).state = DIR_EMPTY
      BY RootAssumption DEF Init, InitRoot, EntryOf, NoEntry
    <2>4. TokensMoving(a) = 0 /\ ReadsPending(a) = 0
      BY <1>1, WeightTypes DEF TokensMoving, ReadsPending
    <2> QED
      BY <2>2, <2>3, <2>4, StatesDiffer DEF TokenBook, One
  <1>4. ASSUME NEW c \in Caches, NEW a \in Addrs PROVE RequestBook(c, a)
    BY <1>1, <1>2, WeightTypes, StatesDiffer DEF RequestBook, RequestsOf, One
  <1> QED
    BY <1>1, <1>3, <1>4 DEF TokenInv, LettersSound, IgnoredBelow

LEMMA TokenNext ==
  IInv /\ TokenInv /\ IgnoredBelow /\ [Next]_vars => TokenInv' /\ IgnoredBelow'
  <1> SUFFICES ASSUME IInv, TokenInv, IgnoredBelow, [Next]_vars
               PROVE  TokenInv' /\ IgnoredBelow'
    OBVIOUS
  <1>1. CASE UNCHANGED net /\ (ClientRead \/ ClientWrite \/ UNCHANGED vars)
    <2>1. TokenInv'
      BY <1>1, TokenClients, QuietStep DEF vars, Quiet, QuietLines
    <2>2. IgnoredBelow'
      BY <1>1, IgnoredKept
    <2> QED
      BY <2>1, <2>2
  <1>2. ASSUME NEW n \in Nodes, DoForward(n) PROVE TokenInv' /\ IgnoredBelow'
    BY <1>2, TokenForward, IgnoredForward
  <1>3. ASSUME NEW c \in Caches, CacheStep(c) PROVE TokenInv' /\ IgnoredBelow'
    BY <1>3, TokenRequests, TokenReceive, IgnoredCache DEF CacheStep
  <1>4. ASSUME NEW d \in Directories, DirectoryStep(d) PROVE TokenInv' /\ IgnoredBelow'
    BY <1>4, TokenDirectory, IgnoredDirectory
  <1>5. ASSUME NEW r \in Roots, RootStep(r) PROVE TokenInv' /\ IgnoredBelow'
    <2>1. IgnoredBelow'
      BY <1>5, IgnoredRoot
    <2>2. TokenInv'
      BY <1>5, TokenIncoming, TokenMemory, TokenReadCompleted, TokenResponses DEF RootStep
    <2> QED
      BY <2>1, <2>2
  <1>6. ClientRead \/ ClientWrite \/ UNCHANGED vars => UNCHANGED net
    BY DEF ClientRead, ClientWrite, Read, Write, vars
  <1> QED
    BY <1>1, <1>2, <1>3, <1>4, <1>5, <1>6 DEF Next

-----------------------------------------------------------------------------
(* The sets that the properties count                                      *)

LEMMA PlaceLetters ==
  ASSUME net \in Networks, NEW p \in Places
  PROVE  /\ p[1] \in Channels /\ p[2] \in 1..Len(net[p[1]]) /\ p = <<p[1], p[2]>>
         /\ At(p) \in Message /\ <<p[1], At(p)>> \in Letters(net)
         /\ <<p[1], At(p)>> \in Channels \X Message
  <1>1. PICK ch \in Channels : p \in {<<ch, k>> : k \in DOMAIN net[ch]}
    BY DEF Places
  <1>2. PICK k \in 1..Len(net[ch]) : p = <<ch, k>>
    BY <1>1 DEF Networks
  <1>3. At(p) = net[ch][k] /\ net[ch][k] \in Message
    BY <1>2 DEF At, Networks
  <1> QED
    BY <1>2, <1>3 DEF Letters

LEMMA PlaceMarks ==
  ASSUME net \in Networks, NEW W \in Weights, NEW t
  PROVE  t \in Marks(net, W) <=>
           \E p \in Places : \E i \in 1..W[<<p[1], At(p)>>] : t = <<p, i>>
  <1>1. ASSUME t \in Marks(net, W)
        PROVE  \E p \in Places : \E i \in 1..W[<<p[1], At(p)>>] : t = <<p, i>>
    <2>1. /\ t = <<<<t[1][1], t[1][2]>>, t[2]>> /\ t[1][1] \in Channels
          /\ t[1][2] \in 1..Len(net[t[1][1]])
          /\ t[2] \in 1..W[<<t[1][1], net[t[1][1]][t[1][2]]>>]
      BY <1>1, MarkParts
    <2>2. <<t[1][1], t[1][2]>> \in Places
      BY <2>1 DEF Places, Networks
    <2> QED
      BY <2>1, <2>2 DEF At
  <1>2. ASSUME NEW p \in Places, NEW i \in 1..W[<<p[1], At(p)>>], t = <<p, i>>
        PROVE  t \in Marks(net, W)
    <2>1. /\ p[1] \in Channels /\ p[2] \in 1..Len(net[p[1]]) /\ p = <<p[1], p[2]>>
          /\ <<p[1], At(p)>> \in Channels \X Message
      BY PlaceLetters
    <2>2. W[<<p[1], At(p)>>] \in Nat /\ p[2] \in Nat /\ i \in Nat
      BY <2>1 DEF Weights, Networks
    <2>3. <<<<p[1], p[2]>>, i>> \in Marks(net, W)
      BY <2>1, <2>2, MarkIs DEF At
    <2> QED
      BY <1>2, <2>1, <2>3
  <1> QED
    BY <1>1, <1>2

\* A set of places, counted by the weight that is 1 there and 0 elsewhere
LEMMA PlaceCount ==
  ASSUME NetFinite(net), NEW W \in Weights, NEW S \in SUBSET Places,
         \A p \in Places : W[<<p[1], At(p)>>] = IF p \in S THEN 1 ELSE 0
  PROVE  IsFiniteSet(S) /\ Cardinality(S) = Count(net, W)
  <1> DEFINE f == [t \in Marks(net, W) |-> t[1]]
  <1>0. net \in Networks /\ IsFiniteSet(Marks(net, W))
    BY DEF NetFinite
  <1>1. \A t : t \in Marks(net, W) <=> \E p \in S : t = <<p, 1>>
    <2>1. \A t : t \in Marks(net, W) <=>
                   \E p \in Places : \E i \in 1..W[<<p[1], At(p)>>] : t = <<p, i>>
      BY <1>0, PlaceMarks
    <2>2. \A p \in Places : \A i : i \in 1..W[<<p[1], At(p)>>] <=> p \in S /\ i = 1
      OBVIOUS
    <2> QED
      BY <2>1, <2>2
  <1>2. f \in [Marks(net, W) -> S]
    BY <1>1
  <1>3. \A s, t \in Marks(net, W) : f[s] = f[t] => s = t
    BY <1>1
  <1>4. ASSUME NEW p \in S PROVE \E t \in Marks(net, W) : f[t] = p
    <2>1. <<p, 1>> \in Marks(net, W)
      BY <1>1
    <2>2. f[<<p, 1>>] = p
      BY <2>1
    <2> QED
      BY <2>1, <2>2
  <1> HIDE DEF f
  <1> QED
    BY <1>0, <1>2, <1>3, <1>4, BijectionCount DEF Count

LEMMA FlightMarks ==
  ASSUME net \in Networks, NEW a
  PROVE  TokensInFlight(a) = Marks(net, TokW(a))
  <1>1. ASSUME NEW p \in Places
        PROVE  TokW(a)[<<p[1], At(p)>>] =
                 IF p \in InFlight(a, CarriesTokens) /\ ~ IsWriteback(p) THEN At(p).tokens ELSE 0
    <2>1. <<p[1], At(p)>> \in Channels \X Message
      BY PlaceLetters
    <2>2. TokW(a)[<<p[1], At(p)>>] = IF At(p).addr = a THEN Tok(<<p[1], At(p)>>) ELSE 0
      BY <2>1, WeightValues
    <2> QED
      BY <2>2 DEF Tok, InFlight, IsWriteback
  <1>2. \A t : t \in TokensInFlight(a) <=>
          \E p \in Places : \E i \in 1..TokW(a)[<<p[1], At(p)>>] : t = <<p, i>>
    <2> SUFFICES ASSUME NEW t
                 PROVE  t \in TokensInFlight(a) <=>
                          \E p \in Places : \E i \in 1..TokW(a)[<<p[1], At(p)>>] : t = <<p, i>>
      OBVIOUS
    <2>1. t \in TokensInFlight(a) <=>
            \E p \in Places : /\ p \in InFlight(a, CarriesTokens) /\ ~ IsWriteback(p)
                              /\ \E i \in 1..At(p).tokens : t = <<p, i>>
      BY DEF TokensInFlight, InFlight
    <2>2. \A p \in Places :
            (/\ p \in InFlight(a, CarriesTokens) /\ ~ IsWriteback(p)
             /\ \E i \in 1..At(p).tokens : t = <<p, i>>)
              <=> \E i \in 1..TokW(a)[<<p[1], At(p)>>] : t = <<p, i>>
      BY <1>1
    <2> QED
      BY <2>1, <2>2
  <1>3. \A t : t \in Marks(net, TokW(a)) <=>
          \E p \in Places : \E i \in 1..TokW(a)[<<p[1], At(p)>>] : t = <<p, i>>
    BY PlaceMarks, WeightTypes
  <1> QED
    BY <1>2, <1>3

LEMMA BooksConserve == IInv /\ TokenInv => TokenConservation
  <1> SUFFICES ASSUME IInv, TokenInv, NEW a \in Addrs
               PROVE  Tokens(a) = IF dir[RootOf[a]][a].state = DIR_FULL THEN TotalTokens ELSE 0
    BY DEF TokenConservation
  <1>1. TokensInCaches(a) = Held(lines, a, Caches)
    BY DEF TokensInCaches, Held, Row
  <1>2. TokensInFlight(a) = Marks(net, TokW(a))
    BY FlightMarks DEF TokenInv, NetFinite
  <1>3. TokenBook(a)
    BY DEF TokenInv
  <1> QED
    BY <1>1, <1>2, <1>3 DEF Tokens, TokenBook, TokensHeld, TokensMoving, Count, EntryOf

LEMMA BooksRequests == IInv /\ TokenInv => OneRequestPerLoadingLine
  <1> SUFFICES ASSUME IInv, TokenInv, NEW c \in Caches, NEW a \in Addrs
               PROVE  Cardinality({p \in InFlight(a, RequestTypes) : At(p).sender = c})
                        = IF lines[c][a].state = LINE_LOADING THEN 1 ELSE 0
    BY DEF OneRequestPerLoadingLine
  <1> DEFINE S == {p \in InFlight(a, RequestTypes) : At(p).sender = c}
  <1>1. S \in SUBSET Places
    BY DEF InFlight
  <1>2. ASSUME NEW p \in Places
        PROVE  ReqW(c, a)[<<p[1], At(p)>>] = IF p \in S THEN 1 ELSE 0
    <2>1. <<p[1], At(p)>> \in Channels \X Message
      BY PlaceLetters DEF TokenInv, NetFinite
    <2> QED
      BY <2>1, WeightValues DEF InFlight
  <1> HIDE DEF S
  <1>3. Cardinality(S) = Count(net, ReqW(c, a))
    BY <1>1, <1>2, PlaceCount, WeightTypes DEF TokenInv
  <1>4. RequestBook(c, a)
    BY DEF TokenInv
  <1> QED
    BY <1>3, <1>4 DEF RequestBook, RequestsOf, One, S

\* Two caches have no more tokens than all caches
LEMMA HeldTwo ==
  ASSUME IInv, TokenInv, NEW a \in Addrs, NEW c \in Caches, NEW d \in Caches, c # d
  PROVE  lines[c][a].tokens + lines[d][a].tokens <= TokensHeld(a)
  <1> DEFINE R == Row(c, lines[c][a].tokens)
             T == Row(d, lines[d][a].tokens)
  <1>1. lines[c][a].tokens \in Nat /\ lines[d][a].tokens \in Nat
    BY BookTypes
  <1>2. /\ IsFiniteSet(R) /\ Cardinality(R) = lines[c][a].tokens
        /\ IsFiniteSet(T) /\ Cardinality(T) = lines[d][a].tokens
    BY <1>1, RowCount
  <1>3. R \cap T = {} /\ R \cup T \subseteq Held(lines, a, Caches)
    BY DEF Row, Held
  <1>4. IsFiniteSet(Held(lines, a, Caches))
    BY DEF TokenInv, TokenBook
  <1> HIDE DEF R, T
  <1>5. IsFiniteSet(R \cup T) /\ Cardinality(R \cup T) = Cardinality(R) + Cardinality(T)
    BY <1>2, <1>3, DisjointCount
  <1>6. Cardinality(R \cup T) <= Cardinality(Held(lines, a, Caches))
    BY <1>3, <1>4, FS_Subset
  <1> QED
    BY <1>2, <1>5, <1>6 DEF TokensHeld

LEMMA BooksSoleOwner == IInv /\ TokenInv => SoleOwner
  <1> SUFFICES ASSUME IInv, TokenInv, NEW a \in Addrs, NEW c \in Caches,
                      lines[c][a].state = LINE_FULL, IsExclusive(lines[c][a])
               PROVE  /\ \A d \in Caches : lines[d][a].state = LINE_FULL => d = c
                      /\ \A p \in InFlight(a, CarriesTokens) : IsWriteback(p)
    BY DEF SoleOwner
  <1>1. lines[c][a].tokens = TotalTokens /\ TotalTokens \in Nat /\ TotalTokens > 0
    BY TotalTokensType DEF IsExclusive
  <1>2. TokenBook(a) /\ lines[c][a].tokens <= TokensHeld(a)
    BY HeldAll DEF TokenInv
  <1>3. /\ EntryOf(a).state = DIR_FULL /\ TokensHeld(a) = TotalTokens
        /\ TokensMoving(a) = 0
    BY <1>1, <1>2, BookTypes DEF TokenBook
  <1>4. ASSUME NEW d \in Caches, lines[d][a].state = LINE_FULL, d # c PROVE FALSE
    <2>1. lines[d][a].tokens > 0 /\ lines[d][a].tokens \in Nat
      BY <1>4, BookTypes DEF LineOK
    <2>2. lines[c][a].tokens + lines[d][a].tokens <= TokensHeld(a)
      BY <1>4, HeldTwo
    <2> QED
      BY <1>1, <1>3, <2>1, <2>2
  <1>5. ASSUME NEW p \in InFlight(a, CarriesTokens), ~ IsWriteback(p) PROVE FALSE
    <2> DEFINE x == <<p[1], At(p)>>
    <2>1. p \in Places /\ At(p).addr = a /\ At(p).type \in CarriesTokens
      BY DEF InFlight
    <2>2. x \in Letters(net) /\ p[1] \in Channels /\ p[2] \in 1..Len(net[p[1]]) /\ At(p) \in Message
      BY <2>1, PlaceLetters DEF TokenInv, NetFinite
    <2>3. HasItsTokens(p[1], At(p))
      BY <2>2, Parts DEF NetOK, InPlace, At
    <2>4. Tok(x) = At(p).tokens
      BY <1>5, <2>1 DEF Tok, IsWriteback
    <2>5. Tok(x) = 0 /\ ~ Pending(x) /\ LetterOK(dir, x)
      BY <1>3, <2>1, <2>2, MovingAll, LetterFacts, StatesDiffer
    <2>6. p[1][1] \in MemoryPipe /\ ~ At(p).ignore
      BY <2>1, <2>3, <2>4, <2>5 DEF HasItsTokens
    <2>7. At(p).type = EVICTION
      BY <2>5, <2>6 DEF Pending
    <2> QED
      BY <1>5, <2>5, <2>6, <2>7 DEF LetterOK, IsWriteback
  <1> QED
    BY <1>4, <1>5

\* The three facts of the invariant proof, for all properties that the books imply
LEMMA BooksHold == Spec => [](IInv /\ TokenInv /\ IgnoredBelow)
  <1>1. Init => IInv /\ TokenInv /\ IgnoredBelow
    BY InitOK, TokenInit
  <1>2. IInv /\ TokenInv /\ IgnoredBelow /\ [Next]_vars
          => IInv' /\ TokenInv' /\ IgnoredBelow'
    BY NextOK, TokenNext
  <1> QED
    BY <1>1, <1>2, PTL DEF Spec

(* Tokens are neither lost nor made: while the root directory has a line as  *)
(* introduced, exactly one token for every cache of the system exists for it *)
(* (RootDirectory.cpp, GetTotalTokens), however many caches, rings, roots and *)
(* buffer slots there are.                                                  *)
THEOREM TokensConserved == Spec => []TokenConservation
  <1> QED
    BY BooksHold, BooksConserve, PTL

(* A loading line waits for exactly one request, and no other line has one:   *)
(* the assertions at the arrival of a response in Cache.cpp cannot fail.      *)
THEOREM OneRequestEach == Spec => []OneRequestPerLoadingLine
  <1> QED
    BY BooksHold, BooksRequests, PTL

(* A cache that writes without an update, because its line has all tokens,   *)
(* has the only copy: none is in another cache or on its way (Cache.cpp,     *)
(* OnWriteRequest).                                                         *)
THEOREM ExclusiveAlone == Spec => []SoleOwner
  <1> QED
    BY BooksHold, BooksSoleOwner, PTL

-----------------------------------------------------------------------------
(* The books of updates                                                    *)

UpdatesIn(c, a) == Count(net, UpdW(c, a))
AllUpdates(c)   == Count(net, AllUpdW(c))

WritesQueued(c) == Cardinality(QueuedWrites(bus[c]))

\* A line counts its updates in the network; an empty one has none
UpdateLines ==
  \A c \in Caches, a \in Addrs :
    /\ lines[c][a].updating = UpdatesIn(c, a)
    /\ lines[c][a].state = LINE_EMPTY => lines[c][a].updating = 0

\* A write that is not acknowledged is queued, or an update in the network
UpdateWrites == \A c \in Caches : unacked[c] = WritesQueued(c) + AllUpdates(c)

UpdateInv == UpdateLines /\ UpdateWrites

IsUpdateOf(c, x) == x[2].sender = c /\ x[2].type = UPDATE

UpdatesSame ==
  \A c \in Caches : /\ AllUpdates(c)' = AllUpdates(c)
                    /\ \A a \in Addrs : UpdatesIn(c, a)' = UpdatesIn(c, a)

\* An update stays what it is on its way
SameUpdate(h, m) ==
  /\ m.type = UPDATE <=> h.type = UPDATE
  /\ h.type = UPDATE => m.addr = h.addr /\ m.sender = h.sender

LEMMA UpdateTypes ==
  ASSUME NetFinite(net)
  PROVE  \A c : AllUpdates(c) \in Nat /\ \A a : UpdatesIn(c, a) \in Nat
  BY CountType, WeightTypes DEF AllUpdates, UpdatesIn

LEMMA UpdateFlow ==
  ASSUME NetFinite(net), NEW from \in Channels, NEW to \in Channels, from # to,
         NEW m \in Message
  PROVE  /\ net[from] # <<>> /\ Take(from) =>
              \A c : /\ AllUpdates(c)' = AllUpdates(c) - One(IsUpdateOf(c, <<from, Head(net[from])>>))
                     /\ \A a : UpdatesIn(c, a)' = UpdatesIn(c, a)
                          - One(Head(net[from]).addr = a /\ IsUpdateOf(c, <<from, Head(net[from])>>))
         /\ Put(to, m) =>
              \A c : /\ AllUpdates(c)' = AllUpdates(c) + One(IsUpdateOf(c, <<to, m>>))
                     /\ \A a : UpdatesIn(c, a)' = UpdatesIn(c, a)
                          + One(m.addr = a /\ IsUpdateOf(c, <<to, m>>))
         /\ net[from] # <<>> /\ Pass(from, to, m) /\ SameUpdate(Head(net[from]), m)
              => UpdatesSame
  <1> DEFINE x == <<from, Head(net[from])>>
             y == <<to, m>>
  <1>1. y \in Channels \X Message /\ (net[from] # <<>> => x \in Channels \X Message)
    BY LettersType DEF NetFinite
  <1>2. \A z \in Channels \X Message :
          \A c : /\ AllUpdW(c)[z] = One(IsUpdateOf(c, z))
                 /\ \A a : UpdW(c, a)[z] = One(z[2].addr = a /\ IsUpdateOf(c, z))
    BY WeightValues DEF One, IsUpdateOf
  <1>3. \A c : AllUpdW(c) \in Weights /\ \A a : UpdW(c, a) \in Weights
    BY WeightTypes
  <1>4. x[2] = Head(net[from]) /\ y[2] = m
    OBVIOUS
  <1> HIDE DEF x, y
  <1>5. ASSUME net[from] # <<>>, Take(from)
        PROVE  \A c : /\ AllUpdates(c)' = AllUpdates(c) - One(IsUpdateOf(c, x))
                      /\ \A a : UpdatesIn(c, a)' = UpdatesIn(c, a)
                                  - One(Head(net[from]).addr = a /\ IsUpdateOf(c, x))
    <2>1. \A W \in Weights : Count(net', W) = Count(net, W) - W[x]
      BY <1>5, MoveCounts DEF x
    <2> QED
      BY <1>1, <1>2, <1>3, <1>4, <1>5, <2>1 DEF AllUpdates, UpdatesIn
  <1>6. ASSUME Put(to, m)
        PROVE  \A c : /\ AllUpdates(c)' = AllUpdates(c) + One(IsUpdateOf(c, y))
                      /\ \A a : UpdatesIn(c, a)' = UpdatesIn(c, a)
                                  + One(m.addr = a /\ IsUpdateOf(c, y))
    <2>1. \A W \in Weights : Count(net', W) = Count(net, W) + W[y]
      BY <1>6, MoveCounts DEF y
    <2> QED
      BY <1>1, <1>2, <1>3, <1>4, <1>6, <2>1 DEF AllUpdates, UpdatesIn
  <1>7. ASSUME net[from] # <<>>, Pass(from, to, m), SameUpdate(Head(net[from]), m)
        PROVE  UpdatesSame
    <2>1. \A W \in Weights : Count(net', W) = Count(net, W) - W[x] + W[y]
      BY <1>7, MoveCounts DEF x, y
    <2>2. \A c : /\ IsUpdateOf(c, x) <=> IsUpdateOf(c, y)
                 /\ IsUpdateOf(c, x) => x[2].addr = y[2].addr
      BY <1>4, <1>7 DEF IsUpdateOf, SameUpdate
    <2>3. \A c : AllUpdW(c)[x] = AllUpdW(c)[y] /\ \A a : UpdW(c, a)[x] = UpdW(c, a)[y]
      BY <1>1, <1>2, <1>7, <2>2 DEF One
    <2>4. \A W \in Weights : Count(net, W) \in Nat /\ W[x] \in Nat
      BY <1>1, <1>7, CountType DEF Weights
    <2>5. \A W \in Weights : W[x] = W[y] => Count(net', W) = Count(net, W)
      BY <2>1, <2>4
    <2> QED
      BY <1>3, <2>3, <2>5 DEF UpdatesSame, AllUpdates, UpdatesIn
  <1> QED
    BY <1>5, <1>6, <1>7 DEF x, y

\* Messages that are no updates come and go
LEMMA UpdateOthers ==
  ASSUME NetFinite(net), NEW from \in Channels, NEW to \in Channels, from # to,
         NEW m \in Message
  PROVE  /\ net[from] # <<>> /\ Take(from) /\ Head(net[from]).type # UPDATE => UpdatesSame
         /\ Put(to, m) /\ m.type # UPDATE => UpdatesSame
  <1> DEFINE x == <<from, Head(net[from])>>
             y == <<to, m>>
  <1>1. y \in Channels \X Message /\ (net[from] # <<>> => x \in Channels \X Message)
    BY LettersType DEF NetFinite
  <1>2. \A z \in Channels \X Message : z[2].type # UPDATE =>
          \A c : AllUpdW(c)[z] = 0 /\ \A a : UpdW(c, a)[z] = 0
    BY WeightValues
  <1>3. \A c : AllUpdW(c) \in Weights /\ \A a : UpdW(c, a) \in Weights
    BY WeightTypes
  <1>4. x[2] = Head(net[from]) /\ y[2] = m
    OBVIOUS
  <1> HIDE DEF x, y
  <1>5. ASSUME NEW z \in Channels \X Message, z[2].type # UPDATE,
               \A W \in Weights : \/ Count(net', W) = Count(net, W) - W[z]
                                  \/ Count(net', W) = Count(net, W) + W[z]
        PROVE  UpdatesSame
    <2>1. \A W \in Weights : Count(net, W) \in Nat
      BY CountType
    <2>2. \A W \in Weights : W[z] = 0 => Count(net', W) = Count(net, W)
      BY <1>5, <2>1
    <2> QED
      BY <1>2, <1>3, <1>5, <2>2 DEF UpdatesSame, AllUpdates, UpdatesIn
  <1>6. ASSUME net[from] # <<>>, Take(from), Head(net[from]).type # UPDATE
        PROVE  UpdatesSame
    <2>1. \A W \in Weights : Count(net', W) = Count(net, W) - W[x]
      BY <1>6, MoveCounts DEF x
    <2> QED
      BY <1>1, <1>4, <1>5, <1>6, <2>1
  <1>7. ASSUME Put(to, m), m.type # UPDATE PROVE UpdatesSame
    <2>1. \A W \in Weights : Count(net', W) = Count(net, W) + W[y]
      BY <1>7, MoveCounts DEF y
    <2> QED
      BY <1>1, <1>4, <1>5, <1>7, <2>1
  <1> QED
    BY <1>6, <1>7

\* The lines keep their counts of updates, an empty one none
LinesUpdating ==
  \A c \in Caches, a \in Addrs :
    /\ lines'[c][a].updating = lines[c][a].updating
    /\ lines'[c][a].state = LINE_EMPTY => lines'[c][a].updating = 0

LEMMA UpdateKept ==
  ASSUME UpdateInv, UpdatesSame, LinesUpdating, unacked' = unacked,
         \A c \in Caches : WritesQueued(c)' = WritesQueued(c)
  PROVE  UpdateInv'
  BY DEF UpdateInv, UpdateLines, UpdateWrites, UpdatesSame, LinesUpdating

LEMMA LinesUpdatingSame ==
  ASSUME UpdateInv, lines' = lines
  PROVE  LinesUpdating
  BY DEF UpdateInv, UpdateLines, LinesUpdating

LEMMA LinesUpdatingSet ==
  ASSUME IInv, UpdateInv, NEW c \in Caches, NEW a \in Addrs, NEW l, SetLine(c, a, l),
         l.updating = lines[c][a].updating, l.state = LINE_EMPTY => l.updating = 0
  PROVE  LinesUpdating
  <1>1. \A d \in Caches, b \in Addrs :
          lines'[d][b] = IF d = c /\ b = a THEN l ELSE lines[d][b]
    BY Parts DEF SetLine, LinesOK
  <1> QED
    BY <1>1 DEF UpdateInv, UpdateLines, LinesUpdating

LEMMA StillUpdates == net' = net => UpdatesSame
  BY DEF UpdatesSame, AllUpdates, UpdatesIn

\* The queue of a cache after a request joined or left it
LEMMA QueueTypes ==
  ASSUME Others
  PROVE  \A c \in Caches : WritesQueued(c) \in Nat
  <1> SUFFICES ASSUME NEW c \in Caches PROVE WritesQueued(c) \in Nat
    OBVIOUS
  <1>1. IsFiniteSet(1..Len(bus[c])) /\ QueuedWrites(bus[c]) \in SUBSET (1..Len(bus[c]))
    BY FS_Interval DEF QueuedWrites, Others
  <1> QED
    BY <1>1, FS_Subset, FS_CardinalityType DEF WritesQueued

LEMMA QueueJoin ==
  ASSUME Others, NEW c \in Caches, NEW r \in Request, bus' = [bus EXCEPT ![c] = Append(@, r)]
  PROVE  \A d \in Caches : WritesQueued(d)' =
            IF d = c THEN WritesQueued(c) + One(r.write) ELSE WritesQueued(d)
  <1>1. /\ bus[c] \in Seq(Request) /\ bus'[c] = Append(bus[c], r)
        /\ \A d \in Caches : d # c => bus'[d] = bus[d]
    BY DEF Others
  <1>2. Cardinality(QueuedWrites(bus'[c])) = Cardinality(QueuedWrites(bus[c])) + One(r.write)
    BY <1>1, QueuedAppend DEF One
  <1> QED
    BY <1>1, <1>2 DEF WritesQueued

LEMMA QueuePop ==
  ASSUME Others, NEW c \in Caches, bus[c] # <<>>, PopRequest(c)
  PROVE  \A d \in Caches : WritesQueued(d)' =
            IF d = c THEN WritesQueued(c) - One(Head(bus[c]).write) ELSE WritesQueued(d)
  <1>1. /\ bus[c] \in Seq(Request) /\ bus'[c] = Tail(bus[c])
        /\ \A d \in Caches : d # c => bus'[d] = bus[d]
    BY DEF Others, PopRequest
  <1>2. Cardinality(QueuedWrites(bus'[c])) =
          Cardinality(QueuedWrites(bus[c])) - One(Head(bus[c]).write)
    BY <1>1, QueuedTail DEF One
  <1> QED
    BY <1>1, <1>2 DEF WritesQueued

LEMMA UpdateClients ==
  ASSUME IInv, TokenInv, UpdateInv, ClientRead \/ ClientWrite
  PROVE  UpdateInv'
  <1>1. UpdatesSame /\ LinesUpdating
    <2>1. net' = net /\ lines' = lines
      BY DEF ClientRead, ClientWrite, Read, Write
    <2> QED
      BY <2>1, StillUpdates, LinesUpdatingSame
  <1>2. CASE ClientRead
    <2>1. PICK c \in Caches, a \in Addrs : Read(c, a)
      BY <1>2 DEF ClientRead
    <2> DEFINE r == [write |-> FALSE, addr |-> a, data |-> NoData, mask |-> {}]
    <2>2. r \in Request /\ ~ r.write
      BY DEF Request, NoData, Data
    <2>3. bus' = [bus EXCEPT ![c] = Append(@, r)] /\ unacked' = unacked
      BY <2>1 DEF Read
    <2> HIDE DEF r
    <2>4. \A d \in Caches : WritesQueued(d)' = WritesQueued(d)
      <3>1. \A d \in Caches : WritesQueued(d)' =
              IF d = c THEN WritesQueued(c) + 0 ELSE WritesQueued(d)
        BY <2>2, <2>3, Parts, QueueJoin DEF One
      <3> QED
        BY <3>1, Parts, QueueTypes
    <2> QED
      BY <1>1, <2>3, <2>4, UpdateKept
  <1>3. CASE ClientWrite
    <2>1. PICK c \in Caches, a \in Addrs, w \in Writes : Write(c, a, WriteData(w), w.mask)
      BY <1>3 DEF ClientWrite
    <2> DEFINE r == [write |-> TRUE, addr |-> a, data |-> WriteData(w), mask |-> w.mask]
    <2>2. r \in Request /\ r.write
      BY CDMAAssumption DEF Request, WriteData, Data
    <2>3. bus' = [bus EXCEPT ![c] = Append(@, r)] /\ unacked' = [unacked EXCEPT ![c] = @ + 1]
      BY <2>1 DEF Write
    <2> HIDE DEF r
    <2>4. \A d \in Caches : WritesQueued(d)' =
            IF d = c THEN WritesQueued(c) + 1 ELSE WritesQueued(d)
      BY <2>2, <2>3, Parts, QueueJoin DEF One
    <2>5. \A d \in Caches : unacked'[d] = IF d = c THEN unacked[c] + 1 ELSE unacked[d]
      BY <2>3, Parts DEF Others
    <2>6. UpdateWrites'
      BY <1>1, <2>4, <2>5, Parts, QueueTypes, UpdateTypes
         DEF UpdateInv, UpdateWrites, UpdatesSame, TokenInv
    <2> QED
      BY <1>1, <2>6 DEF UpdateInv, UpdateLines, UpdatesSame, LinesUpdating
  <1> QED
    BY <1>2, <1>3

\* A message that stays the update it was, or no update, moves on
LEMMA UpdatePass ==
  ASSUME TokenInv, UpdateInv, LinesUpdating, bus' = bus, unacked' = unacked,
         NEW from \in Channels, NEW to \in Channels, from # to, net[from] # <<>>,
         NEW m \in Message, Pass(from, to, m), SameUpdate(Head(net[from]), m)
  PROVE  UpdateInv'
  <1>1. UpdatesSame
    BY UpdateFlow DEF TokenInv
  <1>2. \A c \in Caches : WritesQueued(c)' = WritesQueued(c)
    BY DEF WritesQueued
  <1> QED
    BY <1>1, <1>2, UpdateKept

LEMMA UpdateForward ==
  ASSUME IInv, TokenInv, UpdateInv, NEW n \in Nodes, DoForward(n)
  PROVE  UpdateInv'
  <1> DEFINE m    == Head(net[outgoing(n)])
             from == outgoing(n)
             to   == incoming(NextNode[n])
  <1>1. from \in Channels /\ to \in Channels /\ from # to
    BY NodeChannels, NodeAssumption, DistinctChannels
  <1>2. /\ net[from] # <<>> /\ Pass(from, to, m)
        /\ lines' = lines /\ bus' = bus /\ unacked' = unacked
    BY DEF DoForward
  <1>3. m \in Message /\ SameUpdate(m, m)
    BY <1>1, <1>2, LettersType DEF TokenInv, NetFinite, SameUpdate
  <1> QED
    BY <1>1, <1>2, <1>3, LinesUpdatingSame, UpdatePass

LEMMA UpdateDirectory ==
  ASSUME IInv, TokenInv, UpdateInv, NEW d \in Directories, DirectoryStep(d)
  PROVE  UpdateInv'
  <1>1. PICK n \in {Top(d), Bottom(d)}, to \in {outgoing(Top(d)), outgoing(Bottom(d))},
             m \in Message :
           /\ net[incoming(n)] # <<>> /\ Pass(incoming(n), to, m)
           /\ m.type = Head(net[incoming(n)]).type
           /\ m.addr = Head(net[incoming(n)]).addr
           /\ m.sender = Head(net[incoming(n)]).sender
    BY DirectoryMoves
  <1>2. lines' = lines /\ bus' = bus /\ unacked' = unacked
    BY DEF DirectoryStep, DoInBottom, DoInTop
  <1>3. /\ incoming(n) \in Channels /\ to \in Channels /\ to # incoming(n)
        /\ SameUpdate(Head(net[incoming(n)]), m)
    BY <1>1, DirectoryChannels DEF SameUpdate
  <1> QED
    BY <1>1, <1>2, <1>3, LinesUpdatingSame, UpdatePass

\* A step that sets one line and moves at most one of its updates
LEMMA UpdateSetLine ==
  ASSUME IInv, UpdateInv, NEW c \in Caches, NEW a \in Addrs, NEW l, SetLine(c, a, l),
         NEW k \in Int, l.updating = lines[c][a].updating + k,
         l.state = LINE_EMPTY => l.updating = 0,
         \A d \in Caches, b \in Addrs :
           UpdatesIn(d, b)' = IF d = c /\ b = a THEN UpdatesIn(d, b) + k ELSE UpdatesIn(d, b)
  PROVE  UpdateLines'
  <1>1. \A d \in Caches, b \in Addrs :
          lines'[d][b] = IF d = c /\ b = a THEN l ELSE lines[d][b]
    BY Parts DEF SetLine, LinesOK
  <1> QED
    BY <1>1 DEF UpdateInv, UpdateLines

LEMMA UpdateRequests ==
  ASSUME IInv, TokenInv, UpdateInv, NEW c \in Caches, DoRequests(c)
  PROVE  UpdateInv'
  <1> DEFINE req  == Head(bus[c])
             line == lines[c][req.addr]
  <1>0. bus[c] # <<>>
    BY DEF DoRequests, MissEvict, MissLoad, ReadHit, WriteHitExclusive, WriteHitShared
  <1>1. req \in Request /\ req.addr \in Addrs
    BY <1>0, Parts, BusHead DEF Request
  <1>2. LinesOK(lines) /\ LineOK(line) /\ line \in Line /\ Others /\ NetFinite(net)
    BY <1>1, Parts DEF LinesOK, LineOK, TokenInv
  <1>3. bus' = bus => \A d \in Caches : WritesQueued(d)' = WritesQueued(d)
    BY DEF WritesQueued
  <1>4. ~ req.write /\ PopRequest(c) => \A d \in Caches : WritesQueued(d)' = WritesQueued(d)
    <2> SUFFICES ASSUME ~ req.write, PopRequest(c)
                 PROVE  \A d \in Caches : WritesQueued(d)' = WritesQueued(d)
      OBVIOUS
    <2>1. \A d \in Caches : WritesQueued(d)' =
            IF d = c THEN WritesQueued(c) - 0 ELSE WritesQueued(d)
      BY <1>0, <1>2, QueuePop DEF One
    <2> QED
      BY <2>1, <1>2, QueueTypes
  <1>5. req.write /\ PopRequest(c) =>
          \A d \in Caches : WritesQueued(d)' =
            IF d = c THEN WritesQueued(c) - 1 ELSE WritesQueued(d)
    BY <1>0, <1>2, QueuePop DEF One
  <1>6. CASE MissEvict(c)
    <2>1. PICK v \in Addrs : /\ lines[c][v].state = LINE_FULL /\ lines[c][v].updating = 0
                             /\ EvictLine(c, v)
      BY <1>6 DEF MissEvict, Replaceable
    <2>2. /\ Put(outgoing(c), EvictionMsg(c, v)) /\ SetLine(c, v, EmptyLine)
          /\ EmptyLine.updating = 0 /\ bus' = bus /\ unacked' = unacked
      BY <1>6, <2>1 DEF MissEvict, EvictLine, EmptyLine
    <2>3. EvictionMsg(c, v) \in Message /\ EvictionMsg(c, v).type # UPDATE
      BY <1>2, <2>1, NewMessages, TypesDiffer
    <2>4. UpdatesSame
      BY <1>2, <2>2, <2>3, CacheChannels, UpdateOthers
    <2>5. LinesUpdating
      BY <2>1, <2>2, LinesUpdatingSet
    <2> QED
      BY <1>3, <2>2, <2>4, <2>5, UpdateKept
  <1>7. CASE MissLoad(c)
    <2> DEFINE m == RequestMsg(c, req.addr)
    <2>1. m \in Message /\ m.type # UPDATE
      BY <1>1, <1>2, NewMessages, TypesDiffer
    <2>2. /\ Put(outgoing(c), m) /\ SetLine(c, req.addr, LoadingLine)
          /\ line.state = LINE_EMPTY /\ unacked' = unacked
          /\ bus' = bus \/ (~ req.write /\ PopRequest(c))
      BY <1>7 DEF MissLoad
    <2>3. LoadingLine.updating = 0
      BY DEF LoadingLine, EmptyLine
    <2>4. line.updating = 0
      BY <1>1, <2>2 DEF UpdateInv, UpdateLines
    <2> HIDE DEF m
    <2>5. UpdatesSame
      BY <1>2, <2>1, <2>2, CacheChannels, UpdateOthers
    <2>6. LinesUpdating
      BY <1>1, <2>2, <2>3, <2>4, LinesUpdatingSet
    <2> QED
      BY <1>3, <1>4, <2>2, <2>5, <2>6, UpdateKept
  <1>8. CASE ReadHit(c)
    <2>1. /\ ~ req.write /\ PopRequest(c) /\ unacked' = unacked
          /\ lines' = lines /\ net' = net
      BY <1>8 DEF ReadHit
    <2> QED
      BY <1>4, <2>1, StillUpdates, LinesUpdatingSame, UpdateKept
  <1>9. CASE WriteHitExclusive(c)
    <2>1. /\ req.write /\ PopRequest(c) /\ unacked' = [unacked EXCEPT ![c] = @ - 1]
          /\ net' = net /\ SetLine(c, req.addr, Written(line, req))
      BY <1>9 DEF WriteHitExclusive
    <2>2. /\ Written(line, req).updating = line.updating
          /\ Written(line, req).state = line.state
      BY <1>2 DEF Written, Line
    <2>3. line.state = LINE_EMPTY => line.updating = 0
      BY <1>1 DEF UpdateInv, UpdateLines
    <2>4. UpdatesSame /\ LinesUpdating
      BY <1>1, <2>1, <2>2, <2>3, StillUpdates, LinesUpdatingSet
    <2>5. \A d \in Caches : unacked'[d] = IF d = c THEN unacked[c] - 1 ELSE unacked[d]
      BY <1>2, <2>1 DEF Others
    <2>6. \A d \in Caches : WritesQueued(d)' =
            IF d = c THEN WritesQueued(c) - 1 ELSE WritesQueued(d)
      BY <1>5, <2>1
    <2>7. UpdateWrites'
      BY <1>2, <2>4, <2>5, <2>6, QueueTypes, UpdateTypes
         DEF UpdateInv, UpdateWrites, UpdatesSame
    <2> QED
      BY <2>4, <2>7 DEF UpdateInv, UpdateLines, UpdatesSame, LinesUpdating
  <1>10. CASE WriteHitShared(c)
    <2> DEFINE m == UpdateMsg(c, req)
               y == <<outgoing(c), m>>
               l == [Written(line, req) EXCEPT !.updating = @ + 1]
    <2>1. /\ m \in Message /\ m.type = UPDATE /\ m.addr = req.addr /\ m.sender = c
      BY <1>1, <1>2, NewMessages
    <2>2. /\ req.write /\ PopRequest(c) /\ unacked' = unacked
          /\ Put(outgoing(c), m) /\ SetLine(c, req.addr, l) /\ line.state # LINE_EMPTY
      BY <1>10 DEF WriteHitShared
    <2>3. l.updating = line.updating + 1 /\ l.state = line.state
      BY <1>2 DEF Written, Line
    <2>4. y[2] = m
      OBVIOUS
    <2> HIDE DEF m, l
    <2>5. \A d : IsUpdateOf(d, y) <=> d = c
      BY <2>1, <2>4 DEF IsUpdateOf
    <2>6. \A d : /\ AllUpdates(d)' = AllUpdates(d) + One(IsUpdateOf(d, y))
                 /\ \A b : UpdatesIn(d, b)' = UpdatesIn(d, b)
                             + One(m.addr = b /\ IsUpdateOf(d, y))
      BY <1>2, <2>1, <2>2, CacheChannels, UpdateFlow
    <2> HIDE DEF y
    <2>7. \A d : /\ AllUpdates(d)' = IF d = c THEN AllUpdates(c) + 1 ELSE AllUpdates(d)
                 /\ \A b : UpdatesIn(d, b)' =
                      IF d = c /\ b = req.addr THEN UpdatesIn(d, b) + 1 ELSE UpdatesIn(d, b)
      <3>1. \A d : /\ AllUpdates(d)' = AllUpdates(d) + IF d = c THEN 1 ELSE 0
                   /\ \A b : UpdatesIn(d, b)' = UpdatesIn(d, b)
                               + IF d = c /\ b = req.addr THEN 1 ELSE 0
        BY <2>1, <2>5, <2>6 DEF One
      <3> QED
        BY <3>1, <1>2, UpdateTypes
    <2>8. UpdateLines'
      BY <1>1, <2>2, <2>3, <2>7, UpdateSetLine
    <2>9. \A d \in Caches : WritesQueued(d)' =
            IF d = c THEN WritesQueued(c) - 1 ELSE WritesQueued(d)
      BY <1>5, <2>2
    <2>10. UpdateWrites'
      BY <1>2, <2>2, <2>7, <2>9, QueueTypes, UpdateTypes DEF UpdateInv, UpdateWrites
    <2> QED
      BY <2>8, <2>10 DEF UpdateInv
  <1> QED
    BY <1>6, <1>7, <1>8, <1>9, <1>10 DEF DoRequests

LEMMA UpdateReceive ==
  ASSUME IInv, TokenInv, UpdateInv, NEW c \in Caches, DoReceive(c)
  PROVE  UpdateInv'
  <1> DEFINE msg  == Head(net[incoming(c)])
             x    == <<incoming(c), msg>>
             line == lines[c][msg.addr]
  <1>0. net[incoming(c)] # <<>> /\ Front(c) = msg /\ bus' = bus
    BY DEF DoReceive, ReceiveIgnored, ReceiveRequest, ReceiveResponse, ReceiveEviction,
       IsEviction, ReceiveOwnUpdate, ReceiveUpdate, HasMessage, Front
  <1>1. /\ msg \in Message /\ RingOK(msg) /\ msg.addr \in Addrs /\ x \in Letters(net)
        /\ SameUpdate(msg, msg)
    BY <1>0, CacheChannels, NodeFront, LettersType
       DEF RingOK, Message, TokenInv, NetFinite, SameUpdate
  <1>2. /\ LineOK(line) /\ line \in Line /\ LinesOK(lines) /\ Others /\ NetFinite(net)
        /\ line.updating = UpdatesIn(c, msg.addr)
        /\ line.state = LINE_EMPTY => line.updating = 0
    BY <1>1, Parts DEF LinesOK, LineOK, TokenInv, UpdateInv, UpdateLines
  <1>3. \A d \in Caches : WritesQueued(d)' = WritesQueued(d)
    BY <1>0 DEF WritesQueued
  <1>4. ASSUME NEW n \in Message, Forward(c, n), SameUpdate(msg, n), LinesUpdating,
               unacked' = unacked
        PROVE  UpdateInv'
    BY <1>0, <1>4, CacheChannels, UpdatePass DEF Forward
  <1>5. ASSUME Take(incoming(c)), msg.type # UPDATE, LinesUpdating, unacked' = unacked
        PROVE  UpdateInv'
    <2>1. UpdatesSame
      BY <1>0, <1>1, <1>2, <1>5, CacheChannels, UpdateOthers
    <2> QED
      BY <1>3, <1>5, <2>1, UpdateKept
  <1>6. CASE ReceiveIgnored(c)
    BY <1>0, <1>1, <1>4, <1>6, LinesUpdatingSame DEF ReceiveIgnored
  <1>7. CASE ReceiveRequest(c)
    <2> DEFINE n == Answered(msg, line)
               k == [line EXCEPT !.tokens = @ - 1]
               l == IF GivesToken(line) THEN k ELSE line
    <2>1. /\ msg.type \in {REQUEST, REQUEST_DATA} /\ Forward(c, n)
          /\ SetLine(c, msg.addr, l) /\ unacked' = unacked
      BY <1>0, <1>7 DEF ReceiveRequest
    <2>2. n \in Message /\ SameUpdate(msg, n)
      <3>1. RingOK(n)
        BY <1>1, <1>2, <2>1, AnsweredOK
      <3>2. n.type \in {REQUEST, REQUEST_DATA, REQUEST_DATA_TOKEN}
        <4>1. CASE GivesToken(line)
          BY <1>1, <4>1 DEF Answered, Message
        <4>2. CASE ~ GivesToken(line) /\ GivesData(line, msg)
          BY <1>1, <4>2 DEF Answered, Message
        <4>3. CASE ~ GivesToken(line) /\ ~ GivesData(line, msg)
          BY <2>1, <4>3 DEF Answered
        <4> QED
          BY <4>1, <4>2, <4>3
      <3> HIDE DEF n
      <3> QED
        BY <2>1, <3>1, <3>2, TypesDiffer DEF RingOK, SameUpdate
    <2>3. k.updating = line.updating /\ k.state = line.state
      BY <1>2 DEF Line
    <2> HIDE DEF k, n
    <2>4. l.updating = line.updating /\ (l.state = LINE_EMPTY => l.updating = 0)
      BY <1>2, <2>3
    <2> HIDE DEF l
    <2>5. LinesUpdating
      BY <1>1, <2>1, <2>4, LinesUpdatingSet
    <2> QED
      BY <1>4, <2>1, <2>2, <2>5
  <1>8. CASE ReceiveResponse(c)
    <2> DEFINE l == Filled(line, msg)
    <2>1. /\ msg.type = REQUEST_DATA_TOKEN /\ unacked' = unacked
          /\ SetLine(c, msg.addr, l) /\ Take(incoming(c))
      BY <1>0, <1>8 DEF ReceiveResponse
    <2>2. l.updating = line.updating /\ l.state = LINE_FULL
      BY <1>2 DEF Filled, Line
    <2> HIDE DEF l
    <2>3. LinesUpdating
      BY <1>1, <2>1, <2>2, StatesDiffer, LinesUpdatingSet
    <2> QED
      BY <1>5, <2>1, <2>3, TypesDiffer
  <1>9. CASE ReceiveEviction(c)
    <2>1. msg.type = EVICTION /\ unacked' = unacked
      BY <1>0, <1>9 DEF ReceiveEviction, IsEviction
    <2>2. ASSUME NEW l, l.state = LINE_FULL, l.updating = line.updating,
                 SetLine(c, msg.addr, l), Take(incoming(c))
          PROVE  UpdateInv'
      <3>1. LinesUpdating
        BY <1>1, <2>2, StatesDiffer, LinesUpdatingSet
      <3> QED
        BY <1>5, <2>1, <2>2, <3>1, TypesDiffer
    <2>3. CASE CanMerge(c) /\ SetLine(c, msg.addr, Merged(line, msg)) /\ Take(incoming(c))
      <3>1. /\ Merged(line, msg).updating = line.updating
            /\ Merged(line, msg).state = LINE_FULL
        BY <1>0, <1>2, <2>3 DEF CanMerge, Merged, Line
      <3> QED
        BY <2>2, <2>3, <3>1
    <2>4. CASE CanStore(c) /\ SetLine(c, msg.addr, Stored(msg)) /\ Take(incoming(c))
      <3>1. line.updating = 0
        BY <1>0, <1>2, <2>4 DEF CanStore
      <3>2. Stored(msg).updating = 0 /\ Stored(msg).state = LINE_FULL
        BY DEF Stored, EmptyLine
      <3> QED
        BY <2>2, <2>4, <3>1, <3>2
    <2>5. CASE Forward(c, msg) /\ lines' = lines
      BY <1>1, <1>4, <2>1, <2>5, LinesUpdatingSame
    <2> QED
      BY <1>0, <1>9, <2>3, <2>4, <2>5 DEF ReceiveEviction
  <1>10. CASE ReceiveOwnUpdate(c)
    <2> DEFINE l == [line EXCEPT !.updating = @ - 1]
    <2>1. /\ msg.type = UPDATE /\ msg.sender = c /\ Take(incoming(c))
          /\ unacked' = [unacked EXCEPT ![c] = @ - 1]
          /\ lines' = [lines EXCEPT ![c][msg.addr].updating = @ - 1]
      BY <1>0, <1>10 DEF ReceiveOwnUpdate
    <2>2. SetLine(c, msg.addr, l)
      BY <2>1 DEF SetLine
    <2>3. l.updating = line.updating - 1 /\ l.state = line.state
      BY <1>2 DEF Line
    <2> HIDE DEF l
    <2>4. x[2] = msg
      OBVIOUS
    <2>5. \A d : IsUpdateOf(d, x) <=> d = c
      BY <2>1, <2>4 DEF IsUpdateOf
    <2>6. \A d : /\ AllUpdates(d)' = AllUpdates(d) - One(IsUpdateOf(d, x))
                 /\ \A b : UpdatesIn(d, b)' = UpdatesIn(d, b)
                             - One(msg.addr = b /\ IsUpdateOf(d, x))
      BY <1>0, <1>1, <1>2, <2>1, CacheChannels, UpdateFlow
    <2>7. UpdatesIn(c, msg.addr) > 0
      <3>1. UpdW(c, msg.addr)[x] = 1
        BY <1>1, <1>2, <2>1, <2>4, LettersType, WeightValues DEF NetFinite
      <3>2. UpdW(c, msg.addr)[x] <= Count(net, UpdW(c, msg.addr))
        BY <1>1, <1>2, CountsAll, WeightTypes
      <3> QED
        BY <1>2, <3>1, <3>2, UpdateTypes DEF UpdatesIn
    <2> HIDE DEF x
    <2>8. \A d : /\ AllUpdates(d)' = IF d = c THEN AllUpdates(c) + (-1) ELSE AllUpdates(d)
                 /\ \A b : UpdatesIn(d, b)' =
                      IF d = c /\ b = msg.addr THEN UpdatesIn(d, b) + (-1) ELSE UpdatesIn(d, b)
      <3>1. \A d : /\ AllUpdates(d)' = AllUpdates(d) - IF d = c THEN 1 ELSE 0
                   /\ \A b : UpdatesIn(d, b)' = UpdatesIn(d, b)
                               - IF d = c /\ b = msg.addr THEN 1 ELSE 0
        BY <2>5, <2>6 DEF One
      <3>2. \A d : AllUpdates(d) \in Nat /\ \A b : UpdatesIn(d, b) \in Nat
        BY <1>2, UpdateTypes
      <3>3. ASSUME NEW d, NEW b
            PROVE  UpdatesIn(d, b)' =
              IF d = c /\ b = msg.addr THEN UpdatesIn(d, b) + (-1) ELSE UpdatesIn(d, b)
        <4>1. UpdatesIn(d, b)' = UpdatesIn(d, b) - IF d = c /\ b = msg.addr THEN 1 ELSE 0
          BY <3>1
        <4>2. UpdatesIn(d, b) \in Nat
          BY <3>2
        <4> QED
          BY <4>1, <4>2
      <3> QED
        BY <3>1, <3>2, <3>3
    <2>9. line.state # LINE_EMPTY
      BY <1>2, <2>7
    <2>10. UpdateLines'
      <3>1. l.updating = line.updating + (-1) /\ (l.state = LINE_EMPTY => l.updating = 0)
        BY <1>2, <2>3, <2>9 DEF Line
      <3> QED
        BY <1>1, <2>2, <2>8, <3>1, UpdateSetLine
    <2>11. \A d \in Caches : unacked'[d] = IF d = c THEN unacked[c] - 1 ELSE unacked[d]
      BY <1>2, <2>1 DEF Others
    <2>12. UpdateWrites'
      BY <1>2, <1>3, <2>8, <2>11, QueueTypes, UpdateTypes DEF UpdateInv, UpdateWrites
    <2> QED
      BY <2>10, <2>12 DEF UpdateInv
  <1>11. CASE ReceiveUpdate(c)
    <2>1. /\ Forward(c, msg) /\ SetLine(c, msg.addr, Updated(line, msg))
          /\ unacked' = unacked
      BY <1>0, <1>11 DEF ReceiveUpdate
    <2>2. /\ Updated(line, msg).updating = line.updating
          /\ Updated(line, msg).state = line.state
      BY <1>2 DEF Updated, Line
    <2>3. LinesUpdating
      BY <1>1, <1>2, <2>1, <2>2, LinesUpdatingSet
    <2> QED
      BY <1>1, <1>4, <2>1, <2>3
  <1> QED
    BY <1>6, <1>7, <1>8, <1>9, <1>10, <1>11 DEF DoReceive

\* What a root directory does to the network
RootQueues(r) == {incoming(r), outgoing(r), requests(r), responses(r), active(r)}

RootMoved(r) ==
  \E from \in RootQueues(r), to \in RootQueues(r), m \in Message :
    /\ net[from] # <<>> /\ from # to
    /\ \/ Take(from) /\ Head(net[from]).type # UPDATE
       \/ Pass(from, to, m) /\ SameUpdate(Head(net[from]), m)

LEMMA RootMoves ==
  ASSUME IInv, TokenInv, NEW r \in Roots, RootStep(r)
  PROVE  RootMoved(r)
  <1>0. /\ incoming(r) \in RootQueues(r) /\ outgoing(r) \in RootQueues(r)
        /\ requests(r) \in RootQueues(r) /\ responses(r) \in RootQueues(r)
        /\ active(r) \in RootQueues(r)
    BY DEF RootQueues
  <1>1. ASSUME NEW from \in RootQueues(r), NEW to \in RootQueues(r), from # to,
               net[from] # <<>>, NEW m \in Message, Pass(from, to, m),
               SameUpdate(Head(net[from]), m)
        PROVE  RootMoved(r)
    BY <1>1 DEF RootMoved
  <1>2. ASSUME NEW from \in RootQueues(r), NEW to \in RootQueues(r), from # to,
               net[from] # <<>>, Take(from), Head(net[from]).type # UPDATE
        PROVE  RootMoved(r)
    <2>1. PICK m : m \in Message
      <3>1. RootQueues(r) \subseteq Channels
        BY RootChannels DEF RootQueues
      <3> QED
        BY <1>2, <3>1, PipeFront DEF MsgOK
    <2> QED
      BY <1>2, <2>1 DEF RootMoved
  <1>3. ASSUME NEW ch \in Channels, net[ch] # <<>>, ch[1] \in {"responses", "active"},
               ~ Head(net[ch]).ignore
        PROVE  Head(net[ch]).type # UPDATE
    <2> DEFINE x == <<ch, Head(net[ch])>>
    <2>1. x \in Letters(net)
      BY <1>3, LettersType DEF TokenInv, NetFinite
    <2>2. LetterOK(dir, x)
      BY <2>1, LetterFacts
    <2>3. Head(net[ch]).type # EVICTION => Pending(x)
      BY <1>3 DEF Pending, MemoryPipe
    <2> QED
      BY <2>2, <2>3, TypesDiffer DEF LetterOK
  <1>4. CASE DoIncoming(r)
    <2> DEFINE msg == Head(net[incoming(r)])
    <2>1. net[incoming(r)] # <<>>
      BY <1>4 DEF DoIncoming, RootPass, RootRequest, RootRequestData, RootEviction, AtRoot
    <2>2. msg \in Message /\ msg.addr \in Addrs /\ SameUpdate(msg, msg)
      BY <2>1, RootChannels, FrontOK, Parts DEF Message, SameUpdate
    <2>3. ASSUME NEW m \in Message, SameUpdate(msg, m), ForwardRoot(r, m) PROVE RootMoved(r)
      <3> DEFINE fl == [m EXCEPT !.ignore = TRUE]
      <3>1. fl \in Message /\ SameUpdate(msg, fl)
        BY <2>3 DEF Message, SameUpdate
      <3>2. Pass(incoming(r), outgoing(r), m) \/ Pass(incoming(r), requests(r), fl)
        BY <2>3 DEF ForwardRoot
      <3> HIDE DEF fl
      <3> QED
        BY <1>0, <1>1, <2>1, <2>3, <3>1, <3>2, RootChannels
    <2>4. CASE RootPass(r)
      BY <2>2, <2>3, <2>4 DEF RootPass
    <2>5. CASE RootRequest(r)
      <3>1. Pass(incoming(r), requests(r), msg) \/ ForwardRoot(r, msg)
        BY <2>5 DEF RootRequest
      <3> QED
        BY <1>0, <1>1, <2>1, <2>2, <2>3, <3>1, RootChannels
    <2>6. CASE RootRequestData(r)
      <3> DEFINE give == IF dir[r][msg.addr].state = DIR_EMPTY THEN TotalTokens
                         ELSE dir[r][msg.addr].tokens
                 ans  == [msg EXCEPT !.type = REQUEST_DATA_TOKEN, !.tokens = give]
      <3>1. ForwardRoot(r, ans) \/ ForwardRoot(r, msg)
        BY <2>6 DEF RootRequestData
      <3>2. give \in Nat /\ msg.type = REQUEST_DATA
        BY <2>2, <2>6, TotalTokensType, Parts DEF Others, Entry, RootRequestData, AtRoot
      <3> HIDE DEF give
      <3>3. ans \in Message /\ ans.type = REQUEST_DATA_TOKEN
        BY <2>2, <3>2 DEF Message, MsgType
      <3> HIDE DEF ans
      <3>4. SameUpdate(msg, ans)
        BY <3>2, <3>3, TypesDiffer DEF SameUpdate
      <3> QED
        BY <2>2, <2>3, <3>1, <3>3, <3>4
    <2>7. CASE RootEviction(r)
      <3>1. /\ Pass(incoming(r), requests(r), msg) \/ Take(incoming(r))
            /\ msg.type = EVICTION
        BY <2>7 DEF RootEviction, AtRoot
      <3> QED
        BY <1>0, <1>1, <1>2, <2>1, <2>2, <3>1, RootChannels, TypesDiffer
    <2> QED
      BY <1>4, <2>4, <2>5, <2>6, <2>7 DEF DoIncoming
  <1>5. CASE DoMemory(r)
    <2> DEFINE msg == Head(net[requests(r)])
    <2>1. /\ net[requests(r)] # <<>>
          /\ \/ Pass(requests(r), responses(r), msg) \/ Pass(requests(r), active(r), msg)
             \/ Take(requests(r)) /\ msg.type = EVICTION
      BY <1>5 DEF DoMemory
    <2>2. msg \in Message /\ SameUpdate(msg, msg)
      BY <2>1, RootChannels, PipeFront DEF MsgOK, SameUpdate
    <2> QED
      BY <1>0, <1>1, <1>2, <2>1, <2>2, RootChannels, TypesDiffer
  <1>6. CASE OnReadCompleted(r)
    <2> DEFINE msg == Head(net[active(r)])
               ans == [msg EXCEPT !.type = REQUEST_DATA_TOKEN, !.dirty = FALSE,
                                  !.data = mem[msg.addr]]
    <2>1. net[active(r)] # <<>> /\ Pass(active(r), responses(r), ans)
      BY <1>6 DEF OnReadCompleted
    <2>2. /\ msg \in Message /\ msg.addr \in Addrs /\ mem[msg.addr] \in Data
          /\ ~ msg.ignore
      BY <2>1, RootChannels, PipeFront, Parts DEF MsgOK, InPlace, Others, Message, active
    <2>3. ans \in Message /\ ans.type = REQUEST_DATA_TOKEN
      BY <2>2 DEF Message, MsgType
    <2>4. msg.type # UPDATE
      BY <1>3, <2>1, <2>2, RootChannels DEF active
    <2> HIDE DEF ans
    <2>5. SameUpdate(msg, ans)
      BY <2>3, <2>4, TypesDiffer DEF SameUpdate
    <2> QED
      BY <1>0, <1>1, <2>1, <2>3, <2>5, RootChannels
  <1>7. CASE DoResponses(r)
    <2> DEFINE msg == Head(net[responses(r)])
               fl  == [msg EXCEPT !.ignore = FALSE]
               ans == [msg EXCEPT !.tokens = TotalTokens,
                                  !.sender = dir[r][msg.addr].sender]
    <2>1. /\ net[responses(r)] # <<>>
          /\ \/ Pass(responses(r), outgoing(r), fl)
             \/ ~ msg.ignore /\ Pass(responses(r), outgoing(r), ans)
      BY <1>7 DEF DoResponses
    <2>2. msg \in Message /\ msg.addr \in Addrs /\ dir[r][msg.addr].sender \in Caches
      BY <2>1, RootChannels, PipeFront, Parts DEF MsgOK, Others, Entry, Message
    <2>3. /\ fl \in Message /\ SameUpdate(msg, fl)
          /\ ans \in Message /\ ans.type = msg.type
      BY <2>2, TotalTokensType DEF Message, SameUpdate
    <2>4. ~ msg.ignore => msg.type # UPDATE
      BY <1>3, <2>1, RootChannels DEF responses
    <2> HIDE DEF fl, ans
    <2>5. ~ msg.ignore => SameUpdate(msg, ans)
      BY <2>3, <2>4 DEF SameUpdate
    <2> QED
      BY <1>0, <1>1, <2>1, <2>3, <2>5, RootChannels
  <1> QED
    BY <1>4, <1>5, <1>6, <1>7 DEF RootStep

LEMMA UpdateRoot ==
  ASSUME IInv, TokenInv, UpdateInv, NEW r \in Roots, RootStep(r)
  PROVE  UpdateInv'
  <1>1. PICK from \in RootQueues(r), to \in RootQueues(r), m \in Message :
           /\ net[from] # <<>> /\ from # to
           /\ \/ Take(from) /\ Head(net[from]).type # UPDATE
              \/ Pass(from, to, m) /\ SameUpdate(Head(net[from]), m)
    BY RootMoves DEF RootMoved
  <1>2. lines' = lines /\ bus' = bus /\ unacked' = unacked
    BY DEF RootStep, DoIncoming, RootPass, RootRequest, RootRequestData, RootEviction,
           DoMemory, OnReadCompleted, DoResponses
  <1>3. from \in Channels /\ to \in Channels
    BY RootChannels DEF RootQueues
  <1>4. LinesUpdating /\ \A c \in Caches : WritesQueued(c)' = WritesQueued(c)
    BY <1>2, LinesUpdatingSame DEF WritesQueued
  <1>5. CASE Take(from) /\ Head(net[from]).type # UPDATE
    <2>1. UpdatesSame
      BY <1>1, <1>3, <1>5, UpdateOthers DEF TokenInv
    <2> QED
      BY <1>2, <1>4, <2>1, UpdateKept
  <1>6. CASE Pass(from, to, m) /\ SameUpdate(Head(net[from]), m)
    BY <1>1, <1>2, <1>3, <1>4, <1>6, UpdatePass
  <1> QED
    BY <1>1, <1>5, <1>6

LEMMA UpdateInit == Init => UpdateInv
  <1> SUFFICES ASSUME Init PROVE UpdateInv
    OBVIOUS
  <1>1. \A c : AllUpdates(c) = 0 /\ \A a : UpdatesIn(c, a) = 0
    BY EmptyNetwork, WeightTypes DEF AllUpdates, UpdatesIn
  <1>2. \A c \in Caches : unacked[c] = 0 /\ \A a \in Addrs : lines[c][a].updating = 0
    BY DEF Init, InitCache, EmptyLine
  <1>3. ASSUME NEW c \in Caches PROVE WritesQueued(c) = 0
    <2>1. QueuedWrites(bus[c]) = {}
      BY DEF Init, InitCache, QueuedWrites
    <2> QED
      BY <2>1, FS_EmptySet DEF WritesQueued
  <1> QED
    BY <1>1, <1>2, <1>3 DEF UpdateInv, UpdateLines, UpdateWrites

LEMMA UpdateNext ==
  IInv /\ TokenInv /\ UpdateInv /\ [Next]_vars => UpdateInv'
  <1> SUFFICES ASSUME IInv, TokenInv, UpdateInv, [Next]_vars
               PROVE  UpdateInv'
    OBVIOUS
  <1>1. CASE UNCHANGED vars
    <2>1. net' = net /\ lines' = lines /\ bus' = bus /\ unacked' = unacked
      BY <1>1 DEF vars
    <2>2. \A c \in Caches : WritesQueued(c)' = WritesQueued(c)
      BY <2>1 DEF WritesQueued
    <2> QED
      BY <2>1, <2>2, StillUpdates, LinesUpdatingSame, UpdateKept
  <1>2. CASE ClientRead \/ ClientWrite
    BY <1>2, UpdateClients
  <1>3. ASSUME NEW n \in Nodes, DoForward(n) PROVE UpdateInv'
    BY <1>3, UpdateForward
  <1>4. ASSUME NEW c \in Caches, CacheStep(c) PROVE UpdateInv'
    BY <1>4, UpdateRequests, UpdateReceive DEF CacheStep
  <1>5. ASSUME NEW d \in Directories, DirectoryStep(d) PROVE UpdateInv'
    BY <1>5, UpdateDirectory
  <1>6. ASSUME NEW r \in Roots, RootStep(r) PROVE UpdateInv'
    BY <1>6, UpdateRoot
  <1> QED
    BY <1>1, <1>2, <1>3, <1>4, <1>5, <1>6 DEF Next

LEMMA BooksUpdates == IInv /\ TokenInv /\ UpdateInv => WritesAckedOnce
  <1> SUFFICES ASSUME IInv, TokenInv, UpdateInv, NEW c \in Caches
               PROVE  /\ \A a \in Addrs : lines[c][a].updating = Cardinality(UpdatesOf(c, a))
                      /\ unacked[c] = Cardinality({k \in DOMAIN bus[c] : bus[c][k].write})
                                      + Cardinality(UNION {UpdatesOf(c, a) : a \in Addrs})
    BY DEF WritesAckedOnce
  <1>1. ASSUME NEW a \in Addrs PROVE lines[c][a].updating = Cardinality(UpdatesOf(c, a))
    <2>1. UpdatesOf(c, a) \in SUBSET Places
      BY DEF UpdatesOf, InFlight
    <2>2. ASSUME NEW p \in Places
          PROVE  UpdW(c, a)[<<p[1], At(p)>>] = IF p \in UpdatesOf(c, a) THEN 1 ELSE 0
      <3>1. <<p[1], At(p)>> \in Channels \X Message
        BY PlaceLetters DEF TokenInv, NetFinite
      <3> QED
        BY <3>1, WeightValues DEF UpdatesOf, InFlight
    <2>3. Cardinality(UpdatesOf(c, a)) = UpdatesIn(c, a)
      BY <2>1, <2>2, PlaceCount, WeightTypes DEF TokenInv, UpdatesIn
    <2> QED
      BY <2>3 DEF UpdateInv, UpdateLines
  <1>2. unacked[c] = Cardinality({k \in DOMAIN bus[c] : bus[c][k].write})
                       + Cardinality(UNION {UpdatesOf(c, a) : a \in Addrs})
    <2> DEFINE S == UNION {UpdatesOf(c, a) : a \in Addrs}
    <2>1. S \in SUBSET Places
      BY DEF UpdatesOf, InFlight
    <2>2. ASSUME NEW p \in Places
          PROVE  AllUpdW(c)[<<p[1], At(p)>>] = IF p \in S THEN 1 ELSE 0
      <3>1. /\ <<p[1], At(p)>> \in Channels \X Message
            /\ At(p) \in Message
        BY PlaceLetters DEF TokenInv, NetFinite
      <3>2. At(p).addr \in Addrs
        BY <3>1 DEF Message
      <3>3. p \in S <=> At(p).sender = c /\ At(p).type = UPDATE
        BY <3>2 DEF UpdatesOf, InFlight
      <3> HIDE DEF S
      <3> QED
        BY <3>1, <3>3, WeightValues
    <2> HIDE DEF S
    <2>3. Cardinality(S) = AllUpdates(c)
      BY <2>1, <2>2, PlaceCount, WeightTypes DEF TokenInv, AllUpdates
    <2>4. unacked[c] = WritesQueued(c) + AllUpdates(c)
      BY DEF UpdateInv, UpdateWrites
    <2> QED
      BY <2>3, <2>4 DEF S, WritesQueued, QueuedWrites
  <1> QED
    BY <1>1, <1>2

(* Every write is acknowledged to the clients exactly once, and a line stays  *)
(* locked for exactly as long as updates it sent are in the network (Cache.cpp, *)
(* OnWriteRequest and the arrival of an update at its sender).  The counters  *)
(* that the code decrements without a test never go below zero.              *)
THEOREM WritesAcked == Spec => []WritesAckedOnce
  <1>1. Init => UpdateInv
    BY UpdateInit
  <1>2. IInv /\ TokenInv /\ UpdateInv /\ [Next]_vars => UpdateInv'
    BY UpdateNext
  <1>3. Spec => [](IInv /\ TokenInv /\ IgnoredBelow)
    BY BooksHold
  <1>4. IInv /\ TokenInv /\ UpdateInv => WritesAckedOnce
    BY BooksUpdates
  <1> QED
    BY <1>1, <1>2, <1>3, <1>4, PTL DEF Spec

-----------------------------------------------------------------------------
(* The books of the directories                                            *)

BelowHeld(d, a)  == Cardinality(Held(lines, a, Below[d]))
RingMoving(d, a) == Count(net, RingW(d, a))

RingBook(d, a) ==
  /\ IsFiniteSet(Held(lines, a, Below[d]))
  /\ ringTokens[d][a] = BelowHeld(d, a) + RingMoving(d, a)

RingInv == \A d \in Directories, a \in Addrs : RingBook(d, a)

\* The tokens of every line on every low ring stay what they are
RingSame == \A d \in Directories, a \in Addrs : RingMoving(d, a)' = RingMoving(d, a)

TokensStay == \A c \in Caches, a \in Addrs : lines'[c][a].tokens = lines[c][a].tokens

LEMMA RingTypes ==
  ASSUME TokenInv, RingInv
  PROVE  \A d \in Directories, a \in Addrs : BelowHeld(d, a) \in Nat /\ RingMoving(d, a) \in Nat
  BY CountType, WeightTypes, FS_CardinalityType
     DEF TokenInv, RingInv, RingBook, BelowHeld, RingMoving

LEMMA RingKept ==
  ASSUME RingInv, RingSame, TokensStay, ringTokens' = ringTokens
  PROVE  RingInv'
  <1>1. \A d \in Directories, a \in Addrs : Held(lines', a, Below[d]) = Held(lines, a, Below[d])
    <2>1. \A d \in Directories : Below[d] \subseteq Caches
      BY DirectoryAssumption
    <2> QED
      BY <2>1 DEF TokensStay, Held
  <1> QED
    BY <1>1 DEF RingInv, RingBook, RingSame, BelowHeld

LEMMA RingFlow ==
  ASSUME NetFinite(net), NEW from \in Channels, NEW to \in Channels, from # to,
         NEW m \in Message
  PROVE  /\ net[from] # <<>> /\ Take(from) =>
              \A d, a : RingMoving(d, a)' = RingMoving(d, a)
                - IF Head(net[from]).addr = a THEN RingTok(d, <<from, Head(net[from])>>) ELSE 0
         /\ Put(to, m) =>
              \A d, a : RingMoving(d, a)' = RingMoving(d, a)
                + IF m.addr = a THEN RingTok(d, <<to, m>>) ELSE 0
         /\ net[from] # <<>> /\ Pass(from, to, m) =>
              \A d, a : RingMoving(d, a)' = RingMoving(d, a)
                - (IF Head(net[from]).addr = a THEN RingTok(d, <<from, Head(net[from])>>) ELSE 0)
                + (IF m.addr = a THEN RingTok(d, <<to, m>>) ELSE 0)
  <1> DEFINE x == <<from, Head(net[from])>>
             y == <<to, m>>
  <1>1. y \in Channels \X Message /\ (net[from] # <<>> => x \in Channels \X Message)
    BY LettersType DEF NetFinite
  <1>2. \A z \in Channels \X Message :
          \A d, a : RingW(d, a)[z] = IF z[2].addr = a THEN RingTok(d, z) ELSE 0
    BY WeightValues
  <1>3. \A d, a : RingW(d, a) \in Weights
    BY WeightTypes
  <1>4. x[2] = Head(net[from]) /\ y[2] = m
    OBVIOUS
  <1> HIDE DEF x, y
  <1>5. ASSUME net[from] # <<>>, Take(from)
        PROVE  \A d, a : RingMoving(d, a)' = RingMoving(d, a)
                 - IF Head(net[from]).addr = a THEN RingTok(d, x) ELSE 0
    <2>1. \A W \in Weights : Count(net', W) = Count(net, W) - W[x]
      BY <1>5, MoveCounts DEF x
    <2> QED
      BY <1>1, <1>2, <1>3, <1>4, <1>5, <2>1 DEF RingMoving
  <1>6. ASSUME Put(to, m)
        PROVE  \A d, a : RingMoving(d, a)' = RingMoving(d, a)
                 + IF m.addr = a THEN RingTok(d, y) ELSE 0
    <2>1. \A W \in Weights : Count(net', W) = Count(net, W) + W[y]
      BY <1>6, MoveCounts DEF y
    <2> QED
      BY <1>1, <1>2, <1>3, <1>4, <1>6, <2>1 DEF RingMoving
  <1>7. ASSUME net[from] # <<>>, Pass(from, to, m)
        PROVE  \A d, a : RingMoving(d, a)' = RingMoving(d, a)
                 - (IF Head(net[from]).addr = a THEN RingTok(d, x) ELSE 0)
                 + (IF m.addr = a THEN RingTok(d, y) ELSE 0)
    <2>1. \A W \in Weights : Count(net', W) = Count(net, W) - W[x] + W[y]
      BY <1>7, MoveCounts DEF x, y
    <2> QED
      BY <1>1, <1>2, <1>3, <1>4, <1>7, <2>1 DEF RingMoving
  <1> QED
    BY <1>5, <1>6, <1>7 DEF x, y

\* Moves that no low ring sees
LEMMA RingUnseen ==
  ASSUME TokenInv, RingInv, NEW from \in Channels, NEW to \in Channels, from # to,
         NEW m \in Message
  PROVE  /\ net[from] # <<>> /\ Take(from)
              /\ (\A d \in Directories : RingTok(d, <<from, Head(net[from])>>) = 0)
              => RingSame
         /\ Put(to, m) /\ (\A d \in Directories : RingTok(d, <<to, m>>) = 0) => RingSame
         /\ net[from] # <<>> /\ Pass(from, to, m) /\ m.addr = Head(net[from]).addr
              /\ (\A d \in Directories :
                    RingTok(d, <<to, m>>) = RingTok(d, <<from, Head(net[from])>>))
              => RingSame
  <1> DEFINE x == <<from, Head(net[from])>>
             y == <<to, m>>
  <1>1. \A d \in Directories, a \in Addrs : RingMoving(d, a) \in Nat
    BY RingTypes
  <1>2. \A d : RingTok(d, y) \in Nat /\ (net[from] # <<>> => RingTok(d, x) \in Nat)
    BY LettersType, LetterTokens DEF TokenInv, NetFinite
  <1>3. NetFinite(net)
    BY DEF TokenInv
  <1> HIDE DEF x, y
  <1>4. ASSUME net[from] # <<>>, Take(from), \A d \in Directories : RingTok(d, x) = 0
        PROVE  RingSame
    <2>1. \A d, a : RingMoving(d, a)' = RingMoving(d, a)
            - IF Head(net[from]).addr = a THEN RingTok(d, x) ELSE 0
      BY <1>3, <1>4, RingFlow DEF x
    <2> QED
      BY <1>1, <1>4, <2>1 DEF RingSame
  <1>5. ASSUME Put(to, m), \A d \in Directories : RingTok(d, y) = 0
        PROVE  RingSame
    <2>1. \A d, a : RingMoving(d, a)' = RingMoving(d, a)
            + IF m.addr = a THEN RingTok(d, y) ELSE 0
      BY <1>3, <1>5, RingFlow DEF y
    <2> QED
      BY <1>1, <1>5, <2>1 DEF RingSame
  <1>6. ASSUME net[from] # <<>>, Pass(from, to, m), m.addr = Head(net[from]).addr,
               \A d \in Directories : RingTok(d, y) = RingTok(d, x)
        PROVE  RingSame
    <2>1. \A d, a : RingMoving(d, a)' = RingMoving(d, a)
            - (IF Head(net[from]).addr = a THEN RingTok(d, x) ELSE 0)
            + (IF m.addr = a THEN RingTok(d, y) ELSE 0)
      BY <1>3, <1>6, RingFlow DEF x, y
    <2> QED
      BY <1>1, <1>2, <1>6, <2>1 DEF RingSame
  <1> QED
    BY <1>4, <1>5, <1>6 DEF x, y

\* Which buffers belong to a low ring
LEMMA RingMembers ==
  ASSUME NEW d \in Directories
  PROVE  /\ \A n : /\ incoming(n) \in RingChannels(d) <=> n \in LowRing(d)
                   /\ outgoing(n) \in RingChannels(d) <=> n \in LowRing(d)
         /\ \A r : /\ requests(r) \notin RingChannels(d)
                   /\ responses(r) \notin RingChannels(d)
                   /\ active(r) \notin RingChannels(d)
         /\ \A c \in Caches : c \in LowRing(d) <=> c \in Below[d]
         /\ \A r \in Roots : r \notin LowRing(d)
         /\ \A e \in Directories : /\ Top(e) \notin LowRing(d)
                                   /\ Bottom(e) \in LowRing(d) <=> e = d
  <1>1. /\ \A n : /\ incoming(n) \in RingChannels(d) <=> n \in LowRing(d)
                  /\ outgoing(n) \in RingChannels(d) <=> n \in LowRing(d)
        /\ \A r : /\ requests(r) \notin RingChannels(d)
                  /\ responses(r) \notin RingChannels(d)
                  /\ active(r) \notin RingChannels(d)
    BY DEF RingChannels, incoming, outgoing, requests, responses, active
  <1>2. Below[d] \subseteq Caches /\ Caches \cap Roots = {}
    BY DirectoryAssumption, NodeAssumption
  <1>3. \A e \in Directories : /\ Top(e) \notin Caches /\ Bottom(e) \notin Caches
                               /\ Bottom(e) \notin Roots
    BY DirectoryAssumption
  <1>4. \A e : Top(e) # Bottom(d) /\ (Bottom(e) = Bottom(d) <=> e = d)
    BY DEF Top, Bottom
  <1> QED
    BY <1>1, <1>2, <1>3, <1>4 DEF LowRing

LEMMA RingClients ==
  ASSUME RingInv, net' = net, TokensStay, ringTokens' = ringTokens
  PROVE  RingInv'
  <1>1. RingSame
    BY DEF RingSame, RingMoving
  <1> QED
    BY <1>1, RingKept

LEMMA RingForward ==
  ASSUME IInv, TokenInv, RingInv, NEW n \in Nodes, DoForward(n)
  PROVE  RingInv'
  <1> DEFINE m    == Head(net[outgoing(n)])
             from == outgoing(n)
             to   == incoming(NextNode[n])
  <1>1. from \in Channels /\ to \in Channels /\ from # to /\ NextNode[n] \in Nodes
    BY NodeChannels, NodeAssumption, DistinctChannels
  <1>2. /\ net[from] # <<>> /\ Pass(from, to, m)
        /\ lines' = lines /\ ringTokens' = ringTokens
    BY DEF DoForward
  <1>3. m \in Message
    BY <1>1, <1>2, LettersType DEF TokenInv, NetFinite
  <1>4. ASSUME NEW d \in Directories
        PROVE  RingTok(d, <<to, m>>) = RingTok(d, <<from, m>>)
    <2>1. to \in RingChannels(d) <=> from \in RingChannels(d)
      BY RingMembers, DirectoryAssumption
    <2>2. Tok(<<to, m>>) = IF m.type \in CarriesTokens THEN m.tokens ELSE 0
      BY RingLetter
    <2>3. Tok(<<from, m>>) = IF m.type \in CarriesTokens THEN m.tokens ELSE 0
      BY RingLetter
    <2> QED
      BY <2>1, <2>2, <2>3 DEF RingTok
  <1>5. RingSame
    BY <1>1, <1>2, <1>3, <1>4, RingUnseen
  <1> QED
    BY <1>2, <1>5, RingKept DEF TokensStay

LEMMA RingRoot ==
  ASSUME IInv, TokenInv, RingInv, NEW r \in Roots, RootStep(r)
  PROVE  RingInv'
  <1>1. PICK from \in RootQueues(r), to \in RootQueues(r), m \in Message :
           /\ net[from] # <<>> /\ from # to
           /\ Take(from) \/ Pass(from, to, m)
    BY RootMoves DEF RootMoved
  <1>2. lines' = lines /\ ringTokens' = ringTokens
    BY DEF RootStep, DoIncoming, RootPass, RootRequest, RootRequestData, RootEviction,
           DoMemory, OnReadCompleted, DoResponses
  <1>3. from \in Channels /\ to \in Channels
    BY RootChannels DEF RootQueues
  <1>4. \A d \in Directories : \A ch \in RootQueues(r) : ch \notin RingChannels(d)
    BY RingMembers DEF RootQueues
  <1>5. \A d \in Directories : /\ RingTok(d, <<from, Head(net[from])>>) = 0
                               /\ RingTok(d, <<to, m>>) = 0
    BY <1>4 DEF RingTok
  <1>6. RingSame
    <2>1. CASE Take(from)
      BY <1>1, <1>3, <1>5, <2>1, RingUnseen
    <2>2. CASE Pass(from, to, m)
      <3>1. \A d, a : RingMoving(d, a)' = RingMoving(d, a)
              - (IF Head(net[from]).addr = a THEN RingTok(d, <<from, Head(net[from])>>) ELSE 0)
              + (IF m.addr = a THEN RingTok(d, <<to, m>>) ELSE 0)
        BY <1>1, <1>3, <2>2, RingFlow DEF TokenInv
      <3>2. \A d \in Directories, a \in Addrs : RingMoving(d, a)' = RingMoving(d, a) - 0 + 0
        BY <1>5, <3>1
      <3> QED
        BY <3>2, RingTypes DEF RingSame
    <2> QED
      BY <1>1, <2>1, <2>2
  <1> QED
    BY <1>2, <1>6, RingKept DEF TokensStay

\* A step of a cache that sets one line: what the line gains, its ring loses
LEMMA RingCache ==
  ASSUME IInv, TokenInv, RingInv, NEW c \in Caches, NEW a \in Addrs, NEW l, LineOK(l),
         SetLine(c, a, l), ringTokens' = ringTokens,
         \A d \in Directories, b \in Addrs :
           RingMoving(d, b)' = RingMoving(d, b)
             + IF b = a /\ c \in Below[d] THEN lines[c][a].tokens - l.tokens ELSE 0
  PROVE  RingInv'
  <1>1. LinesOK(lines) /\ lines[c][a].tokens \in Nat /\ l.tokens \in Nat
    BY Parts, BookTypes DEF LineOK, Line
  <1> SUFFICES ASSUME NEW d \in Directories, NEW b \in Addrs PROVE RingBook(d, b)'
    BY DEF RingInv
  <1>2. /\ IsFiniteSet(Held(lines, a, Below[d])) /\ IsFiniteSet(Held(lines, b, Below[d]))
        /\ ringTokens[d][b] = BelowHeld(d, b) + RingMoving(d, b)
        /\ BelowHeld(d, b) \in Nat /\ RingMoving(d, b) \in Nat
        /\ Below[d] \in SUBSET Caches
    BY RingTypes, DirectoryAssumption DEF RingInv, RingBook
  <1>3. /\ IsFiniteSet(Held(lines', a, Below[d]))
        /\ Cardinality(Held(lines', a, Below[d])) =
             IF c \in Below[d]
             THEN Cardinality(Held(lines, a, Below[d])) - lines[c][a].tokens + l.tokens
             ELSE Cardinality(Held(lines, a, Below[d]))
        /\ b # a => Held(lines', b, Below[d]) = Held(lines, b, Below[d])
    BY <1>1, <1>2, HeldSet
  <1>4. /\ IsFiniteSet(Held(lines', b, Below[d]))
        /\ BelowHeld(d, b)' = IF b = a /\ c \in Below[d]
                              THEN BelowHeld(d, b) - lines[c][a].tokens + l.tokens
                              ELSE BelowHeld(d, b)
    BY <1>2, <1>3 DEF BelowHeld
  <1>5. ringTokens'[d][b] = BelowHeld(d, b)' + RingMoving(d, b)'
    BY <1>1, <1>2, <1>4
  <1> QED
    BY <1>4, <1>5 DEF RingBook

LEMMA RingCacheLetter ==
  ASSUME NEW c \in Caches, NEW ch \in {incoming(c), outgoing(c)}, NEW m
  PROVE  \A d \in Directories :
           RingTok(d, <<ch, m>>) =
             IF c \in Below[d] /\ ~ m.ignore /\ m.type \in CarriesTokens THEN m.tokens ELSE 0
  <1>1. \A d \in Directories : ch \in RingChannels(d) <=> c \in Below[d]
    BY RingMembers
  <1>2. Tok(<<ch, m>>) = IF m.type \in CarriesTokens THEN m.tokens ELSE 0
    BY RingLetter
  <1> QED
    BY <1>1, <1>2 DEF RingTok

\* The tokens a message on a ring gives the line that takes them
Carried(m) == IF m.type \in CarriesTokens THEN m.tokens ELSE 0

LEMMA RingCachePut ==
  ASSUME IInv, TokenInv, RingInv, NEW c \in Caches, NEW a \in Addrs, NEW l, LineOK(l),
         SetLine(c, a, l), ringTokens' = ringTokens,
         NEW m \in Message, m.addr = a, ~ m.ignore, Put(outgoing(c), m),
         lines[c][a].tokens = l.tokens + Carried(m)
  PROVE  RingInv'
  <1> DEFINE y == <<outgoing(c), m>>
  <1>1. \A d \in Directories : RingTok(d, y) = IF c \in Below[d] THEN Carried(m) ELSE 0
    BY RingCacheLetter DEF Carried
  <1>2. \A d, b : RingMoving(d, b)' = RingMoving(d, b) + IF m.addr = b THEN RingTok(d, y) ELSE 0
    BY CacheChannels, RingFlow DEF TokenInv
  <1> HIDE DEF y
  <1>3. /\ lines[c][a].tokens \in Nat /\ l.tokens \in Nat /\ Carried(m) \in Nat
        /\ \A d \in Directories, b \in Addrs : RingMoving(d, b) \in Nat
    BY BookTypes, RingTypes DEF LineOK, Line, Message, Carried
  <1>4. \A d \in Directories, b \in Addrs :
          RingMoving(d, b)' = RingMoving(d, b)
             + IF b = a /\ c \in Below[d] THEN lines[c][a].tokens - l.tokens ELSE 0
    BY <1>1, <1>2, <1>3
  <1> QED
    BY <1>4, RingCache

LEMMA RingCacheTake ==
  ASSUME IInv, TokenInv, RingInv, NEW c \in Caches, NEW a \in Addrs, NEW l, LineOK(l),
         SetLine(c, a, l), ringTokens' = ringTokens,
         net[incoming(c)] # <<>>, Take(incoming(c)),
         NEW m, m = Head(net[incoming(c)]), m.addr = a, ~ m.ignore,
         l.tokens = lines[c][a].tokens + Carried(m)
  PROVE  RingInv'
  <1> DEFINE x == <<incoming(c), Head(net[incoming(c)])>>
  <1>0. m \in Message
    BY CacheChannels, LettersType DEF TokenInv, NetFinite
  <1>1. \A d \in Directories : RingTok(d, x) = IF c \in Below[d] THEN Carried(m) ELSE 0
    BY RingCacheLetter DEF Carried
  <1>2. \A d, b : RingMoving(d, b)' = RingMoving(d, b) - IF m.addr = b THEN RingTok(d, x) ELSE 0
    <2>1. NetFinite(net) /\ incoming(c) \in Channels /\ outgoing(c) \in Channels
          /\ incoming(c) # outgoing(c)
      BY CacheChannels DEF TokenInv
    <2>2. \A d, b : RingMoving(d, b)' = RingMoving(d, b)
            - IF Head(net[incoming(c)]).addr = b THEN RingTok(d, x) ELSE 0
      BY <1>0, <2>1, RingFlow
    <2> QED
      BY <2>2
  <1> HIDE DEF x
  <1>3. /\ lines[c][a].tokens \in Nat /\ l.tokens \in Nat /\ Carried(m) \in Nat
        /\ \A d \in Directories, b \in Addrs : RingMoving(d, b) \in Nat
    BY <1>0, BookTypes, RingTypes DEF LineOK, Line, Message, Carried
  <1>4. \A d \in Directories, b \in Addrs :
          RingMoving(d, b)' = RingMoving(d, b)
             + IF b = a /\ c \in Below[d] THEN lines[c][a].tokens - l.tokens ELSE 0
    BY <1>1, <1>2, <1>3
  <1> QED
    BY <1>4, RingCache

LEMMA RingCachePass ==
  ASSUME IInv, TokenInv, RingInv, NEW c \in Caches, NEW a \in Addrs, NEW l, LineOK(l),
         SetLine(c, a, l), ringTokens' = ringTokens,
         net[incoming(c)] # <<>>, NEW m, m = Head(net[incoming(c)]), m.addr = a,
         m.type \notin CarriesTokens,
         NEW n \in Message, Pass(incoming(c), outgoing(c), n), n.addr = a, ~ n.ignore,
         lines[c][a].tokens = l.tokens + Carried(n)
  PROVE  RingInv'
  <1> DEFINE x == <<incoming(c), Head(net[incoming(c)])>>
             y == <<outgoing(c), n>>
  <1>1. \A d \in Directories : RingTok(d, x) = 0
    BY RingCacheLetter
  <1>2. \A d \in Directories : RingTok(d, y) = IF c \in Below[d] THEN Carried(n) ELSE 0
    BY RingCacheLetter DEF Carried
  <1>3. \A d, b : RingMoving(d, b)' = RingMoving(d, b)
          - (IF m.addr = b THEN RingTok(d, x) ELSE 0) + (IF n.addr = b THEN RingTok(d, y) ELSE 0)
    BY CacheChannels, RingFlow DEF TokenInv
  <1> HIDE DEF x, y
  <1>4. /\ lines[c][a].tokens \in Nat /\ l.tokens \in Nat /\ Carried(n) \in Nat
        /\ \A d \in Directories, b \in Addrs : RingMoving(d, b) \in Nat
    BY BookTypes, RingTypes DEF LineOK, Line, Message, Carried
  <1>5. \A d \in Directories, b \in Addrs :
          RingMoving(d, b)' = RingMoving(d, b)
             + IF b = a /\ c \in Below[d] THEN lines[c][a].tokens - l.tokens ELSE 0
    BY <1>1, <1>2, <1>3, <1>4
  <1> QED
    BY <1>5, RingCache

LEMMA RingRequests ==
  ASSUME IInv, TokenInv, RingInv, NEW c \in Caches, DoRequests(c)
  PROVE  RingInv'
  <1> DEFINE req  == Head(bus[c])
             line == lines[c][req.addr]
  <1>0. bus[c] # <<>> /\ ringTokens' = ringTokens
    BY DEF DoRequests, MissEvict, MissLoad, ReadHit, WriteHitExclusive, WriteHitShared
  <1>1. req \in Request /\ req.addr \in Addrs
    BY <1>0, Parts, BusHead DEF Request
  <1>2. LinesOK(lines) /\ LineOK(line) /\ line \in Line
    BY <1>1, Parts DEF LinesOK, LineOK
  <1>3. CASE MissEvict(c)
    <2>1. PICK v \in Addrs : lines[c][v].state = LINE_FULL /\ EvictLine(c, v)
      BY <1>3 DEF MissEvict, Replaceable
    <2>2. /\ EmptyLine.tokens = 0 /\ LineOK(EmptyLine)
          /\ Put(outgoing(c), EvictionMsg(c, v)) /\ SetLine(c, v, EmptyLine)
      BY <2>1, EmptyLineOK DEF EvictLine, EmptyLine
    <2>3. /\ EvictionMsg(c, v) \in Message /\ EvictionMsg(c, v).type = EVICTION
          /\ EvictionMsg(c, v).addr = v /\ EvictionMsg(c, v).tokens = lines[c][v].tokens
      BY <1>2, <2>1, NewMessages
    <2>4. ~ EvictionMsg(c, v).ignore
      BY DEF EvictionMsg, RequestMsg
    <2>5. lines[c][v].tokens = EmptyLine.tokens + Carried(EvictionMsg(c, v))
      BY <2>2, <2>3, BookTypes, TypesDiffer DEF Carried
    <2> QED
      BY <1>0, <2>2, <2>3, <2>4, <2>5, RingCachePut
  <1>4. CASE MissLoad(c)
    <2> DEFINE m == RequestMsg(c, req.addr)
    <2>1. /\ m \in Message /\ m.type = REQUEST /\ m.addr = req.addr
      BY <1>1, <1>2, NewMessages
    <2>2. /\ Put(outgoing(c), m) /\ SetLine(c, req.addr, LoadingLine)
          /\ line.state = LINE_EMPTY /\ ~ m.ignore
      BY <1>4 DEF MissLoad, RequestMsg
    <2>3. LoadingLine.tokens = 0 /\ LineOK(LoadingLine)
      BY EmptyLineOK DEF LoadingLine, EmptyLine
    <2>4. line.tokens = 0
      BY <1>2, <2>2, StatesDiffer DEF LineOK, Line
    <2> HIDE DEF m
    <2>5. line.tokens = LoadingLine.tokens + Carried(m)
      BY <2>1, <2>3, <2>4, TypesDiffer DEF Carried
    <2> QED
      BY <1>0, <1>1, <2>1, <2>2, <2>3, <2>5, RingCachePut
  <1>5. CASE ReadHit(c)
    <2>1. net' = net /\ TokensStay
      BY <1>5 DEF ReadHit, TokensStay
    <2> QED
      BY <1>0, <2>1, RingClients
  <1>6. CASE WriteHitExclusive(c) \/ WriteHitShared(c)
    <2> DEFINE l == [Written(line, req) EXCEPT !.updating = @ + 1]
    <2>1. /\ Written(line, req).tokens = line.tokens /\ l.tokens = line.tokens
      BY <1>1, <1>2 DEF Written, Line, LineOK
    <2>2. SetLine(c, req.addr, Written(line, req)) \/ SetLine(c, req.addr, l)
      BY <1>6 DEF WriteHitExclusive, WriteHitShared
    <2> HIDE DEF l
    <2>3. TokensStay
      BY <1>1, <1>2, <2>1, <2>2 DEF TokensStay, SetLine, LinesOK
    <2>4. CASE WriteHitExclusive(c)
      BY <1>0, <2>3, <2>4, RingClients DEF WriteHitExclusive
    <2>5. CASE WriteHitShared(c)
      <3> DEFINE m == UpdateMsg(c, req)
      <3>1. m \in Message /\ m.type = UPDATE /\ Put(outgoing(c), m)
        BY <1>1, <1>2, <2>5, NewMessages DEF WriteHitShared
      <3> HIDE DEF m
      <3>2. \A d \in Directories : RingTok(d, <<outgoing(c), m>>) = 0
        BY <3>1, RingCacheLetter, TypesDiffer
      <3>3. RingSame
        BY <3>1, <3>2, CacheChannels, RingUnseen
      <3> QED
        BY <1>0, <2>3, <3>3, RingKept
    <2> QED
      BY <1>6, <2>4, <2>5
  <1> QED
    BY <1>3, <1>4, <1>5, <1>6 DEF DoRequests

LEMMA RingReceive ==
  ASSUME IInv, TokenInv, RingInv, NEW c \in Caches, DoReceive(c)
  PROVE  RingInv'
  <1> DEFINE msg  == Head(net[incoming(c)])
             x    == <<incoming(c), msg>>
             line == lines[c][msg.addr]
  <1>0. net[incoming(c)] # <<>> /\ Front(c) = msg /\ ringTokens' = ringTokens
    BY DEF DoReceive, ReceiveIgnored, ReceiveRequest, ReceiveResponse, ReceiveEviction,
       IsEviction, ReceiveOwnUpdate, ReceiveUpdate, HasMessage, Front
  <1>1. msg \in Message /\ RingOK(msg) /\ msg.addr \in Addrs /\ x \in Letters(net)
    BY <1>0, CacheChannels, NodeFront, LettersType DEF RingOK, Message, TokenInv, NetFinite
  <1>2. LineOK(line) /\ line \in Line /\ LinesOK(lines) /\ line.tokens \in Nat
    BY <1>1, Parts DEF LinesOK, LineOK, Line
  <1>3. msg.type \in RequestTypes /\ msg.sender = c => line.state = LINE_LOADING
    <2>1. IsRequestOf(c, x) => line.state = LINE_LOADING
      BY <1>1, LetterFacts
    <2> QED
      BY <2>1, RingLetter
  <1>4. ASSUME Forward(c, msg), TokensStay PROVE RingInv'
    <2>1. \A d \in Directories : RingTok(d, <<outgoing(c), msg>>) = RingTok(d, x)
      BY RingCacheLetter
    <2>2. RingSame
      BY <1>0, <1>1, <1>4, <2>1, CacheChannels, RingUnseen DEF Forward
    <2> QED
      BY <1>0, <1>4, <2>2, RingKept
  <1>5. msg.type \in {REQUEST_DATA_TOKEN, EVICTION} => msg.tokens > 0 /\ msg.tokens \in Nat
    BY <1>1 DEF RingOK, CarriesTokens, Message
  <1>6. CASE ReceiveIgnored(c)
    BY <1>0, <1>4, <1>6 DEF ReceiveIgnored, TokensStay
  <1>7. CASE ReceiveRequest(c)
    <2> DEFINE n == Answered(msg, line)
               k == [line EXCEPT !.tokens = @ - 1]
               l == IF GivesToken(line) THEN k ELSE line
    <2>1. /\ msg.type \in {REQUEST, REQUEST_DATA} /\ Pass(incoming(c), outgoing(c), n)
          /\ SetLine(c, msg.addr, l) /\ ~ msg.ignore
      BY <1>0, <1>7 DEF ReceiveRequest, Forward
    <2>2. /\ n \in Message /\ n.addr = msg.addr /\ ~ n.ignore
          /\ GivesToken(line) => n.type = REQUEST_DATA_TOKEN /\ n.tokens = 1
          /\ ~ GivesToken(line) => n.type \in {REQUEST, REQUEST_DATA}
      <3>1. RingOK(n)
        BY <1>1, <1>2, <2>1, AnsweredOK
      <3>2. n \in Message
        BY <3>1 DEF RingOK
      <3>3. CASE GivesToken(line)
        <4>1. n = [msg EXCEPT !.type = REQUEST_DATA_TOKEN, !.tokens = 1,
                              !.dirty = line.dirty, !.data = line.data]
          BY <3>3 DEF Answered
        <4> HIDE DEF n
        <4> QED
          BY <1>1, <2>1, <3>2, <3>3, <4>1, TypesDiffer DEF Message
      <3>4. CASE ~ GivesToken(line) /\ GivesData(line, msg)
        <4>1. n = [msg EXCEPT !.type = REQUEST_DATA, !.dirty = line.dirty, !.data = line.data]
          BY <3>4 DEF Answered
        <4> HIDE DEF n
        <4> QED
          BY <1>1, <2>1, <3>2, <3>4, <4>1, TypesDiffer DEF Message
      <3>5. CASE ~ GivesToken(line) /\ ~ GivesData(line, msg)
        <4>1. n = msg
          BY <3>5 DEF Answered
        <4> HIDE DEF n
        <4> QED
          BY <1>1, <2>1, <3>2, <3>5, <4>1, TypesDiffer
      <3> QED
        BY <3>3, <3>4, <3>5
    <2>3. /\ LineOK(l)
          /\ l.tokens = line.tokens - IF GivesToken(line) THEN 1 ELSE 0
      <3>0. k.tokens = line.tokens - 1
        BY <1>2 DEF Line
      <3>1. GivesToken(line) => LineOK(k)
        BY <1>2 DEF LineOK, Line, GivesToken
      <3> HIDE DEF k
      <3> QED
        BY <1>2, <3>0, <3>1
    <2> HIDE DEF n, l
    <2>4. line.tokens = l.tokens + Carried(n)
      BY <1>2, <2>2, <2>3, TypesDiffer DEF Carried
    <2>5. msg.type \notin CarriesTokens
      BY <2>1, TypesDiffer
    <2> QED
      BY <1>0, <1>1, <2>1, <2>2, <2>3, <2>4, <2>5, RingCachePass
  <1>8. CASE ReceiveResponse(c)
    <2> DEFINE l == Filled(line, msg)
    <2>1. /\ msg.type = REQUEST_DATA_TOKEN /\ msg.sender = c /\ ~ msg.ignore
          /\ SetLine(c, msg.addr, l) /\ Take(incoming(c))
      BY <1>0, <1>8 DEF ReceiveResponse
    <2>2. LineOK(l) /\ l.tokens = msg.tokens /\ msg.tokens \in Nat
      BY <1>1, <1>2, <1>5, <2>1, FilledOK DEF Filled, Line, LineOK, Message
    <2>3. line.tokens = 0
      BY <1>2, <1>3, <2>1, TypesDiffer, StatesDiffer DEF LineOK, Line
    <2> HIDE DEF l
    <2>4. l.tokens = line.tokens + Carried(msg)
      BY <2>1, <2>2, <2>3, TypesDiffer DEF Carried
    <2> QED
      BY <1>0, <1>1, <2>1, <2>2, <2>4, RingCacheTake
  <1>9. CASE ReceiveEviction(c)
    <2>0. msg.type = EVICTION /\ ~ msg.ignore /\ Carried(msg) = msg.tokens
      <3>1. msg.type = EVICTION /\ ~ msg.ignore
        BY <1>0, <1>9 DEF ReceiveEviction, IsEviction
      <3> QED
        BY <3>1, TypesDiffer DEF Carried
    <2>1. msg.tokens > 0 /\ msg.tokens \in Nat
      BY <1>5, <2>0
    <2>2. CASE CanMerge(c) /\ SetLine(c, msg.addr, Merged(line, msg)) /\ Take(incoming(c))
      <3>1. /\ Merged(line, msg).tokens = line.tokens + msg.tokens
            /\ LineOK(Merged(line, msg))
        BY <1>0, <1>1, <1>2, <2>2, MergedOK DEF CanMerge, Merged, Line
      <3> QED
        BY <1>0, <1>1, <2>0, <2>2, <3>1, RingCacheTake
    <2>3. CASE CanStore(c) /\ SetLine(c, msg.addr, Stored(msg)) /\ Take(incoming(c))
      <3>1. line.state = LINE_EMPTY
        BY <1>0, <2>3 DEF CanStore
      <3>2. line.tokens = 0
        BY <1>2, <3>1, StatesDiffer DEF LineOK, Line
      <3>3. Stored(msg).tokens = msg.tokens
        BY DEF Stored, EmptyLine
      <3>4. LineOK(Stored(msg))
        BY <1>1, <2>0, <2>1, StoredOK
      <3>5. Stored(msg).tokens = line.tokens + Carried(msg)
        BY <2>0, <2>1, <3>2, <3>3
      <3> QED
        BY <1>0, <1>1, <2>0, <2>3, <3>4, <3>5, RingCacheTake
    <2>4. CASE Forward(c, msg) /\ lines' = lines
      BY <1>0, <1>4, <2>4 DEF TokensStay
    <2> QED
      BY <1>0, <1>9, <2>2, <2>3, <2>4 DEF ReceiveEviction
  <1>10. CASE ReceiveOwnUpdate(c)
    <2>1. /\ msg.type = UPDATE /\ Take(incoming(c))
          /\ lines' = [lines EXCEPT ![c][msg.addr].updating = @ - 1]
      BY <1>0, <1>10 DEF ReceiveOwnUpdate
    <2>2. TokensStay
      BY <1>1, <1>2, <2>1 DEF TokensStay, LinesOK, LineOK, Line
    <2>3. \A d \in Directories : RingTok(d, x) = 0
      BY <2>1, RingCacheLetter, TypesDiffer
    <2>4. RingSame
      BY <1>0, <1>1, <2>1, <2>3, CacheChannels, RingUnseen
    <2> QED
      BY <1>0, <2>2, <2>4, RingKept
  <1>11. CASE ReceiveUpdate(c)
    <2>1. /\ Forward(c, msg) /\ SetLine(c, msg.addr, Updated(line, msg))
      BY <1>0, <1>11 DEF ReceiveUpdate
    <2>2. Updated(line, msg).tokens = line.tokens
      BY <1>2 DEF Updated, Line
    <2>3. TokensStay
      BY <1>0, <1>1, <1>2, <2>1, <2>2 DEF TokensStay, SetLine, LinesOK
    <2> QED
      BY <1>4, <2>1, <2>3
  <1> QED
    BY <1>6, <1>7, <1>8, <1>9, <1>10, <1>11 DEF DoReceive

\* A directory counts what enters and leaves its ring
LEMMA RingCounted ==
  ASSUME TokenInv, RingInv, TokensStay,
         \A d \in Directories, a \in Addrs : \E k \in Int :
           /\ ringTokens'[d][a] = ringTokens[d][a] + k
           /\ RingMoving(d, a)' = RingMoving(d, a) + k
  PROVE  RingInv'
  <1> SUFFICES ASSUME NEW d \in Directories, NEW a \in Addrs PROVE RingBook(d, a)'
    BY DEF RingInv
  <1>1. Held(lines', a, Below[d]) = Held(lines, a, Below[d])
    <2>1. Below[d] \subseteq Caches
      BY DirectoryAssumption
    <2> QED
      BY <2>1 DEF TokensStay, Held
  <1>2. /\ RingBook(d, a) /\ BelowHeld(d, a)' = BelowHeld(d, a)
        /\ BelowHeld(d, a) \in Nat /\ RingMoving(d, a) \in Nat
    BY <1>1, RingTypes DEF BelowHeld, RingInv
  <1>3. PICK k \in Int : /\ ringTokens'[d][a] = ringTokens[d][a] + k
                         /\ RingMoving(d, a)' = RingMoving(d, a) + k
    OBVIOUS
  <1>4. ringTokens'[d][a] = BelowHeld(d, a)' + RingMoving(d, a)'
    BY <1>2, <1>3 DEF RingBook
  <1> QED
    BY <1>1, <1>2, <1>4 DEF RingBook

LEMMA RingUp ==
  ASSUME IInv, TokenInv, RingInv, NEW e \in Directories, DoInBottom(e)
  PROVE  RingInv'
  <1> DEFINE from == incoming(Bottom(e))
             to   == outgoing(Top(e))
             msg  == Head(net[from])
             fl   == [msg EXCEPT !.ignore = FALSE]
             leaves == ~ msg.ignore /\ msg.type \in {EVICTION, REQUEST_DATA_TOKEN}
  <1>1. /\ net[from] # <<>> /\ Pass(from, to, fl)
        /\ ringTokens' = IF leaves THEN [ringTokens EXCEPT ![e][msg.addr] = @ - msg.tokens]
                         ELSE ringTokens
    BY DEF DoInBottom
  <1>2. TokensStay
    BY DEF DoInBottom, TokensStay
  <1>3. msg \in Message /\ fl \in Message /\ fl.addr = msg.addr
    <2>1. msg \in Message
      BY <1>1, DirectoryChannels, LettersType DEF TokenInv, NetFinite
    <2> QED
      BY <2>1 DEF Message
  <1>4. msg.addr \in Addrs /\ msg.tokens \in Nat
    BY <1>3 DEF Message
  <1>5. \A d \in Directories :
          /\ RingTok(d, <<to, fl>>) = 0
          /\ RingTok(d, <<from, msg>>) = IF d = e /\ leaves THEN msg.tokens ELSE 0
    <2>1. \A d \in Directories : to \notin RingChannels(d) /\ (from \in RingChannels(d) <=> d = e)
      BY RingMembers
    <2>2. Tok(<<from, msg>>) = IF msg.type \in CarriesTokens THEN msg.tokens ELSE 0
      BY RingLetter
    <2> QED
      BY <2>1, <2>2, TypesDiffer DEF RingTok
  <1>6. from \in Channels /\ to \in Channels /\ from # to
    BY DirectoryChannels
  <1> HIDE DEF fl, leaves
  <1>7. \A d, a : RingMoving(d, a)' = RingMoving(d, a)
          - (IF msg.addr = a THEN RingTok(d, <<from, msg>>) ELSE 0)
          + (IF fl.addr = a THEN RingTok(d, <<to, fl>>) ELSE 0)
    BY <1>1, <1>3, <1>6, RingFlow DEF TokenInv
  <1>8. ASSUME NEW d \in Directories, NEW a \in Addrs
        PROVE  \E k \in Int : /\ ringTokens'[d][a] = ringTokens[d][a] + k
                              /\ RingMoving(d, a)' = RingMoving(d, a) + k
    <2> DEFINE k == IF d = e /\ a = msg.addr /\ leaves THEN 0 - msg.tokens ELSE 0
    <2>1. ringTokens[d][a] \in Int /\ RingMoving(d, a) \in Nat
      BY Parts, RingTypes DEF Others
    <2>2. ringTokens'[d][a] = ringTokens[d][a] + k
      <3>1. ringTokens'[d][a] = IF leaves /\ d = e /\ a = msg.addr
                                THEN ringTokens[d][a] - msg.tokens ELSE ringTokens[d][a]
        BY <1>1, <1>4, Parts DEF Others
      <3> QED
        BY <1>4, <2>1, <3>1
    <2>3. RingMoving(d, a)' = RingMoving(d, a)
            - (IF msg.addr = a THEN (IF d = e /\ leaves THEN msg.tokens ELSE 0) ELSE 0) + 0
      BY <1>5, <1>7
    <2>4. RingMoving(d, a)' = RingMoving(d, a) + k
      BY <1>4, <2>1, <2>3
    <2>5. k \in Int
      BY <1>4
    <2> QED
      BY <2>2, <2>4, <2>5
  <1> QED
    BY <1>2, <1>8, RingCounted

LEMMA RingDown ==
  ASSUME IInv, TokenInv, IgnoredBelow, RingInv, NEW e \in Directories, DoInTop(e)
  PROVE  RingInv'
  <1> DEFINE from == incoming(Top(e))
             down == outgoing(Bottom(e))
             past == outgoing(Top(e))
             msg  == Head(net[from])
             fl   == [msg EXCEPT !.ignore = TRUE]
  <1>0. net[from] # <<>> /\ TokensStay
    BY DEF DoInTop, TokensStay
  <1>1. /\ from \in Channels /\ down \in Channels /\ past \in Channels
        /\ from # down /\ from # past
    BY DirectoryChannels
  <1>2. msg \in Message /\ ~ msg.ignore
    BY <1>0, <1>1, LettersType, NotIgnored, DirectoryChannels DEF TokenInv, NetFinite
  <1>3. /\ msg.addr \in Addrs /\ msg.tokens \in Nat
        /\ fl \in Message /\ fl.ignore /\ fl.addr = msg.addr
    BY <1>2 DEF Message
  <1>4. \A d \in Directories : /\ from \notin RingChannels(d) /\ past \notin RingChannels(d)
                               /\ down \in RingChannels(d) <=> d = e
    BY RingMembers
  <1>5. \A d \in Directories :
          /\ RingTok(d, <<from, msg>>) = 0 /\ RingTok(d, <<past, msg>>) = 0
          /\ RingTok(d, <<down, fl>>) = 0
          /\ RingTok(d, <<down, msg>>) = IF d = e THEN Carried(msg) ELSE 0
    <2>1. Tok(<<down, msg>>) = Carried(msg)
      BY RingLetter DEF Carried
    <2>2. \A d \in Directories :
            /\ RingTok(d, <<from, msg>>) = 0 /\ RingTok(d, <<past, msg>>) = 0
            /\ RingTok(d, <<down, msg>>) = IF d = e THEN Carried(msg) ELSE 0
      BY <1>2, <1>4, <2>1 DEF RingTok
    <2>3. \A d \in Directories : RingTok(d, <<down, fl>>) = 0
      BY <1>3 DEF RingTok
    <2> QED
      BY <2>2, <2>3
  <1> HIDE DEF fl
  <1>6. CASE Enters(e, msg)
    <2>1. /\ Pass(from, down, msg)
          /\ ringTokens' = IF msg.type = REQUEST_DATA_TOKEN
               THEN [ringTokens EXCEPT ![e][msg.addr] = @ + msg.tokens] ELSE ringTokens
      BY <1>6 DEF DoInTop
    <2>2. /\ msg.type = REQUEST_DATA_TOKEN => Carried(msg) = msg.tokens
          /\ msg.type # REQUEST_DATA_TOKEN => Carried(msg) = 0
      BY <1>6, TypesDiffer DEF Enters, Carried
    <2>3. \A d, a : RingMoving(d, a)' = RingMoving(d, a)
            - (IF msg.addr = a THEN RingTok(d, <<from, msg>>) ELSE 0)
            + (IF msg.addr = a THEN RingTok(d, <<down, msg>>) ELSE 0)
      BY <1>0, <1>1, <1>2, <2>1, RingFlow DEF TokenInv
    <2>4. ASSUME NEW d \in Directories, NEW a \in Addrs
          PROVE  \E k \in Int : /\ ringTokens'[d][a] = ringTokens[d][a] + k
                                /\ RingMoving(d, a)' = RingMoving(d, a) + k
      <3> DEFINE k == IF d = e /\ a = msg.addr THEN Carried(msg) ELSE 0
      <3>1. ringTokens[d][a] \in Int /\ RingMoving(d, a) \in Nat /\ Carried(msg) \in Nat
        BY <1>3, Parts, RingTypes DEF Others, Carried
      <3>2. ringTokens'[d][a] = ringTokens[d][a] + k
        <4>1. ringTokens'[d][a] =
                IF msg.type = REQUEST_DATA_TOKEN /\ d = e /\ a = msg.addr
                THEN ringTokens[d][a] + msg.tokens ELSE ringTokens[d][a]
          BY <1>3, <2>1, Parts DEF Others
        <4> QED
          BY <1>3, <2>2, <3>1, <4>1
      <3>3. RingMoving(d, a)' = RingMoving(d, a) - 0
              + (IF msg.addr = a THEN (IF d = e THEN Carried(msg) ELSE 0) ELSE 0)
        BY <1>5, <2>3
      <3>4. RingMoving(d, a)' = RingMoving(d, a) + k /\ k \in Int
        BY <3>1, <3>3
      <3> QED
        BY <3>2, <3>4
    <2> QED
      BY <1>0, <2>4, RingCounted
  <1>7. CASE ~ Enters(e, msg)
    <2>1. /\ Pass(from, past, msg) \/ Pass(from, down, fl)
          /\ ringTokens' = ringTokens
      BY <1>7 DEF DoInTop, fl
    <2>2. RingSame
      <3>1. CASE Pass(from, past, msg)
        BY <1>0, <1>1, <1>2, <1>5, <3>1, RingUnseen
      <3>2. CASE Pass(from, down, fl)
        BY <1>0, <1>1, <1>3, <1>5, <3>2, RingUnseen
      <3> QED
        BY <2>1, <3>1, <3>2
    <2> QED
      BY <1>0, <2>1, <2>2, RingKept
  <1> QED
    BY <1>6, <1>7

LEMMA RingInit == Init => RingInv
  <1> SUFFICES ASSUME Init, NEW d \in Directories, NEW a \in Addrs PROVE RingBook(d, a)
    BY DEF RingInv
  <1>1. RingMoving(d, a) = 0
    BY EmptyNetwork, WeightTypes DEF RingMoving
  <1>2. Held(lines, a, Below[d]) = {}
    <2>1. \A c \in Below[d] : lines[c][a].tokens = 0
      BY DirectoryAssumption DEF Init, InitCache, EmptyLine
    <2> QED
      BY <2>1 DEF Held, Row
  <1>3. ringTokens[d][a] = 0
    BY DEF Init, InitDirectory
  <1> QED
    BY <1>1, <1>2, <1>3, FS_EmptySet DEF RingBook, BelowHeld

LEMMA RingNext ==
  IInv /\ TokenInv /\ IgnoredBelow /\ RingInv /\ [Next]_vars => RingInv'
  <1> SUFFICES ASSUME IInv, TokenInv, IgnoredBelow, RingInv, [Next]_vars
               PROVE  RingInv'
    OBVIOUS
  <1>1. CASE ClientRead \/ ClientWrite \/ UNCHANGED vars
    <2>1. net' = net /\ lines' = lines /\ ringTokens' = ringTokens
      BY <1>1 DEF ClientRead, ClientWrite, Read, Write, vars
    <2> QED
      BY <2>1, RingClients DEF TokensStay
  <1>2. ASSUME NEW n \in Nodes, DoForward(n) PROVE RingInv'
    BY <1>2, RingForward
  <1>3. ASSUME NEW c \in Caches, CacheStep(c) PROVE RingInv'
    BY <1>3, RingRequests, RingReceive DEF CacheStep
  <1>4. ASSUME NEW d \in Directories, DirectoryStep(d) PROVE RingInv'
    BY <1>4, RingUp, RingDown DEF DirectoryStep
  <1>5. ASSUME NEW r \in Roots, RootStep(r) PROVE RingInv'
    BY <1>5, RingRoot
  <1> QED
    BY <1>1, <1>2, <1>3, <1>4, <1>5 DEF Next

LEMMA BooksRing == IInv /\ TokenInv /\ RingInv => DirectoryCountsRing
  <1> SUFFICES ASSUME IInv, TokenInv, RingInv, NEW d \in Directories, NEW a \in Addrs
               PROVE  ringTokens[d][a] =
                        Cardinality({t \in TokensInCaches(a) : IsBelow(d, t[1])})
                        + Cardinality({t \in TokensInFlight(a) :
                                         t[1][1] \in RingChannels(d) /\ ~ At(t[1]).ignore})
    BY DEF DirectoryCountsRing
  <1>1. {t \in TokensInCaches(a) : IsBelow(d, t[1])} = Held(lines, a, Below[d])
    BY DirectoryAssumption DEF TokensInCaches, IsBelow, Held, Row
  <1>2. net \in Networks
    BY DEF TokenInv, NetFinite
  <1>3. ASSUME NEW p \in Places
        PROVE  RingW(d, a)[<<p[1], At(p)>>] =
                 IF p[1] \in RingChannels(d) /\ ~ At(p).ignore
                 THEN TokW(a)[<<p[1], At(p)>>] ELSE 0
    <2>1. <<p[1], At(p)>> \in Channels \X Message
      BY <1>2, PlaceLetters
    <2> QED
      BY <2>1, WeightValues DEF RingTok
  <1>4. \A t : t \in Marks(net, RingW(d, a)) <=>
                t \in TokensInFlight(a) /\ t[1][1] \in RingChannels(d) /\ ~ At(t[1]).ignore
    <2>1. RingW(d, a) \in Weights /\ TokW(a) \in Weights
      BY WeightTypes
    <2>2. \A t : t \in Marks(net, RingW(d, a)) <=>
            \E p \in Places : \E i \in 1..RingW(d, a)[<<p[1], At(p)>>] : t = <<p, i>>
      BY <1>2, <2>1, PlaceMarks
    <2>3. \A t : t \in Marks(net, TokW(a)) <=>
            \E p \in Places : \E i \in 1..TokW(a)[<<p[1], At(p)>>] : t = <<p, i>>
      BY <1>2, <2>1, PlaceMarks
    <2>4. TokensInFlight(a) = Marks(net, TokW(a))
      BY <1>2, FlightMarks
    <2>5. \A p \in Places : \A i :
            i \in 1..RingW(d, a)[<<p[1], At(p)>>] <=>
              /\ i \in 1..TokW(a)[<<p[1], At(p)>>]
              /\ p[1] \in RingChannels(d) /\ ~ At(p).ignore
      BY <1>3
    <2>6. ASSUME NEW t, t \in Marks(net, RingW(d, a))
          PROVE  t \in Marks(net, TokW(a)) /\ t[1][1] \in RingChannels(d) /\ ~ At(t[1]).ignore
      <3>1. PICK p \in Places : \E i \in 1..RingW(d, a)[<<p[1], At(p)>>] : t = <<p, i>>
        BY <2>2, <2>6
      <3>2. PICK i \in 1..RingW(d, a)[<<p[1], At(p)>>] : t = <<p, i>>
        BY <3>1
      <3>3. /\ i \in 1..TokW(a)[<<p[1], At(p)>>]
            /\ p[1] \in RingChannels(d) /\ ~ At(p).ignore /\ t[1] = p
        BY <2>5, <3>2
      <3> QED
        BY <2>3, <3>2, <3>3
    <2>7. ASSUME NEW t, t \in Marks(net, TokW(a)), t[1][1] \in RingChannels(d),
                 ~ At(t[1]).ignore
          PROVE  t \in Marks(net, RingW(d, a))
      <3>1. PICK p \in Places : \E i \in 1..TokW(a)[<<p[1], At(p)>>] : t = <<p, i>>
        BY <2>3, <2>7
      <3>2. PICK i \in 1..TokW(a)[<<p[1], At(p)>>] : t = <<p, i>>
        BY <3>1
      <3>3. t[1] = p
        BY <3>2
      <3>4. i \in 1..RingW(d, a)[<<p[1], At(p)>>]
        BY <2>5, <2>7, <3>2, <3>3
      <3> QED
        BY <2>2, <3>2, <3>4
    <2> QED
      BY <2>4, <2>6, <2>7
  <1>5. {t \in TokensInFlight(a) : t[1][1] \in RingChannels(d) /\ ~ At(t[1]).ignore}
          = Marks(net, RingW(d, a))
    BY <1>4
  <1>6. ringTokens[d][a] = BelowHeld(d, a) + RingMoving(d, a)
    BY DEF RingInv, RingBook
  <1> QED
    BY <1>1, <1>5, <1>6 DEF BelowHeld, RingMoving, Count

(* A directory counts exactly the tokens of the ring below it, in its caches *)
(* and on its way, whatever passes it upwards, downwards, around it or        *)
(* through its ring ignored (Directory.cpp, both OnMessageReceived).         *)
THEOREM DirectoriesCount == Spec => []DirectoryCountsRing
  <1>1. Init => RingInv
    BY RingInit
  <1>2. IInv /\ TokenInv /\ IgnoredBelow /\ RingInv /\ [Next]_vars => RingInv'
    BY RingNext
  <1>3. Spec => [](IInv /\ TokenInv /\ IgnoredBelow)
    BY BooksHold
  <1>4. IInv /\ TokenInv /\ RingInv => DirectoryCountsRing
    BY BooksRing
  <1> QED
    BY <1>1, <1>2, <1>3, <1>4, PTL DEF Spec
=============================================================================
