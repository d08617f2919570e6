-------------------------- MODULE SchedulerProofs --------------------------
(***************************************************************************)
(* Proofs about the scheduling of threads, for any number of threads,       *)
(* addresses, cache lines and sizes of buffers.                             *)
(***************************************************************************)
EXTENDS Scheduler, FiniteSetTheorems, SequenceTheorems, WellFoundedInduction, TLAPS

-----------------------------------------------------------------------------
(* Induction over the natural numbers                                       *)

LEMMA Climb ==
  ASSUME NEW S, 0 \in S, \A n \in Nat : n \in S => n + 1 \in S
  PROVE  Nat \subseteq S
  <1> DEFINE R == {p \in Nat \X Nat : p[1] < p[2]}
             B == Nat \ S
  <1> SUFFICES ASSUME B # {} PROVE FALSE
    OBVIOUS
  <1>1. IsWellFoundedOn(R, Nat)
    BY NatLessThanWellFounded, Zenon DEF OpToRel
  <1>2. \A x, y \in Nat : <<y, x>> \in R <=> y < x
    OBVIOUS
  <1> HIDE DEF R
  <1>3. B \in SUBSET Nat
    OBVIOUS
  <1>4. PICK x \in B : \A y \in B : ~ (<<y, x>> \in R)
    BY <1>1, <1>3, WFMin
  <1>5. x \in Nat /\ x # 0 /\ x - 1 \in Nat /\ (x - 1) + 1 = x
    BY <1>4
  <1>6. x - 1 \in B
    BY <1>4, <1>5
  <1>7. x - 1 < x
    BY <1>5
  <1>8. <<x - 1, x>> \in R
    BY <1>2, <1>5, <1>7
  <1> HIDE DEF B
  <1> QED
    BY <1>4, <1>6, <1>8

-----------------------------------------------------------------------------
(* Lists of threads                                                         *)

\* s is the list of n threads from h to t, in the order of the links.
Orders(s, n, next, h, t) ==
  /\ n \in Nat /\ s \in [1 .. n -> Thread]
  /\ \A i, j \in 1 .. n : s[i] = s[j] => i = j
  /\ \A i \in 1 .. n : i # n => next[s[i]] = s[i + 1]
  /\ IF n = 0 THEN h = None ELSE h = s[1] /\ t = s[n]

\* The threads of S, each of them once, are the list from h to t.
Strung(next, h, t, S) ==
  \E n \in Nat : \E s \in [1 .. n -> Thread] :
     Orders(s, n, next, h, t) /\ S = {s[i] : i \in 1 .. n}

LEMMA StrungEnds ==
  ASSUME NEW next, NEW h, NEW t, NEW S, Strung(next, h, t, S)
  PROVE  /\ S \subseteq Thread
         /\ S = {} <=> h = None
         /\ S # {} => h \in S /\ t \in S
  <1>1. PICK n \in Nat : \E s \in [1 .. n -> Thread] :
              Orders(s, n, next, h, t) /\ S = {s[i] : i \in 1 .. n}
    BY DEF Strung
  <1>2. PICK s \in [1 .. n -> Thread] :
              Orders(s, n, next, h, t) /\ S = {s[i] : i \in 1 .. n}
    BY <1>1
  <1>3. None \notin Thread
    BY ICacheAssumption
  <1>4. CASE n = 0
    BY <1>2, <1>4 DEF Orders
  <1>5. CASE n # 0
    <2>1. 1 \in 1 .. n /\ n \in 1 .. n
      BY <1>5
    <2>2. s[1] \in S /\ s[n] \in S
      BY <1>2, <2>1
    <2> QED
      BY <1>2, <1>3, <1>5, <2>2 DEF Orders
  <1> QED
    BY <1>4, <1>5

LEMMA StrungNone ==
  ASSUME NEW next, NEW t
  PROVE  Strung(next, None, t, {})
  <1> DEFINE s == [i \in 1 .. 0 |-> None]
  <1>1. s \in [1 .. 0 -> Thread]
    OBVIOUS
  <1>2. Orders(s, 0, next, None, t)
    BY <1>1 DEF Orders
  <1>3. {} = {s[i] : i \in 1 .. 0}
    OBVIOUS
  <1> QED
    BY <1>1, <1>2, <1>3 DEF Strung

LEMMA StrungOne ==
  ASSUME NEW next, NEW t \in Thread
  PROVE  Strung(next, t, t, {t})
  <1> DEFINE s == [i \in 1 .. 1 |-> t]
  <1>1. s \in [1 .. 1 -> Thread]
    OBVIOUS
  <1>2. Orders(s, 1, next, t, t)
    BY <1>1 DEF Orders
  <1>3. {t} = {s[i] : i \in 1 .. 1}
    OBVIOUS
  <1> QED
    BY <1>1, <1>2, <1>3 DEF Strung

\* Links outside of the list, and that of its last thread, do not matter.
LEMMA StrungKept ==
  ASSUME NEW next, NEW other, NEW h, NEW t, NEW S, Strung(next, h, t, S),
         \A x \in S : x # t => other[x] = next[x]
  PROVE  Strung(other, h, t, S)
  <1>1. PICK n \in Nat : \E s \in [1 .. n -> Thread] :
              Orders(s, n, next, h, t) /\ S = {s[i] : i \in 1 .. n}
    BY DEF Strung
  <1>2. PICK s \in [1 .. n -> Thread] :
              Orders(s, n, next, h, t) /\ S = {s[i] : i \in 1 .. n}
    BY <1>1
  <1>3. ASSUME NEW i \in 1 .. n, i # n PROVE other[s[i]] = s[i + 1]
    <2>1. s[i] \in S /\ s[i] # t
      BY <1>2, <1>3 DEF Orders
    <2> QED
      BY <1>2, <1>3, <2>1 DEF Orders
  <1>4. Orders(s, n, other, h, t)
    BY <1>2, <1>3 DEF Orders
  <1> QED
    BY <1>2, <1>4 DEF Strung

\* A list that is linked behind another one.
LEMMA StrungJoin ==
  ASSUME NEW next, NEW h, NEW t, NEW S, Strung(next, h, t, S), S # {},
         NEW g, NEW u, NEW T, Strung(next, g, u, T), T # {},
         S \cap T = {}, next[t] = g
  PROVE  Strung(next, h, u, S \cup T)
  <1>1. PICK n \in Nat : \E s \in [1 .. n -> Thread] :
              Orders(s, n, next, h, t) /\ S = {s[i] : i \in 1 .. n}
    BY DEF Strung
  <1>2. PICK s \in [1 .. n -> Thread] :
              Orders(s, n, next, h, t) /\ S = {s[i] : i \in 1 .. n}
    BY <1>1
  <1>3. PICK m \in Nat : \E r \in [1 .. m -> Thread] :
              Orders(r, m, next, g, u) /\ T = {r[i] : i \in 1 .. m}
    BY DEF Strung
  <1>4. PICK r \in [1 .. m -> Thread] :
              Orders(r, m, next, g, u) /\ T = {r[i] : i \in 1 .. m}
    BY <1>3
  <1>5. n > 0 /\ m > 0
    BY <1>2, <1>4
  <1> DEFINE q == [i \in 1 .. n + m |-> IF i <= n THEN s[i] ELSE r[i - n]]
  <1>6. \A i \in 1 .. n + m : i <= n \/ i - n \in 1 .. m
    OBVIOUS
  <1>7. q \in [1 .. n + m -> Thread]
    BY <1>6
  <1>8. /\ \A i \in 1 .. n + m : i <= n => i \in 1 .. n /\ q[i] = s[i] /\ q[i] \in S
        /\ \A i \in 1 .. n + m : ~ (i <= n) => i - n \in 1 .. m /\ q[i] = r[i - n] /\ q[i] \in T
    BY <1>2, <1>4
  <1>9. S \cup T = {q[i] : i \in 1 .. n + m}
    <2>1. ASSUME NEW x \in S PROVE x \in {q[i] : i \in 1 .. n + m}
      <3>1. PICK i \in 1 .. n : x = s[i]
        BY <1>2
      <3>2. i \in 1 .. n + m /\ q[i] = x
        BY <3>1
      <3> QED
        BY <3>2
    <2>2. ASSUME NEW x \in T PROVE x \in {q[i] : i \in 1 .. n + m}
      <3>1. PICK i \in 1 .. m : x = r[i]
        BY <1>4
      <3>2. n + i \in 1 .. n + m /\ ~ (n + i <= n) /\ (n + i) - n = i
        OBVIOUS
      <3>3. q[n + i] = x
        BY <3>1, <3>2
      <3> QED
        BY <3>2, <3>3
    <2> HIDE DEF q
    <2> QED
      BY <1>8, <2>1, <2>2
  <1> HIDE DEF q
  <1>10. ASSUME NEW i \in 1 .. n + m, NEW j \in 1 .. n + m, q[i] = q[j] PROVE i = j
    <2>1. CASE i <= n /\ j <= n
      BY <1>2, <1>8, <1>10, <2>1 DEF Orders
    <2>2. CASE ~ (i <= n) /\ ~ (j <= n)
      <3>1. i - n = j - n
        BY <1>4, <1>8, <1>10, <2>2 DEF Orders
      <3> QED
        BY <3>1
    <2>3. CASE (i <= n) # (j <= n)
      BY <1>8, <1>10, <2>3
    <2> QED
      BY <2>1, <2>2, <2>3
  <1>11. ASSUME NEW i \in 1 .. n + m, i # n + m PROVE next[q[i]] = q[i + 1]
    <2>1. i + 1 \in 1 .. n + m
      BY <1>11
    <2>2. CASE i < n
      <3>1. i <= n /\ i + 1 <= n /\ i # n /\ i \in 1 .. n
        BY <2>2
      <3>2. q[i] = s[i] /\ q[i + 1] = s[i + 1]
        BY <1>8, <2>1, <3>1
      <3> QED
        BY <1>2, <3>1, <3>2 DEF Orders
    <2>3. CASE i = n
      <3>1. i <= n /\ ~ (i + 1 <= n) /\ (i + 1) - n = 1
        BY <2>3
      <3>2. q[i] = s[n] /\ q[i + 1] = r[1]
        BY <1>8, <2>1, <2>3, <3>1
      <3>3. s[n] = t /\ r[1] = g
        BY <1>2, <1>4, <1>5 DEF Orders
      <3> QED
        BY <3>2, <3>3
    <2>4. CASE i > n
      <3>1. ~ (i <= n) /\ ~ (i + 1 <= n) /\ (i + 1) - n = (i - n) + 1 /\ i - n # m
        BY <1>11, <2>4
      <3>2. q[i] = r[i - n] /\ q[i + 1] = r[(i - n) + 1] /\ i - n \in 1 .. m
        BY <1>8, <2>1, <3>1
      <3> QED
        BY <1>4, <3>1, <3>2 DEF Orders
    <2> QED
      BY <2>2, <2>3, <2>4
  <1>12. q[1] = h /\ q[n + m] = u
    <2>1. /\ 1 \in 1 .. n + m /\ 1 <= n /\ n + m \in 1 .. n + m
          /\ ~ (n + m <= n) /\ (n + m) - n = m
      BY <1>5
    <2>2. q[1] = s[1] /\ q[n + m] = r[m]
      BY <1>8, <2>1
    <2> QED
      BY <1>2, <1>4, <1>5, <2>2 DEF Orders
  <1>13. n + m \in Nat /\ n + m # 0
    BY <1>5
  <1>14. Orders(q, n + m, next, h, u)
    BY <1>7, <1>10, <1>11, <1>12, <1>13 DEF Orders
  <1> QED
    BY <1>7, <1>9, <1>13, <1>14 DEF Strung

\* Without its first thread.
LEMMA StrungRest ==
  ASSUME NEW next, NEW h, NEW t, NEW S, Strung(next, h, t, S), S # {}
  PROVE  /\ h = t => S = {h}
         /\ h # t => next[h] # None /\ Strung(next, next[h], t, S \ {h})
  <1>1. PICK n \in Nat : \E s \in [1 .. n -> Thread] :
              Orders(s, n, next, h, t) /\ S = {s[i] : i \in 1 .. n}
    BY DEF Strung
  <1>2. PICK s \in [1 .. n -> Thread] :
              Orders(s, n, next, h, t) /\ S = {s[i] : i \in 1 .. n}
    BY <1>1
  <1>3. n > 0 /\ 1 \in 1 .. n /\ n \in 1 .. n
    BY <1>2
  <1>4. h = s[1] /\ t = s[n]
    BY <1>2, <1>3 DEF Orders
  <1>5. CASE h = t
    <2>1. n = 1
      BY <1>2, <1>3, <1>4, <1>5 DEF Orders
    <2> QED
      BY <1>2, <1>4, <1>5, <2>1
  <1>6. CASE h # t
    <2>1. n > 1 /\ n - 1 \in Nat /\ n - 1 > 0 /\ 2 \in 1 .. n
      BY <1>3, <1>4, <1>6
    <2> DEFINE r == [i \in 1 .. n - 1 |-> s[i + 1]]
    <2>2. \A i \in 1 .. n - 1 : i + 1 \in 1 .. n /\ i + 1 # 1
      BY <2>1
    <2>3. r \in [1 .. n - 1 -> Thread] /\ \A i \in 1 .. n - 1 : r[i] = s[i + 1]
      BY <2>2
    <2> HIDE DEF r
    <2>4. S \ {h} = {r[i] : i \in 1 .. n - 1}
      <3>1. ASSUME NEW x \in S, x # h PROVE x \in {r[i] : i \in 1 .. n - 1}
        <4>1. PICK i \in 1 .. n : x = s[i]
          BY <1>2
        <4>2. i # 1
          BY <1>4, <3>1, <4>1
        <4>3. i - 1 \in 1 .. n - 1 /\ (i - 1) + 1 = i
          BY <4>2
        <4>4. r[i - 1] = x
          BY <2>3, <4>1, <4>3
        <4> QED
          BY <4>3, <4>4
      <3>2. ASSUME NEW i \in 1 .. n - 1 PROVE r[i] \in S /\ r[i] # h
        BY <1>2, <1>3, <1>4, <2>2, <2>3 DEF Orders
      <3> QED
        BY <3>1, <3>2
    <2>5. ASSUME NEW i \in 1 .. n - 1, NEW j \in 1 .. n - 1, r[i] = r[j] PROVE i = j
      <3>1. i + 1 = j + 1
        BY <1>2, <2>2, <2>3, <2>5 DEF Orders
      <3> QED
        BY <3>1
    <2>6. ASSUME NEW i \in 1 .. n - 1, i # n - 1 PROVE next[r[i]] = r[i + 1]
      <3>1. i + 1 \in 1 .. n - 1 /\ i + 1 # n
        BY <2>1, <2>6
      <3> QED
        BY <1>2, <2>2, <2>3, <3>1 DEF Orders
    <2>7. next[h] = s[2] /\ r[1] = s[2] /\ r[n - 1] = t
      <3>1. 1 \in 1 .. n - 1 /\ n - 1 \in 1 .. n - 1 /\ 1 + 1 = 2 /\ (n - 1) + 1 = n /\ n # 1
        BY <2>1
      <3> QED
        BY <1>2, <1>3, <1>4, <2>3, <3>1 DEF Orders
    <2>8. Orders(r, n - 1, next, next[h], t)
      BY <2>1, <2>3, <2>5, <2>6, <2>7 DEF Orders
    <2>9. next[h] # None
      BY <2>1, <2>7, ICacheAssumption
    <2> QED
      BY <1>6, <2>1, <2>3, <2>4, <2>8, <2>9 DEF Strung
  <1> QED
    BY <1>5, <1>6

\* The walk along the links visits the threads in their order and stops at the last.
LEMMA ChainWalks ==
  ASSUME NEW next, NEW h, NEW t, NEW S, Strung(next, h, t, S)
  PROVE  /\ ToSet(Chain(next, h, t)) = S
         /\ h # None => Last(Chain(next, h, t)) = t
  <1>1. PICK n \in Nat : \E s \in [1 .. n -> Thread] :
              Orders(s, n, next, h, t) /\ S = {s[i] : i \in 1 .. n}
    BY DEF Strung
  <1>2. PICK s \in [1 .. n -> Thread] :
              Orders(s, n, next, h, t) /\ S = {s[i] : i \in 1 .. n}
    BY <1>1
  <1>3. CASE h = None
    <2>1. S = {} /\ Chain(next, h, t) = <<>>
      BY <1>3, StrungEnds DEF Chain
    <2> QED
      BY <1>3, <2>1 DEF ToSet
  <1>4. CASE h # None
    <2>1. n > 0 /\ 1 \in 1 .. n /\ n \in 1 .. n /\ h = s[1] /\ t = s[n]
      BY <1>2, <1>4 DEF Orders
    <2> DEFINE N == Cardinality(Thread)
               part(k) == [i \in 1 .. k |-> s[i]]
               step(w, k) == IF k = 0 THEN <<h>>
                             ELSE IF Last(w[k - 1]) \in {t, None} THEN w[k - 1]
                             ELSE Append(w[k - 1], next[Last(w[k - 1])])
               e == [k \in 0 .. N |-> part(IF k < n THEN k + 1 ELSE n)]
               walk == CHOOSE w : w = [k \in 0 .. N |-> step(w, k)]
    <2>2. Chain(next, h, t) = walk[N]
      BY <1>4 DEF Chain
    <2>3. N \in Nat /\ n <= N
      <3>1. s \in Injection(1 .. n, Thread)
        BY <1>2 DEF Orders, Injection, IsInjective
      <3>2. IsFiniteSet(Thread)
        BY ICacheAssumption
      <3>3. Cardinality(1 .. n) <= N
        BY <3>1, <3>2, FS_Injection
      <3>4. Cardinality(1 .. n) = n
        BY <2>1, FS_Interval
      <3> QED
        BY <3>2, <3>3, <3>4, FS_CardinalityType
    <2> HIDE DEF N
    <2>4. ASSUME NEW k \in 1 .. n
          PROVE  part(k) \in Seq(Thread) /\ Len(part(k)) = k /\ Last(part(k)) = s[k]
      <3>1. \A i \in 1 .. k : i \in 1 .. n
        OBVIOUS
      <3>2. part(k) \in [1 .. k -> Thread] /\ k \in Nat
        BY <3>1
      <3>3. part(k) \in Seq(Thread) /\ Len(part(k)) = k
        BY <3>2
      <3> QED
        BY <3>3 DEF Last
    <2>5. part(1) = <<h>>
      <3>1. part(1) \in Seq(Thread) /\ Len(part(1)) = 1 /\ part(1)[1] = h
        BY <2>1, <2>4
      <3>2. h \in Thread
        BY <2>1
      <3> HIDE DEF part
      <3> QED
        BY <3>1, <3>2, SeqEqual
    <2>6. ASSUME NEW k \in 1 .. n, k # n PROVE Append(part(k), next[s[k]]) = part(k + 1)
      <3>1. next[s[k]] = s[k + 1] /\ k + 1 \in 1 .. n
        BY <1>2, <2>6 DEF Orders
      <3>2. part(k) \in Seq(Thread) /\ Len(part(k)) = k /\ part(k + 1) \in Seq(Thread) /\ Len(part(k + 1)) = k + 1
        BY <2>4, <3>1
      <3>3. /\ \A i \in 1 .. k : part(k + 1)[i] = part(k)[i]
            /\ part(k + 1)[k + 1] = s[k + 1]
        OBVIOUS
      <3>4. s[k + 1] \in Thread
        BY <3>1
      <3> DEFINE a == Append(part(k), s[k + 1])
      <3> HIDE DEF part
      <3>5. /\ a \in Seq(Thread) /\ Len(a) = k + 1
            /\ \A i \in 1 .. k : a[i] = part(k)[i]
            /\ a[k + 1] = s[k + 1]
        BY <3>2, <3>4, AppendProperties
      <3>6. \A i \in 1 .. k + 1 : a[i] = part(k + 1)[i]
        BY <3>3, <3>5
      <3>7. a = part(k + 1)
        BY <3>2, <3>5, <3>6, SeqEqual
      <3> QED
        BY <3>1, <3>7
    <2>7. ASSUME NEW w, NEW k \in 1 .. N, w[k - 1] = e[k - 1] PROVE step(w, k) = e[k]
      <3>1. k - 1 \in 0 .. N /\ k \in 0 .. N /\ k # 0
        BY <2>3
      <3>2. CASE k < n
        <4>1. /\ k \in 1 .. n /\ k # n /\ k - 1 < n /\ (k - 1) + 1 = k /\ e[k] = part(k + 1)
              /\ e[k - 1] = part(k)
          BY <2>1, <3>1, <3>2
        <4>2. s[k] # t /\ s[k] # None
          BY <1>2, <2>1, <4>1, ICacheAssumption DEF Orders
        <4> HIDE DEF part, e
        <4>4. Last(w[k - 1]) = s[k]
          BY <2>4, <2>7, <4>1
        <4>3. step(w, k) = Append(part(k), next[s[k]])
          BY <2>7, <3>1, <4>1, <4>2, <4>4
        <4> HIDE DEF step
        <4> QED
          BY <2>6, <4>1, <4>3
      <3>3. CASE ~ (k < n)
        <4>1. e[k] = part(n) /\ e[k - 1] = part(n)
          <5>1. k - 1 < n => (k - 1) + 1 = n
            BY <3>1, <3>3
          <5> QED
            BY <3>1, <3>3, <5>1
        <4> HIDE DEF part, e
        <4>2. Last(w[k - 1]) = t
          BY <2>1, <2>4, <2>7, <4>1
        <4> QED
          BY <2>7, <3>1, <4>1, <4>2
      <3> QED
        BY <3>2, <3>3
    <2>8. e[0] = <<h>>
      BY <2>1, <2>3, <2>5
    <2>9. e = [k \in 0 .. N |-> step(e, k)]
      <3>1. ASSUME NEW k \in 0 .. N PROVE e[k] = step(e, k)
        <4>1. CASE k = 0
          <5> HIDE DEF e
          <5> QED
            BY <2>8, <4>1
        <4>2. CASE k # 0
          <5>1. k \in 1 .. N
            BY <4>2
          <5> HIDE DEF e, step
          <5> QED
            BY <2>7, <5>1
        <4> QED
          BY <4>1, <4>2
      <3>2. e = [k \in 0 .. N |-> e[k]]
        OBVIOUS
      <3> HIDE DEF e, step
      <3> QED
        BY <3>1, <3>2
    <2>10. walk = [k \in 0 .. N |-> step(walk, k)]
      <3> HIDE DEF e, step
      <3> QED
        BY <2>9
    <2> HIDE DEF walk
    <2>11. walk[N] = e[N]
      <3> DEFINE U == {k \in Nat : k \in 0 .. N => walk[k] = e[k]}
      <3>1. 0 \in U
        <4>1. walk[0] = step(walk, 0)
          <5> HIDE DEF step
          <5> QED
            BY <2>3, <2>10
        <4> HIDE DEF e
        <4> QED
          BY <2>8, <4>1
      <3>2. ASSUME NEW k \in Nat, k \in U PROVE k + 1 \in U
        <4>1. CASE k + 1 \in 0 .. N
          <5>1. k \in 0 .. N /\ (k + 1) - 1 = k /\ k + 1 \in 1 .. N
            BY <2>3, <4>1
          <5> HIDE DEF e, step
          <5>2. walk[k] = e[k]
            BY <3>2, <5>1
          <5>3. walk[k + 1] = step(walk, k + 1)
            BY <2>10, <4>1
          <5>4. step(walk, k + 1) = e[k + 1]
            BY <2>7, <5>1, <5>2
          <5> QED
            BY <5>3, <5>4
        <4>2. CASE k + 1 \notin 0 .. N
          BY <4>2
        <4> QED
          BY <4>1, <4>2
      <3>3. Nat \subseteq U
        <4> HIDE DEF U
        <4> QED
          BY <3>1, <3>2, Climb
      <3> HIDE DEF e
      <3> QED
        BY <2>3, <3>3
    <2>12. Chain(next, h, t) = part(n)
      BY <2>2, <2>3, <2>11
    <2>13. ToSet(part(n)) = S
      BY <1>2 DEF ToSet
    <2>14. Last(part(n)) = t
      BY <2>1, <2>4
    <2> HIDE DEF part
    <2> QED
      BY <2>12, <2>13, <2>14
  <1> QED
    BY <1>3, <1>4

-----------------------------------------------------------------------------
(* Types, and what the two operations on lists do                           *)

Places      == {"pipe", "other", "active"}
ThreadTable == [Thread -> [state : ThreadState, next : Thread \cup {None},
                           cid : CID \cup {None}, pc : Addr \cup {None},
                           writes : 0 .. MaxWrites, waitingForWrites : BOOLEAN]]
ListTable   == [Places -> ListType]
LineTable   == [CID -> [state : {"EMPTY", "LOADING", "FULL", "INVALID"},
                        tag : Addr \cup {None}, references : Nat,
                        head : Thread \cup {None}, tail : Thread \cup {None},
                        creation : BOOLEAN, fresh : BOOLEAN]]

\* What became of the threads and the lists, when M was put behind T in list l.
Joined(q, k, threads, l, s, M, T) ==
  /\ q \in ThreadTable /\ k \in ListTable
  /\ \A x \in Thread : /\ q[x].state = IF x \in M THEN s ELSE threads[x].state
                       /\ q[x].cid = threads[x].cid /\ q[x].pc = threads[x].pc
                       /\ q[x].writes = threads[x].writes
                       /\ q[x].waitingForWrites = threads[x].waitingForWrites
  /\ \A x \in Thread : x \notin T => NextOf(q)[x] = NextOf(threads)[x]
  /\ Strung(NextOf(q), k[l].head, k[l].tail, M \cup T)
  /\ \A m \in Places : m # l => k[m] = list[m]

\* M is put behind T; only the last thread of T gets another link.
LEMMA Queueing ==
  ASSUME NEW threads \in ThreadTable, list \in ListTable, NEW l \in Places,
         NEW h, NEW g, NEW s \in ThreadState, NEW M, NEW T,
         Strung(NextOf(threads), h, g, M), M # {},
         Strung(NextOf(threads), list[l].head, list[l].tail, T), M \cap T = {},
         NEW q, q = QueueThreads(threads, l, h, g, s),
         NEW k, k = Queued(list, l, h, g)
  PROVE  Joined(q, k, threads, l, s, M, T)
  <1>1. M \subseteq Thread /\ h \in M /\ g \in M
    BY StrungEnds
  <1>2. /\ T \subseteq Thread /\ (T = {} <=> list[l].head = None)
        /\ (T # {} => list[l].tail \in T)
    BY StrungEnds
  <1>3. ToSet(Chain(NextOf(threads), h, g)) = M
    BY ChainWalks
  <1>4. q = [x \in Thread |->
               [threads[x] EXCEPT !.state = IF x \in M THEN s ELSE @,
                                  !.next = IF list[l].head # None /\ x = list[l].tail THEN h ELSE @]]
    BY <1>3 DEF QueueThreads
  <1>5. ASSUME NEW x \in Thread
        PROVE  /\ q[x].state = IF x \in M THEN s ELSE threads[x].state
               /\ q[x].cid = threads[x].cid /\ q[x].pc = threads[x].pc
               /\ q[x].writes = threads[x].writes
               /\ q[x].waitingForWrites = threads[x].waitingForWrites
               /\ q[x].next = IF T # {} /\ x = list[l].tail THEN h ELSE threads[x].next
               /\ q[x] \in [state : ThreadState, next : Thread \cup {None},
                            cid : CID \cup {None}, pc : Addr \cup {None},
                            writes : 0 .. MaxWrites, waitingForWrites : BOOLEAN]
    <2> DEFINE a == IF x \in M THEN s ELSE threads[x].state
               b == IF T # {} /\ x = list[l].tail THEN h ELSE threads[x].next
    <2>1. threads[x] \in [state : ThreadState, next : Thread \cup {None},
                          cid : CID \cup {None}, pc : Addr \cup {None},
                          writes : 0 .. MaxWrites, waitingForWrites : BOOLEAN]
      BY DEF ThreadTable
    <2>2. a \in ThreadState /\ b \in Thread \cup {None}
      BY <1>1, <2>1
    <2>3. q[x] = [threads[x] EXCEPT !.state = a, !.next = b]
      BY <1>2, <1>4
    <2> HIDE DEF a, b
    <2>4. /\ q[x].state = a /\ q[x].next = b
          /\ q[x].cid = threads[x].cid /\ q[x].pc = threads[x].pc
          /\ q[x].writes = threads[x].writes
          /\ q[x].waitingForWrites = threads[x].waitingForWrites
          /\ q[x] \in [state : ThreadState, next : Thread \cup {None},
                       cid : CID \cup {None}, pc : Addr \cup {None},
                       writes : 0 .. MaxWrites, waitingForWrites : BOOLEAN]
      BY <2>1, <2>2, <2>3
    <2> QED
      BY <2>4 DEF a, b
  <1>6. q \in ThreadTable
    BY <1>4, <1>5 DEF ThreadTable
  <1>7. /\ k \in ListTable /\ k[l].tail = g
        /\ k[l].head = IF T = {} THEN h ELSE list[l].head
        /\ \A m \in Places : m # l => k[m] = list[m]
    BY <1>1, <1>2 DEF Queued, ListTable, ListType
  <1>8. /\ \A x \in Thread : NextOf(q)[x] = q[x].next
        /\ \A x \in Thread : NextOf(threads)[x] = threads[x].next
    BY DEF NextOf
  <1>9. Strung(NextOf(q), k[l].head, k[l].tail, M \cup T)
    <2>1. CASE T = {}
      <3>1. \A x \in M : NextOf(q)[x] = NextOf(threads)[x]
        BY <1>1, <1>5, <1>8, <2>1
      <3>2. Strung(NextOf(q), h, g, M)
        BY <3>1, StrungKept
      <3> QED
        BY <1>7, <2>1, <3>2
    <2>2. CASE T # {}
      <3>1. Strung(NextOf(q), h, g, M)
        <4>1. \A x \in M : x # list[l].tail
          BY <1>2, <2>2
        <4>2. \A x \in M : NextOf(q)[x] = NextOf(threads)[x]
          BY <1>1, <1>5, <1>8, <4>1
        <4> QED
          BY <4>2, StrungKept
      <3>2. Strung(NextOf(q), list[l].head, list[l].tail, T)
        <4>1. \A x \in T : x # list[l].tail => NextOf(q)[x] = NextOf(threads)[x]
          BY <1>2, <1>5, <1>8
        <4> QED
          BY <4>1, StrungKept
      <3>3. NextOf(q)[list[l].tail] = h
        BY <1>2, <1>5, <1>8, <2>2
      <3>4. T \cap M = {}
        OBVIOUS
      <3>5. Strung(NextOf(q), list[l].head, g, T \cup M)
        BY <2>2, <3>1, <3>2, <3>3, <3>4, StrungJoin
      <3>6. T \cup M = M \cup T
        OBVIOUS
      <3> QED
        BY <1>7, <2>2, <3>5, <3>6
    <2> QED
      BY <2>1, <2>2
  <1>10. \A x \in Thread : x \notin T => NextOf(q)[x] = NextOf(threads)[x]
    BY <1>2, <1>5, <1>8
  <1> QED
    BY <1>5, <1>6, <1>7, <1>9, <1>10 DEF Joined

\* The first thread of T is taken out.
LEMMA Popping ==
  ASSUME thread \in ThreadTable, list \in ListTable, NEW l \in Places, NEW T,
         Strung(NextOf(thread), list[l].head, list[l].tail, T), T # {},
         NEW k, k = Popped(l)
  PROVE  /\ k \in ListTable
         /\ list[l].head \in T
         /\ Strung(NextOf(thread), k[l].head, k[l].tail, T \ {list[l].head})
         /\ \A m \in Places : m # l => k[m] = list[m]
  <1>1. T \subseteq Thread /\ list[l].head \in T /\ list[l].tail \in T
    BY StrungEnds
  <1>2. CASE list[l].head = list[l].tail
    <2> DEFINE N == NextOf(thread)
               h == list[l].head
               t == list[l].tail
    <2>0. Strung(N, h, t, T) /\ h = t
      BY <1>2
    <2>1. T = {h}
      <3> HIDE DEF N, h, t
      <3> QED
        BY <2>0, StrungRest
    <2>2. k = [list EXCEPT ![l] = NoList]
      BY <1>2 DEF Popped
    <2>3. /\ k \in ListTable /\ k[l].head = None
          /\ \A m \in Places : m # l => k[m] = list[m]
      BY <2>2 DEF ListTable, ListType, NoList
    <2> QED
      BY <1>1, <2>1, <2>3, StrungNone
  <1>3. CASE list[l].head # list[l].tail
    <2>1. Strung(NextOf(thread), NextOf(thread)[list[l].head], list[l].tail, T \ {list[l].head})
      BY <1>3, StrungRest
    <2>2. k = [list EXCEPT ![l] = [list[l] EXCEPT !.head = thread[list[l].head].next]]
      BY <1>3 DEF Popped
    <2>3. /\ thread[list[l].head].next \in Thread \cup {None}
          /\ NextOf(thread)[list[l].head] = thread[list[l].head].next
      BY <1>1 DEF ThreadTable, NextOf
    <2>4. /\ k \in ListTable
          /\ k[l].head = thread[list[l].head].next /\ k[l].tail = list[l].tail
          /\ \A m \in Places : m # l => k[m] = list[m]
      BY <2>2, <2>3 DEF ListTable, ListType
    <2> QED
      BY <1>1, <2>1, <2>3, <2>4
  <1> QED
    BY <1>2, <1>3
-----------------------------------------------------------------------------
(* The invariant                                                            *)

Waiters(c) == {t \in Thread : thread[t].state = "WAITING" /\ thread[t].cid = c}
Sleepers   == {t \in Thread : thread[t].state = "SUSPENDED" /\ ~thread[t].waitingForWrites}

\* Every list is the threads in its state; S and T are those that are ready.
Listed(S, T) ==
  /\ S \cap T = {} /\ S \cup T = InState("READY")
  /\ Strung(NextOf(thread), list["pipe"].head, list["pipe"].tail, S)
  /\ Strung(NextOf(thread), list["other"].head, list["other"].tail, T)
  /\ Strung(NextOf(thread), list["active"].head, list["active"].tail, InState("ACTIVE"))
  /\ \A c \in CID : Strung(NextOf(thread), line[c].head, line[c].tail, Waiters(c))
  /\ Strung(NextOf(thread), reg.head, reg.tail, Sleepers)
Lists == \E S, T \in SUBSET Thread : Listed(S, T)

\* The pipeline is the running threads.
Piped ==
  /\ \A i \in 1 .. Len(pipe) : pipe[i] \in Thread /\ thread[pipe[i]].state = "RUNNING"
  /\ \A t \in Thread : thread[t].state = "RUNNING" => \E i \in 1 .. Len(pipe) : pipe[i] = t
  /\ \A i, j \in 1 .. Len(pipe) : pipe[i] = pipe[j] => i = j

\* What the state of a thread says of its other fields.
Using(t) == thread[t].state \in {"WAITING", "ACTIVE", "RUNNING"}
ThreadsOK ==
  \A t \in Thread :
    /\ Using(t) => thread[t].cid \in CID
    /\ Using(t) \/ thread[t].state \in {"READY", "SUSPENDED"} => thread[t].pc \in Addr
    /\ thread[t].state = "WAITING" => line[thread[t].cid].tag = thread[t].pc
    /\ thread[t].waitingForWrites => thread[t].state = "SUSPENDED"

\* Only a line that is on its way has somebody waiting, and only one with data is
\* kept when nobody refers to it.
LinesOK ==
  \A c \in CID :
    /\ line[c].references = 0 => line[c].state \in {"EMPTY", "FULL"}
    /\ line[c].state = "EMPTY" => line[c].references = 0
    /\ line[c].head # None \/ line[c].creation => line[c].state \in {"LOADING", "INVALID"}

\* The creation waits for one line, the one of its address.
CreateOK ==
  /\ \A c \in CID : line[c].creation => create.state = "LOADING_LINE" /\ line[c].tag = create.pc
  /\ \A c, d \in CID : line[c].creation /\ line[d].creation => c = d
  /\ create.state = "LOADING_LINE" => \E c \in CID : line[c].creation
  /\ create.state = "LINE_LOADED" => create.cid \in CID
  /\ create.state # "IDLE" => create.pc \in Addr

RegOK == reg.state = "WAITING" <=> reg.head # None

Held == ReferencesExact /\ ReadersFindLine /\ ThreadsOK /\ LinesOK /\ CreateOK
CacheTypes ==
  /\ line \in LineTable
  /\ outgoing \in Seq(Addr) /\ Len(outgoing) <= BufferSize
  /\ incoming \in Seq(CID) /\ arrived \in Seq(CID)
  /\ Len(incoming) + Len(arrived) <= BufferSize
  /\ served \in BOOLEAN /\ reading \in [Addr -> Nat]
CoreTypes ==
  /\ prevReady \in {"pipe", "other"} /\ pipe \in Seq(Thread)
  /\ reg \in [state : {"EMPTY", "PENDING", "WAITING", "FULL"}, busy : BOOLEAN,
              head : Thread \cup {None}, tail : Thread \cup {None}]
  /\ create \in [state : {"IDLE", "LOAD_REGSPEC", "LOADING_LINE", "LINE_LOADED"},
                 pc : Addr \cup {None}, cid : CID \cup {None}]
  /\ events \in 0 .. MaxEvents
Types == CacheTypes /\ thread \in ThreadTable /\ list \in ListTable /\ CoreTypes

IInv == Types /\ Lists /\ Piped /\ RegOK /\ Held

-----------------------------------------------------------------------------
(* Parts of the invariant that a step leaves alone                          *)

\* The same thread as far as the lists are concerned.
SameThread(x) ==
  /\ thread'[x].state = thread[x].state /\ thread'[x].next = thread[x].next
  /\ thread'[x].cid = thread[x].cid
  /\ thread'[x].waitingForWrites = thread[x].waitingForWrites

\* A list none of whose threads is in D, before and after the step.
LEMMA ListsKept ==
  ASSUME NEW S \in SUBSET Thread, NEW T \in SUBSET Thread, Listed(S, T),
         NEW D, \A x \in Thread : x \notin D => SameThread(x)
  PROVE  /\ D \cap S = {} => Strung(NextOf(thread'), list["pipe"].head, list["pipe"].tail, S)
         /\ D \cap T = {} => Strung(NextOf(thread'), list["other"].head, list["other"].tail, T)
         /\ D \cap (InState("ACTIVE") \cup InState("ACTIVE")') = {} =>
              /\ InState("ACTIVE")' = InState("ACTIVE")
              /\ Strung(NextOf(thread'), list["active"].head, list["active"].tail, InState("ACTIVE"))
         /\ \A c \in CID : D \cap (Waiters(c) \cup Waiters(c)') = {} =>
              /\ Waiters(c)' = Waiters(c)
              /\ Strung(NextOf(thread'), line[c].head, line[c].tail, Waiters(c))
         /\ D \cap (Sleepers \cup Sleepers') = {} =>
              /\ Sleepers' = Sleepers
              /\ Strung(NextOf(thread'), reg.head, reg.tail, Sleepers)
  <1>1. ASSUME NEW h, NEW t, NEW X \in SUBSET Thread, Strung(NextOf(thread), h, t, X), D \cap X = {}
        PROVE  Strung(NextOf(thread'), h, t, X)
    <2>1. \A x \in X : NextOf(thread')[x] = NextOf(thread)[x]
      BY <1>1 DEF NextOf, SameThread
    <2> QED
      BY <1>1, <2>1, StrungKept
  <1>2. /\ Strung(NextOf(thread), list["pipe"].head, list["pipe"].tail, S)
        /\ Strung(NextOf(thread), list["other"].head, list["other"].tail, T)
        /\ Strung(NextOf(thread), list["active"].head, list["active"].tail, InState("ACTIVE"))
        /\ \A c \in CID : Strung(NextOf(thread), line[c].head, line[c].tail, Waiters(c))
        /\ Strung(NextOf(thread), reg.head, reg.tail, Sleepers)
    BY DEF Listed
  <1>3. D \cap S = {} => Strung(NextOf(thread'), list["pipe"].head, list["pipe"].tail, S)
    BY <1>1, <1>2
  <1>4. D \cap T = {} => Strung(NextOf(thread'), list["other"].head, list["other"].tail, T)
    BY <1>1, <1>2
  <1>5. ASSUME D \cap (InState("ACTIVE") \cup InState("ACTIVE")') = {}
        PROVE  /\ InState("ACTIVE")' = InState("ACTIVE")
               /\ Strung(NextOf(thread'), list["active"].head, list["active"].tail, InState("ACTIVE"))
    <2>1. InState("ACTIVE")' = InState("ACTIVE")
      BY <1>5 DEF InState, SameThread
    <2>2. InState("ACTIVE") \in SUBSET Thread /\ D \cap InState("ACTIVE") = {}
      BY <1>5 DEF InState
    <2> QED
      BY <1>1, <1>2, <2>1, <2>2
  <1>6. ASSUME NEW c \in CID, D \cap (Waiters(c) \cup Waiters(c)') = {}
        PROVE  /\ Waiters(c)' = Waiters(c)
               /\ Strung(NextOf(thread'), line[c].head, line[c].tail, Waiters(c))
    <2>1. Waiters(c)' = Waiters(c)
      BY <1>6 DEF Waiters, SameThread
    <2>2. Waiters(c) \in SUBSET Thread /\ D \cap Waiters(c) = {}
      BY <1>6 DEF Waiters
    <2> QED
      BY <1>1, <1>2, <2>1, <2>2
  <1>7. ASSUME D \cap (Sleepers \cup Sleepers') = {}
        PROVE  /\ Sleepers' = Sleepers
               /\ Strung(NextOf(thread'), reg.head, reg.tail, Sleepers)
    <2>1. Sleepers' = Sleepers
      BY <1>7 DEF Sleepers, SameThread
    <2>2. Sleepers \in SUBSET Thread /\ D \cap Sleepers = {}
      BY <1>7 DEF Sleepers
    <2> QED
      BY <1>1, <1>2, <2>1, <2>2
  <1> QED
    BY <1>3, <1>4, <1>5, <1>6, <1>7

\* Lists that a step does not touch at all.
LEMMA AllListsKept ==
  ASSUME Lists, Piped, \A x \in Thread : SameThread(x), UNCHANGED <<list, pipe>>,
         \A c \in CID : /\ line'[c].head = line[c].head
                        /\ line[c].head # None => line'[c].tail = line[c].tail,
         reg'.head = reg.head, reg.head # None => reg'.tail = reg.tail
  PROVE  Lists' /\ Piped'
  <1>1. PICK S \in SUBSET Thread, T \in SUBSET Thread : Listed(S, T)
    BY DEF Lists
  <1>2. ASSUME NEW n, NEW h, NEW t, NEW u, NEW X, Strung(n, h, t, X), h # None => u = t
        PROVE  Strung(n, h, u, X)
    <2>1. CASE h = None
      <3>1. X = {}
        BY <1>2, <2>1, StrungEnds
      <3> QED
        BY <2>1, <3>1, StrungNone
    <2> QED
      BY <1>2, <2>1
  <1>3. /\ Strung(NextOf(thread'), list["pipe"].head, list["pipe"].tail, S)
        /\ Strung(NextOf(thread'), list["other"].head, list["other"].tail, T)
        /\ InState("ACTIVE")' = InState("ACTIVE")
        /\ Strung(NextOf(thread'), list["active"].head, list["active"].tail, InState("ACTIVE"))
        /\ \A c \in CID : /\ Waiters(c)' = Waiters(c)
                          /\ Strung(NextOf(thread'), line[c].head, line[c].tail, Waiters(c))
        /\ Sleepers' = Sleepers
        /\ Strung(NextOf(thread'), reg.head, reg.tail, Sleepers)
    <2> DEFINE D == {}
    <2>1. \A x \in Thread : x \notin D => SameThread(x)
      OBVIOUS
    <2>2. \A X : D \cap X = {}
      OBVIOUS
    <2> HIDE DEF D
    <2> QED
      BY <1>1, <2>1, <2>2, ListsKept
  <1>4. \A c \in CID : Strung(NextOf(thread'), line'[c].head, line'[c].tail, Waiters(c))
    BY <1>2, <1>3
  <1>5. Strung(NextOf(thread'), reg'.head, reg'.tail, Sleepers)
    BY <1>2, <1>3
  <1>6. InState("READY")' = InState("READY")
    BY DEF InState, SameThread
  <1>7. Listed(S, T)'
    BY <1>1, <1>3, <1>4, <1>5, <1>6 DEF Listed
  <1>8. Piped'
    BY DEF Piped, SameThread
  <1> QED
    BY <1>7, <1>8 DEF Lists

\* Counting the threads of a line.
LEMMA UsersFinite ==
  ASSUME NEW U \in SUBSET Thread
  PROVE  /\ IsFiniteSet(U) /\ Cardinality(U) \in Nat
         /\ Cardinality(U) = 0 <=> U = {}
         /\ \A t : t \in U => Cardinality(U \ {t}) = Cardinality(U) - 1
         /\ \A t : t \notin U => Cardinality(U \cup {t}) = Cardinality(U) + 1
  <1>1. IsFiniteSet(U)
    BY ICacheAssumption, FS_Subset
  <1> QED
    BY <1>1, FS_CardinalityType, FS_EmptySet, FS_RemoveElement, FS_AddElement

\* Threads move, but none starts or stops using a line.
LEMMA HeldKept ==
  ASSUME Held, UNCHANGED <<line, create>>,
         \A x \in Thread :
           /\ Using(x)' <=> Using(x)
           /\ Using(x) => thread'[x].cid = thread[x].cid /\ thread'[x].pc = thread[x].pc
           /\ thread'[x].state = "WAITING" => thread[x].state = "WAITING"
           /\ thread[x].state = "WAITING" => thread'[x].state = "WAITING"
           /\ thread'[x].state \in {"READY", "SUSPENDED"} => thread'[x].pc \in Addr
           /\ thread'[x].waitingForWrites => thread'[x].state = "SUSPENDED"
  PROVE  Held'
  <1>1. \A c \in CID : Users(c)' = Users(c)
    BY DEF Users, Using
  <1>2. ReferencesExact'
    BY <1>1 DEF Held, ReferencesExact, CreationUses
  <1>3. InState("ACTIVE")' \cup InState("RUNNING")' = InState("ACTIVE") \cup InState("RUNNING")
    BY DEF InState, Using
  <1>4. ReadersFindLine'
    <2>1. \A x \in InState("ACTIVE") \cup InState("RUNNING") :
             thread'[x].cid = thread[x].cid /\ thread'[x].pc = thread[x].pc
      BY DEF InState, Using
    <2> QED
      BY <1>3, <2>1 DEF Held, ReadersFindLine
  <1>5. ThreadsOK'
    BY DEF Held, ThreadsOK, Using
  <1>6. LinesOK' /\ CreateOK'
    BY DEF Held, LinesOK, CreateOK
  <1> QED
    BY <1>2, <1>4, <1>5, <1>6 DEF Held

\* What ReleaseCacheLine does to the table.
LEMMA Releasing ==
  ASSUME line \in LineTable, NEW c \in CID, line[c].references > 0,
         NEW k, k = Released(line, c)
  PROVE  /\ k \in LineTable
         /\ k[c].references = line[c].references - 1
         /\ k[c].state = IF line[c].references = 1 /\ line[c].state = "INVALID" THEN "EMPTY"
                         ELSE line[c].state
         /\ \A d \in CID : /\ k[d].tag = line[d].tag /\ k[d].head = line[d].head
                           /\ k[d].tail = line[d].tail /\ k[d].creation = line[d].creation
         /\ \A d \in CID : d # c => k[d] = line[d]
  <1> DEFINE Row == [state : {"EMPTY", "LOADING", "FULL", "INVALID"},
                     tag : Addr \cup {None}, references : Nat,
                     head : Thread \cup {None}, tail : Thread \cup {None},
                     creation : BOOLEAN, fresh : BOOLEAN]
             n == line[c].references - 1
             a == IF line[c].references = 1 /\ line[c].state = "INVALID" THEN "EMPTY"
                  ELSE line[c].state
  <1>1. line \in [CID -> Row] /\ line[c] \in Row
    BY DEF LineTable
  <1>2. n \in Nat /\ a \in {"EMPTY", "LOADING", "FULL", "INVALID"}
    BY <1>1
  <1>3. k = [line EXCEPT ![c] = [line[c] EXCEPT !.references = n, !.state = a]]
    BY <1>1 DEF Released
  <1> DEFINE r == [line[c] EXCEPT !.references = n, !.state = a]
  <1>4. /\ r.references = n /\ r.state = a /\ r.tag = line[c].tag /\ r.head = line[c].head
        /\ r.tail = line[c].tail /\ r.creation = line[c].creation /\ r \in Row
    <2> HIDE DEF n, a
    <2> QED
      BY <1>1, <1>2
  <1> HIDE DEF n, a, r, Row
  <1>5. k \in [CID -> Row] /\ k[c] = r /\ \A d \in CID : d # c => k[d] = line[d]
    BY <1>1, <1>3, <1>4 DEF r
  <1> QED
    BY <1>4, <1>5 DEF n, a, Row, LineTable

\* A running thread gives up its line.
LEMMA HeldLeaves ==
  ASSUME Held, Lists, line \in LineTable, NEW t \in Thread, thread[t].state = "RUNNING",
         line' = Released(line, thread[t].cid), create' = create,
         \A x \in Thread : x # t =>
           /\ thread'[x].state = thread[x].state /\ thread'[x].cid = thread[x].cid
           /\ thread'[x].pc = thread[x].pc
           /\ thread'[x].waitingForWrites = thread[x].waitingForWrites,
         thread'[t].state \notin {"WAITING", "ACTIVE", "RUNNING"},
         thread'[t].state \in {"READY", "SUSPENDED"} => thread'[t].pc \in Addr,
         thread'[t].waitingForWrites => thread'[t].state = "SUSPENDED"
  PROVE  /\ Held' /\ line' \in LineTable
         /\ \A d \in CID : line'[d].head = line[d].head /\ line'[d].tail = line[d].tail
  <1>1. PICK c \in CID : thread[t].cid = c
    BY DEF Held, ThreadsOK, Using
  <1>2. line' = Released(line, c)
    BY <1>1
  <1>3. \A d \in CID : Users(d) \in SUBSET Thread /\ Users(d)' \in SUBSET Thread
    BY DEF Users
  <1>4. t \in Users(c) /\ Users(c)' = Users(c) \ {t}
    BY <1>1 DEF Users
  <1>5. \A d \in CID : d # c => Users(d)' = Users(d)
    BY <1>1 DEF Users
  <1>6. /\ Cardinality(Users(c)) \in Nat /\ Cardinality(Users(c)) # 0
        /\ Cardinality(Users(c)') = Cardinality(Users(c)) - 1
    BY <1>1, <1>3, <1>4, UsersFinite
  <1>7. line[c].references = Cardinality(Users(c)) + (IF CreationUses(c) THEN 1 ELSE 0)
    BY <1>1 DEF Held, ReferencesExact
  <1>8. line[c].references > 0
    BY <1>6, <1>7
  <1>9. /\ line' \in LineTable
        /\ line'[c].references = line[c].references - 1
        /\ line'[c].state = IF line[c].references = 1 /\ line[c].state = "INVALID" THEN "EMPTY"
                            ELSE line[c].state
        /\ \A d \in CID : /\ line'[d].tag = line[d].tag /\ line'[d].head = line[d].head
                          /\ line'[d].tail = line[d].tail /\ line'[d].creation = line[d].creation
        /\ \A d \in CID : d # c => line'[d] = line[d]
    BY <1>1, <1>2, <1>8, Releasing
  <1>10. \A d \in CID : CreationUses(d)' <=> CreationUses(d)
    BY <1>9 DEF CreationUses
  <1>11. ReferencesExact'
    <2>1. line'[c].references = Cardinality(Users(c)') + (IF CreationUses(c)' THEN 1 ELSE 0)
      <3> DEFINE one == IF CreationUses(c) THEN 1 ELSE 0
      <3>1. one \in Nat /\ (IF CreationUses(c)' THEN 1 ELSE 0) = one
        BY <1>1, <1>10
      <3> HIDE DEF one
      <3>2. line[c].references = Cardinality(Users(c)) + one
        BY <1>7 DEF one
      <3> QED
        BY <1>6, <1>9, <3>1, <3>2
    <2>2. ASSUME NEW d \in CID, d # c
          PROVE  line'[d].references = Cardinality(Users(d)') + (IF CreationUses(d)' THEN 1 ELSE 0)
      BY <1>5, <1>9, <1>10, <2>2 DEF Held, ReferencesExact
    <2> QED
      BY <2>1, <2>2 DEF ReferencesExact
  \* The last one that refers to the line is t.
  <1>12. ASSUME line[c].references = 1
         PROVE  Users(c) = {t} /\ ~CreationUses(c)
    <2>1. Cardinality(Users(c)) = 1 /\ ~CreationUses(c)
      BY <1>6, <1>7, <1>12
    <2>2. Cardinality(Users(c)') = 0
      BY <1>6, <2>1
    <2>3. Users(c)' = {}
      BY <1>1, <1>3, <2>2, UsersFinite
    <2> QED
      BY <1>4, <2>1, <2>3
  <1>13. line[c].state \in {"FULL", "INVALID"}
    BY <1>1 DEF Held, ReadersFindLine, InState
  <1>14. ReadersFindLine'
    <2>1. ASSUME NEW x \in Thread, thread'[x].state \in {"ACTIVE", "RUNNING"}
          PROVE  /\ line'[thread'[x].cid].state \in {"FULL", "INVALID"}
                 /\ line'[thread'[x].cid].tag = thread'[x].pc
      <3>1. /\ x # t /\ thread[x].state \in {"ACTIVE", "RUNNING"} /\ thread[x].cid \in CID
            /\ thread'[x].cid = thread[x].cid /\ thread'[x].pc = thread[x].pc
        BY <2>1 DEF Held, ThreadsOK, Using
      <3>2. /\ line[thread[x].cid].state \in {"FULL", "INVALID"}
            /\ line[thread[x].cid].tag = thread[x].pc
        BY <3>1 DEF Held, ReadersFindLine, InState
      <3>3. thread[x].cid = c => line[c].references # 1
        BY <1>12, <3>1 DEF Users
      <3> QED
        BY <1>9, <3>1, <3>2, <3>3
    <2>2. ASSUME create'.state = "LINE_LOADED"
          PROVE  /\ line'[create'.cid].state \in {"FULL", "INVALID"}
                 /\ line'[create'.cid].tag = create'.pc
      <3>1. /\ create.state = "LINE_LOADED" /\ create.cid \in CID
            /\ line[create.cid].state \in {"FULL", "INVALID"}
            /\ line[create.cid].tag = create.pc
        BY <2>2 DEF Held, CreateOK, ReadersFindLine
      <3>2. create.cid = c => line[c].references # 1
        BY <1>12, <3>1 DEF CreationUses
      <3> QED
        BY <1>9, <3>1, <3>2
    <2> QED
      BY <2>1, <2>2 DEF ReadersFindLine, InState
  <1>15. ThreadsOK'
    BY <1>9 DEF Held, ThreadsOK, Using
  <1>16. LinesOK'
    <2>1. ASSUME NEW d \in CID, d # c
          PROVE  /\ line'[d].references = 0 => line'[d].state \in {"EMPTY", "FULL"}
                 /\ line'[d].state = "EMPTY" => line'[d].references = 0
                 /\ line'[d].head # None \/ line'[d].creation => line'[d].state \in {"LOADING", "INVALID"}
      BY <1>9, <2>1 DEF Held, LinesOK
    <2>2. line'[c].references = 0 => line'[c].state \in {"EMPTY", "FULL"}
      BY <1>6, <1>7, <1>9, <1>13
    <2>3. line'[c].state = "EMPTY" => line'[c].references = 0
      BY <1>9, <1>13
    <2>4. line'[c].head # None \/ line'[c].creation => line'[c].state \in {"LOADING", "INVALID"}
      <3>1. line[c].head # None \/ line[c].creation =>
              line[c].state \in {"LOADING", "INVALID"} /\ line[c].references # 1
        <4>1. line[c].head # None => \E x \in Users(c) : x # t
          <5>1. Strung(NextOf(thread), line[c].head, line[c].tail, Waiters(c))
            BY DEF Lists, Listed
          <5>2. line[c].head # None => Waiters(c) # {}
            BY <5>1, StrungEnds
          <5> QED
            BY <5>2 DEF Waiters, Users
        <4> QED
          BY <1>12, <4>1 DEF Held, LinesOK, CreationUses
      <3> QED
        BY <1>9, <3>1
    <2> QED
      BY <2>1, <2>2, <2>3, <2>4 DEF LinesOK
  <1>17. CreateOK'
    BY <1>9 DEF Held, CreateOK
  <1> QED
    BY <1>9, <1>11, <1>14, <1>15, <1>16, <1>17 DEF Held

LEMMA TypesOK == Types /\ early \in BOOLEAN => TypeOK
  BY DEF Types, CacheTypes, CoreTypes, TypeOK, ThreadTable, ListTable, LineTable, Places

LEMMA Names == CID \subseteq Nat /\ None \notin CID /\ None \notin Thread /\ None \notin Addr
  <1>1. CID \subseteq Nat
    BY DEF CID
  <1> QED
    BY <1>1, ICacheAssumption

LEMMA PipedKept ==
  ASSUME Piped, pipe' = pipe,
         \A x \in Thread : thread'[x].state = "RUNNING" <=> thread[x].state = "RUNNING"
  PROVE  Piped'
  BY DEF Piped

-----------------------------------------------------------------------------
(* Threads that become ready                                                *)

BecameReady(M, threads) ==
  /\ Lists' /\ thread' \in ThreadTable /\ list' \in ListTable
  /\ \A x \in Thread : /\ thread'[x].state = IF x \in M THEN "READY" ELSE thread[x].state
                       /\ thread'[x].cid = threads[x].cid /\ thread'[x].pc = threads[x].pc
                       /\ thread'[x].writes = threads[x].writes
                       /\ thread'[x].waitingForWrites = threads[x].waitingForWrites

\* The threads of M, which are in no ready list, in none of a line and not active,
\* get ready; they are all that waited for the register, or none of them did.
LEMMA GettingReady ==
  ASSUME Lists, thread \in ThreadTable, list \in ListTable, NEW l \in {"pipe", "other"},
         NEW M \in SUBSET Thread, M # {},
         \A x \in M : thread[x].state \notin {"READY", "ACTIVE", "WAITING"},
         NEW threads \in ThreadTable, \A x \in Thread : x \notin M => threads[x] = thread[x],
         NEW h, NEW g, Strung(NextOf(threads), h, g, M),
         thread' = QueueThreads(threads, l, h, g, "READY"),
         list' = Queued(list, l, h, g),
         \A c \in CID : line'[c].head = line[c].head /\ line'[c].tail = line[c].tail,
         \/ M \cap Sleepers = {} /\ reg'.head = reg.head /\ reg'.tail = reg.tail
         \/ M = Sleepers /\ reg'.head = None
  PROVE  BecameReady(M, threads)
  <1>1. PICK S \in SUBSET Thread, T \in SUBSET Thread : Listed(S, T)
    BY DEF Lists
  <1>2. /\ S \cap T = {} /\ S \cup T = InState("READY")
        /\ Strung(NextOf(thread), list["pipe"].head, list["pipe"].tail, S)
        /\ Strung(NextOf(thread), list["other"].head, list["other"].tail, T)
    BY <1>1 DEF Listed
  <1> DEFINE Q == IF l = "pipe" THEN S ELSE T
             D == M \cup Q
  <1>3. Q \in SUBSET Thread /\ Q \subseteq InState("READY") /\ M \cap InState("READY") = {} /\ M \cap Q = {}
    BY <1>2 DEF InState
  <1>4. Strung(NextOf(threads), list[l].head, list[l].tail, Q)
    <2>1. Strung(NextOf(thread), list[l].head, list[l].tail, Q)
      BY <1>2
    <2>2. \A x \in Q : NextOf(threads)[x] = NextOf(thread)[x]
      BY <1>3 DEF NextOf
    <2> HIDE DEF Q
    <2> QED
      BY <2>1, <2>2, StrungKept
  <1>5. /\ thread' \in ThreadTable /\ list' \in ListTable
        /\ \A x \in Thread : /\ thread'[x].state = IF x \in M THEN "READY" ELSE threads[x].state
                             /\ thread'[x].cid = threads[x].cid /\ thread'[x].pc = threads[x].pc
                             /\ thread'[x].writes = threads[x].writes
                             /\ thread'[x].waitingForWrites = threads[x].waitingForWrites
        /\ \A x \in Thread : x \notin Q => NextOf(thread')[x] = NextOf(threads)[x]
        /\ Strung(NextOf(thread'), list'[l].head, list'[l].tail, M \cup Q)
        /\ \A m \in Places : m # l => list'[m] = list[m]
    <2> HIDE DEF Q, D
    <2>1. l \in Places /\ "READY" \in ThreadState
      BY DEF Places, ThreadState
    <2>2. M \cap Q = {}
      BY <1>3
    <2>3. thread' = QueueThreads(threads, l, h, g, "READY")
      OBVIOUS
    <2>4. list' = Queued(list, l, h, g)
      OBVIOUS
    <2>5. Strung(NextOf(threads), h, g, M)
      OBVIOUS
    <2>6. Joined(thread', list', threads, l, "READY", M, Q)
      BY <1>4, <2>1, <2>2, <2>3, <2>4, <2>5, Queueing
    <2> QED
      BY <2>6 DEF Joined
  <1>6. \A x \in Thread : thread'[x].state = IF x \in M THEN "READY" ELSE thread[x].state
    BY <1>5
  <1>7. ASSUME NEW x \in Thread, x \notin D PROVE SameThread(x)
    <2>1. x \notin M /\ x \notin Q /\ threads[x] = thread[x]
      BY <1>7
    <2> HIDE DEF Q, D
    <2>2. thread'[x].next = thread[x].next
      BY <1>5, <2>1 DEF NextOf
    <2> QED
      BY <1>5, <2>1, <2>2 DEF SameThread
  <1>8. \A x \in D : /\ thread[x].state = "READY" \/ x \in M
                     /\ thread'[x].state = "READY"
    BY <1>3, <1>6 DEF InState
  <1>9. InState("READY")' = InState("READY") \cup M
    BY <1>6 DEF InState
  <1>10. InState("ACTIVE")' = InState("ACTIVE")
         /\ Strung(NextOf(thread'), list["active"].head, list["active"].tail, InState("ACTIVE"))
    <2>1. D \cap (InState("ACTIVE") \cup InState("ACTIVE")') = {}
      BY <1>8 DEF InState
    <2> HIDE DEF D
    <2> QED
      BY <1>1, <1>7, <2>1, ListsKept
  <1>11. \A c \in CID : /\ Waiters(c)' = Waiters(c)
                        /\ Strung(NextOf(thread'), line[c].head, line[c].tail, Waiters(c))
    <2>1. \A c \in CID : D \cap (Waiters(c) \cup Waiters(c)') = {}
      BY <1>8 DEF Waiters
    <2> HIDE DEF D
    <2> QED
      BY <1>1, <1>7, <2>1, ListsKept
  <1>12. Strung(NextOf(thread'), reg'.head, reg'.tail, Sleepers')
    <2>1. CASE M \cap Sleepers = {} /\ reg'.head = reg.head /\ reg'.tail = reg.tail
      <3>1. D \cap (Sleepers \cup Sleepers') = {}
        BY <1>8, <2>1 DEF Sleepers
      <3> HIDE DEF D
      <3>2. Sleepers' = Sleepers /\ Strung(NextOf(thread'), reg.head, reg.tail, Sleepers)
        BY <1>1, <1>7, <3>1, ListsKept
      <3> QED
        BY <2>1, <3>2
    <2>2. CASE M = Sleepers /\ reg'.head = None
      <3>1. Sleepers' = {}
        BY <1>5, <1>6, <2>2 DEF Sleepers
      <3> QED
        BY <2>2, <3>1, StrungNone
    <2> QED
      BY <2>1, <2>2
  <1>13. \E X, Y \in SUBSET Thread : Listed(X, Y)'
    <2>1. /\ InState("ACTIVE")' = InState("ACTIVE") /\ list'["active"] = list["active"]
          /\ \A c \in CID : Strung(NextOf(thread'), line'[c].head, line'[c].tail, Waiters(c)')
      BY <1>5, <1>10, <1>11 DEF Places
    <2>2. CASE l = "pipe"
      <3>1. D \cap T = {} /\ list'["other"] = list["other"]
        BY <1>2, <1>3, <1>5, <2>2 DEF Places
      <3>2. Strung(NextOf(thread'), list'["other"].head, list'["other"].tail, T)
        <4> HIDE DEF D
        <4> QED
          BY <1>1, <1>7, <3>1, ListsKept
      <3>3. Strung(NextOf(thread'), list'["pipe"].head, list'["pipe"].tail, M \cup S)
        BY <1>5, <2>2
      <3>4. (M \cup S) \cap T = {} /\ (M \cup S) \cup T = InState("READY")'
        BY <1>2, <1>3, <1>9
      <3>5. Listed(M \cup S, T)'
        BY <1>10, <1>12, <2>1, <3>2, <3>3, <3>4 DEF Listed
      <3> QED
        BY <3>5
    <2>3. CASE l = "other"
      <3>1. D \cap S = {} /\ list'["pipe"] = list["pipe"]
        BY <1>2, <1>3, <1>5, <2>3 DEF Places
      <3>2. Strung(NextOf(thread'), list'["pipe"].head, list'["pipe"].tail, S)
        <4> HIDE DEF D
        <4> QED
          BY <1>1, <1>7, <3>1, ListsKept
      <3>3. Strung(NextOf(thread'), list'["other"].head, list'["other"].tail, M \cup T)
        BY <1>5, <2>3
      <3>4. S \cap (M \cup T) = {} /\ S \cup (M \cup T) = InState("READY")'
        BY <1>2, <1>3, <1>9
      <3>5. Listed(S, M \cup T)'
        BY <1>10, <1>12, <2>1, <3>2, <3>3, <3>4 DEF Listed
      <3> QED
        BY <3>5
    <2> QED
      BY <2>2, <2>3
  <1> QED
    BY <1>5, <1>6, <1>13 DEF Lists, BecameReady

\* One thread t, in none of the lists before and after the step.
LEMMA ListsLeft ==
  ASSUME Lists, NEW t \in Thread, \A x \in Thread : x # t => thread'[x] = thread[x],
         thread[t].state \notin {"READY", "ACTIVE", "WAITING"}, t \notin Sleepers,
         thread'[t].state \notin {"READY", "ACTIVE", "WAITING"},
         ~ (thread'[t].state = "SUSPENDED" /\ ~thread'[t].waitingForWrites),
         list' = list, reg' = reg,
         \A c \in CID : line'[c].head = line[c].head /\ line'[c].tail = line[c].tail
  PROVE  Lists'
  <1>1. PICK S \in SUBSET Thread, T \in SUBSET Thread : Listed(S, T)
    BY DEF Lists
  <1> DEFINE D == {t}
  <1>2. \A x \in Thread : x \notin D => SameThread(x)
    BY DEF SameThread
  <1>3. InState("READY")' = InState("READY") /\ S \cup T = InState("READY") /\ S \cap T = {}
    <2>1. InState("READY")' = InState("READY")
      BY DEF InState
    <2> QED
      BY <1>1, <2>1 DEF Listed
  <1>4. D \cap S = {} /\ D \cap T = {}
    BY <1>3 DEF InState
  <1>5. D \cap (InState("ACTIVE") \cup InState("ACTIVE")') = {}
    BY DEF InState
  <1>6. \A c \in CID : D \cap (Waiters(c) \cup Waiters(c)') = {}
    BY DEF Waiters
  <1>7. D \cap (Sleepers \cup Sleepers') = {}
    BY DEF Sleepers
  <1> HIDE DEF D
  <1>8. /\ Strung(NextOf(thread'), list["pipe"].head, list["pipe"].tail, S)
        /\ Strung(NextOf(thread'), list["other"].head, list["other"].tail, T)
        /\ InState("ACTIVE")' = InState("ACTIVE")
        /\ Strung(NextOf(thread'), list["active"].head, list["active"].tail, InState("ACTIVE"))
        /\ \A c \in CID : /\ Waiters(c)' = Waiters(c)
                          /\ Strung(NextOf(thread'), line[c].head, line[c].tail, Waiters(c))
        /\ Sleepers' = Sleepers
        /\ Strung(NextOf(thread'), reg.head, reg.tail, Sleepers)
    BY <1>1, <1>2, <1>4, <1>5, <1>6, <1>7, ListsKept
  <1>9. Listed(S, T)'
    BY <1>3, <1>8 DEF Listed
  <1> QED
    BY <1>9 DEF Lists

\* The same for a single thread that is in no list.
LEMMA ThreadReady ==
  ASSUME Lists, thread \in ThreadTable, list \in ListTable, NEW l \in {"pipe", "other"},
         NEW t \in Thread, thread[t].state \notin {"READY", "ACTIVE", "WAITING"}, t \notin Sleepers,
         NEW threads \in ThreadTable, \A x \in Thread : x # t => threads[x] = thread[x],
         thread' = QueueThreads(threads, l, t, t, "READY"), list' = Queued(list, l, t, t),
         \A c \in CID : line'[c].head = line[c].head /\ line'[c].tail = line[c].tail,
         reg' = reg
  PROVE  BecameReady({t}, threads)
  <1> DEFINE M == {t}
  <1>1. M \in SUBSET Thread /\ M # {}
    OBVIOUS
  <1>2. \A x \in M : thread[x].state \notin {"READY", "ACTIVE", "WAITING"}
    OBVIOUS
  <1>3. \A x \in Thread : x \notin M => threads[x] = thread[x]
    OBVIOUS
  <1>4. M \cap Sleepers = {} /\ reg'.head = reg.head /\ reg'.tail = reg.tail
    OBVIOUS
  <1>5. Strung(NextOf(threads), t, t, M)
    BY StrungOne
  <1> HIDE DEF M
  <1>6. BecameReady(M, threads)
    BY <1>1, <1>2, <1>3, <1>4, <1>5, GettingReady
  <1> QED
    BY <1>6 DEF M

-----------------------------------------------------------------------------
(* Steps of the threads                                                     *)

LEMMA AllocateThreadKeeps ==
  ASSUME IInv, NEW t \in Thread, NEW a \in Addr, AllocateThread(t, a)
  PROVE  IInv'
  <1> DEFINE row == [NoThread EXCEPT !.pc = a]
             threads == [thread EXCEPT ![t] = row]
  <1>1. Types /\ Lists /\ Piped /\ RegOK /\ Held
    BY DEF IInv
  <1>2. thread \in ThreadTable /\ list \in ListTable
    BY <1>1 DEF Types
  <1>3. /\ thread[t].state \in {"EMPTY", "TERMINATED"}
        /\ thread' = QueueThreads(threads, "other", t, t, "READY")
        /\ list' = Queued(list, "other", t, t)
        /\ UNCHANGED <<icacheVars, prevReady, pipe, reg, create, events>>
    BY DEF AllocateThread
  <1>4. /\ row \in [state : ThreadState, next : Thread \cup {None},
                    cid : CID \cup {None}, pc : Addr \cup {None},
                    writes : 0 .. MaxWrites, waitingForWrites : BOOLEAN]
        /\ row.pc = a /\ row.waitingForWrites = FALSE
    <2>1. NoThread \in [state : ThreadState, next : Thread \cup {None},
                       cid : CID \cup {None}, pc : Addr \cup {None},
                       writes : 0 .. MaxWrites, waitingForWrites : BOOLEAN]
          /\ NoThread.waitingForWrites = FALSE
      <3>1. 0 \in 0 .. MaxWrites /\ "EMPTY" \in ThreadState
        BY SchedulerAssumption DEF ThreadState
      <3> QED
        BY <3>1 DEF NoThread
    <2> HIDE DEF NoThread
    <2> QED
      BY <2>1
  <1> HIDE DEF row
  <1>5. threads \in ThreadTable
    BY <1>2, <1>4 DEF ThreadTable
  <1>6. threads[t] = row /\ \A x \in Thread : x # t => threads[x] = thread[x]
    BY <1>2 DEF ThreadTable
  <1> HIDE DEF threads
  <1>7. /\ \A c \in CID : line'[c].head = line[c].head /\ line'[c].tail = line[c].tail
        /\ t \notin Sleepers /\ reg' = reg
    BY <1>3 DEF icacheVars, Sleepers
  <1>8. BecameReady({t}, threads)
    BY <1>1, <1>2, <1>3, <1>5, <1>6, <1>7, ThreadReady
  <1>9. \A x \in Thread :
          /\ thread'[x].state = IF x = t THEN "READY" ELSE thread[x].state
          /\ thread'[x].cid = threads[x].cid /\ thread'[x].pc = threads[x].pc
          /\ thread'[x].waitingForWrites = threads[x].waitingForWrites
    BY <1>8 DEF BecameReady
  <1>10. Piped'
    BY <1>1, <1>3, <1>9, PipedKept
  <1>11. Held'
    <2>1. UNCHANGED <<line, create>>
      BY <1>3 DEF icacheVars
    <2>2. ASSUME NEW x \in Thread
          PROVE  /\ Using(x)' <=> Using(x)
                 /\ Using(x) => thread'[x].cid = thread[x].cid /\ thread'[x].pc = thread[x].pc
                 /\ thread'[x].state = "WAITING" => thread[x].state = "WAITING"
                 /\ thread[x].state = "WAITING" => thread'[x].state = "WAITING"
                 /\ thread'[x].state \in {"READY", "SUSPENDED"} => thread'[x].pc \in Addr
                 /\ thread'[x].waitingForWrites => thread'[x].state = "SUSPENDED"
      <3>1. CASE x = t
        BY <1>3, <1>4, <1>6, <1>9, <3>1 DEF Using
      <3>2. CASE x # t
        BY <1>1, <1>6, <1>9, <3>2 DEF Using, Held, ThreadsOK
      <3> QED
        BY <3>1, <3>2
    <2> QED
      BY <1>1, <2>1, <2>2, HeldKept
  <1>12. Types'
    BY <1>1, <1>3, <1>8 DEF Types, CacheTypes, CoreTypes, icacheVars, BecameReady
  <1>13. RegOK'
    BY <1>1, <1>3 DEF RegOK
  <1> QED
    BY <1>8, <1>10, <1>11, <1>12, <1>13 DEF IInv, BecameReady

\* The oldest thread leaves the pipeline and its line; the rest is about the
\* state it gets.
LEMMA LeavesPipe ==
  ASSUME Types, Lists, Piped, Held, NEW t \in Thread, Leaves(t), LeavesLine(t), create' = create,
         \A x \in Thread : x # t =>
           /\ thread'[x].state = thread[x].state /\ thread'[x].cid = thread[x].cid
           /\ thread'[x].pc = thread[x].pc
           /\ thread'[x].waitingForWrites = thread[x].waitingForWrites,
         thread'[t].state \notin {"WAITING", "ACTIVE", "RUNNING"},
         thread'[t].state \in {"READY", "SUSPENDED"} => thread'[t].pc \in Addr,
         thread'[t].waitingForWrites => thread'[t].state = "SUSPENDED"
  PROVE  /\ thread[t].state = "RUNNING" /\ thread[t].waitingForWrites = FALSE
         /\ Held' /\ Piped' /\ CacheTypes' /\ pipe' \in Seq(Thread)
         /\ \A d \in CID : line'[d].head = line[d].head /\ line'[d].tail = line[d].tail
  <1>1. pipe \in Seq(Thread) /\ pipe # <<>> /\ pipe' = Tail(pipe) /\ t = pipe[1]
    BY DEF Types, CoreTypes, Leaves
  <1>2. /\ pipe' \in Seq(Thread) /\ Len(pipe) \in Nat /\ Len(pipe) > 0
        /\ Len(pipe') = Len(pipe) - 1
        /\ \A i \in 1 .. Len(pipe') : pipe'[i] = pipe[i + 1]
    BY <1>1
  <1>3. thread[t].state = "RUNNING"
    BY <1>1, <1>2 DEF Piped
  <1>4. thread[t].waitingForWrites = FALSE
    BY <1>3 DEF Held, ThreadsOK, Types, ThreadTable
  <1>5. /\ Held' /\ line' \in LineTable
        /\ \A d \in CID : line'[d].head = line[d].head /\ line'[d].tail = line[d].tail
    <2>1. line' = Released(line, thread[t].cid) /\ line \in LineTable
      BY DEF LeavesLine, Types, CacheTypes
    <2> QED
      BY <1>3, <2>1, HeldLeaves
  <1>6. Piped'
    <2>1. ASSUME NEW i \in 1 .. Len(pipe')
          PROVE  /\ i + 1 \in 1 .. Len(pipe) /\ pipe'[i] = pipe[i + 1] /\ pipe'[i] # t
                 /\ pipe'[i] \in Thread /\ thread'[pipe'[i]].state = "RUNNING"
      <3>1. i + 1 \in 1 .. Len(pipe) /\ pipe'[i] = pipe[i + 1] /\ i + 1 # 1 /\ 1 \in 1 .. Len(pipe)
        BY <1>2
      <3>2. pipe'[i] # t /\ pipe'[i] \in Thread /\ thread[pipe'[i]].state = "RUNNING"
        BY <1>1, <3>1 DEF Piped
      <3> QED
        BY <3>1, <3>2
    <2>2. ASSUME NEW x \in Thread, thread'[x].state = "RUNNING"
          PROVE  \E i \in 1 .. Len(pipe') : pipe'[i] = x
      <3>1. x # t /\ thread[x].state = "RUNNING"
        BY <2>2
      <3>2. PICK j \in 1 .. Len(pipe) : pipe[j] = x
        BY <3>1 DEF Piped
      <3>3. j # 1
        BY <1>1, <3>1, <3>2
      <3>4. j - 1 \in 1 .. Len(pipe') /\ (j - 1) + 1 = j
        BY <1>2, <3>2, <3>3
      <3>5. pipe'[j - 1] = x
        BY <1>2, <3>2, <3>4
      <3> QED
        BY <3>4, <3>5
    <2>3. ASSUME NEW i \in 1 .. Len(pipe'), NEW j \in 1 .. Len(pipe'), pipe'[i] = pipe'[j]
          PROVE  i = j
      <3>1. i + 1 = j + 1
        BY <2>1, <2>3 DEF Piped
      <3> QED
        BY <3>1
    <2> QED
      BY <2>1, <2>2, <2>3 DEF Piped
  <1>7. CacheTypes'
    BY <1>5 DEF CacheTypes, Types, LeavesLine
  <1> QED
    BY <1>2, <1>3, <1>4, <1>5, <1>6, <1>7

\* Who leaves the pipeline.
LEMMA LeaverRuns ==
  ASSUME Types, Piped, Held, NEW t \in Thread, Leaves(t)
  PROVE  thread[t].state = "RUNNING" /\ thread[t].waitingForWrites = FALSE /\ thread[t].pc \in Addr
  <1>1. pipe \in Seq(Thread) /\ pipe # <<>> /\ t = pipe[1] /\ 1 \in 1 .. Len(pipe)
    BY DEF Types, CoreTypes, Leaves
  <1>2. thread[t].state = "RUNNING"
    BY <1>1 DEF Piped
  <1> QED
    BY <1>2 DEF Held, ThreadsOK, Using, Types, ThreadTable

LEMMA KillThreadKeeps ==
  ASSUME IInv, NEW t \in Thread, KillThread(t)
  PROVE  IInv'
  <1>1. Types /\ Lists /\ Piped /\ RegOK /\ Held /\ thread \in ThreadTable
    BY DEF IInv, Types
  <1>2. /\ Leaves(t) /\ LeavesLine(t)
        /\ thread' = [thread EXCEPT ![t].state = "TERMINATED", ![t].cid = None]
        /\ UNCHANGED <<list, prevReady, reg, create, events>>
    BY DEF KillThread
  <1>3. thread' = [[thread EXCEPT ![t].state = "TERMINATED"] EXCEPT ![t].cid = None]
    BY <1>1, <1>2 DEF ThreadTable
  <1>4. thread' \in ThreadTable
    BY <1>1, <1>3 DEF ThreadTable, ThreadState
  <1>5. /\ \A x \in Thread : x # t => thread'[x] = thread[x]
        /\ thread'[t].state = "TERMINATED" /\ thread'[t].waitingForWrites = thread[t].waitingForWrites
    BY <1>1, <1>2 DEF ThreadTable
  <1>6. thread[t].state = "RUNNING" /\ thread[t].waitingForWrites = FALSE /\ thread[t].pc \in Addr
    BY <1>1, <1>2, LeaverRuns
  <1>7. /\ Held' /\ Piped' /\ CacheTypes' /\ pipe' \in Seq(Thread)
        /\ \A d \in CID : line'[d].head = line[d].head /\ line'[d].tail = line[d].tail
    BY <1>1, <1>2, <1>5, <1>6, LeavesPipe
  <1>8. Lists'
    <2>1. t \notin Sleepers /\ thread[t].state \notin {"READY", "ACTIVE", "WAITING"}
      BY <1>6 DEF Sleepers
    <2>2. /\ thread'[t].state \notin {"READY", "ACTIVE", "WAITING"}
          /\ ~ (thread'[t].state = "SUSPENDED" /\ ~thread'[t].waitingForWrites)
      BY <1>5
    <2>3. list' = list /\ reg' = reg
      BY <1>2
    <2> QED
      BY <1>1, <1>5, <1>7, <2>1, <2>2, <2>3, ListsLeft
  <1>9. Types'
    BY <1>1, <1>2, <1>4, <1>7 DEF Types, CoreTypes
  <1>10. RegOK'
    BY <1>1, <1>2 DEF RegOK
  <1> QED
    BY <1>7, <1>8, <1>9, <1>10 DEF IInv

\* The table with another value in one field.
LEMMA Retyped ==
  ASSUME NEW f \in ThreadTable, NEW t \in Thread
  PROVE  /\ \A s \in ThreadState : [f EXCEPT ![t].state = s] \in ThreadTable
         /\ \A u \in Thread \cup {None} : [f EXCEPT ![t].next = u] \in ThreadTable
         /\ \A c \in CID \cup {None} : [f EXCEPT ![t].cid = c] \in ThreadTable
         /\ \A a \in Addr \cup {None} : [f EXCEPT ![t].pc = a] \in ThreadTable
         /\ \A w \in 0 .. MaxWrites : [f EXCEPT ![t].writes = w] \in ThreadTable
         /\ \A b \in BOOLEAN : [f EXCEPT ![t].waitingForWrites = b] \in ThreadTable
  BY DEF ThreadTable

LEMMA RescheduleThreadKeeps ==
  ASSUME IInv, NEW t \in Thread, NEW a \in Addr, RescheduleThread(t, a)
  PROVE  IInv'
  <1> DEFINE threads == [thread EXCEPT ![t].pc = a, ![t].next = None]
  <1>1. Types /\ Lists /\ Piped /\ RegOK /\ Held /\ thread \in ThreadTable /\ list \in ListTable
    BY DEF IInv, Types
  <1>2. /\ Leaves(t) /\ LeavesLine(t)
        /\ thread' = QueueThreads(threads, "pipe", t, t, "READY")
        /\ list' = Queued(list, "pipe", t, t)
        /\ UNCHANGED <<prevReady, reg, create, events>>
    BY DEF RescheduleThread
  <1>3. threads = [[thread EXCEPT ![t].pc = a] EXCEPT ![t].next = None]
    BY <1>1 DEF ThreadTable
  <1>4. /\ threads \in ThreadTable
        /\ \A x \in Thread : x # t => threads[x] = thread[x]
        /\ threads[t].pc = a /\ threads[t].waitingForWrites = thread[t].waitingForWrites
    BY <1>1, <1>3 DEF ThreadTable
  <1> HIDE DEF threads
  <1>5. thread[t].state = "RUNNING" /\ thread[t].waitingForWrites = FALSE
    BY <1>1, <1>2, LeaverRuns
  <1>6. /\ \A d \in CID : line'[d].head = line[d].head /\ line'[d].tail = line[d].tail
    <2>1. PICK c \in CID : thread[t].cid = c
      BY <1>1, <1>5 DEF Held, ThreadsOK, Using
    <2>2. line[c].references > 0
      <3>1. t \in Users(c) /\ Users(c) \in SUBSET Thread
        BY <1>5, <2>1 DEF Users
      <3>2. Cardinality(Users(c)) \in Nat /\ Cardinality(Users(c)) # 0
        BY <3>1, UsersFinite
      <3>3. line[c].references = Cardinality(Users(c)) + (IF CreationUses(c) THEN 1 ELSE 0)
        BY <1>1 DEF Held, ReferencesExact
      <3> QED
        BY <3>2, <3>3
    <2>3. line' = Released(line, c) /\ line \in LineTable
      BY <1>1, <1>2, <2>1 DEF LeavesLine, Types, CacheTypes
    <2> QED
      BY <2>2, <2>3, Releasing
  <1>7. BecameReady({t}, threads)
    <2>1. t \notin Sleepers /\ thread[t].state \notin {"READY", "ACTIVE", "WAITING"} /\ reg' = reg
      BY <1>2, <1>5 DEF Sleepers
    <2> QED
      BY <1>1, <1>2, <1>4, <1>6, <2>1, ThreadReady
  <1>8. \A x \in Thread :
          /\ thread'[x].state = IF x = t THEN "READY" ELSE thread[x].state
          /\ thread'[x].cid = threads[x].cid /\ thread'[x].pc = threads[x].pc
          /\ thread'[x].waitingForWrites = threads[x].waitingForWrites
    BY <1>7 DEF BecameReady
  <1>9. Held' /\ Piped' /\ CacheTypes' /\ pipe' \in Seq(Thread)
    <2>1. \A x \in Thread : x # t =>
           /\ thread'[x].state = thread[x].state /\ thread'[x].cid = thread[x].cid
           /\ thread'[x].pc = thread[x].pc
           /\ thread'[x].waitingForWrites = thread[x].waitingForWrites
      BY <1>4, <1>8
    <2>2. /\ thread'[t].state \notin {"WAITING", "ACTIVE", "RUNNING"}
          /\ thread'[t].state \in {"READY", "SUSPENDED"} => thread'[t].pc \in Addr
          /\ thread'[t].waitingForWrites => thread'[t].state = "SUSPENDED"
      BY <1>4, <1>5, <1>8
    <2> QED
      BY <1>1, <1>2, <2>1, <2>2, LeavesPipe
  <1>10. Types'
    BY <1>1, <1>2, <1>7, <1>9 DEF Types, CoreTypes, BecameReady
  <1>11. RegOK'
    BY <1>1, <1>2 DEF RegOK
  <1> QED
    BY <1>7, <1>9, <1>10, <1>11 DEF IInv, BecameReady

LEMMA SuspendOnWritesKeeps ==
  ASSUME IInv, NEW t \in Thread, SuspendOnWrites(t)
  PROVE  IInv'
  <1>1. Types /\ Lists /\ Piped /\ RegOK /\ Held /\ thread \in ThreadTable
    BY DEF IInv, Types
  <1>2. /\ Leaves(t) /\ LeavesLine(t)
        /\ thread' = [thread EXCEPT ![t].state = "SUSPENDED", ![t].cid = None,
                                    ![t].waitingForWrites = TRUE]
        /\ UNCHANGED <<list, prevReady, reg, create, events>>
    BY DEF SuspendOnWrites
  <1>3. thread' = [[[thread EXCEPT ![t].state = "SUSPENDED"] EXCEPT ![t].cid = None]
                                    EXCEPT ![t].waitingForWrites = TRUE]
    BY <1>1, <1>2 DEF ThreadTable
  <1>4. thread' \in ThreadTable
    <2> DEFINE f == [thread EXCEPT ![t].state = "SUSPENDED"]
               g == [f EXCEPT ![t].cid = None]
    <2>1. f \in ThreadTable
      BY <1>1, Retyped DEF ThreadState
    <2>2. thread' = [g EXCEPT ![t].waitingForWrites = TRUE]
      BY <1>3
    <2> HIDE DEF f
    <2>3. g \in ThreadTable
      BY <2>1, Retyped
    <2> HIDE DEF g
    <2> QED
      BY <2>2, <2>3, Retyped
  <1>5. /\ \A x \in Thread : x # t => thread'[x] = thread[x]
        /\ thread'[t].state = "SUSPENDED" /\ thread'[t].waitingForWrites = TRUE
        /\ thread'[t].pc = thread[t].pc
    BY <1>1, <1>3 DEF ThreadTable
  <1>6. thread[t].state = "RUNNING" /\ thread[t].waitingForWrites = FALSE /\ thread[t].pc \in Addr
    BY <1>1, <1>2, LeaverRuns
  <1>7. /\ Held' /\ Piped' /\ CacheTypes' /\ pipe' \in Seq(Thread)
        /\ \A d \in CID : line'[d].head = line[d].head /\ line'[d].tail = line[d].tail
    BY <1>1, <1>2, <1>5, <1>6, LeavesPipe
  <1>8. Lists'
    <2>1. t \notin Sleepers /\ thread[t].state \notin {"READY", "ACTIVE", "WAITING"}
      BY <1>6 DEF Sleepers
    <2>2. /\ thread'[t].state \notin {"READY", "ACTIVE", "WAITING"}
          /\ ~ (thread'[t].state = "SUSPENDED" /\ ~thread'[t].waitingForWrites)
      BY <1>5
    <2>3. list' = list /\ reg' = reg
      BY <1>2
    <2> QED
      BY <1>1, <1>5, <1>7, <2>1, <2>2, <2>3, ListsLeft
  <1>9. Types'
    BY <1>1, <1>2, <1>4, <1>7 DEF Types, CoreTypes
  <1>10. RegOK'
    BY <1>1, <1>2 DEF RegOK
  <1> QED
    BY <1>7, <1>8, <1>9, <1>10 DEF IInv

LEMMA SuspendOnRegisterKeeps ==
  ASSUME IInv, NEW t \in Thread, SuspendOnRegister(t)
  PROVE  IInv'
  <1>1. Types /\ Lists /\ Piped /\ RegOK /\ Held /\ thread \in ThreadTable /\ CoreTypes
    BY DEF IInv, Types
  <1>2. /\ Leaves(t) /\ LeavesLine(t)
        /\ thread' = [thread EXCEPT ![t].state = "SUSPENDED", ![t].cid = None, ![t].next = reg.head]
        /\ reg' = [reg EXCEPT !.state = "WAITING", !.head = t,
                              !.tail = IF reg.state = "WAITING" THEN @ ELSE t]
        /\ UNCHANGED <<list, prevReady, create, events>>
    BY DEF SuspendOnRegister
  <1>3. thread' = [[[thread EXCEPT ![t].state = "SUSPENDED"] EXCEPT ![t].cid = None]
                                    EXCEPT ![t].next = reg.head]
    BY <1>1, <1>2 DEF ThreadTable
  <1>4. thread' \in ThreadTable
    <2> DEFINE f == [thread EXCEPT ![t].state = "SUSPENDED"]
               g == [f EXCEPT ![t].cid = None]
    <2>1. f \in ThreadTable
      BY <1>1, Retyped DEF ThreadState
    <2>2. thread' = [g EXCEPT ![t].next = reg.head]
      BY <1>3
    <2> HIDE DEF f
    <2>3. g \in ThreadTable
      BY <2>1, Retyped
    <2> HIDE DEF g
    <2>4. reg.head \in Thread \cup {None}
      BY <1>1 DEF CoreTypes
    <2> QED
      BY <2>2, <2>3, <2>4, Retyped
  <1>5. /\ \A x \in Thread : x # t => thread'[x] = thread[x]
        /\ thread'[t].state = "SUSPENDED" /\ thread'[t].next = reg.head
        /\ thread'[t].waitingForWrites = thread[t].waitingForWrites
        /\ thread'[t].pc = thread[t].pc
    BY <1>1, <1>3 DEF ThreadTable
  <1>6. thread[t].state = "RUNNING" /\ thread[t].waitingForWrites = FALSE /\ thread[t].pc \in Addr
    BY <1>1, <1>2, LeaverRuns
  <1>7. /\ Held' /\ Piped' /\ CacheTypes' /\ pipe' \in Seq(Thread)
        /\ \A d \in CID : line'[d].head = line[d].head /\ line'[d].tail = line[d].tail
    BY <1>1, <1>2, <1>5, <1>6, LeavesPipe
  <1>8. /\ reg'.state = "WAITING" /\ reg'.head = t /\ reg'.busy = reg.busy
        /\ reg'.tail = IF reg.state = "WAITING" THEN reg.tail ELSE t
        /\ reg' \in [state : {"EMPTY", "PENDING", "WAITING", "FULL"}, busy : BOOLEAN,
                     head : Thread \cup {None}, tail : Thread \cup {None}]
    <2> DEFINE u == IF reg.state = "WAITING" THEN reg.tail ELSE t
    <2>1. u \in Thread \cup {None}
      BY <1>1 DEF CoreTypes
    <2>2. reg' = [reg EXCEPT !.state = "WAITING", !.head = t, !.tail = u]
      BY <1>2
    <2> HIDE DEF u
    <2>3. /\ reg'.state = "WAITING" /\ reg'.head = t /\ reg'.busy = reg.busy /\ reg'.tail = u
          /\ reg' \in [state : {"EMPTY", "PENDING", "WAITING", "FULL"}, busy : BOOLEAN,
                       head : Thread \cup {None}, tail : Thread \cup {None}]
      BY <1>1, <2>1, <2>2 DEF CoreTypes
    <2> QED
      BY <2>3 DEF u
  <1>9. Lists'
    <2>1. PICK S \in SUBSET Thread, T \in SUBSET Thread : Listed(S, T)
      BY <1>1 DEF Lists
    <2> DEFINE D == {t}
    <2>2. \A x \in Thread : x \notin D => SameThread(x)
      BY <1>5 DEF SameThread
    <2>3. InState("READY")' = InState("READY") /\ S \cup T = InState("READY") /\ S \cap T = {}
      <3>1. InState("READY")' = InState("READY")
        BY <1>5, <1>6 DEF InState
      <3> QED
        BY <2>1, <3>1 DEF Listed
    <2>4. D \cap S = {} /\ D \cap T = {}
      BY <1>6, <2>3 DEF InState
    <2>5. D \cap (InState("ACTIVE") \cup InState("ACTIVE")') = {}
      BY <1>5, <1>6 DEF InState
    <2>6. \A c \in CID : D \cap (Waiters(c) \cup Waiters(c)') = {}
      BY <1>5, <1>6 DEF Waiters
    <2> HIDE DEF D
    <2>7. /\ Strung(NextOf(thread'), list["pipe"].head, list["pipe"].tail, S)
          /\ Strung(NextOf(thread'), list["other"].head, list["other"].tail, T)
          /\ InState("ACTIVE")' = InState("ACTIVE")
          /\ Strung(NextOf(thread'), list["active"].head, list["active"].tail, InState("ACTIVE"))
          /\ \A c \in CID : /\ Waiters(c)' = Waiters(c)
                            /\ Strung(NextOf(thread'), line[c].head, line[c].tail, Waiters(c))
      BY <2>1, <2>2, <2>4, <2>5, <2>6, ListsKept
    <2>8. Strung(NextOf(thread'), reg'.head, reg'.tail, Sleepers')
      <3>1. Strung(NextOf(thread), reg.head, reg.tail, Sleepers)
        BY <2>1 DEF Listed
      <3>2. /\ Sleepers' = {t} \cup Sleepers /\ Sleepers \in SUBSET Thread
            /\ \A x \in Sleepers : x # t
        BY <1>5, <1>6 DEF Sleepers
      <3>3. \A x \in Sleepers : NextOf(thread')[x] = NextOf(thread)[x]
        BY <1>5, <3>2 DEF NextOf
      <3>4. Strung(NextOf(thread'), reg.head, reg.tail, Sleepers)
        BY <3>1, <3>3, StrungKept
      <3>5. Strung(NextOf(thread'), t, t, {t})
        BY StrungOne
      <3>6. CASE reg.head = None
        <4>1. Sleepers = {} /\ reg'.tail = t
          BY <1>1, <1>8, <3>1, <3>6, StrungEnds DEF RegOK
        <4>2. Sleepers' = {t}
          BY <3>2, <4>1
        <4> QED
          BY <1>8, <3>5, <4>1, <4>2
      <3>7. CASE reg.head # None
        <4>1. Sleepers # {} /\ reg'.tail = reg.tail
          BY <1>1, <1>8, <3>1, <3>7, StrungEnds DEF RegOK
        <4>2. NextOf(thread')[t] = reg.head
          BY <1>5 DEF NextOf
        <4>3. {t} \cap Sleepers = {} /\ {t} # {}
          BY <3>2
        <4>4. Strung(NextOf(thread'), t, reg.tail, {t} \cup Sleepers)
          BY <3>4, <3>5, <4>1, <4>2, <4>3, StrungJoin
        <4> QED
          BY <1>8, <3>2, <4>1, <4>4
      <3> QED
        BY <3>6, <3>7
    <2>9. Listed(S, T)'
      BY <1>2, <1>7, <2>3, <2>7, <2>8 DEF Listed
    <2> QED
      BY <2>9 DEF Lists
  <1>10. Types'
    BY <1>1, <1>2, <1>4, <1>7, <1>8 DEF Types, CoreTypes
  <1>11. RegOK'
    BY <1>8, Names DEF RegOK
  <1> QED
    BY <1>7, <1>9, <1>10, <1>11 DEF IInv

LEMMA SwitchInKeeps ==
  ASSUME IInv, SwitchIn
  PROVE  IInv'
  <1> DEFINE t == list["active"].head
  <1>1. Types /\ Lists /\ Piped /\ RegOK /\ Held /\ thread \in ThreadTable /\ list \in ListTable /\ CoreTypes
    BY DEF IInv, Types
  <1>2. PICK S \in SUBSET Thread, T \in SUBSET Thread : Listed(S, T)
    BY <1>1 DEF Lists
  <1>3. PICK x \in Thread : x = t
    BY <1>1 DEF SwitchIn, ListTable, ListType, Places
  <1>4. /\ list' = Popped("active") /\ x = list["active"].head /\ x # None
        /\ thread' = [thread EXCEPT ![x].state = "RUNNING"]
        /\ pipe' = Append(pipe, x)
        /\ UNCHANGED <<icacheVars, prevReady, reg, create, events>>
    BY <1>3 DEF SwitchIn
  <1>5. thread' \in ThreadTable
    BY <1>1, <1>4, Retyped DEF ThreadState
  <1>6. /\ \A y \in Thread : y # x => thread'[y] = thread[y]
        /\ thread'[x].state = "RUNNING" /\ thread'[x].next = thread[x].next
        /\ thread'[x].cid = thread[x].cid /\ thread'[x].pc = thread[x].pc
        /\ thread'[x].waitingForWrites = thread[x].waitingForWrites
    BY <1>1, <1>4 DEF ThreadTable
  <1>7. Strung(NextOf(thread), list["active"].head, list["active"].tail, InState("ACTIVE"))
    BY <1>2 DEF Listed
  <1>8. thread[x].state = "ACTIVE" /\ InState("ACTIVE") # {}
    BY <1>4, <1>7, StrungEnds DEF InState
  <1>9. /\ list' \in ListTable
        /\ Strung(NextOf(thread), list'["active"].head, list'["active"].tail, InState("ACTIVE") \ {x})
        /\ list'["pipe"] = list["pipe"] /\ list'["other"] = list["other"]
    <2>1. "active" \in Places
      BY DEF Places
    <2>2. /\ list' \in ListTable
          /\ Strung(NextOf(thread), list'["active"].head, list'["active"].tail,
                    InState("ACTIVE") \ {list["active"].head})
          /\ \A m \in Places : m # "active" => list'[m] = list[m]
      BY <1>1, <1>4, <1>7, <1>8, <2>1, Popping
    <2> QED
      BY <1>4, <2>2 DEF Places
  <1>10. Lists'
    <2> DEFINE D == {x}
    <2>1. \A y \in Thread : y \notin D => SameThread(y)
      BY <1>6 DEF SameThread
    <2>2. InState("READY")' = InState("READY") /\ S \cup T = InState("READY") /\ S \cap T = {}
      <3>1. InState("READY")' = InState("READY")
        BY <1>6, <1>8 DEF InState
      <3> QED
        BY <1>2, <3>1 DEF Listed
    <2>3. D \cap S = {} /\ D \cap T = {}
      BY <1>8, <2>2 DEF InState
    <2>4. InState("ACTIVE")' = InState("ACTIVE") \ {x}
      BY <1>6, <1>8 DEF InState
    <2>5. Strung(NextOf(thread'), list'["active"].head, list'["active"].tail, InState("ACTIVE")')
      <3>1. \A y \in InState("ACTIVE") \ {x} : NextOf(thread')[y] = NextOf(thread)[y]
        BY <1>6 DEF NextOf, InState
      <3> QED
        BY <1>9, <2>4, <3>1, StrungKept
    <2>6. \A c \in CID : D \cap (Waiters(c) \cup Waiters(c)') = {}
      BY <1>6, <1>8 DEF Waiters
    <2>7. D \cap (Sleepers \cup Sleepers') = {}
      BY <1>6, <1>8 DEF Sleepers
    <2> HIDE DEF D
    <2>8. /\ Strung(NextOf(thread'), list["pipe"].head, list["pipe"].tail, S)
          /\ Strung(NextOf(thread'), list["other"].head, list["other"].tail, T)
          /\ \A c \in CID : /\ Waiters(c)' = Waiters(c)
                            /\ Strung(NextOf(thread'), line[c].head, line[c].tail, Waiters(c))
          /\ Sleepers' = Sleepers
          /\ Strung(NextOf(thread'), reg.head, reg.tail, Sleepers)
      BY <1>2, <2>1, <2>3, <2>6, <2>7, ListsKept
    <2>9. Listed(S, T)'
      BY <1>4, <1>9, <2>2, <2>5, <2>8 DEF Listed, icacheVars
    <2> QED
      BY <2>9 DEF Lists
  <1>11. Piped' /\ pipe' \in Seq(Thread)
    <2>1. pipe \in Seq(Thread)
      BY <1>1 DEF CoreTypes
    <2>2. /\ pipe' \in Seq(Thread) /\ Len(pipe') = Len(pipe) + 1 /\ Len(pipe) \in Nat
          /\ \A i \in 1 .. Len(pipe) : pipe'[i] = pipe[i]
          /\ pipe'[Len(pipe) + 1] = x
      BY <1>4, <2>1, AppendProperties
    <2>3. \A i \in 1 .. Len(pipe) : pipe[i] \in Thread /\ thread[pipe[i]].state = "RUNNING" /\ pipe[i] # x
      BY <1>1, <1>8 DEF Piped
    <2>4. \A i \in 1 .. Len(pipe') : i \in 1 .. Len(pipe) \/ i = Len(pipe) + 1
      BY <2>2
    <2>5. \A i \in 1 .. Len(pipe') : pipe'[i] \in Thread /\ thread'[pipe'[i]].state = "RUNNING"
      BY <1>6, <2>2, <2>3, <2>4
    <2>6. ASSUME NEW y \in Thread, thread'[y].state = "RUNNING"
          PROVE  \E i \in 1 .. Len(pipe') : pipe'[i] = y
      <3>1. CASE y = x
        <4>1. Len(pipe) + 1 \in 1 .. Len(pipe')
          BY <2>2
        <4> QED
          BY <2>2, <3>1, <4>1
      <3>2. CASE y # x
        <4>1. PICK i \in 1 .. Len(pipe) : pipe[i] = y
          BY <1>1, <1>6, <2>6, <3>2 DEF Piped
        <4>2. i \in 1 .. Len(pipe') /\ pipe'[i] = y
          BY <2>2, <4>1
        <4> QED
          BY <4>2
      <3> QED
        BY <3>1, <3>2
    <2>7. \A i, j \in 1 .. Len(pipe') : pipe'[i] = pipe'[j] => i = j
      <3>1. \A i, j \in 1 .. Len(pipe) : pipe[i] = pipe[j] => i = j
        BY <1>1 DEF Piped
      <3> QED
        BY <2>2, <2>3, <2>4, <3>1
    <2> QED
      BY <2>2, <2>5, <2>6, <2>7 DEF Piped
  <1>12. Held'
    <2>1. UNCHANGED <<line, create>>
      BY <1>4 DEF icacheVars
    <2>2. ASSUME NEW y \in Thread
          PROVE  /\ Using(y)' <=> Using(y)
                 /\ Using(y) => thread'[y].cid = thread[y].cid /\ thread'[y].pc = thread[y].pc
                 /\ thread'[y].state = "WAITING" => thread[y].state = "WAITING"
                 /\ thread[y].state = "WAITING" => thread'[y].state = "WAITING"
                 /\ thread'[y].state \in {"READY", "SUSPENDED"} => thread'[y].pc \in Addr
                 /\ thread'[y].waitingForWrites => thread'[y].state = "SUSPENDED"
      <3>1. CASE y = x
        BY <1>1, <1>6, <1>8, <3>1 DEF Using, Held, ThreadsOK
      <3>2. CASE y # x
        BY <1>1, <1>6, <3>2 DEF Using, Held, ThreadsOK
      <3> QED
        BY <3>1, <3>2
    <2> QED
      BY <1>1, <2>1, <2>2, HeldKept
  <1>13. Types'
    BY <1>1, <1>4, <1>5, <1>9, <1>11 DEF Types, CacheTypes, CoreTypes, icacheVars
  <1>14. RegOK'
    BY <1>1, <1>4 DEF RegOK
  <1> QED
    BY <1>10, <1>11, <1>12, <1>13, <1>14 DEF IInv

\* A step of the core that leaves the threads in their lists.
LEMMA ThreadsKept ==
  ASSUME Types, Lists, Piped, Held, UNCHANGED <<icacheVars, list, pipe, create>>,
         \A x \in Thread : SameThread(x) /\ thread'[x].pc = thread[x].pc,
         reg'.head = reg.head, reg.head # None => reg'.tail = reg.tail
  PROVE  Lists' /\ Piped' /\ Held'
  <1>1. Lists' /\ Piped'
    BY AllListsKept DEF icacheVars
  <1>2. Held'
    <2>1. UNCHANGED <<line, create>>
      BY DEF icacheVars
    <2>2. ASSUME NEW y \in Thread
          PROVE  /\ Using(y)' <=> Using(y)
                 /\ Using(y) => thread'[y].cid = thread[y].cid /\ thread'[y].pc = thread[y].pc
                 /\ thread'[y].state = "WAITING" => thread[y].state = "WAITING"
                 /\ thread[y].state = "WAITING" => thread'[y].state = "WAITING"
                 /\ thread'[y].state \in {"READY", "SUSPENDED"} => thread'[y].pc \in Addr
                 /\ thread'[y].waitingForWrites => thread'[y].state = "SUSPENDED"
      BY DEF SameThread, Using, Held, ThreadsOK
    <2> QED
      BY <2>1, <2>2, HeldKept
  <1> QED
    BY <1>1, <1>2

LEMMA StoreKeeps ==
  ASSUME IInv, NEW t \in Thread, Store(t)
  PROVE  IInv'
  <1>1. Types /\ Lists /\ Piped /\ RegOK /\ Held /\ thread \in ThreadTable
    BY DEF IInv, Types
  <1>2. /\ thread[t].writes < MaxWrites
        /\ thread' = [thread EXCEPT ![t].writes = thread[t].writes + 1]
        /\ UNCHANGED <<icacheVars, list, prevReady, pipe, reg, create, events>>
    BY DEF Store
  <1>3. thread' \in ThreadTable
    <2>1. thread[t].writes + 1 \in 0 .. MaxWrites
      BY <1>1, <1>2, SchedulerAssumption DEF ThreadTable
    <2> QED
      BY <1>1, <1>2, <2>1, Retyped
  <1>4. \A x \in Thread : SameThread(x) /\ thread'[x].pc = thread[x].pc
    BY <1>1, <1>2 DEF ThreadTable, SameThread
  <1>5. Lists' /\ Piped' /\ Held'
    BY <1>1, <1>2, <1>4, ThreadsKept
  <1>6. Types'
    BY <1>1, <1>2, <1>3 DEF Types, CacheTypes, CoreTypes, icacheVars
  <1>7. RegOK'
    BY <1>1, <1>2 DEF RegOK
  <1> QED
    BY <1>5, <1>6, <1>7 DEF IInv

LEMMA StartOperationKeeps ==
  ASSUME IInv, StartOperation
  PROVE  IInv'
  <1>1. Types /\ Lists /\ Piped /\ RegOK /\ Held /\ CoreTypes
    BY DEF IInv, Types
  <1>2. /\ reg' = [reg EXCEPT !.state = IF reg.state = "WAITING" THEN reg.state ELSE "PENDING",
                              !.busy = TRUE]
        /\ UNCHANGED <<icacheVars, thread, list, prevReady, pipe, create, events>>
    BY DEF StartOperation
  <1>3. /\ reg'.head = reg.head /\ reg'.tail = reg.tail
        /\ reg'.state = "WAITING" <=> reg.state = "WAITING"
        /\ reg' \in [state : {"EMPTY", "PENDING", "WAITING", "FULL"}, busy : BOOLEAN,
                     head : Thread \cup {None}, tail : Thread \cup {None}]
    <2> DEFINE s == IF reg.state = "WAITING" THEN reg.state ELSE "PENDING"
    <2>1. s \in {"EMPTY", "PENDING", "WAITING", "FULL"} /\ (s = "WAITING" <=> reg.state = "WAITING")
      OBVIOUS
    <2>2. reg' = [reg EXCEPT !.state = s, !.busy = TRUE]
      BY <1>2
    <2> HIDE DEF s
    <2> QED
      BY <1>1, <2>1, <2>2 DEF CoreTypes
  <1>4. \A x \in Thread : SameThread(x) /\ thread'[x].pc = thread[x].pc
    BY <1>2 DEF SameThread
  <1>5. Lists' /\ Piped' /\ Held'
    BY <1>1, <1>2, <1>3, <1>4, ThreadsKept
  <1>6. Types'
    BY <1>1, <1>2, <1>3 DEF Types, CacheTypes, CoreTypes, icacheVars
  <1>7. RegOK'
    BY <1>1, <1>3 DEF RegOK
  <1> QED
    BY <1>5, <1>6, <1>7 DEF IInv

LEMMA StoreDoneKeeps ==
  ASSUME IInv, NEW t \in Thread, StoreDone(t)
  PROVE  IInv'
  <1> DEFINE wakes == thread[t].writes = 1 /\ thread[t].waitingForWrites
             less  == [thread EXCEPT ![t].writes = @ - 1,
                                     ![t].waitingForWrites = @ /\ thread[t].writes # 1]
             w == thread[t].writes - 1
             b == thread[t].waitingForWrites /\ thread[t].writes # 1
  <1>1. Types /\ Lists /\ Piped /\ RegOK /\ Held /\ thread \in ThreadTable /\ list \in ListTable
    BY DEF IInv, Types
  <1>2. /\ thread[t].writes > 0
        /\ thread' = IF wakes THEN QueueThreads(less, "other", t, t, "READY") ELSE less
        /\ list' = IF wakes THEN Queued(list, "other", t, t) ELSE list
        /\ UNCHANGED <<icacheVars, prevReady, pipe, reg, create, events>>
    BY DEF StoreDone
  <1>3. w \in 0 .. MaxWrites /\ b \in BOOLEAN /\ (b => thread[t].waitingForWrites)
    BY <1>1, <1>2, SchedulerAssumption DEF ThreadTable
  <1>4. less = [[thread EXCEPT ![t].writes = w] EXCEPT ![t].waitingForWrites = b]
    BY <1>1 DEF ThreadTable
  <1>5. less \in ThreadTable
    <2> DEFINE f == [thread EXCEPT ![t].writes = w]
    <2> HIDE DEF w, b, less
    <2>1. f \in ThreadTable
      BY <1>1, <1>3, Retyped
    <2>2. less = [f EXCEPT ![t].waitingForWrites = b]
      BY <1>4
    <2> HIDE DEF f
    <2> QED
      BY <1>3, <2>1, <2>2, Retyped
  <1>6. /\ \A x \in Thread : x # t => less[x] = thread[x]
        /\ less[t].state = thread[t].state /\ less[t].next = thread[t].next
        /\ less[t].cid = thread[t].cid /\ less[t].pc = thread[t].pc
        /\ less[t].waitingForWrites = b
    <2> HIDE DEF w, b, less
    <2> QED
      BY <1>1, <1>4 DEF ThreadTable
  <1>7. CASE wakes
    <2>1. /\ thread' = QueueThreads(less, "other", t, t, "READY")
          /\ list' = Queued(list, "other", t, t) /\ b = FALSE
      BY <1>2, <1>7
    <2>2. thread[t].state = "SUSPENDED" /\ t \notin Sleepers
      BY <1>1, <1>7 DEF Held, ThreadsOK, Sleepers
    <2> HIDE DEF less, w, b, wakes
    <2>3. BecameReady({t}, less)
      <3>1. /\ \A c \in CID : line'[c].head = line[c].head /\ line'[c].tail = line[c].tail
            /\ reg' = reg /\ "other" \in {"pipe", "other"}
            /\ thread[t].state \notin {"READY", "ACTIVE", "WAITING"}
        BY <1>2, <2>2 DEF icacheVars
      <3> QED
        BY <1>1, <1>5, <1>6, <2>1, <2>2, <3>1, ThreadReady
    <2>4. \A x \in Thread :
            /\ thread'[x].state = IF x = t THEN "READY" ELSE thread[x].state
            /\ thread'[x].cid = less[x].cid /\ thread'[x].pc = less[x].pc
            /\ thread'[x].waitingForWrites = less[x].waitingForWrites
      BY <2>3 DEF BecameReady
    <2>5. Piped'
      BY <1>1, <1>2, <2>2, <2>4, PipedKept
    <2>6. Held'
      <3>1. UNCHANGED <<line, create>>
        BY <1>2 DEF icacheVars
      <3>2. ASSUME thread[t].pc \in Addr, NEW x \in Thread
            PROVE  /\ Using(x)' <=> Using(x)
                   /\ Using(x) => thread'[x].cid = thread[x].cid /\ thread'[x].pc = thread[x].pc
                   /\ thread'[x].state = "WAITING" => thread[x].state = "WAITING"
                   /\ thread[x].state = "WAITING" => thread'[x].state = "WAITING"
                   /\ thread'[x].state \in {"READY", "SUSPENDED"} => thread'[x].pc \in Addr
                   /\ thread'[x].waitingForWrites => thread'[x].state = "SUSPENDED"
        <4>1. CASE x = t
          BY <1>6, <2>1, <2>2, <2>4, <3>2, <4>1 DEF Using
        <4>2. CASE x # t
          BY <1>1, <1>6, <2>4, <4>2 DEF Using, Held, ThreadsOK
        <4> QED
          BY <4>1, <4>2
      <3>3. thread[t].pc \in Addr
        BY <1>1, <2>2 DEF Held, ThreadsOK
      <3> QED
        BY <1>1, <3>1, <3>2, <3>3, HeldKept
    <2>7. Types'
      BY <1>1, <1>2, <2>3 DEF Types, CacheTypes, CoreTypes, icacheVars, BecameReady
    <2>8. RegOK'
      BY <1>1, <1>2 DEF RegOK
    <2> QED
      BY <2>3, <2>5, <2>6, <2>7, <2>8 DEF IInv, BecameReady
  <1>8. CASE ~wakes
    <2>1. thread' = less /\ list' = list
      BY <1>2, <1>8
    <2>2. b = thread[t].waitingForWrites
      BY <1>1, <1>8 DEF ThreadTable
    <2> HIDE DEF less, w, b, wakes
    <2>3. \A x \in Thread : SameThread(x) /\ thread'[x].pc = thread[x].pc
      BY <1>6, <2>1, <2>2 DEF SameThread
    <2>4. Lists' /\ Piped' /\ Held'
      BY <1>1, <1>2, <2>1, <2>3, ThreadsKept
    <2>5. Types'
      BY <1>1, <1>2, <1>5, <2>1 DEF Types, CacheTypes, CoreTypes, icacheVars
    <2>6. RegOK'
      BY <1>1, <1>2 DEF RegOK
    <2> QED
      BY <2>4, <2>5, <2>6 DEF IInv
  <1> QED
    BY <1>7, <1>8

LEMMA WriteRegisterKeeps ==
  ASSUME IInv, NEW l \in {"pipe", "other"}, WriteRegister(l)
  PROVE  IInv'
  <1>1. Types /\ Lists /\ Piped /\ RegOK /\ Held /\ thread \in ThreadTable /\ list \in ListTable
    BY DEF IInv, Types
  <1>2. /\ reg' = [state |-> "FULL", head |-> None, tail |-> None, busy |-> FALSE]
        /\ UNCHANGED <<icacheVars, prevReady, pipe, create, events>>
    BY DEF WriteRegister
  <1>3. /\ reg'.head = None /\ reg'.state = "FULL"
        /\ reg' \in [state : {"EMPTY", "PENDING", "WAITING", "FULL"}, busy : BOOLEAN,
                     head : Thread \cup {None}, tail : Thread \cup {None}]
    BY <1>2
  <1>4. RegOK'
    BY <1>3 DEF RegOK
  <1>5. CASE reg.state # "WAITING"
    <2>1. UNCHANGED <<thread, list>>
      BY <1>5 DEF WriteRegister
    <2>2. reg.head = None
      BY <1>1, <1>5 DEF RegOK
    <2>3. Lists' /\ Piped' /\ Held'
      <3>1. \A x \in Thread : SameThread(x) /\ thread'[x].pc = thread[x].pc
        BY <2>1 DEF SameThread
      <3>2. reg'.head = reg.head /\ (reg.head # None => reg'.tail = reg.tail)
        BY <1>3, <2>2
      <3> QED
        BY <1>1, <1>2, <2>1, <3>1, <3>2, ThreadsKept
    <2>4. Types'
      BY <1>1, <1>2, <1>3, <2>1 DEF Types, CacheTypes, CoreTypes, icacheVars
    <2> QED
      BY <1>4, <2>3, <2>4 DEF IInv
  <1>6. CASE reg.state = "WAITING"
    <2> DEFINE M == Sleepers
    <2>1. /\ thread' = QueueThreads(thread, l, reg.head, reg.tail, "READY")
          /\ list' = Queued(list, l, reg.head, reg.tail)
      BY <1>6 DEF WriteRegister
    <2>2. M \in SUBSET Thread /\ Strung(NextOf(thread), reg.head, reg.tail, M) /\ M # {}
      <3>1. Strung(NextOf(thread), reg.head, reg.tail, M)
        BY <1>1 DEF Lists, Listed
      <3>2. M \subseteq Thread /\ (M = {} <=> reg.head = None)
        BY <3>1, StrungEnds
      <3> QED
        BY <1>1, <1>6, <3>1, <3>2 DEF RegOK
    <2>3. \A x \in M : thread[x].state = "SUSPENDED"
      BY DEF Sleepers
    <2>4. M = Sleepers
      OBVIOUS
    <2>5. \A c \in CID : line'[c].head = line[c].head /\ line'[c].tail = line[c].tail
      BY <1>2 DEF icacheVars
    <2> HIDE DEF M
    <2>6. BecameReady(M, thread)
      BY <1>1, <1>3, <2>1, <2>2, <2>3, <2>4, <2>5, GettingReady
    <2>7. \A x \in Thread :
            /\ thread'[x].state = IF x \in M THEN "READY" ELSE thread[x].state
            /\ thread'[x].cid = thread[x].cid /\ thread'[x].pc = thread[x].pc
            /\ thread'[x].waitingForWrites = thread[x].waitingForWrites
      BY <2>6 DEF BecameReady
    <2>8. Piped'
      BY <1>1, <1>2, <2>3, <2>7, PipedKept
    <2>9. Held'
      <3>1. UNCHANGED <<line, create>>
        BY <1>2 DEF icacheVars
      <3>2. ASSUME NEW x \in Thread
            PROVE  /\ Using(x)' <=> Using(x)
                   /\ Using(x) => thread'[x].cid = thread[x].cid /\ thread'[x].pc = thread[x].pc
                   /\ thread'[x].state = "WAITING" => thread[x].state = "WAITING"
                   /\ thread[x].state = "WAITING" => thread'[x].state = "WAITING"
                   /\ thread'[x].state \in {"READY", "SUSPENDED"} => thread'[x].pc \in Addr
                   /\ thread'[x].waitingForWrites => thread'[x].state = "SUSPENDED"
        <4>1. CASE x \in M
          <5>1. thread[x].state = "SUSPENDED" /\ ~thread[x].waitingForWrites
            BY <2>4, <4>1 DEF Sleepers
          <5> QED
            BY <1>1, <2>7, <4>1, <5>1 DEF Using, Held, ThreadsOK
        <4>2. CASE x \notin M
          BY <1>1, <2>7, <4>2 DEF Using, Held, ThreadsOK
        <4> QED
          BY <4>1, <4>2
      <3> QED
        BY <1>1, <3>1, <3>2, HeldKept
    <2>10. Types'
      BY <1>1, <1>2, <1>3, <2>6 DEF Types, CacheTypes, CoreTypes, icacheVars, BecameReady
    <2> QED
      BY <1>4, <2>6, <2>8, <2>9, <2>10 DEF IInv, BecameReady
  <1> QED
    BY <1>5, <1>6

-----------------------------------------------------------------------------
(* Steps of the cache and of the family creation                             *)

\* The cache changes, but no thread, and no line changes who waits for it.
LEMMA CacheOnly ==
  ASSUME IInv, UNCHANGED <<thread, list, prevReady, pipe, reg>>, events' \in 0 .. MaxEvents,
         CacheTypes', Held',
         create' \in [state : {"IDLE", "LOAD_REGSPEC", "LOADING_LINE", "LINE_LOADED"},
                      pc : Addr \cup {None}, cid : CID \cup {None}],
         \A c \in CID : /\ line'[c].head = line[c].head
                        /\ line[c].head # None => line'[c].tail = line[c].tail
  PROVE  IInv'
  <1>1. Types /\ Lists /\ Piped /\ RegOK
    BY DEF IInv
  <1>2. Lists' /\ Piped'
    BY <1>1, AllListsKept DEF SameThread
  <1>3. RegOK'
    BY <1>1 DEF RegOK
  <1>4. Types'
    BY <1>1 DEF Types, CoreTypes
  <1> QED
    BY <1>2, <1>3, <1>4 DEF IInv

LEMMA CreateStartKeeps ==
  ASSUME IInv, NEW a \in Programs, CreateStart(a)
  PROVE  IInv'
  <1>1. /\ create.state = "IDLE"
        /\ create' = [create EXCEPT !.state = "LOAD_REGSPEC", !.pc = a]
        /\ UNCHANGED <<icacheVars, thread, list, prevReady, pipe, reg, events>>
    BY DEF CreateStart
  <1>2. Types /\ CacheTypes /\ CoreTypes /\ Held /\ a \in Addr
    BY SchedulerAssumption DEF IInv, Types
  <1>3. /\ create'.state = "LOAD_REGSPEC" /\ create'.pc = a
        /\ create' \in [state : {"IDLE", "LOAD_REGSPEC", "LOADING_LINE", "LINE_LOADED"},
                        pc : Addr \cup {None}, cid : CID \cup {None}]
    BY <1>1, <1>2 DEF CoreTypes
  <1>4. \A c \in CID : ~line[c].creation
    BY <1>1, <1>2 DEF Held, CreateOK
  <1>5. UNCHANGED <<line, thread>>
    BY <1>1 DEF icacheVars
  <1>6. ReferencesExact'
    BY <1>1, <1>2, <1>3, <1>5 DEF Held, ReferencesExact, CreationUses, Users
  <1>7. ReadersFindLine'
    BY <1>2, <1>3, <1>5 DEF Held, ReadersFindLine, InState
  <1>8. ThreadsOK' /\ LinesOK'
    BY <1>2, <1>5 DEF Held, ThreadsOK, Using, LinesOK
  <1>9. CreateOK'
    BY <1>2, <1>3, <1>4, <1>5 DEF CreateOK
  <1>10. CacheTypes' /\ events' \in 0 .. MaxEvents
    BY <1>1, <1>2 DEF CacheTypes, CoreTypes, icacheVars
  <1>11. Held'
    BY <1>6, <1>7, <1>8, <1>9 DEF Held
  <1> QED
    BY <1>1, <1>3, <1>5, <1>10, <1>11, CacheOnly

\* A line that keeps its users: it is cleared only when nobody refers to it, and
\* marked invalid only when somebody does.
SameLine(c) ==
  /\ line'[c].tag = line[c].tag /\ line'[c].references = line[c].references
  /\ line'[c].head = line[c].head /\ line'[c].tail = line[c].tail
  /\ line'[c].creation = line[c].creation
  /\ \/ line'[c].state = line[c].state
     \/ line'[c].state = "EMPTY" /\ line[c].state = "FULL" /\ line[c].references = 0
     \/ line'[c].state = "INVALID" /\ line[c].state \in {"LOADING", "FULL", "INVALID"}
        /\ line[c].references # 0

\* Lines keep what Held is about.
LEMMA HeldByLines ==
  ASSUME Held, UNCHANGED <<thread, create>>,
         \A c \in CID : SameLine(c)
  PROVE  Held'
  <1>1. \A c \in CID : Users(c)' = Users(c)
    BY DEF Users
  <1>2. \A c \in CID : CreationUses(c)' <=> CreationUses(c)
    BY DEF CreationUses, SameLine
  <1>3. ReferencesExact'
    BY <1>1, <1>2 DEF Held, ReferencesExact, SameLine
  \* A line in use is not cleared.
  <1>4. ASSUME NEW c \in CID, line[c].references = 0
        PROVE  Users(c) = {} /\ ~CreationUses(c)
    <2>1. Users(c) \in SUBSET Thread
      BY DEF Users
    <2>2. Cardinality(Users(c)) \in Nat /\ (Cardinality(Users(c)) = 0 <=> Users(c) = {})
      BY <2>1, UsersFinite
    <2>3. line[c].references = Cardinality(Users(c)) + (IF CreationUses(c) THEN 1 ELSE 0)
      BY DEF Held, ReferencesExact
    <2> QED
      BY <1>4, <2>2, <2>3
  <1>5. ReadersFindLine'
    <2>1. ASSUME NEW x \in Thread, thread[x].state \in {"ACTIVE", "RUNNING"}
          PROVE  /\ line'[thread[x].cid].state \in {"FULL", "INVALID"}
                 /\ line'[thread[x].cid].tag = thread[x].pc
      <3>1. thread[x].cid \in CID /\ x \in Users(thread[x].cid)
        BY <2>1 DEF Held, ThreadsOK, Using, Users
      <3>2. line[thread[x].cid].references # 0
        BY <1>4, <3>1
      <3>3. /\ line[thread[x].cid].state \in {"FULL", "INVALID"}
            /\ line[thread[x].cid].tag = thread[x].pc
        BY <2>1 DEF Held, ReadersFindLine, InState
      <3> QED
        BY <3>1, <3>2, <3>3 DEF SameLine
    <2>2. ASSUME create.state = "LINE_LOADED"
          PROVE  /\ line'[create.cid].state \in {"FULL", "INVALID"}
                 /\ line'[create.cid].tag = create.pc
      <3>1. create.cid \in CID /\ CreationUses(create.cid)
        BY <2>2 DEF Held, CreateOK, CreationUses
      <3>2. line[create.cid].references # 0
        BY <1>4, <3>1
      <3>3. /\ line[create.cid].state \in {"FULL", "INVALID"}
            /\ line[create.cid].tag = create.pc
        BY <2>2 DEF Held, ReadersFindLine
      <3> QED
        BY <3>1, <3>2, <3>3 DEF SameLine
    <2> QED
      BY <2>1, <2>2 DEF ReadersFindLine, InState
  <1>6. ThreadsOK'
    <2>1. ASSUME NEW x \in Thread, thread[x].state = "WAITING"
          PROVE  line'[thread[x].cid].tag = thread[x].pc
      BY <2>1 DEF Held, ThreadsOK, Using, SameLine
    <2> QED
      BY <2>1 DEF Held, ThreadsOK, Using
  <1>7. LinesOK'
    <2>1. ASSUME NEW c \in CID
          PROVE  /\ line'[c].references = 0 => line'[c].state \in {"EMPTY", "FULL"}
                 /\ line'[c].state = "EMPTY" => line'[c].references = 0
                 /\ line'[c].head # None \/ line'[c].creation =>
                      line'[c].state \in {"LOADING", "INVALID"}
      BY DEF Held, LinesOK, SameLine
    <2> QED
      BY <2>1 DEF LinesOK
  <1>8. CreateOK'
    BY DEF Held, CreateOK, SameLine
  <1> QED
    BY <1>3, <1>5, <1>6, <1>7, <1>8 DEF Held

\* Lines with other contents of some fields.
LEMMA LineRetyped ==
  ASSUME NEW f \in LineTable, NEW c \in CID
  PROVE  /\ \A b \in BOOLEAN : [f EXCEPT ![c].fresh = b] \in LineTable
         /\ \A d \in CID : [f EXCEPT ![c].fresh = TRUE][d] =
              IF d = c THEN [f[c] EXCEPT !.fresh = TRUE] ELSE f[d]
  BY DEF LineTable

LEMMA LoadedKeeps ==
  ASSUME Types, NEW a \in Addr, Loaded(a)
  PROVE  /\ line' \in LineTable /\ arrived' \in Seq(CID)
         /\ Len(incoming) + Len(arrived') <= BufferSize
         /\ \A c \in CID : SameLine(c)
  <1>1. /\ line \in LineTable /\ arrived \in Seq(CID) /\ incoming \in Seq(CID)
        /\ Len(incoming) + Len(arrived) <= BufferSize /\ BufferSize \in Nat
    BY ICacheAssumption DEF Types, CacheTypes
  <1>2. CASE \E c \in Hits(a) : line[c].state # "FULL"
    <2>1. PICK c \in CID : /\ Len(incoming) + Len(arrived) < BufferSize
                           /\ arrived' = Append(arrived, c)
                           /\ line' = [line EXCEPT ![c].fresh = TRUE]
      BY <1>2 DEF Loaded, Hits, Tagged, SetOf
    <2>2. line' \in LineTable
      BY <1>1, <2>1, LineRetyped
    <2>3. arrived' \in Seq(CID) /\ Len(arrived') = Len(arrived) + 1
      BY <1>1, <2>1
    <2>4. Len(incoming) + Len(arrived') <= BufferSize
      <3>1. Len(incoming) \in Nat /\ Len(arrived) \in Nat
        BY <1>1
      <3> QED
        BY <1>1, <2>1, <2>3, <3>1
    <2>5. \A d \in CID : /\ line'[d].tag = line[d].tag /\ line'[d].references = line[d].references
                         /\ line'[d].head = line[d].head /\ line'[d].tail = line[d].tail
                         /\ line'[d].creation = line[d].creation /\ line'[d].state = line[d].state
      BY <1>1, <2>1 DEF LineTable
    <2> QED
      BY <2>2, <2>3, <2>4, <2>5 DEF SameLine
  <1>3. CASE ~\E c \in Hits(a) : line[c].state # "FULL"
    <2>1. UNCHANGED <<line, arrived>>
      BY <1>3 DEF Loaded
    <2> QED
      BY <1>1, <2>1 DEF SameLine
  <1> QED
    BY <1>2, <1>3

\* An invalidation clears a line that nobody refers to and marks any other one.
LEMMA Invalidating ==
  ASSUME Types, Held, NEW a \in Addr, OnMemoryInvalidated(a)
  PROVE  /\ line' \in LineTable
         /\ \A c \in CID : SameLine(c)
  <1> DEFINE Row == [state : {"EMPTY", "LOADING", "FULL", "INVALID"},
                     tag : Addr \cup {None}, references : Nat,
                     head : Thread \cup {None}, tail : Thread \cup {None},
                     creation : BOOLEAN, fresh : BOOLEAN]
  <1>1. line \in [CID -> Row]
    BY DEF Types, CacheTypes, LineTable
  <1>2. line' = [c \in CID |->
          IF c \notin Hits(a) THEN line[c]
          ELSE [line[c] EXCEPT
                  !.state = IF @ = "FULL" /\ line[c].references = 0 THEN "EMPTY" ELSE "INVALID",
                  !.fresh = FALSE]]
    BY DEF OnMemoryInvalidated
  <1>3. ASSUME NEW c \in CID
        PROVE  line'[c] \in Row /\ SameLine(c)
    <2>1. line[c] \in Row
      BY <1>1
    <2>2. CASE c \notin Hits(a)
      <3>1. line'[c] = line[c]
        BY <1>2, <2>2
      <3> HIDE DEF Row
      <3> QED
        BY <2>1, <3>1 DEF SameLine
    <2>3. CASE c \in Hits(a)
      <3> DEFINE s == IF line[c].state = "FULL" /\ line[c].references = 0 THEN "EMPTY" ELSE "INVALID"
      <3>1. line'[c] = [line[c] EXCEPT !.state = s, !.fresh = FALSE]
        BY <1>2, <2>3
      <3>2. /\ s \in {"EMPTY", "INVALID"}
            /\ s = "EMPTY" => line[c].state = "FULL" /\ line[c].references = 0
            /\ s = "INVALID" => line[c].state # "FULL" \/ line[c].references # 0
        OBVIOUS
      <3> HIDE DEF s
      <3>3. /\ line'[c] \in Row /\ line'[c].state = s
            /\ line'[c].tag = line[c].tag /\ line'[c].references = line[c].references
            /\ line'[c].head = line[c].head /\ line'[c].tail = line[c].tail
            /\ line'[c].creation = line[c].creation
        BY <2>1, <3>1, <3>2
      <3>4. line[c].state \in {"LOADING", "FULL", "INVALID"}
        BY <2>1, <2>3 DEF Hits, Tagged
      <3>5. line[c].references = 0 => line[c].state = "FULL"
        BY <3>4 DEF Held, LinesOK
      <3> HIDE DEF Row
      <3> QED
        BY <3>2, <3>3, <3>4, <3>5 DEF SameLine
    <2> QED
      BY <2>2, <2>3
  <1> HIDE DEF Row
  <1>4. line' \in [CID -> Row]
    BY <1>2, <1>3
  <1> QED
    BY <1>3, <1>4 DEF Row, LineTable

LEMMA MemoryKeeps ==
  ASSUME IInv, Memory
  PROVE  IInv'
  <1>1. UNCHANGED <<thread, list, prevReady, pipe, reg, create>>
    BY DEF Memory, Delivers, schedVars
  <1>2. Types /\ CacheTypes /\ CoreTypes /\ Held
    BY DEF IInv, Types
  <1>3. /\ line \in LineTable
        /\ outgoing \in Seq(Addr) /\ Len(outgoing) <= BufferSize
        /\ incoming \in Seq(CID) /\ arrived \in Seq(CID)
        /\ Len(incoming) + Len(arrived) <= BufferSize
        /\ served \in BOOLEAN /\ reading \in [Addr -> Nat]
    BY <1>2 DEF CacheTypes
  <1>4. create' \in [state : {"IDLE", "LOAD_REGSPEC", "LOADING_LINE", "LINE_LOADED"},
                     pc : Addr \cup {None}, cid : CID \cup {None}]
        /\ events \in 0 .. MaxEvents
    BY <1>1, <1>2 DEF CoreTypes
  <1>5. CASE DoOutgoing /\ UNCHANGED events
    <2>1. /\ outgoing # <<>> /\ outgoing' = Tail(outgoing)
          /\ reading' = [reading EXCEPT ![Head(outgoing)] = @ + 1]
          /\ UNCHANGED <<line, incoming, arrived, served, events>>
      BY <1>5 DEF DoOutgoing
    <2>2. /\ Tail(outgoing) \in Seq(Addr) /\ Len(Tail(outgoing)) = Len(outgoing) - 1
          /\ Head(outgoing) \in Addr /\ Len(outgoing) \in Nat
      BY <1>3, <2>1
    <2>3. Len(outgoing') <= BufferSize
      BY <1>3, <2>1, <2>2, ICacheAssumption
    <2>4. reading' \in [Addr -> Nat]
      BY <1>3, <2>1, <2>2
    <2>5. CacheTypes'
      BY <1>3, <2>1, <2>2, <2>3, <2>4 DEF CacheTypes
    <2>6. \A c \in CID : SameLine(c)
      BY <2>1 DEF SameLine
    <2>7. Held'
      BY <1>1, <1>2, <2>6, HeldByLines
    <2> QED
      BY <1>1, <1>4, <2>1, <2>5, <2>7, CacheOnly DEF SameLine
  <1>6. ASSUME NEW a \in Addr, OnMemoryReadCompleted(a), UNCHANGED events
        PROVE  IInv'
    <2>1. /\ reading' = [reading EXCEPT ![a] = @ - 1] /\ reading[a] > 0
          /\ Loaded(a) /\ UNCHANGED <<outgoing, incoming, served>>
      BY <1>6 DEF OnMemoryReadCompleted
    <2>2. reading' \in [Addr -> Nat]
      <3>1. reading[a] - 1 \in Nat
        BY <1>3, <2>1
      <3> QED
        BY <1>3, <2>1, <3>1
    <2>3. /\ line' \in LineTable /\ arrived' \in Seq(CID)
          /\ Len(incoming) + Len(arrived') <= BufferSize
          /\ \A c \in CID : SameLine(c)
      BY <1>2, <2>1, LoadedKeeps
    <2>4. CacheTypes'
      BY <1>3, <2>1, <2>2, <2>3 DEF CacheTypes
    <2>5. Held'
      BY <1>1, <1>2, <2>3, HeldByLines
    <2> QED
      BY <1>1, <1>4, <1>6, <2>3, <2>4, <2>5, CacheOnly DEF SameLine
  <1>7. ASSUME events > 0, events' = events - 1
        PROVE  events' \in 0 .. MaxEvents
    BY <1>4, <1>7, SchedulerAssumption
  <1>8. ASSUME NEW a \in Addr, events > 0, events' = events - 1, OnOtherReadCompleted(a)
        PROVE  IInv'
    <2>1. Loaded(a) /\ UNCHANGED <<outgoing, incoming, served, reading>>
      BY <1>8 DEF OnOtherReadCompleted
    <2>2. /\ line' \in LineTable /\ arrived' \in Seq(CID)
          /\ Len(incoming) + Len(arrived') <= BufferSize
          /\ \A c \in CID : SameLine(c)
      BY <1>2, <2>1, LoadedKeeps
    <2>3. CacheTypes'
      BY <1>3, <2>1, <2>2 DEF CacheTypes
    <2>4. Held'
      BY <1>1, <1>2, <2>2, HeldByLines
    <2> QED
      BY <1>1, <1>4, <1>7, <1>8, <2>2, <2>3, <2>4, CacheOnly DEF SameLine
  <1>9. ASSUME NEW a \in Addr, events > 0, events' = events - 1, OnMemoryInvalidated(a)
        PROVE  IInv'
    <2>1. UNCHANGED <<outgoing, incoming, arrived, served, reading>>
      BY <1>9 DEF OnMemoryInvalidated
    <2>2. /\ line' \in LineTable
          /\ \A c \in CID : SameLine(c)
      BY <1>2, <1>9, Invalidating
    <2>3. CacheTypes'
      BY <1>3, <2>1, <2>2 DEF CacheTypes
    <2>4. Held'
      BY <1>1, <1>2, <2>2, HeldByLines
    <2> QED
      BY <1>1, <1>4, <1>7, <1>9, <2>2, <2>3, <2>4, CacheOnly DEF SameLine
  <1> QED
    BY <1>5, <1>6, <1>8, <1>9 DEF Memory, Delivers, schedVars

LEMMA TickKeeps ==
  ASSUME IInv, Tick
  PROVE  IInv'
  <1>1. /\ incoming' = incoming \o arrived /\ arrived' = <<>> /\ served' = FALSE
        /\ UNCHANGED <<line, outgoing, reading, schedVars>>
    BY DEF Tick
  <1>2. Types /\ CacheTypes /\ CoreTypes /\ Held
    BY DEF IInv, Types
  <1>3. /\ incoming \in Seq(CID) /\ arrived \in Seq(CID)
        /\ Len(incoming) + Len(arrived) <= BufferSize
    BY <1>2 DEF CacheTypes
  <1>4. /\ incoming' \in Seq(CID) /\ arrived' \in Seq(CID)
        /\ Len(incoming') = Len(incoming) + Len(arrived) /\ Len(arrived') = 0
    BY <1>1, <1>3
  <1>5. Len(incoming') + Len(arrived') <= BufferSize
    <2>1. Len(incoming) \in Nat /\ Len(arrived) \in Nat
      BY <1>3
    <2> QED
      BY <1>3, <1>4, <2>1
  <1>6. CacheTypes'
    BY <1>1, <1>2, <1>4, <1>5 DEF CacheTypes
  <1>7. UNCHANGED <<thread, list, prevReady, pipe, reg, create, events>>
    BY <1>1 DEF schedVars
  <1>8. Held'
    <2>1. \A c \in CID : SameLine(c)
      BY <1>1 DEF SameLine
    <2> QED
      BY <1>2, <1>7, <2>1, HeldByLines
  <1>9. create' \in [state : {"IDLE", "LOAD_REGSPEC", "LOADING_LINE", "LINE_LOADED"},
                     pc : Addr \cup {None}, cid : CID \cup {None}]
        /\ events' \in 0 .. MaxEvents
    BY <1>2, <1>7 DEF CoreTypes
  <1> QED
    BY <1>1, <1>6, <1>7, <1>8, <1>9, CacheOnly DEF SameLine

-----------------------------------------------------------------------------
(* Fetching a line                                                          *)

LEMMA NobodyUses ==
  ASSUME Held, NEW c \in CID, line[c].references = 0
  PROVE  Users(c) = {} /\ ~CreationUses(c)
  <1>1. Users(c) \in SUBSET Thread
    BY DEF Users
  <1>2. Cardinality(Users(c)) \in Nat /\ (Cardinality(Users(c)) = 0 <=> Users(c) = {})
    BY <1>1, UsersFinite
  <1>3. line[c].references = Cardinality(Users(c)) + (IF CreationUses(c) THEN 1 ELSE 0)
    BY DEF Held, ReferencesExact
  <1> QED
    BY <1>2, <1>3

\* Line c has one more reference, for address a: it was there, it was on its way,
\* or nobody referred to it.
LineTaken(c, a) ==
  /\ \A d \in CID : d # c => line'[d] = line[d]
  /\ line'[c].tag = a /\ line'[c].references = line[c].references + 1
  /\ \/ line'[c].state = "FULL" /\ line[c].state = "FULL" /\ line[c].tag = a
     \/ /\ line'[c].state = "LOADING"
        /\ \/ line[c].references = 0
           \/ line[c].state = "LOADING" /\ line[c].tag = a

\* Whoever uses a line goes on finding it.
UsersFind ==
  /\ \A x \in Thread : thread[x].state \in {"ACTIVE", "RUNNING"} =>
       /\ line'[thread[x].cid].state \in {"FULL", "INVALID"}
       /\ line'[thread[x].cid].tag = thread[x].pc
  /\ \A x \in Thread : thread[x].state = "WAITING" => line'[thread[x].cid].tag = thread[x].pc
  /\ create.state = "LINE_LOADED" =>
       /\ line'[create.cid].state \in {"FULL", "INVALID"}
       /\ line'[create.cid].tag = create.pc
  /\ \A d \in CID : line[d].creation => line'[d].tag = create.pc

LEMMA TakingDisturbsNobody ==
  ASSUME Held, NEW c \in CID, NEW a \in Addr, LineTaken(c, a)
  PROVE  UsersFind
  <1>1. \A d \in CID : d # c => line'[d] = line[d]
    BY DEF LineTaken
  <1>2. line'[c].tag = a
    BY DEF LineTaken
  <1>3. ASSUME Users(c) # {} \/ CreationUses(c)
        PROVE  line[c].tag = a /\ (line'[c].state = "LOADING" => line[c].state = "LOADING")
    <2>1. line[c].references # 0
      BY <1>3, NobodyUses
    <2> QED
      BY <2>1 DEF LineTaken
  <1>4. ASSUME NEW x \in Thread, thread[x].state \in {"ACTIVE", "RUNNING"}
        PROVE  /\ line'[thread[x].cid].state \in {"FULL", "INVALID"}
               /\ line'[thread[x].cid].tag = thread[x].pc
    <2>1. PICK d \in CID : d = thread[x].cid
      BY <1>4 DEF Held, ThreadsOK, Using
    <2>2. line[d].state \in {"FULL", "INVALID"} /\ line[d].tag = thread[x].pc
      BY <1>4, <2>1 DEF Held, ReadersFindLine, InState
    <2>3. CASE d = c
      <3>1. Users(c) # {}
        BY <1>4, <2>1, <2>3 DEF Users
      <3>2. line[c].tag = a /\ line'[c].state # "LOADING"
        BY <1>3, <2>2, <2>3, <3>1
      <3> QED
        BY <1>2, <2>1, <2>2, <2>3, <3>2 DEF LineTaken
    <2> QED
      BY <1>1, <2>1, <2>2, <2>3
  <1>5. ASSUME NEW x \in Thread, thread[x].state = "WAITING"
        PROVE  line'[thread[x].cid].tag = thread[x].pc
    <2>1. PICK d \in CID : d = thread[x].cid /\ line[d].tag = thread[x].pc
      BY <1>5 DEF Held, ThreadsOK, Using
    <2>2. CASE d = c
      <3>1. Users(c) # {}
        BY <1>5, <2>1, <2>2 DEF Users
      <3> QED
        BY <1>2, <1>3, <2>1, <2>2, <3>1
    <2> QED
      BY <1>1, <2>1, <2>2
  <1>6. ASSUME create.state = "LINE_LOADED"
        PROVE  /\ line'[create.cid].state \in {"FULL", "INVALID"}
               /\ line'[create.cid].tag = create.pc
    <2>1. PICK d \in CID : d = create.cid
      BY <1>6 DEF Held, CreateOK
    <2>2. line[d].state \in {"FULL", "INVALID"} /\ line[d].tag = create.pc
      BY <1>6, <2>1 DEF Held, ReadersFindLine
    <2>3. CASE d = c
      <3>1. CreationUses(c)
        BY <1>6, <2>1, <2>3 DEF CreationUses
      <3>2. line[c].tag = a /\ line'[c].state # "LOADING"
        BY <1>3, <2>2, <2>3, <3>1
      <3> QED
        BY <1>2, <2>1, <2>2, <2>3, <3>2 DEF LineTaken
    <2> QED
      BY <1>1, <2>1, <2>2, <2>3
  <1>7. ASSUME NEW d \in CID, line[d].creation PROVE line'[d].tag = create.pc
    <2>1. line[d].tag = create.pc
      BY <1>7 DEF Held, CreateOK
    <2>2. CASE d = c
      <3>1. CreationUses(c)
        BY <1>7, <2>2 DEF CreationUses
      <3> QED
        BY <1>2, <1>3, <2>1, <2>2, <3>1
    <2> QED
      BY <1>1, <2>1, <2>2
  <1> QED
    BY <1>4, <1>5, <1>6, <1>7 DEF UsersFind

\* The taken line itself.
LEMMA TakenLineOK ==
  ASSUME Held, line \in LineTable, NEW c \in CID, NEW a \in Addr, LineTaken(c, a),
         line'[c].head # None \/ line'[c].creation => line'[c].state = "LOADING"
  PROVE  LinesOK'
  <1>1. line[c].references \in Nat
    BY DEF LineTable
  <1>2. ASSUME NEW d \in CID, d # c
        PROVE  /\ line'[d].references = 0 => line'[d].state \in {"EMPTY", "FULL"}
               /\ line'[d].state = "EMPTY" => line'[d].references = 0
               /\ line'[d].head # None \/ line'[d].creation => line'[d].state \in {"LOADING", "INVALID"}
    <2>1. line'[d] = line[d]
      BY <1>2 DEF LineTaken
    <2> QED
      BY <2>1 DEF Held, LinesOK
  <1>3. line'[c].references # 0 /\ line'[c].state \in {"FULL", "LOADING"}
    BY <1>1 DEF LineTaken
  <1> QED
    BY <1>2, <1>3 DEF LinesOK

\* Ready thread t takes the line.
LEMMA HeldTaken ==
  ASSUME Held, line \in LineTable, NEW c \in CID, NEW a \in Addr, LineTaken(c, a),
         NEW t \in Thread, thread[t].state = "READY", thread[t].pc = a, create' = create,
         line'[c].creation = line[c].creation,
         line'[c].head # None \/ line'[c].creation => line'[c].state = "LOADING",
         \A x \in Thread : x # t =>
           /\ thread'[x].state = thread[x].state /\ thread'[x].cid = thread[x].cid
           /\ thread'[x].pc = thread[x].pc
           /\ thread'[x].waitingForWrites = thread[x].waitingForWrites,
         thread'[t].state = IF line'[c].state = "FULL" THEN "ACTIVE" ELSE "WAITING",
         thread'[t].cid = c, thread'[t].pc = a,
         thread'[t].waitingForWrites = thread[t].waitingForWrites
  PROVE  Held'
  <1>1. UsersFind
    BY TakingDisturbsNobody
  <1>2. /\ \A d \in CID : d # c => line'[d] = line[d]
        /\ line'[c].tag = a /\ line'[c].references = line[c].references + 1
        /\ line'[c].state \in {"FULL", "LOADING"}
    BY DEF LineTaken
  <1>3. LinesOK'
    BY TakenLineOK
  <1>4. \A d \in CID : line'[d].creation = line[d].creation
    BY <1>2
  <1>5. ReferencesExact'
    <2>1. \A d \in CID : CreationUses(d)' <=> CreationUses(d)
      BY <1>4 DEF CreationUses
    <2>2. t \notin Users(c) /\ Users(c) \in SUBSET Thread /\ Users(c)' = Users(c) \cup {t}
      BY <1>2 DEF Users
    <2>3. Cardinality(Users(c)') = Cardinality(Users(c)) + 1 /\ Cardinality(Users(c)) \in Nat
      BY <2>2, UsersFinite
    <2>4. \A d \in CID : d # c => Users(d)' = Users(d)
      BY <1>2 DEF Users
    <2>5. line'[c].references = Cardinality(Users(c)') + (IF CreationUses(c)' THEN 1 ELSE 0)
      <3> DEFINE one == IF CreationUses(c) THEN 1 ELSE 0
      <3>1. one \in Nat /\ (IF CreationUses(c)' THEN 1 ELSE 0) = one
        BY <2>1
      <3>2. line[c].references = Cardinality(Users(c)) + one
        BY DEF Held, ReferencesExact
      <3> HIDE DEF one
      <3> QED
        BY <1>2, <2>3, <3>1, <3>2
    <2>6. ASSUME NEW d \in CID, d # c
          PROVE  line'[d].references = Cardinality(Users(d)') + (IF CreationUses(d)' THEN 1 ELSE 0)
      BY <1>2, <2>1, <2>4, <2>6 DEF Held, ReferencesExact
    <2> QED
      BY <2>5, <2>6 DEF ReferencesExact
  <1>6. ReadersFindLine'
    <2>1. ASSUME NEW x \in Thread, thread'[x].state \in {"ACTIVE", "RUNNING"}
          PROVE  /\ line'[thread'[x].cid].state \in {"FULL", "INVALID"}
                 /\ line'[thread'[x].cid].tag = thread'[x].pc
      <3>1. CASE x = t
        BY <1>2, <2>1, <3>1
      <3>2. CASE x # t
        BY <1>1, <2>1, <3>2 DEF UsersFind
      <3> QED
        BY <3>1, <3>2
    <2> QED
      BY <1>1, <2>1 DEF ReadersFindLine, InState, UsersFind
  <1>7. ThreadsOK'
    <2>1. ASSUME NEW x \in Thread
          PROVE  /\ Using(x)' => thread'[x].cid \in CID
                 /\ Using(x)' \/ thread'[x].state \in {"READY", "SUSPENDED"} => thread'[x].pc \in Addr
                 /\ thread'[x].state = "WAITING" => line'[thread'[x].cid].tag = thread'[x].pc
                 /\ thread'[x].waitingForWrites => thread'[x].state = "SUSPENDED"
      <3>1. CASE x = t
        <4>1. ~thread[t].waitingForWrites
          BY DEF Held, ThreadsOK
        <4> QED
          BY <1>2, <3>1, <4>1 DEF Using
      <3>2. CASE x # t
        BY <1>1, <3>2 DEF UsersFind, Held, ThreadsOK, Using
      <3> QED
        BY <3>1, <3>2
    <2> QED
      BY <2>1 DEF ThreadsOK
  <1>8. CreateOK'
    BY <1>1, <1>4 DEF Held, CreateOK, UsersFind
  <1> QED
    BY <1>3, <1>5, <1>6, <1>7, <1>8 DEF Held

\* The creation of a family takes the line.
LEMMA HeldCreating ==
  ASSUME Held, line \in LineTable, NEW c \in CID, NEW a \in Addr, LineTaken(c, a),
         create.state = "LOAD_REGSPEC", create.pc = a, create'.pc = a, thread' = thread,
         line'[c].head # None => line'[c].state = "LOADING",
         line'[c].creation = (line'[c].state = "LOADING"),
         create'.state = IF line'[c].state = "FULL" THEN "LINE_LOADED" ELSE "LOADING_LINE",
         line'[c].state = "FULL" => create'.cid = c
  PROVE  Held'
  <1>1. UsersFind
    BY TakingDisturbsNobody
  <1>2. /\ \A d \in CID : d # c => line'[d] = line[d]
        /\ line'[c].tag = a /\ line'[c].references = line[c].references + 1
        /\ line'[c].state \in {"FULL", "LOADING"}
    BY DEF LineTaken
  <1>3. LinesOK'
    BY TakenLineOK
  <1>4. \A d \in CID : ~line[d].creation /\ ~CreationUses(d)
    BY DEF Held, CreateOK, CreationUses
  <1>5. ReferencesExact'
    <2>1. CreationUses(c)' /\ \A d \in CID : d # c => ~CreationUses(d)'
      BY <1>2, <1>4 DEF CreationUses
    <2>2. \A d \in CID : Users(d)' = Users(d)
      BY DEF Users
    <2>3. \A d \in CID : line[d].references = Cardinality(Users(d)) + 0
      BY <1>4 DEF Held, ReferencesExact
    <2>4. Cardinality(Users(c)) \in Nat
      <3>1. Users(c) \in SUBSET Thread
        BY DEF Users
      <3> QED
        BY <3>1, UsersFinite
    <2>5. line'[c].references = Cardinality(Users(c)') + 1
      BY <1>2, <2>2, <2>3, <2>4
    <2>6. \A d \in CID : d # c => line'[d].references = Cardinality(Users(d)') + 0
      BY <1>2, <2>2, <2>3
    <2> QED
      BY <2>1, <2>5, <2>6 DEF ReferencesExact
  <1>6. ReadersFindLine'
    <2>1. create'.state = "LINE_LOADED" =>
            /\ line'[create'.cid].state \in {"FULL", "INVALID"}
            /\ line'[create'.cid].tag = create'.pc
      BY <1>2
    <2> QED
      BY <1>1, <2>1 DEF ReadersFindLine, InState, UsersFind
  <1>7. ThreadsOK'
    BY <1>1 DEF Held, ThreadsOK, Using, UsersFind
  <1>8. CreateOK'
    BY <1>2, <1>4 DEF CreateOK
  <1> QED
    BY <1>3, <1>5, <1>6, <1>7, <1>8 DEF Held

\* What the three outcomes of Fetch(a) do to line c, when u is the thread it is for.
LEMMA FetchHitTakes ==
  ASSUME Types, Held, NEW c \in CID, NEW a \in Addr, FetchHit(c, a)
  PROVE  /\ LineTaken(c, a) /\ CacheTypes'
         /\ line'[c].state = "FULL"
         /\ \A d \in CID : /\ line'[d].head = line[d].head /\ line'[d].tail = line[d].tail
                           /\ line'[d].creation = line[d].creation
         /\ line'[c].head = None /\ ~line'[c].creation
  <1>1. CacheTypes /\ line \in LineTable
    BY DEF Types, CacheTypes
  <1>2. /\ line[c].state = "FULL" /\ line[c].tag = a
        /\ line' = [line EXCEPT ![c].references = line[c].references + 1]
        /\ served' = TRUE /\ UNCHANGED <<outgoing, incoming, arrived, reading>>
    BY DEF FetchHit, Hits, Tagged
  <1>3. line[c].references + 1 \in Nat
    BY <1>1 DEF LineTable
  <1>4. /\ line' \in LineTable
        /\ \A d \in CID : d # c => line'[d] = line[d]
        /\ line'[c].references = line[c].references + 1
        /\ line'[c].state = line[c].state /\ line'[c].tag = line[c].tag
        /\ line'[c].head = line[c].head /\ line'[c].tail = line[c].tail
        /\ line'[c].creation = line[c].creation
    BY <1>1, <1>2, <1>3 DEF LineTable
  <1>5. line[c].head = None /\ ~line[c].creation
    BY <1>2 DEF Held, LinesOK
  <1>6. LineTaken(c, a)
    BY <1>2, <1>4 DEF LineTaken
  <1>7. CacheTypes'
    BY <1>1, <1>2, <1>4 DEF CacheTypes
  <1> QED
    BY <1>2, <1>4, <1>5, <1>6, <1>7

\* The line that u waits for.
WaitsFor(c, u) ==
  /\ line'[c].state = "LOADING"
  /\ line'[c].creation = (line[c].creation \/ u = None)
  /\ line'[c].head = IF u = None THEN line[c].head ELSE u
  /\ line[c].head # None => line'[c].tail = line[c].tail
  /\ u # None /\ line[c].head = None => line'[c].tail = u

LEMMA FetchLoadingTakes ==
  ASSUME Types, Held, NEW c \in CID, NEW a \in Addr, NEW u \in Thread \cup {None},
         FetchLoading(c, a, u)
  PROVE  LineTaken(c, a) /\ CacheTypes' /\ WaitsFor(c, u) /\ Hits(a) # {}
  <1> DEFINE n == line[c].references + 1
             h == IF u = None THEN line[c].head ELSE u
             g == IF u # None /\ line[c].head = None THEN u ELSE line[c].tail
             b == line[c].creation \/ u = None
  <1>1. CacheTypes /\ line \in LineTable
    BY DEF Types, CacheTypes
  <1>2. /\ line[c].state = "LOADING" /\ line[c].tag = a /\ Hits(a) # {}
        /\ line' = [line EXCEPT
                  ![c].references = @ + 1,
                  ![c].head = IF u = None THEN @ ELSE u,
                  ![c].tail = IF u # None /\ line[c].head = None THEN u ELSE @,
                  ![c].creation = @ \/ u = None]
        /\ served' = TRUE /\ UNCHANGED <<outgoing, incoming, arrived, reading>>
    BY DEF FetchLoading, Hits, Tagged
  <1>3. line' = [line EXCEPT ![c] = [line[c] EXCEPT !.references = n, !.head = h,
                                                    !.tail = g, !.creation = b]]
    BY <1>1, <1>2 DEF LineTable
  <1>4. n \in Nat /\ h \in Thread \cup {None} /\ g \in Thread \cup {None} /\ b \in BOOLEAN
    BY <1>1 DEF LineTable
  <1> DEFINE r == [line[c] EXCEPT !.references = n, !.head = h, !.tail = g, !.creation = b]
             Row == [state : {"EMPTY", "LOADING", "FULL", "INVALID"},
                     tag : Addr \cup {None}, references : Nat,
                     head : Thread \cup {None}, tail : Thread \cup {None},
                     creation : BOOLEAN, fresh : BOOLEAN]
  <1>5. line[c] \in Row
    BY <1>1 DEF LineTable
  <1>6. /\ r \in Row /\ r.references = n /\ r.head = h /\ r.tail = g /\ r.creation = b
        /\ r.state = line[c].state /\ r.tag = line[c].tag
    <2> HIDE DEF n, h, g, b
    <2> QED
      BY <1>4, <1>5
  <1>7. line' \in LineTable /\ line'[c] = r /\ \A d \in CID : d # c => line'[d] = line[d]
    <2> HIDE DEF r
    <2>1. line' = [line EXCEPT ![c] = r]
      BY <1>3 DEF r
    <2> QED
      BY <1>1, <1>6, <2>1 DEF LineTable
  <1> HIDE DEF r, Row
  <1>8. LineTaken(c, a)
    <2>1. /\ line'[c].references = line[c].references + 1 /\ line'[c].tag = a
          /\ line'[c].state = "LOADING"
      BY <1>2, <1>6, <1>7
    <2> QED
      BY <1>2, <1>7, <2>1 DEF LineTaken
  <1>9. WaitsFor(c, u)
    BY <1>2, <1>6, <1>7 DEF WaitsFor
  <1>10. CacheTypes'
    BY <1>1, <1>2, <1>7 DEF CacheTypes
  <1> QED
    BY <1>2, <1>8, <1>9, <1>10

LEMMA FetchMissTakes ==
  ASSUME Types, Held, NEW c \in CID, NEW a \in Addr, NEW u \in Thread \cup {None},
         FetchMiss(c, a, u)
  PROVE  LineTaken(c, a) /\ CacheTypes' /\ WaitsFor(c, u) /\ Hits(a) = {} /\ line[c].head = None
  <1>1. CacheTypes /\ line \in LineTable
    BY DEF Types, CacheTypes
  <1>2. /\ Hits(a) = {} /\ c \in Victims(a)
        /\ Len(outgoing) < BufferSize /\ outgoing' = Append(outgoing, a)
        /\ line' = [line EXCEPT ![c] = [state |-> "LOADING", tag |-> a, references |-> 1,
                                        head |-> u, tail |-> u, creation |-> u = None,
                                        fresh |-> FALSE]]
        /\ served' = TRUE /\ UNCHANGED <<incoming, arrived, reading>>
    BY DEF FetchMiss
  <1>3. line[c].references = 0
    BY <1>2 DEF Victims, Empties, Held, LinesOK
  <1>4. line[c].head = None /\ line[c].creation = FALSE
    <2>1. line[c].state \in {"EMPTY", "FULL"}
      BY <1>3 DEF Held, LinesOK
    <2> QED
      BY <1>1, <2>1 DEF Held, LinesOK, LineTable
  <1>5. /\ line' \in LineTable
        /\ \A d \in CID : d # c => line'[d] = line[d]
        /\ line'[c].references = 1 /\ line'[c].state = "LOADING" /\ line'[c].tag = a
        /\ line'[c].head = u /\ line'[c].tail = u /\ line'[c].creation = (u = None)
    BY <1>1, <1>2 DEF LineTable
  <1>6. LineTaken(c, a)
    <2>1. line'[c].references = line[c].references + 1
      BY <1>3, <1>5
    <2>2. /\ \A d \in CID : d # c => line'[d] = line[d]
          /\ line'[c].tag = a /\ line'[c].state = "LOADING"
      BY <1>5
    <2> QED
      BY <1>3, <2>1, <2>2 DEF LineTaken
  <1>7. WaitsFor(c, u)
    BY <1>4, <1>5 DEF WaitsFor
  <1>8. outgoing' \in Seq(Addr) /\ Len(outgoing') <= BufferSize
    <2>1. outgoing \in Seq(Addr) /\ Len(outgoing) \in Nat
      BY <1>1 DEF CacheTypes
    <2>2. outgoing' \in Seq(Addr) /\ Len(outgoing') = Len(outgoing) + 1
      BY <1>2, <2>1
    <2> QED
      BY <1>2, <2>1, <2>2, ICacheAssumption
  <1>9. CacheTypes'
    BY <1>1, <1>2, <1>5, <1>8 DEF CacheTypes
  <1> QED
    BY <1>2, <1>4, <1>6, <1>7, <1>9

LEMMA CreateLoadRegspecKeeps ==
  ASSUME IInv, CreateLoadRegspec
  PROVE  IInv'
  <1>1. Types /\ CacheTypes /\ CoreTypes /\ Held /\ line \in LineTable
    BY DEF IInv, Types, CacheTypes
  <1>2. create.state = "LOAD_REGSPEC" /\ UNCHANGED <<thread, list, prevReady, pipe, reg, events>>
    BY DEF CreateLoadRegspec
  <1>3. PICK a \in Addr : create.pc = a
    BY <1>1, <1>2 DEF Held, CreateOK
  <1>4. PICK c \in CID :
         \/ /\ FetchHit(c, a)
            /\ create' = [create EXCEPT !.state = "LINE_LOADED", !.cid = c]
         \/ /\ \/ FetchLoading(c, a, None) \/ FetchMiss(c, a, None)
            /\ create' = [create EXCEPT !.state = "LOADING_LINE"]
    BY <1>3 DEF CreateLoadRegspec
  <1>5. events' \in 0 .. MaxEvents
    BY <1>1, <1>2 DEF CoreTypes
  <1>6. CASE FetchHit(c, a) /\ create' = [create EXCEPT !.state = "LINE_LOADED", !.cid = c]
    <2>1. /\ LineTaken(c, a) /\ CacheTypes'
          /\ line'[c].state = "FULL"
          /\ \A d \in CID : /\ line'[d].head = line[d].head /\ line'[d].tail = line[d].tail
                            /\ line'[d].creation = line[d].creation
          /\ line'[c].head = None /\ ~line'[c].creation
      BY <1>1, <1>6, FetchHitTakes
    <2>2. /\ create'.state = "LINE_LOADED" /\ create'.cid = c /\ create'.pc = a
          /\ create' \in [state : {"IDLE", "LOAD_REGSPEC", "LOADING_LINE", "LINE_LOADED"},
                          pc : Addr \cup {None}, cid : CID \cup {None}]
      BY <1>1, <1>3, <1>6 DEF CoreTypes
    <2>3. line'[c].creation = (line'[c].state = "LOADING")
      <3>1. line'[c].creation \in BOOLEAN
        BY <2>1 DEF CacheTypes, LineTable
      <3> QED
        BY <2>1, <3>1
    <2>4. Held'
      BY <1>1, <1>2, <1>3, <2>1, <2>2, <2>3, HeldCreating
    <2> QED
      BY <1>2, <1>5, <2>1, <2>2, <2>4, CacheOnly
  <1>7. CASE /\ FetchLoading(c, a, None) \/ FetchMiss(c, a, None)
             /\ create' = [create EXCEPT !.state = "LOADING_LINE"]
    <2>1. LineTaken(c, a) /\ CacheTypes' /\ WaitsFor(c, None)
      BY <1>1, <1>7, FetchLoadingTakes, FetchMissTakes
    <2>2. /\ create'.state = "LOADING_LINE" /\ create'.pc = a
          /\ create' \in [state : {"IDLE", "LOAD_REGSPEC", "LOADING_LINE", "LINE_LOADED"},
                          pc : Addr \cup {None}, cid : CID \cup {None}]
      BY <1>1, <1>3, <1>7 DEF CoreTypes
    <2>3. /\ line'[c].state = "LOADING"
          /\ line'[c].creation = (line'[c].state = "LOADING")
          /\ line'[c].head = line[c].head
          /\ line[c].head # None => line'[c].tail = line[c].tail
      BY <2>1 DEF WaitsFor
    <2>4. Held'
      BY <1>1, <1>2, <1>3, <2>1, <2>2, <2>3, HeldCreating
    <2>5. \A d \in CID : /\ line'[d].head = line[d].head
                         /\ line[d].head # None => line'[d].tail = line[d].tail
      BY <2>1, <2>3 DEF LineTaken
    <2> QED
      BY <1>2, <1>5, <2>1, <2>2, <2>4, <2>5, CacheOnly
  <1> QED
    BY <1>4, <1>6, <1>7

\* The creation of a family gives up its line.
LEMMA CreateLineLoadedKeeps ==
  ASSUME IInv, CreateLineLoaded
  PROVE  IInv'
  <1>1. Types /\ CacheTypes /\ CoreTypes /\ Lists /\ Held /\ line \in LineTable
    BY DEF IInv, Types, CacheTypes
  <1>2. /\ create.state = "LINE_LOADED"
        /\ line' = Released(line, create.cid)
        /\ create' = [create EXCEPT !.state = "IDLE", !.pc = None, !.cid = None]
        /\ UNCHANGED <<outgoing, incoming, arrived, served, reading,
                       thread, list, prevReady, pipe, reg, events>>
    BY DEF CreateLineLoaded
  <1>3. PICK c \in CID : create.cid = c
    BY <1>1, <1>2 DEF Held, CreateOK
  <1>4. /\ create'.state = "IDLE"
        /\ create' \in [state : {"IDLE", "LOAD_REGSPEC", "LOADING_LINE", "LINE_LOADED"},
                        pc : Addr \cup {None}, cid : CID \cup {None}]
    BY <1>1, <1>2 DEF CoreTypes
  <1>5. /\ \A d \in CID : ~line[d].creation
        /\ CreationUses(c) /\ \A d \in CID : d # c => ~CreationUses(d)
    BY <1>1, <1>2, <1>3 DEF Held, CreateOK, CreationUses
  <1>6. /\ line[c].references = Cardinality(Users(c)) + 1
        /\ Users(c) \in SUBSET Thread /\ Cardinality(Users(c)) \in Nat
        /\ (Cardinality(Users(c)) = 0 <=> Users(c) = {})
    <2>1. Users(c) \in SUBSET Thread
      BY DEF Users
    <2> QED
      BY <1>1, <1>5, <2>1, UsersFinite DEF Held, ReferencesExact
  <1>7. /\ line' \in LineTable
        /\ line'[c].references = line[c].references - 1
        /\ line'[c].state = IF line[c].references = 1 /\ line[c].state = "INVALID" THEN "EMPTY"
                            ELSE line[c].state
        /\ \A d \in CID : /\ line'[d].tag = line[d].tag /\ line'[d].head = line[d].head
                          /\ line'[d].tail = line[d].tail /\ line'[d].creation = line[d].creation
        /\ \A d \in CID : d # c => line'[d] = line[d]
    <2>1. line[c].references > 0
      BY <1>6
    <2>2. line' = Released(line, c)
      BY <1>2, <1>3
    <2> QED
      BY <1>1, <2>1, <2>2, Releasing
  <1>8. line[c].references = 1 => Users(c) = {}
    BY <1>6
  <1>9. line[c].state \in {"FULL", "INVALID"}
    BY <1>1, <1>2, <1>3 DEF Held, ReadersFindLine
  <1>10. ReferencesExact'
    <2>1. \A d \in CID : ~CreationUses(d)'
      BY <1>4, <1>5, <1>7 DEF CreationUses
    <2>2. \A d \in CID : Users(d)' = Users(d)
      BY <1>2 DEF Users
    <2>3. line'[c].references = Cardinality(Users(c)') + 0
      BY <1>6, <1>7, <2>2
    <2>4. \A d \in CID : d # c => line'[d].references = Cardinality(Users(d)') + 0
      BY <1>1, <1>5, <1>7, <2>2 DEF Held, ReferencesExact
    <2> QED
      BY <2>1, <2>3, <2>4 DEF ReferencesExact
  <1>11. ReadersFindLine'
    <2>1. ASSUME NEW x \in Thread, thread[x].state \in {"ACTIVE", "RUNNING"}
          PROVE  /\ line'[thread[x].cid].state \in {"FULL", "INVALID"}
                 /\ line'[thread[x].cid].tag = thread[x].pc
      <3>1. PICK d \in CID : d = thread[x].cid /\ x \in Users(d)
        BY <1>1, <2>1 DEF Held, ThreadsOK, Using, Users
      <3>2. line[d].state \in {"FULL", "INVALID"} /\ line[d].tag = thread[x].pc
        BY <1>1, <2>1, <3>1 DEF Held, ReadersFindLine, InState
      <3>3. d = c => line[c].references # 1
        BY <1>8, <3>1
      <3> QED
        BY <1>7, <3>1, <3>2, <3>3
    <2> QED
      BY <1>2, <1>4, <2>1 DEF ReadersFindLine, InState
  <1>12. ThreadsOK'
    <2>1. \A x \in Thread : thread[x].state = "WAITING" => line'[thread[x].cid].tag = thread[x].pc
      BY <1>1, <1>7 DEF Held, ThreadsOK, Using
    <2> QED
      BY <1>1, <1>2, <2>1 DEF Held, ThreadsOK, Using
  <1>13. LinesOK'
    <2>1. line[c].head # None => line[c].references # 1
      <3>1. Strung(NextOf(thread), line[c].head, line[c].tail, Waiters(c))
        BY <1>1 DEF Lists, Listed
      <3>2. line[c].head # None => Waiters(c) # {}
        BY <3>1, StrungEnds
      <3>3. Waiters(c) \subseteq Users(c)
        BY DEF Waiters, Users
      <3> QED
        BY <1>8, <3>2, <3>3
    <2>2. ASSUME NEW d \in CID, d # c
          PROVE  /\ line'[d].references = 0 => line'[d].state \in {"EMPTY", "FULL"}
                 /\ line'[d].state = "EMPTY" => line'[d].references = 0
                 /\ line'[d].head # None \/ line'[d].creation => line'[d].state \in {"LOADING", "INVALID"}
      BY <1>1, <1>7, <2>2 DEF Held, LinesOK
    <2>3. /\ line'[c].references = 0 => line'[c].state \in {"EMPTY", "FULL"}
          /\ line'[c].state = "EMPTY" => line'[c].references = 0
      BY <1>6, <1>7, <1>9
    <2>4. line'[c].head # None \/ line'[c].creation => line'[c].state \in {"LOADING", "INVALID"}
      BY <1>1, <1>5, <1>7, <2>1 DEF Held, LinesOK
    <2> QED
      BY <2>2, <2>3, <2>4 DEF LinesOK
  <1>14. CreateOK'
    BY <1>4, <1>5, <1>7 DEF CreateOK
  <1>15. Held'
    BY <1>10, <1>11, <1>12, <1>13, <1>14 DEF Held
  <1>16. CacheTypes' /\ events' \in 0 .. MaxEvents
    BY <1>1, <1>2, <1>7 DEF CacheTypes, CoreTypes
  <1> QED
    BY <1>2, <1>4, <1>7, <1>15, <1>16, CacheOnly

-----------------------------------------------------------------------------
(* Threads that become active or wait for a line                            *)

BecameActive(M, threads) ==
  /\ Lists' /\ thread' \in ThreadTable /\ list' \in ListTable
  /\ \A x \in Thread : /\ thread'[x].state = IF x \in M THEN "ACTIVE" ELSE thread[x].state
                       /\ thread'[x].cid = threads[x].cid /\ thread'[x].pc = threads[x].pc
                       /\ thread'[x].waitingForWrites = threads[x].waitingForWrites

\* The ready lists k, without t.
ReadyLeft(k, S, T, M) ==
  /\ S \cap T = {} /\ S \cup T = InState("READY") \ M
  /\ Strung(NextOf(thread), k["pipe"].head, k["pipe"].tail, S)
  /\ Strung(NextOf(thread), k["other"].head, k["other"].tail, T)
  /\ k["active"] = list["active"]

\* The threads of M get active: they were ready, or they are all that waited for a
\* line.  k are the lists after ready threads were taken out.
LEMMA GettingActive ==
  ASSUME Lists, thread \in ThreadTable, list \in ListTable,
         NEW M \in SUBSET Thread, M # {}, \A x \in M : thread[x].state \in {"READY", "WAITING"},
         NEW threads \in ThreadTable, \A x \in Thread : x \notin M => threads[x] = thread[x],
         NEW h, NEW g, Strung(NextOf(threads), h, g, M),
         NEW k \in ListTable, NEW S \in SUBSET Thread, NEW T \in SUBSET Thread, ReadyLeft(k, S, T, M),
         thread' = QueueThreads(threads, "active", h, g, "ACTIVE"),
         list' = Queued(k, "active", h, g), reg' = reg,
         \A c \in CID :
           \/ M \cap Waiters(c) = {} /\ line'[c].head = line[c].head /\ line'[c].tail = line[c].tail
           \/ M = Waiters(c) /\ line'[c].head = None
  PROVE  BecameActive(M, threads)
  <1>1. PICK S0 \in SUBSET Thread, T0 \in SUBSET Thread : Listed(S0, T0)
    BY DEF Lists
  <1> DEFINE Q == InState("ACTIVE")
             D == M \cup Q
             j == Queued(list, "active", h, g)
  <1>2. Q \in SUBSET Thread /\ M \cap Q = {} /\ \A x \in Q : thread[x].state = "ACTIVE"
    BY DEF InState
  <1>3. Strung(NextOf(threads), list["active"].head, list["active"].tail, Q)
    <2>1. Strung(NextOf(thread), list["active"].head, list["active"].tail, Q)
      BY <1>1 DEF Listed
    <2>2. \A x \in Q : NextOf(threads)[x] = NextOf(thread)[x]
      BY <1>2 DEF NextOf
    <2> HIDE DEF Q
    <2> QED
      BY <2>1, <2>2, StrungKept
  <1>4. Joined(thread', j, threads, "active", "ACTIVE", M, Q)
    <2>1. "active" \in Places /\ "ACTIVE" \in ThreadState
      BY DEF Places, ThreadState
    <2>2. thread' = QueueThreads(threads, "active", h, g, "ACTIVE")
      OBVIOUS
    <2>3. j = Queued(list, "active", h, g)
      OBVIOUS
    <2>4. Strung(NextOf(threads), h, g, M)
      OBVIOUS
    <2> HIDE DEF Q, j
    <2> QED
      BY <1>2, <1>3, <2>1, <2>2, <2>3, <2>4, Queueing
  <1>5. /\ thread' \in ThreadTable
        /\ \A x \in Thread : /\ thread'[x].state = IF x \in M THEN "ACTIVE" ELSE threads[x].state
                             /\ thread'[x].cid = threads[x].cid /\ thread'[x].pc = threads[x].pc
                             /\ thread'[x].waitingForWrites = threads[x].waitingForWrites
        /\ \A x \in Thread : x \notin Q => NextOf(thread')[x] = NextOf(threads)[x]
        /\ Strung(NextOf(thread'), j["active"].head, j["active"].tail, M \cup Q)
    <2> HIDE DEF Q, j
    <2> QED
      BY <1>4 DEF Joined
  <1>6. /\ list' \in ListTable /\ list'["active"] = j["active"]
        /\ list'["pipe"] = k["pipe"] /\ list'["other"] = k["other"]
    <2>1. h \in Thread /\ g \in Thread
      BY StrungEnds
    <2>2. k["active"] = list["active"]
      BY DEF ReadyLeft
    <2> QED
      BY <2>1, <2>2 DEF Queued, ListTable, ListType, Places
  <1>7. \A x \in Thread : thread'[x].state = IF x \in M THEN "ACTIVE" ELSE thread[x].state
    BY <1>5
  <1>8. ASSUME NEW x \in Thread, x \notin D PROVE SameThread(x)
    <2>1. x \notin M /\ x \notin Q /\ threads[x] = thread[x]
      BY <1>8
    <2> HIDE DEF Q, D
    <2>2. thread'[x].next = thread[x].next
      BY <1>5, <2>1 DEF NextOf
    <2> QED
      BY <1>5, <2>1, <2>2 DEF SameThread
  <1>9. \A x \in D : /\ thread[x].state = "ACTIVE" \/ x \in M
                     /\ thread'[x].state = "ACTIVE"
    BY <1>2, <1>7
  <1>10. InState("ACTIVE")' = M \cup Q
    BY <1>7 DEF InState
  <1>11. InState("READY")' = S \cup T /\ S \cap T = {} /\ D \cap S = {} /\ D \cap T = {}
    <2>1. InState("READY")' = InState("READY") \ M
      BY <1>7 DEF InState
    <2>2. S \cup T = InState("READY") \ M /\ S \cap T = {}
      BY DEF ReadyLeft
    <2>3. \A x \in S \cup T : x \notin M /\ thread[x].state = "READY"
      BY <2>2 DEF InState
    <2> QED
      BY <1>2, <2>1, <2>2, <2>3
  <1>12. /\ Strung(NextOf(thread'), list'["pipe"].head, list'["pipe"].tail, S)
         /\ Strung(NextOf(thread'), list'["other"].head, list'["other"].tail, T)
    <2>1. \A x \in S \cup T : NextOf(thread')[x] = NextOf(thread)[x]
      <3>1. \A x \in S \cup T : x \notin D /\ x \in Thread
        BY <1>11
      <3> HIDE DEF D
      <3> QED
        BY <1>8, <3>1 DEF SameThread, NextOf
    <2>2. /\ Strung(NextOf(thread), k["pipe"].head, k["pipe"].tail, S)
          /\ Strung(NextOf(thread), k["other"].head, k["other"].tail, T)
      BY DEF ReadyLeft
    <2>3. \A x \in S : NextOf(thread')[x] = NextOf(thread)[x]
      BY <2>1
    <2>4. \A x \in T : NextOf(thread')[x] = NextOf(thread)[x]
      BY <2>1
    <2> QED
      BY <1>6, <2>2, <2>3, <2>4, StrungKept
  <1>13. Strung(NextOf(thread'), list'["active"].head, list'["active"].tail, InState("ACTIVE")')
    BY <1>5, <1>6, <1>10
  <1>14. ASSUME NEW c \in CID
         PROVE  Strung(NextOf(thread'), line'[c].head, line'[c].tail, Waiters(c)')
    <2>1. CASE M \cap Waiters(c) = {} /\ line'[c].head = line[c].head /\ line'[c].tail = line[c].tail
      <3>1. D \cap (Waiters(c) \cup Waiters(c)') = {}
        BY <1>9, <2>1 DEF Waiters
      <3> HIDE DEF D
      <3>2. Waiters(c)' = Waiters(c) /\ Strung(NextOf(thread'), line[c].head, line[c].tail, Waiters(c))
        BY <1>1, <1>8, <3>1, ListsKept
      <3> QED
        BY <2>1, <3>2
    <2>2. CASE M = Waiters(c) /\ line'[c].head = None
      <3>1. \A x \in Thread : x \notin M => thread'[x].cid = thread[x].cid
        BY <1>5
      <3>2. Waiters(c)' = {}
        BY <1>7, <2>2, <3>1 DEF Waiters
      <3> QED
        BY <2>2, <3>2, StrungNone
    <2> QED
      BY <2>1, <2>2
  <1>15. Strung(NextOf(thread'), reg'.head, reg'.tail, Sleepers')
    <2>1. D \cap (Sleepers \cup Sleepers') = {}
      BY <1>9 DEF Sleepers
    <2> HIDE DEF D
    <2>2. Sleepers' = Sleepers /\ Strung(NextOf(thread'), reg.head, reg.tail, Sleepers)
      BY <1>1, <1>8, <2>1, ListsKept
    <2> QED
      BY <2>2
  <1>16. Listed(S, T)'
    BY <1>11, <1>12, <1>13, <1>14, <1>15 DEF Listed
  <1> QED
    BY <1>5, <1>6, <1>7, <1>16 DEF Lists, BecameActive

\* The head of a ready list is taken out.
LEMMA PoppingReady ==
  ASSUME Lists, thread \in ThreadTable, list \in ListTable, NEW l \in {"pipe", "other"},
         NEW t \in Thread, list[l].head = t, NEW k, k = Popped(l)
  PROVE  /\ thread[t].state = "READY" /\ k \in ListTable
         /\ \E S, T \in SUBSET Thread : ReadyLeft(k, S, T, {t})
  <1>1. PICK S \in SUBSET Thread, T \in SUBSET Thread : Listed(S, T)
    BY DEF Lists
  <1>2. /\ S \cap T = {} /\ S \cup T = InState("READY")
        /\ Strung(NextOf(thread), list["pipe"].head, list["pipe"].tail, S)
        /\ Strung(NextOf(thread), list["other"].head, list["other"].tail, T)
    BY <1>1 DEF Listed
  <1>3. l \in Places
    BY DEF Places
  <1>4. t # None
    BY ICacheAssumption
  <1>5. CASE l = "pipe"
    <2>1. S # {}
      BY <1>2, <1>4, <1>5, StrungEnds
    <2>2. /\ k \in ListTable /\ t \in S
          /\ Strung(NextOf(thread), k["pipe"].head, k["pipe"].tail, S \ {t})
          /\ \A m \in Places : m # l => k[m] = list[m]
      <3>1. Strung(NextOf(thread), list[l].head, list[l].tail, S)
        BY <1>2, <1>5
      <3>2. /\ k \in ListTable /\ list[l].head \in S
            /\ Strung(NextOf(thread), k[l].head, k[l].tail, S \ {list[l].head})
            /\ \A m \in Places : m # l => k[m] = list[m]
        BY <1>3, <2>1, <3>1, Popping
      <3> QED
        BY <1>5, <3>2
    <2>3. k["other"] = list["other"] /\ k["active"] = list["active"]
      BY <1>5, <2>2 DEF Places
    <2>4. (S \ {t}) \cap T = {} /\ (S \ {t}) \cup T = InState("READY") \ {t}
      BY <1>2, <2>2
    <2>5. ReadyLeft(k, S \ {t}, T, {t})
      BY <1>2, <2>2, <2>3, <2>4 DEF ReadyLeft
    <2> QED
      BY <1>2, <2>2, <2>5 DEF InState
  <1>6. CASE l = "other"
    <2>1. T # {}
      BY <1>2, <1>4, <1>6, StrungEnds
    <2>2. /\ k \in ListTable /\ t \in T
          /\ Strung(NextOf(thread), k["other"].head, k["other"].tail, T \ {t})
          /\ \A m \in Places : m # l => k[m] = list[m]
      <3>1. Strung(NextOf(thread), list[l].head, list[l].tail, T)
        BY <1>2, <1>6
      <3>2. /\ k \in ListTable /\ list[l].head \in T
            /\ Strung(NextOf(thread), k[l].head, k[l].tail, T \ {list[l].head})
            /\ \A m \in Places : m # l => k[m] = list[m]
        BY <1>3, <2>1, <3>1, Popping
      <3> QED
        BY <1>6, <3>2
    <2>3. k["pipe"] = list["pipe"] /\ k["active"] = list["active"]
      BY <1>6, <2>2 DEF Places
    <2>4. S \cap (T \ {t}) = {} /\ S \cup (T \ {t}) = InState("READY") \ {t}
      BY <1>2, <2>2
    <2>5. ReadyLeft(k, S, T \ {t}, {t})
      BY <1>2, <2>2, <2>3, <2>4 DEF ReadyLeft
    <2> QED
      BY <1>2, <2>2, <2>5 DEF InState
  <1> QED
    BY <1>5, <1>6

LEMMA ActivateHitKeeps ==
  ASSUME IInv, ActivateHit
  PROVE  IInv'
  <1>1. Types /\ CacheTypes /\ CoreTypes /\ Lists /\ Piped /\ RegOK /\ Held
        /\ thread \in ThreadTable /\ list \in ListTable /\ line \in LineTable
    BY DEF IInv, Types, CacheTypes
  <1>2. PICK l \in {"pipe", "other"} : l = ReadyList
    BY DEF ReadyList
  <1>3. PICK t \in Thread : t = list[l].head
    BY <1>1, <1>2 DEF ActivateHit, ListTable, ListType, Places
  <1>4. PICK c \in CID :
          /\ FetchHit(c, thread[t].pc)
          /\ list' = Queued(Popped(l), "active", t, t)
          /\ thread' = QueueThreads([thread EXCEPT ![t].cid = c], "active", t, t, "ACTIVE")
    BY <1>2, <1>3 DEF ActivateHit
  <1>5. prevReady' = l /\ UNCHANGED <<pipe, reg, create, events>>
    BY <1>2 DEF ActivateHit
  <1> DEFINE k == Popped(l)
             threads == [thread EXCEPT ![t].cid = c]
             M == {t}
  <1>6. /\ thread[t].state = "READY" /\ k \in ListTable
        /\ \E S, T \in SUBSET Thread : ReadyLeft(k, S, T, M)
    BY <1>1, <1>3, PoppingReady
  <1>7. PICK S \in SUBSET Thread, T \in SUBSET Thread : ReadyLeft(k, S, T, M)
    BY <1>6
  <1>8. PICK a \in Addr : thread[t].pc = a
    BY <1>1, <1>6 DEF Held, ThreadsOK
  <1>9. /\ LineTaken(c, a) /\ CacheTypes'
        /\ line'[c].state = "FULL"
        /\ \A d \in CID : /\ line'[d].head = line[d].head /\ line'[d].tail = line[d].tail
                          /\ line'[d].creation = line[d].creation
        /\ line'[c].head = None /\ ~line'[c].creation
    BY <1>1, <1>4, <1>8, FetchHitTakes
  <1>10. /\ threads \in ThreadTable
         /\ \A x \in Thread : x \notin M => threads[x] = thread[x]
         /\ threads[t].cid = c /\ threads[t].pc = a
         /\ threads[t].waitingForWrites = thread[t].waitingForWrites
    BY <1>1, <1>8, Retyped DEF ThreadTable
  <1>11. M \in SUBSET Thread /\ M # {} /\ Strung(NextOf(threads), t, t, M)
         /\ \A x \in M : thread[x].state \in {"READY", "WAITING"}
    BY <1>6, StrungOne
  <1>12. \A d \in CID :
            \/ M \cap Waiters(d) = {} /\ line'[d].head = line[d].head /\ line'[d].tail = line[d].tail
            \/ M = Waiters(d) /\ line'[d].head = None
    BY <1>6, <1>9 DEF Waiters
  <1>13. /\ thread' = QueueThreads(threads, "active", t, t, "ACTIVE")
         /\ list' = Queued(k, "active", t, t)
    BY <1>4
  <1>14. BecameActive(M, threads)
    <2> HIDE DEF k, threads, M
    <2> QED
      BY <1>1, <1>5, <1>6, <1>7, <1>10, <1>11, <1>12, <1>13, GettingActive
  <1> HIDE DEF k, threads
  <1>15. /\ thread'[t].state = "ACTIVE" /\ thread'[t].cid = c /\ thread'[t].pc = a
         /\ thread'[t].waitingForWrites = thread[t].waitingForWrites
         /\ \A x \in Thread : x # t =>
               /\ thread'[x].state = thread[x].state /\ thread'[x].cid = thread[x].cid
               /\ thread'[x].pc = thread[x].pc
               /\ thread'[x].waitingForWrites = thread[x].waitingForWrites
    BY <1>10, <1>14 DEF BecameActive
  <1>16. Held'
    BY <1>1, <1>5, <1>6, <1>8, <1>9, <1>15, HeldTaken
  <1>17. Piped'
    BY <1>1, <1>5, <1>6, <1>15, PipedKept
  <1>18. Types'
    BY <1>1, <1>5, <1>9, <1>14 DEF Types, CoreTypes, BecameActive
  <1>19. RegOK'
    BY <1>1, <1>5 DEF RegOK
  <1> QED
    BY <1>14, <1>16, <1>17, <1>18, <1>19 DEF IInv, BecameActive

LEMMA ActivateMissKeeps ==
  ASSUME IInv, ActivateMiss
  PROVE  IInv'
  <1>1. Types /\ CacheTypes /\ CoreTypes /\ Lists /\ Piped /\ RegOK /\ Held
        /\ thread \in ThreadTable /\ list \in ListTable /\ line \in LineTable
    BY DEF IInv, Types, CacheTypes
  <1>2. PICK l \in {"pipe", "other"} : l = ReadyList
    BY DEF ReadyList
  <1>3. PICK t \in Thread : t = list[l].head
    BY <1>1, <1>2 DEF ActivateMiss, ListTable, ListType, Places
  <1>4. PICK c \in CID :
          /\ FetchLoading(c, thread[t].pc, t) \/ FetchMiss(c, thread[t].pc, t)
          /\ thread' = [thread EXCEPT ![t].cid = c, ![t].state = "WAITING",
                           ![t].next = IF Hits(thread[t].pc) = {} THEN None ELSE line[c].head]
    BY <1>2, <1>3 DEF ActivateMiss
  <1>5. list' = Popped(l) /\ prevReady' = l /\ UNCHANGED <<pipe, reg, create, events>>
    BY <1>2 DEF ActivateMiss
  <1>6. /\ thread[t].state = "READY" /\ list' \in ListTable
        /\ \E S, T \in SUBSET Thread : ReadyLeft(list', S, T, {t})
    BY <1>1, <1>3, <1>5, PoppingReady
  <1>7. PICK S \in SUBSET Thread, T \in SUBSET Thread : ReadyLeft(list', S, T, {t})
    BY <1>6
  <1>8. PICK a \in Addr : thread[t].pc = a
    BY <1>1, <1>6 DEF Held, ThreadsOK
  <1>9. /\ LineTaken(c, a) /\ CacheTypes' /\ WaitsFor(c, t)
        /\ Hits(a) = {} => line[c].head = None
    BY <1>1, <1>4, <1>8, FetchLoadingTakes, FetchMissTakes
  <1>10. thread' = [[[thread EXCEPT ![t].cid = c] EXCEPT ![t].state = "WAITING"]
                                     EXCEPT ![t].next = line[c].head]
    <2>1. line[c].head = IF Hits(thread[t].pc) = {} THEN None ELSE line[c].head
      BY <1>8, <1>9
    <2> QED
      BY <1>1, <1>4, <2>1 DEF ThreadTable
  <1>11. thread' \in ThreadTable
    <2> DEFINE f == [thread EXCEPT ![t].cid = c]
               g == [f EXCEPT ![t].state = "WAITING"]
    <2>1. f \in ThreadTable
      BY <1>1, Retyped
    <2>2. thread' = [g EXCEPT ![t].next = line[c].head]
      BY <1>10
    <2> HIDE DEF f
    <2>3. g \in ThreadTable
      BY <2>1, Retyped DEF ThreadState
    <2>4. line[c].head \in Thread \cup {None}
      BY <1>1 DEF LineTable
    <2> HIDE DEF g
    <2> QED
      BY <2>2, <2>3, <2>4, Retyped
  <1>12. /\ \A x \in Thread : x # t => thread'[x] = thread[x]
         /\ thread'[t].state = "WAITING" /\ thread'[t].cid = c /\ thread'[t].pc = a
         /\ thread'[t].waitingForWrites = thread[t].waitingForWrites
         /\ thread'[t].next = line[c].head
    BY <1>1, <1>8, <1>10 DEF ThreadTable
  <1>13. /\ line'[c].state = "LOADING" /\ line'[c].creation = line[c].creation
         /\ line'[c].head = t
         /\ line'[c].tail = IF line[c].head = None THEN t ELSE line[c].tail
         /\ \A d \in CID : d # c => line'[d] = line[d]
    <2>1. t # None
      BY ICacheAssumption
    <2>2. line[c].creation \in BOOLEAN
      BY <1>1 DEF LineTable
    <2> QED
      BY <1>9, <2>1, <2>2 DEF WaitsFor, LineTaken
  <1>14. Held'
    BY <1>1, <1>5, <1>6, <1>8, <1>9, <1>12, <1>13, HeldTaken
  <1>15. Lists'
    <2> DEFINE D == {t}
    <2>1. PICK S0 \in SUBSET Thread, T0 \in SUBSET Thread : Listed(S0, T0)
      BY <1>1 DEF Lists
    <2>2. \A x \in Thread : x \notin D => SameThread(x)
      BY <1>12 DEF SameThread
    <2>3. D \cap (InState("ACTIVE") \cup InState("ACTIVE")') = {}
      BY <1>6, <1>12 DEF InState
    <2>4. \A d \in CID : d # c => D \cap (Waiters(d) \cup Waiters(d)') = {}
      BY <1>6, <1>12 DEF Waiters
    <2>5. D \cap (Sleepers \cup Sleepers') = {}
      BY <1>6, <1>12 DEF Sleepers
    <2>6. /\ S \cap T = {} /\ S \cup T = InState("READY") \ {t} /\ list'["active"] = list["active"]
          /\ Strung(NextOf(thread), list'["pipe"].head, list'["pipe"].tail, S)
          /\ Strung(NextOf(thread), list'["other"].head, list'["other"].tail, T)
      BY <1>7 DEF ReadyLeft
    <2>7. S \cup T = InState("READY")'
      BY <1>6, <1>12, <2>6 DEF InState
    <2>8. \A x \in Thread : x # t => NextOf(thread')[x] = NextOf(thread)[x]
      BY <1>12 DEF NextOf
    <2>9. /\ Strung(NextOf(thread'), list'["pipe"].head, list'["pipe"].tail, S)
          /\ Strung(NextOf(thread'), list'["other"].head, list'["other"].tail, T)
      <3>1. \A x \in S : NextOf(thread')[x] = NextOf(thread)[x]
        BY <2>6, <2>8
      <3>2. \A x \in T : NextOf(thread')[x] = NextOf(thread)[x]
        BY <2>6, <2>8
      <3> QED
        BY <2>6, <3>1, <3>2, StrungKept
    <2>10. Strung(NextOf(thread), line[c].head, line[c].tail, Waiters(c))
      BY <2>1 DEF Listed
    <2>11. t \notin Waiters(c) /\ Waiters(c) \subseteq Thread /\ Waiters(c)' = {t} \cup Waiters(c)
      BY <1>6, <1>12 DEF Waiters
    <2>12. Strung(NextOf(thread'), line[c].head, line[c].tail, Waiters(c))
      <3>1. \A x \in Waiters(c) : NextOf(thread')[x] = NextOf(thread)[x]
        BY <2>8, <2>11
      <3> QED
        BY <2>10, <3>1, StrungKept
    <2>13. Strung(NextOf(thread'), t, t, {t})
      BY StrungOne
    <2>14. Strung(NextOf(thread'), line'[c].head, line'[c].tail, Waiters(c)')
      <3>1. CASE line[c].head = None
        <4>1. Waiters(c) = {}
          BY <2>10, <3>1, StrungEnds
        <4>2. Waiters(c)' = {t} /\ line'[c].head = t /\ line'[c].tail = t
          BY <1>13, <2>11, <3>1, <4>1
        <4> QED
          BY <2>13, <4>2
      <3>2. CASE line[c].head # None
        <4>1. Waiters(c) # {}
          BY <2>10, <3>2, StrungEnds
        <4>2. NextOf(thread')[t] = line[c].head
          BY <1>12 DEF NextOf
        <4>3. {t} \cap Waiters(c) = {} /\ {t} # {}
          BY <2>11
        <4>4. Strung(NextOf(thread'), t, line[c].tail, {t} \cup Waiters(c))
          BY <2>12, <2>13, <4>1, <4>2, <4>3, StrungJoin
        <4> QED
          BY <1>13, <2>11, <3>2, <4>4
      <3> QED
        BY <3>1, <3>2
    <2> HIDE DEF D
    <2>15. /\ InState("ACTIVE")' = InState("ACTIVE")
           /\ Strung(NextOf(thread'), list["active"].head, list["active"].tail, InState("ACTIVE"))
           /\ \A d \in CID : d # c =>
                /\ Waiters(d)' = Waiters(d)
                /\ Strung(NextOf(thread'), line[d].head, line[d].tail, Waiters(d))
           /\ Sleepers' = Sleepers
           /\ Strung(NextOf(thread'), reg.head, reg.tail, Sleepers)
      BY <2>1, <2>2, <2>3, <2>4, <2>5, ListsKept
    <2>16. \A d \in CID : Strung(NextOf(thread'), line'[d].head, line'[d].tail, Waiters(d)')
      BY <1>13, <2>14, <2>15
    <2>17. Listed(S, T)'
      BY <1>5, <2>6, <2>7, <2>9, <2>15, <2>16 DEF Listed
    <2> QED
      BY <2>17 DEF Lists
  <1>16. Piped'
    BY <1>1, <1>5, <1>6, <1>12, PipedKept
  <1>17. Types'
    BY <1>1, <1>5, <1>6, <1>9, <1>11 DEF Types, CoreTypes
  <1>18. RegOK'
    BY <1>1, <1>5 DEF RegOK
  <1> QED
    BY <1>14, <1>15, <1>16, <1>17, <1>18 DEF IInv

\* A line has come in: who waited for it has it.
LEMMA HeldLoaded ==
  ASSUME Held, Types, NEW c \in CID,
         \A d \in CID : d # c => line'[d] = line[d],
         line'[c].state = "FULL", line'[c].tag = line[c].tag,
         line'[c].references = line[c].references,
         line'[c].head = None, line'[c].creation = FALSE,
         create' = IF line[c].creation THEN [create EXCEPT !.state = "LINE_LOADED", !.cid = c]
                   ELSE create,
         \A x \in Thread :
           /\ thread'[x].state = IF x \in Waiters(c) THEN "ACTIVE" ELSE thread[x].state
           /\ thread'[x].cid = thread[x].cid /\ thread'[x].pc = thread[x].pc
           /\ thread'[x].waitingForWrites = thread[x].waitingForWrites
  PROVE  Held'
  <1>1. /\ line[c].creation => create'.state = "LINE_LOADED" /\ create'.cid = c /\ create'.pc = create.pc
        /\ ~line[c].creation => create' = create
    BY DEF Types, CoreTypes
  <1>2. \A d \in CID : CreationUses(d)' <=> CreationUses(d)
    <2>1. CASE line[c].creation
      <3>1. create.state = "LOADING_LINE" /\ \A d \in CID : line[d].creation => d = c
        BY <2>1 DEF Held, CreateOK
      <3> QED
        BY <1>1, <2>1, <3>1 DEF CreationUses
    <2>2. CASE ~line[c].creation
      BY <1>1, <2>2 DEF CreationUses
    <2> QED
      BY <2>1, <2>2
  <1>3. ReferencesExact'
    <2>1. \A d \in CID : Users(d)' = Users(d)
      BY DEF Users, Waiters
    <2>2. \A d \in CID : line'[d].references = line[d].references
      OBVIOUS
    <2> QED
      BY <1>2, <2>1, <2>2 DEF Held, ReferencesExact
  <1>4. ReadersFindLine'
    <2>1. ASSUME NEW x \in Thread, thread'[x].state \in {"ACTIVE", "RUNNING"}
          PROVE  /\ line'[thread[x].cid].state \in {"FULL", "INVALID"}
                 /\ line'[thread[x].cid].tag = thread[x].pc
      <3>1. CASE x \in Waiters(c)
        <4>1. thread[x].cid = c /\ line[c].tag = thread[x].pc
          BY <3>1 DEF Waiters, Held, ThreadsOK
        <4> QED
          BY <4>1
      <3>2. CASE x \notin Waiters(c)
        <4>1. thread[x].state \in {"ACTIVE", "RUNNING"}
          BY <2>1, <3>2
        <4>2. PICK d \in CID : d = thread[x].cid
          BY <4>1 DEF Held, ThreadsOK, Using
        <4>3. line[d].state \in {"FULL", "INVALID"} /\ line[d].tag = thread[x].pc
          BY <4>1, <4>2 DEF Held, ReadersFindLine, InState
        <4> QED
          BY <4>2, <4>3
      <3> QED
        BY <3>1, <3>2
    <2>2. ASSUME create'.state = "LINE_LOADED"
          PROVE  /\ line'[create'.cid].state \in {"FULL", "INVALID"}
                 /\ line'[create'.cid].tag = create'.pc
      <3>1. CASE line[c].creation
        <4>1. line[c].tag = create.pc
          BY <3>1 DEF Held, CreateOK
        <4> QED
          BY <1>1, <3>1, <4>1
      <3>2. CASE ~line[c].creation
        <4>1. create' = create
          BY <1>1, <3>2
        <4>2. PICK d \in CID : d = create.cid
          BY <2>2, <4>1 DEF Held, CreateOK
        <4>3. line[d].state \in {"FULL", "INVALID"} /\ line[d].tag = create.pc
          BY <2>2, <4>1, <4>2 DEF Held, ReadersFindLine
        <4> QED
          BY <4>1, <4>2, <4>3
      <3> QED
        BY <3>1, <3>2
    <2> QED
      BY <2>1, <2>2 DEF ReadersFindLine, InState
  <1>5. ThreadsOK'
    <2>1. ASSUME NEW x \in Thread
          PROVE  /\ Using(x)' => thread'[x].cid \in CID
                 /\ Using(x)' \/ thread'[x].state \in {"READY", "SUSPENDED"} => thread'[x].pc \in Addr
                 /\ thread'[x].state = "WAITING" => line'[thread'[x].cid].tag = thread'[x].pc
                 /\ thread'[x].waitingForWrites => thread'[x].state = "SUSPENDED"
      <3>1. CASE x \in Waiters(c)
        <4>1. thread[x].state = "WAITING" /\ thread'[x].state = "ACTIVE"
          BY <3>1 DEF Waiters
        <4> QED
          BY <4>1 DEF Held, ThreadsOK, Using
      <3>2. CASE x \notin Waiters(c)
        <4>1. thread'[x].state = thread[x].state
          BY <3>2
        <4>2. thread[x].state = "WAITING" => thread[x].cid \in CID /\ line[thread[x].cid].tag = thread[x].pc
          BY DEF Held, ThreadsOK, Using
        <4> QED
          BY <4>1, <4>2 DEF Held, ThreadsOK, Using
      <3> QED
        BY <3>1, <3>2
    <2> QED
      BY <2>1 DEF ThreadsOK
  <1>6. LinesOK'
    <2>1. ASSUME NEW d \in CID, d # c
          PROVE  /\ line'[d].references = 0 => line'[d].state \in {"EMPTY", "FULL"}
                 /\ line'[d].state = "EMPTY" => line'[d].references = 0
                 /\ line'[d].head # None \/ line'[d].creation => line'[d].state \in {"LOADING", "INVALID"}
      BY <2>1 DEF Held, LinesOK
    <2> QED
      BY <2>1 DEF LinesOK
  <1>7. CreateOK'
    <2>1. CASE line[c].creation
      <3>1. /\ \A d \in CID : ~line'[d].creation
            /\ create.pc \in Addr
        BY <2>1 DEF Held, CreateOK
      <3> QED
        BY <1>1, <2>1, <3>1 DEF CreateOK
    <2>2. CASE ~line[c].creation
      <3>1. \A d \in CID : /\ line'[d].creation <=> line[d].creation
                           /\ line'[d].tag = line[d].tag
        BY <2>2
      <3> QED
        BY <1>1, <2>2, <3>1 DEF Held, CreateOK
    <2> QED
      BY <2>1, <2>2
  <1> QED
    BY <1>3, <1>4, <1>5, <1>6, <1>7 DEF Held

LEMMA DoIncomingKeeps ==
  ASSUME IInv, DoIncoming
  PROVE  IInv'
  <1>1. Types /\ CacheTypes /\ CoreTypes /\ Lists /\ Piped /\ RegOK /\ Held
        /\ thread \in ThreadTable /\ list \in ListTable /\ line \in LineTable
    BY DEF IInv, Types, CacheTypes
  <1>2. incoming # <<>> /\ incoming \in Seq(CID)
    BY <1>1 DEF DoIncoming, CacheTypes
  <1>3. PICK c \in CID : c = Head(incoming)
    BY <1>2
  <1>4. /\ incoming' = Tail(incoming) /\ served' = TRUE
        /\ line' = [line EXCEPT ![c].state = "FULL", ![c].creation = FALSE,
                                ![c].head = None, ![c].tail = None]
        /\ create' = IF line[c].creation THEN [create EXCEPT !.state = "LINE_LOADED", !.cid = c]
                     ELSE create
        /\ IF line[c].head = None THEN UNCHANGED <<thread, list>>
           ELSE /\ thread' = QueueThreads(thread, "active", line[c].head, line[c].tail, "ACTIVE")
                /\ list' = Queued(list, "active", line[c].head, line[c].tail)
        /\ UNCHANGED <<outgoing, arrived, reading, prevReady, pipe, reg, events>>
    BY <1>3 DEF DoIncoming
  <1>5. /\ line' \in LineTable
        /\ \A d \in CID : d # c => line'[d] = line[d]
        /\ line'[c].state = "FULL" /\ line'[c].tag = line[c].tag
        /\ line'[c].references = line[c].references
        /\ line'[c].head = None /\ line'[c].tail = None /\ line'[c].creation = FALSE
    <2> DEFINE r == [line[c] EXCEPT !.state = "FULL", !.creation = FALSE, !.head = None, !.tail = None]
    <2>1. line' = [line EXCEPT ![c] = r]
      BY <1>1, <1>4 DEF LineTable
    <2>2. /\ r.state = "FULL" /\ r.tag = line[c].tag /\ r.references = line[c].references
          /\ r.head = None /\ r.tail = None /\ r.creation = FALSE
          /\ r \in [state : {"EMPTY", "LOADING", "FULL", "INVALID"},
                    tag : Addr \cup {None}, references : Nat,
                    head : Thread \cup {None}, tail : Thread \cup {None},
                    creation : BOOLEAN, fresh : BOOLEAN]
      BY <1>1 DEF LineTable
    <2> HIDE DEF r
    <2> QED
      BY <1>1, <2>1, <2>2 DEF LineTable
  <1>6. CacheTypes'
    <2>1. /\ incoming' \in Seq(CID) /\ Len(incoming) \in Nat
          /\ Len(incoming') = Len(incoming) - 1
      BY <1>2, <1>4
    <2>2. /\ Len(incoming) + Len(arrived) <= BufferSize /\ Len(arrived) \in Nat
          /\ BufferSize \in Nat
      BY <1>1, ICacheAssumption DEF CacheTypes
    <2>3. Len(incoming') + Len(arrived) <= BufferSize
      BY <2>1, <2>2
    <2> QED
      BY <1>1, <1>4, <1>5, <2>1, <2>3 DEF CacheTypes
  <1>7. create' \in [state : {"IDLE", "LOAD_REGSPEC", "LOADING_LINE", "LINE_LOADED"},
                     pc : Addr \cup {None}, cid : CID \cup {None}]
    BY <1>1, <1>4 DEF CoreTypes
  <1>8. PICK S \in SUBSET Thread, T \in SUBSET Thread : Listed(S, T)
    BY <1>1 DEF Lists
  <1>9. /\ Strung(NextOf(thread), line[c].head, line[c].tail, Waiters(c))
        /\ Waiters(c) = {} <=> line[c].head = None
    <2>1. Strung(NextOf(thread), line[c].head, line[c].tail, Waiters(c))
      BY <1>8 DEF Listed
    <2> QED
      BY <2>1, StrungEnds
  <1>10. /\ Lists' /\ thread' \in ThreadTable /\ list' \in ListTable
         /\ \A x \in Thread :
              /\ thread'[x].state = IF x \in Waiters(c) THEN "ACTIVE" ELSE thread[x].state
              /\ thread'[x].cid = thread[x].cid /\ thread'[x].pc = thread[x].pc
              /\ thread'[x].waitingForWrites = thread[x].waitingForWrites
    <2>1. CASE line[c].head = None
      <3>1. UNCHANGED <<thread, list, pipe, reg>>
        BY <1>4, <2>1
      <3>2. Lists'
        <4>1. \A x \in Thread : SameThread(x)
          BY <3>1 DEF SameThread
        <4>2. \A d \in CID : /\ line'[d].head = line[d].head
                             /\ line[d].head # None => line'[d].tail = line[d].tail
          BY <1>5, <2>1
        <4> QED
          BY <1>1, <3>1, <4>1, <4>2, AllListsKept
      <3> QED
        BY <1>1, <1>9, <2>1, <3>1, <3>2
    <2>2. CASE line[c].head # None
      <3> DEFINE M == Waiters(c)
      <3>1. /\ M \in SUBSET Thread /\ M # {} /\ M = Waiters(c)
            /\ \A x \in M : thread[x].state = "WAITING" /\ thread[x].cid = c
        BY <1>9, <2>2 DEF Waiters
      <3>2. Strung(NextOf(thread), line[c].head, line[c].tail, M)
        BY <1>9
      <3> HIDE DEF M
      <3>3. \A x \in M : thread[x].state \in {"READY", "WAITING"}
        BY <3>1
      <3>4. ReadyLeft(list, S, T, M)
        <4>1. InState("READY") \ M = InState("READY")
          BY <3>1 DEF InState
        <4> QED
          BY <1>8, <4>1 DEF Listed, ReadyLeft
      <3>5. ASSUME NEW d \in CID
            PROVE  \/ M \cap Waiters(d) = {} /\ line'[d].head = line[d].head /\ line'[d].tail = line[d].tail
                   \/ M = Waiters(d) /\ line'[d].head = None
        <4>1. CASE d = c
          BY <1>5, <3>1, <4>1
        <4>2. CASE d # c
          BY <1>5, <3>1, <4>2 DEF Waiters
        <4> QED
          BY <4>1, <4>2
      <3>6. /\ thread' = QueueThreads(thread, "active", line[c].head, line[c].tail, "ACTIVE")
            /\ list' = Queued(list, "active", line[c].head, line[c].tail) /\ reg' = reg
        BY <1>4, <2>2
      <3>7. \A x \in Thread : x \notin M => thread[x] = thread[x]
        OBVIOUS
      <3>8. BecameActive(M, thread)
        BY <1>1, <3>1, <3>2, <3>3, <3>4, <3>5, <3>6, <3>7, GettingActive
      <3> QED
        BY <3>1, <3>8 DEF BecameActive
    <2> QED
      BY <2>1, <2>2
  <1>11. Held'
    BY <1>1, <1>4, <1>5, <1>10, HeldLoaded
  <1>12. Piped'
    <2>1. \A x \in Waiters(c) : thread[x].state = "WAITING"
      BY DEF Waiters
    <2>2. \A x \in Thread : thread'[x].state = "RUNNING" <=> thread[x].state = "RUNNING"
      BY <1>10, <2>1
    <2> QED
      BY <1>1, <1>4, <2>2, PipedKept
  <1>13. Types'
    BY <1>1, <1>4, <1>6, <1>7, <1>10 DEF Types, CoreTypes
  <1>14. RegOK'
    BY <1>1, <1>4 DEF RegOK
  <1> QED
    BY <1>10, <1>11, <1>12, <1>13, <1>14 DEF IInv

-----------------------------------------------------------------------------
(* The theorems                                                             *)

LEMMA Initially == Init => IInv
  <1> SUFFICES ASSUME Init PROVE IInv
    OBVIOUS
  <1>1. /\ line = [c \in CID |-> EmptyLine]
        /\ outgoing = <<>> /\ incoming = <<>> /\ arrived = <<>>
        /\ served = FALSE /\ reading = [a \in Addr |-> 0]
        /\ thread = [t \in Thread |-> NoThread]
        /\ list = [l \in Places |-> NoList]
        /\ prevReady = "other" /\ pipe = <<>>
        /\ reg = [state |-> "EMPTY", head |-> None, tail |-> None, busy |-> FALSE]
        /\ create = [state |-> "IDLE", pc |-> None, cid |-> None]
        /\ events = MaxEvents
    BY DEF Init, ICacheInit, Places
  <1>2. CacheTypes
    <2>1. line \in LineTable
      BY <1>1 DEF LineTable, EmptyLine
    <2>2. /\ outgoing \in Seq(Addr) /\ incoming \in Seq(CID) /\ arrived \in Seq(CID)
          /\ Len(outgoing) <= BufferSize /\ Len(incoming) + Len(arrived) <= BufferSize
      BY <1>1, ICacheAssumption
    <2>3. reading \in [Addr -> Nat]
      BY <1>1
    <2> QED
      BY <1>1, <2>1, <2>2, <2>3 DEF CacheTypes
  <1>3. thread \in ThreadTable
    <2>1. 0 \in 0 .. MaxWrites
      BY SchedulerAssumption
    <2> QED
      BY <1>1, <2>1 DEF ThreadTable, NoThread, ThreadState
  <1>4. list \in ListTable
    BY <1>1 DEF ListTable, ListType, NoList
  <1>5. CoreTypes
    BY <1>1, SchedulerAssumption DEF CoreTypes
  <1>6. /\ \A t \in Thread : /\ thread[t].state = "EMPTY" /\ thread[t].waitingForWrites = FALSE
        /\ \A c \in CID : /\ line[c].state = "EMPTY" /\ line[c].references = 0
                          /\ line[c].head = None /\ line[c].creation = FALSE
        /\ \A l \in Places : list[l].head = None
        /\ reg.head = None /\ reg.state = "EMPTY" /\ create.state = "IDLE"
    BY <1>1 DEF NoThread, EmptyLine, NoList
  <1>7. \A s \in {"READY", "WAITING", "ACTIVE", "RUNNING", "SUSPENDED"} : InState(s) = {}
    BY <1>6 DEF InState
  <1>8. Lists
    <2>1. Strung(NextOf(thread), list["pipe"].head, list["pipe"].tail, {})
      BY <1>6, StrungNone DEF Places
    <2>2. Strung(NextOf(thread), list["other"].head, list["other"].tail, {})
      BY <1>6, StrungNone DEF Places
    <2>3. Strung(NextOf(thread), list["active"].head, list["active"].tail, InState("ACTIVE"))
      BY <1>6, <1>7, StrungNone DEF Places
    <2>4. \A c \in CID : Strung(NextOf(thread), line[c].head, line[c].tail, Waiters(c))
      <3>1. \A c \in CID : Waiters(c) = {}
        BY <1>6 DEF Waiters
      <3> QED
        BY <1>6, <3>1, StrungNone
    <2>5. Strung(NextOf(thread), reg.head, reg.tail, Sleepers)
      <3>1. Sleepers = {}
        BY <1>6 DEF Sleepers
      <3> QED
        BY <1>6, <3>1, StrungNone
    <2>6. Listed({}, {})
      BY <1>7, <2>1, <2>2, <2>3, <2>4, <2>5 DEF Listed
    <2> QED
      BY <2>6 DEF Lists
  <1>9. Piped
    BY <1>1, <1>6 DEF Piped
  <1>10. RegOK
    BY <1>6 DEF RegOK
  <1>11. ReferencesExact
    <2>1. \A c \in CID : Users(c) = {} /\ ~CreationUses(c)
      BY <1>6 DEF Users, CreationUses
    <2>2. \A c \in CID : Cardinality(Users(c)) = 0
      BY <2>1, FS_EmptySet
    <2>3. ASSUME NEW c \in CID
          PROVE  line[c].references = Cardinality(Users(c)) + (IF CreationUses(c) THEN 1 ELSE 0)
      <3>1. (IF CreationUses(c) THEN 1 ELSE 0) = 0
        BY <2>1
      <3> QED
        BY <1>6, <2>2, <3>1
    <2> QED
      BY <2>3 DEF ReferencesExact
  <1>12. ReadersFindLine
    BY <1>6, <1>7 DEF ReadersFindLine
  <1>13. ThreadsOK /\ LinesOK /\ CreateOK
    BY <1>6 DEF ThreadsOK, LinesOK, CreateOK, Using
  <1> QED
    BY <1>2, <1>3, <1>4, <1>5, <1>8, <1>9, <1>10, <1>11, <1>12, <1>13 DEF IInv, Types, Held

LEMMA EveryStepKeeps == IInv /\ [Next]_vars => IInv'
  <1> SUFFICES ASSUME IInv, [Next]_vars PROVE IInv'
    OBVIOUS
  <1>1. ASSUME NEW t \in Thread, NEW a \in Addr, AllocateThread(t, a) PROVE IInv'
    BY <1>1, AllocateThreadKeeps
  <1>2. CASE ActivateHit
    BY <1>2, ActivateHitKeeps
  <1>3. CASE ActivateMiss
    BY <1>3, ActivateMissKeeps
  <1>4. CASE DoIncoming
    BY <1>4, DoIncomingKeeps
  <1>5. ASSUME NEW a \in Programs, CreateStart(a) PROVE IInv'
    BY <1>5, CreateStartKeeps
  <1>6. CASE CreateLoadRegspec
    BY <1>6, CreateLoadRegspecKeeps
  <1>7. CASE CreateLineLoaded
    BY <1>7, CreateLineLoadedKeeps
  <1>8. CASE SwitchIn
    BY <1>8, SwitchInKeeps
  <1>9. CASE Retire
    <2>1. PICK t \in Thread : \/ KillThread(t) \/ SuspendOnRegister(t) \/ SuspendOnWrites(t)
                              \/ \E a \in Addr : RescheduleThread(t, a)
      BY <1>9 DEF Retire
    <2> QED
      BY <2>1, KillThreadKeeps, SuspendOnRegisterKeeps, SuspendOnWritesKeeps, RescheduleThreadKeeps
  <1>10. ASSUME NEW t \in Thread, Store(t) \/ StoreDone(t) PROVE IInv'
    BY <1>10, StoreKeeps, StoreDoneKeeps
  <1>11. CASE PipelineWrite
    BY <1>11, WriteRegisterKeeps DEF PipelineWrite
  <1>12. CASE AsyncWrite
    BY <1>12, WriteRegisterKeeps DEF AsyncWrite
  <1>13. CASE StartOperation
    BY <1>13, StartOperationKeeps
  <1>14. CASE Memory
    BY <1>14, MemoryKeeps
  <1>15. CASE Tick
    BY <1>15, TickKeeps
  <1>16. CASE UNCHANGED vars
    <2>1. /\ UNCHANGED <<line, outgoing, incoming, arrived, served, reading>>
          /\ UNCHANGED <<thread, list, prevReady, pipe, reg, create, events>>
      BY <1>16 DEF vars, icacheVars, schedVars
    <2>2. Types /\ CacheTypes /\ CoreTypes /\ Held
      BY DEF IInv, Types
    <2>3. \A c \in CID : SameLine(c)
      BY <2>1 DEF SameLine
    <2>4. Held'
      BY <2>1, <2>2, <2>3, HeldByLines
    <2>5. CacheTypes'
      BY <2>1, <2>2 DEF CacheTypes
    <2>6. events' \in 0 .. MaxEvents
          /\ create' \in [state : {"IDLE", "LOAD_REGSPEC", "LOADING_LINE", "LINE_LOADED"},
                          pc : Addr \cup {None}, cid : CID \cup {None}]
      BY <2>1, <2>2 DEF CoreTypes
    <2> QED
      BY <2>1, <2>4, <2>5, <2>6, CacheOnly
  <1> QED
    BY <1>1, <1>2, <1>3, <1>4, <1>5, <1>6, <1>7, <1>8, <1>9, <1>10, <1>11, <1>12, <1>13, <1>14,
       <1>15, <1>16 DEF Next

LEMMA Invariance == Spec => []IInv
  <1> QED
    BY Initially, EveryStepKeeps, PTL DEF Spec

\* What is recorded of answers that nobody asked for is a truth value.
LEMMA EarlyTyped == Spec => [](early \in BOOLEAN)
  <1>1. Init => early \in BOOLEAN
    BY DEF Init
  <1>2. ASSUME early \in BOOLEAN, [Next]_vars PROVE (early \in BOOLEAN)'
    <2>1. ASSUME NEW t \in Thread, NEW a \in Addr, AllocateThread(t, a) PROVE UNCHANGED early
      BY <2>1 DEF AllocateThread
    <2>2. CASE ActivateHit \/ ActivateMiss
      BY <1>2, <2>2 DEF ActivateHit, ActivateMiss
    <2>3. CASE DoIncoming
      BY <1>2, <2>3 DEF DoIncoming
    <2>4. ASSUME NEW a \in Programs, CreateStart(a) PROVE UNCHANGED early
      BY <2>4 DEF CreateStart
    <2>5. CASE CreateLoadRegspec \/ CreateLineLoaded
      BY <1>2, <2>5 DEF CreateLoadRegspec, CreateLineLoaded
    <2>6. CASE SwitchIn
      BY <1>2, <2>6 DEF SwitchIn
    <2>7. CASE Retire
      BY <1>2, <2>7 DEF Retire, KillThread, SuspendOnRegister, SuspendOnWrites, RescheduleThread
    <2>8. ASSUME NEW t \in Thread, Store(t) \/ StoreDone(t) PROVE UNCHANGED early
      BY <2>8 DEF Store, StoreDone
    <2>9. CASE PipelineWrite \/ AsyncWrite
      BY <1>2, <2>9 DEF PipelineWrite, AsyncWrite, WriteRegister
    <2>10. CASE StartOperation
      BY <1>2, <2>10 DEF StartOperation
    <2>11. CASE Memory
      BY <1>2, <2>11 DEF Memory, Delivers, NotesAnswer, schedVars
    <2>12. CASE Tick
      BY <1>2, <2>12 DEF Tick, schedVars
    <2>13. CASE UNCHANGED vars
      BY <1>2, <2>13 DEF vars, schedVars
    <2> QED
      BY <1>2, <2>1, <2>2, <2>3, <2>4, <2>5, <2>6, <2>7, <2>8, <2>9, <2>10, <2>11, <2>12, <2>13
      DEF Next
  <1> QED
    BY <1>1, <1>2, PTL DEF Spec

\* The fields of the thread table, the cache lines, the lists and the buffers keep
\* their types, and no buffer of the cache holds more than BufferSize entries.
THEOREM TypesKept == Spec => []TypeOK
  <1>1. IInv /\ early \in BOOLEAN => TypeOK
    BY TypesOK DEF IInv
  <1> QED
    BY <1>1, Invariance, EarlyTyped, PTL

\* No thread is lost or scheduled twice: the two ready lists, the active queue, the
\* list of every cache line and that of the register hold exactly the threads whose
\* state says so, each in one list, although all of them share the field `next' of
\* the thread table (QueueThreads, LinkedList::Push and Pop, SuspendThread); and the
\* pipeline is the running threads.
THEOREM ListsStaySound == Spec => []ListsSound
  <1>1. ASSUME NEW h, NEW t, NEW X, Strung(NextOf(thread), h, t, X) PROVE Holds(h, t, X)
    BY <1>1, StrungEnds, ChainWalks DEF Holds
  <1>2. ASSUME IInv PROVE ListsSound
    <2>1. PICK S \in SUBSET Thread, T \in SUBSET Thread : Listed(S, T)
      BY <1>2 DEF IInv, Lists
    <2>2. /\ S \cap T = {} /\ S \cup T = InState("READY")
          /\ Holds(list["pipe"].head, list["pipe"].tail, S)
          /\ Holds(list["other"].head, list["other"].tail, T)
      BY <1>1, <2>1 DEF Listed
    <2>3. Holds(list["active"].head, list["active"].tail, InState("ACTIVE"))
      BY <1>1, <2>1 DEF Listed
    <2>4. ASSUME NEW c \in CID
          PROVE  Holds(line[c].head, line[c].tail, {t \in InState("WAITING") : thread[t].cid = c})
      <3>1. Waiters(c) = {t \in InState("WAITING") : thread[t].cid = c}
        BY DEF Waiters, InState
      <3>2. Holds(line[c].head, line[c].tail, Waiters(c))
        BY <1>1, <2>1 DEF Listed
      <3> QED
        BY <3>1, <3>2
    <2>5. Holds(reg.head, reg.tail, {t \in InState("SUSPENDED") : ~thread[t].waitingForWrites})
      <3>1. Sleepers = {t \in InState("SUSPENDED") : ~thread[t].waitingForWrites}
        BY DEF Sleepers, InState
      <3>2. Holds(reg.head, reg.tail, Sleepers)
        BY <1>1, <2>1 DEF Listed
      <3> QED
        BY <3>1, <3>2
    <2>6. ToSet(pipe) = InState("RUNNING") /\ IsInjective(pipe)
      <3>1. pipe \in Seq(Thread) /\ Piped
        BY <1>2 DEF IInv, Types, CoreTypes
      <3>2. DOMAIN pipe = 1 .. Len(pipe)
        BY <3>1
      <3> QED
        BY <3>1, <3>2 DEF Piped, ToSet, InState, IsInjective
    <2> QED
      BY <2>2, <2>3, <2>4, <2>5, <2>6 DEF ListsSound
  <1> QED
    BY <1>2, Invariance, PTL

\* A cache line counts exactly the threads that wait for it, are queued with it or
\* run from it, and the creation of a family if it uses it (ICache::Fetch and
\* ReleaseCacheLine); whoever runs from a line or reads it finds its own address
\* there and the line loaded, what ICache::Read asserts.
THEOREM LinesStayHeld == Spec => []LinesHeld
  <1>1. IInv => LinesHeld
    BY DEF IInv, Held, LinesHeld
  <1> QED
    BY <1>1, Invariance, PTL
=============================================================================
