----------------------------- MODULE QueueFacts -----------------------------
(***************************************************************************)
(* What the queue operations of the sources (front, pop_front, push_back)  *)
(* do to the set of queued elements and to their being pairwise distinct,  *)
(* and how the lines of a file that hold data are counted.                 *)
(***************************************************************************)
EXTENDS Naturals, Sequences, Functions, FiniteSetTheorems, TLAPS

\* pop_front of a non-empty queue removes its front and nothing else.
LEMMA PopFacts ==
    ASSUME NEW S, NEW q \in Seq(S), q # <<>>
    PROVE  /\ Head(q) \in S /\ Head(q) \in Range(q)
           /\ Tail(q) \in Seq(S)
           /\ Len(q) \in Nat /\ Len(q) > 0 /\ Len(Tail(q)) = Len(q) - 1
           /\ Range(Tail(q)) \subseteq Range(q)
           /\ IsInjective(q) => /\ IsInjective(Tail(q))
                                /\ Range(Tail(q)) = Range(q) \ {Head(q)}
<1>1. /\ Len(q) \in Nat /\ Len(q) > 0 /\ Tail(q) \in Seq(S)
      /\ Len(Tail(q)) = Len(q) - 1 /\ Head(q) = q[1]
      /\ DOMAIN q = 1..Len(q) /\ DOMAIN Tail(q) = 1..(Len(q) - 1)
      /\ \A k \in 1..(Len(q) - 1) : Tail(q)[k] = q[k + 1]
  OBVIOUS
<1>2. Head(q) \in S /\ Head(q) \in Range(q) /\ Range(Tail(q)) \subseteq Range(q)
  BY <1>1 DEF Range
<1>3. ASSUME IsInjective(q)
      PROVE  IsInjective(Tail(q)) /\ Range(Tail(q)) = Range(q) \ {Head(q)}
  <2>1. IsInjective(Tail(q))
    BY <1>1, <1>3 DEF IsInjective
  <2>2. Range(Tail(q)) \subseteq Range(q) \ {Head(q)}
    BY <1>1, <1>3 DEF IsInjective, Range
  <2>3. ASSUME NEW e \in Range(q), e # Head(q)  PROVE e \in Range(Tail(q))
    <3>1. PICK k \in 1..Len(q) : e = q[k]
      BY <1>1 DEF Range
    <3>2. k - 1 \in 1..(Len(q) - 1) /\ Tail(q)[k - 1] = q[k]
      BY <1>1, <2>3, <3>1
    <3>3. k - 1 \in DOMAIN Tail(q) /\ e = Tail(q)[k - 1]
      BY <1>1, <3>1, <3>2
    <3> QED BY <3>3 DEF Range
  <2> QED BY <2>1, <2>2, <2>3
<1> QED BY <1>1, <1>2, <1>3

\* push_back adds its element and nothing else.
LEMMA PushFacts ==
    ASSUME NEW S, NEW q \in Seq(S), NEW e \in S
    PROVE  /\ Append(q, e) \in Seq(S)
           /\ Len(q) \in Nat /\ Len(Append(q, e)) = Len(q) + 1
           /\ Range(Append(q, e)) = Range(q) \cup {e}
           /\ IsInjective(q) /\ e \notin Range(q) => IsInjective(Append(q, e))
<1>1. /\ Len(q) \in Nat /\ Append(q, e) \in Seq(S)
      /\ DOMAIN q = 1..Len(q) /\ DOMAIN Append(q, e) = 1..(Len(q) + 1)
      /\ Len(Append(q, e)) = Len(q) + 1
      /\ Append(q, e)[Len(q) + 1] = e
      /\ \A k \in 1..Len(q) : Append(q, e)[k] = q[k]
  OBVIOUS
<1>2. Range(Append(q, e)) = Range(q) \cup {e}
  BY <1>1 DEF Range
<1>3. IsInjective(q) /\ e \notin Range(q) => IsInjective(Append(q, e))
  BY <1>1 DEF IsInjective, Range
<1> QED BY <1>1, <1>2, <1>3

\* Moving the front to the back keeps the elements and their number.
LEMMA RotateFacts ==
    ASSUME NEW S, NEW q \in Seq(S), q # <<>>
    PROVE  LET r == Append(Tail(q), Head(q)) IN
           /\ r \in Seq(S) /\ Len(r) = Len(q) /\ Len(q) \in Nat
           /\ IsInjective(q) => IsInjective(r) /\ Range(r) = Range(q)
<1>1. /\ Head(q) \in S /\ Head(q) \in Range(q) /\ Tail(q) \in Seq(S)
      /\ Len(q) \in Nat /\ Len(q) > 0 /\ Len(Tail(q)) = Len(q) - 1
      /\ IsInjective(q) => /\ IsInjective(Tail(q))
                           /\ Range(Tail(q)) = Range(q) \ {Head(q)}
  BY PopFacts
<1>2. ASSUME NEW t \in Seq(S), NEW h \in S
      PROVE  /\ Append(t, h) \in Seq(S) /\ Len(Append(t, h)) = Len(t) + 1
             /\ Range(Append(t, h)) = Range(t) \cup {h}
             /\ IsInjective(t) /\ h \notin Range(t) => IsInjective(Append(t, h))
  BY PushFacts
<1> DEFINE r == Append(Tail(q), Head(q))
<1>3. /\ r \in Seq(S) /\ Len(r) = Len(Tail(q)) + 1
      /\ Range(r) = Range(Tail(q)) \cup {Head(q)}
      /\ IsInjective(Tail(q)) /\ Head(q) \notin Range(Tail(q)) => IsInjective(r)
  BY <1>1, <1>2, Zenon
<1> HIDE DEF r
<1>4. r \in Seq(S) /\ Len(r) = Len(q)
  BY <1>1, <1>3
<1>5. IsInjective(q) => IsInjective(r) /\ Range(r) = Range(q)
  BY <1>1, <1>3
<1> QED BY <1>1, <1>4, <1>5 DEF r

\* Pushing all of f, in order, at the back of q.
LEMMA ConcatFacts ==
    ASSUME NEW S, NEW q \in Seq(S), NEW f \in Seq(S)
    PROVE  /\ q \o f \in Seq(S)
           /\ Range(q \o f) = Range(q) \cup Range(f)
           /\ IsInjective(q) /\ IsInjective(f) /\ Range(q) \cap Range(f) = {}
                 => IsInjective(q \o f)
<1>1. /\ Len(q) \in Nat /\ Len(f) \in Nat /\ q \o f \in Seq(S)
      /\ DOMAIN q = 1..Len(q) /\ DOMAIN f = 1..Len(f)
      /\ DOMAIN (q \o f) = 1..(Len(q) + Len(f))
      /\ \A k \in 1..Len(q) : (q \o f)[k] = q[k]
      /\ \A k \in (Len(q) + 1)..(Len(q) + Len(f)) : (q \o f)[k] = f[k - Len(q)]
  OBVIOUS
<1>2. ASSUME NEW k \in 1..Len(f)
      PROVE  /\ Len(q) + k \in DOMAIN (q \o f)
             /\ (q \o f)[Len(q) + k] = f[k]
  BY <1>1
<1>3. Range(f) \subseteq Range(q \o f)
  BY <1>1, <1>2 DEF Range
<1>4. Range(q) \subseteq Range(q \o f)
  BY <1>1 DEF Range
<1>5. ASSUME NEW k \in DOMAIN (q \o f)
      PROVE  \/ k \in DOMAIN q /\ (q \o f)[k] = q[k]
             \/ /\ k > Len(q) /\ k - Len(q) \in DOMAIN f
                /\ (q \o f)[k] = f[k - Len(q)]
  BY <1>1
<1>6. Range(q \o f) \subseteq Range(q) \cup Range(f)
  <2>1. ASSUME NEW k \in DOMAIN (q \o f)
        PROVE  (q \o f)[k] \in Range(q) \cup Range(f)
    BY <1>5 DEF Range
  <2> QED BY <2>1 DEF Range
<1>7. ASSUME IsInjective(q), IsInjective(f), Range(q) \cap Range(f) = {},
             NEW i \in DOMAIN (q \o f), NEW j \in DOMAIN (q \o f),
             (q \o f)[i] = (q \o f)[j]
      PROVE  i = j
  <2>1. CASE i \in DOMAIN q /\ (q \o f)[i] = q[i]
    <3>1. CASE j \in DOMAIN q /\ (q \o f)[j] = q[j]
      BY <1>7, <2>1, <3>1 DEF IsInjective
    <3>2. CASE j - Len(q) \in DOMAIN f /\ (q \o f)[j] = f[j - Len(q)]
      BY <1>7, <2>1, <3>2 DEF Range
    <3> QED BY <1>5, <3>1, <3>2
  <2>2. CASE /\ i > Len(q) /\ i - Len(q) \in DOMAIN f
             /\ (q \o f)[i] = f[i - Len(q)]
    <3>1. CASE j \in DOMAIN q /\ (q \o f)[j] = q[j]
      BY <1>7, <2>2, <3>1 DEF Range
    <3>2. CASE /\ j > Len(q) /\ j - Len(q) \in DOMAIN f
               /\ (q \o f)[j] = f[j - Len(q)]
      <4>1. i - Len(q) = j - Len(q)
        BY <1>7, <2>2, <3>2 DEF IsInjective
      <4> QED BY <1>1, <4>1
    <3> QED BY <1>5, <3>1, <3>2
  <2> QED BY <1>5, <2>1, <2>2
<1>8. IsInjective(q) /\ IsInjective(f) /\ Range(q) \cap Range(f) = {}
        => IsInjective(q \o f)
  BY <1>7 DEF IsInjective
<1> QED BY <1>1, <1>3, <1>4, <1>6, <1>8

\* Popping the first n elements of a queue into a batch splits it in two.
LEMMA SplitFacts ==
    ASSUME NEW S, NEW q \in Seq(S), NEW n \in 1..Len(q)
    PROVE  LET b == SubSeq(q, 1, n)
               r == SubSeq(q, n + 1, Len(q))
           IN  /\ b \in Seq(S) /\ r \in Seq(S)
               /\ Len(r) = Len(q) - n
               /\ Range(q) = Range(b) \cup Range(r)
               /\ IsInjective(q) => /\ IsInjective(b) /\ IsInjective(r)
                                    /\ Range(b) \cap Range(r) = {}
<1> DEFINE b == SubSeq(q, 1, n)
           r == SubSeq(q, n + 1, Len(q))
<1>1. Len(q) \in Nat /\ DOMAIN q = 1..Len(q) /\ \A k \in 1..Len(q) : q[k] \in S
  OBVIOUS
<1>2. /\ b \in Seq(S) /\ DOMAIN b = 1..n /\ \A k \in 1..n : b[k] = q[k]
  BY <1>1
<1>3. /\ r \in Seq(S) /\ Len(r) = Len(q) - n /\ DOMAIN r = 1..(Len(q) - n)
      /\ \A k \in 1..(Len(q) - n) : r[k] = q[k + n]
  <2>1. r \in Seq(S)
    OBVIOUS
  <2>2. Len(r) = Len(q) - n
    OBVIOUS
  <2>3. DOMAIN r = 1..(Len(q) - n)
    OBVIOUS
  <2>4. ASSUME NEW k \in 1..(Len(q) - n)  PROVE r[k] = q[k + n]
    OBVIOUS
  <2> QED BY <2>1, <2>2, <2>3, <2>4
<1> HIDE DEF b, r
<1>4. Range(b) \subseteq Range(q) /\ Range(r) \subseteq Range(q)
  <2>1. ASSUME NEW k \in DOMAIN r  PROVE r[k] \in Range(q)
    <3>1. k + n \in DOMAIN q /\ r[k] = q[k + n]
      BY <1>1, <1>3
    <3> QED BY <3>1 DEF Range
  <2>2. ASSUME NEW k \in DOMAIN b  PROVE b[k] \in Range(q)
    BY <1>1, <1>2 DEF Range
  <2> QED BY <2>1, <2>2 DEF Range
<1>5. ASSUME NEW e \in Range(q)  PROVE e \in Range(b) \cup Range(r)
  <2>1. PICK k \in 1..Len(q) : e = q[k]
    BY <1>1 DEF Range
  <2>2. CASE k <= n
    BY <1>2, <2>1, <2>2 DEF Range
  <2>3. CASE k > n
    <3>1. k - n \in DOMAIN r /\ e = r[k - n]
      BY <1>1, <1>3, <2>1, <2>3
    <3> QED BY <3>1 DEF Range
  <2> QED BY <2>1, <2>2, <2>3
<1>6. ASSUME IsInjective(q)
      PROVE  IsInjective(b) /\ IsInjective(r) /\ Range(b) \cap Range(r) = {}
  <2>1. IsInjective(b)
    BY <1>1, <1>2, <1>6 DEF IsInjective
  <2>2. ASSUME NEW i \in DOMAIN r, NEW j \in DOMAIN r, r[i] = r[j]  PROVE i = j
    <3>1. i + n \in DOMAIN q /\ j + n \in DOMAIN q /\ q[i + n] = q[j + n]
      BY <1>1, <1>3, <2>2
    <3>2. i + n = j + n
      BY <1>6, <3>1 DEF IsInjective
    <3> QED BY <1>3, <3>2
  <2>3. ASSUME NEW i \in DOMAIN b, NEW j \in DOMAIN r  PROVE b[i] # r[j]
    <3>1. /\ i \in DOMAIN q /\ j + n \in DOMAIN q /\ i # j + n
          /\ b[i] = q[i] /\ r[j] = q[j + n]
      BY <1>1, <1>2, <1>3
    <3> QED BY <1>6, <3>1 DEF IsInjective
  <2>4. IsInjective(r) /\ Range(b) \cap Range(r) = {}
    BY <2>2, <2>3 DEF IsInjective, Range
  <2> QED BY <2>1, <2>4
<1> QED BY <1>2, <1>3, <1>4, <1>5, <1>6 DEF b, r
-----------------------------------------------------------------------------
(* Queues of numbers in increasing order, and scans that rotate them.      *)

Increasing(q) == \A i, j \in 1..Len(q) : i < j => q[i] < q[j]

\* Everything in p is smaller than everything in q.
Below(p, q) == \A a \in Range(p), b \in Range(q) : a < b

\* A scan that rotates a queue has s elements ahead of it: what it has passed,
\* which is at the back, followed by what is ahead of it is in order.
ScanOrdered(q, s) ==
    \A i, j \in 1..Len(q) :
        \/ i < j /\ (j <= s \/ s < i)
        \/ j <= s /\ s < i
        => q[i] < q[j]

\* Before the first and after the last step of a scan the queue is in order.
LEMMA ScanEnds ==
    ASSUME NEW q \in Seq(Nat)
    PROVE  /\ ScanOrdered(q, 0) <=> Increasing(q)
           /\ ScanOrdered(q, Len(q)) <=> Increasing(q)
<1>1. Len(q) \in Nat
  OBVIOUS
<1>2. ScanOrdered(q, 0) <=> Increasing(q)
  <2>1. \A i, j \in 1..Len(q) : ~(j <= 0) /\ 0 < i
    BY <1>1
  <2> QED BY <2>1 DEF ScanOrdered, Increasing
<1>3. ScanOrdered(q, Len(q)) <=> Increasing(q)
  <2>1. \A i, j \in 1..Len(q) : j <= Len(q) /\ ~(Len(q) < i)
    BY <1>1
  <2> QED BY <2>1 DEF ScanOrdered, Increasing
<1> QED BY <1>2, <1>3

\* A scan step that removes the front.
LEMMA ScanPop ==
    ASSUME NEW q \in Seq(Nat), NEW s \in 1..Len(q), ScanOrdered(q, s)
    PROVE  ScanOrdered(Tail(q), s - 1)
<1>1. /\ Len(q) \in Nat /\ Len(Tail(q)) = Len(q) - 1
      /\ \A k \in 1..(Len(q) - 1) : Tail(q)[k] = q[k + 1]
  OBVIOUS
<1> SUFFICES ASSUME NEW i \in 1..Len(Tail(q)), NEW j \in 1..Len(Tail(q)),
                    \/ i < j /\ (j <= s - 1 \/ s - 1 < i)
                    \/ j <= s - 1 /\ s - 1 < i
             PROVE  Tail(q)[i] < Tail(q)[j]
  BY DEF ScanOrdered
<1>2. i + 1 \in 1..Len(q) /\ j + 1 \in 1..Len(q)
  BY <1>1
<1>3. \/ i + 1 < j + 1 /\ (j + 1 <= s \/ s < i + 1)
      \/ j + 1 <= s /\ s < i + 1
  BY <1>1
<1>4. q[i + 1] < q[j + 1]
  BY <1>2, <1>3 DEF ScanOrdered
<1> QED BY <1>1, <1>4

\* A scan step that puts the front off.
LEMMA ScanRotate ==
    ASSUME NEW q \in Seq(Nat), NEW s \in 1..Len(q), ScanOrdered(q, s)
    PROVE  ScanOrdered(Append(Tail(q), Head(q)), s - 1)
<1> DEFINE r == Append(Tail(q), Head(q))
           old(k) == IF k = Len(q) THEN 1 ELSE k + 1
<1>1. /\ Len(q) \in Nat /\ Len(q) > 0 /\ Len(r) = Len(q)
      /\ \A k \in 1..Len(q) : r[k] = q[old(k)]
  OBVIOUS
<1> HIDE DEF r
<1>2. ASSUME NEW i \in 1..Len(q), NEW j \in 1..Len(q),
             \/ i < j /\ (j <= s - 1 \/ s - 1 < i)
             \/ j <= s - 1 /\ s - 1 < i
      PROVE  r[i] < r[j]
  <2>1. old(i) \in 1..Len(q) /\ old(j) \in 1..Len(q)
    BY <1>1
  <2>2. \/ old(i) < old(j) /\ (old(j) <= s \/ s < old(i))
        \/ old(j) <= s /\ s < old(i)
    BY <1>1, <1>2
  <2> HIDE DEF old
  <2>3. q[old(i)] < q[old(j)]
    BY <2>1, <2>2 DEF ScanOrdered
  <2> QED BY <1>1, <2>3
<1>3. ScanOrdered(r, s - 1)
  BY <1>1, <1>2 DEF ScanOrdered
<1> QED BY <1>3 DEF r

\* pop_front of a queue in order removes its smallest element.
LEMMA OrderedPop ==
    ASSUME NEW q \in Seq(Nat), q # <<>>, Increasing(q)
    PROVE  Increasing(Tail(q)) /\ \A e \in Range(Tail(q)) : Head(q) < e
<1>1. /\ Len(q) \in Nat /\ Len(q) > 0 /\ Len(Tail(q)) = Len(q) - 1
      /\ DOMAIN Tail(q) = 1..(Len(q) - 1) /\ Head(q) = q[1]
      /\ \A k \in 1..(Len(q) - 1) : Tail(q)[k] = q[k + 1]
  OBVIOUS
<1>2. ASSUME NEW k \in 1..(Len(q) - 1)  PROVE q[1] < q[k + 1]
  <2>1. k + 1 \in 1..Len(q) /\ 1 \in 1..Len(q) /\ 1 < k + 1
    BY <1>1
  <2> QED BY <2>1 DEF Increasing
<1>3. \A e \in Range(Tail(q)) : Head(q) < e
  BY <1>1, <1>2 DEF Range
<1>4. ASSUME NEW i \in 1..Len(Tail(q)), NEW j \in 1..Len(Tail(q)), i < j
      PROVE  Tail(q)[i] < Tail(q)[j]
  <2>1. i + 1 \in 1..Len(q) /\ j + 1 \in 1..Len(q) /\ i + 1 < j + 1
    BY <1>1, <1>4
  <2>2. q[i + 1] < q[j + 1]
    BY <2>1 DEF Increasing
  <2> QED BY <1>1, <2>2
<1> QED BY <1>3, <1>4 DEF Increasing

\* push_back of something larger keeps a queue in order.
LEMMA OrderedPush ==
    ASSUME NEW q \in Seq(Nat), Increasing(q), NEW e \in Nat,
           \A a \in Range(q) : a < e
    PROVE  Increasing(Append(q, e))
<1>1. /\ Len(q) \in Nat /\ Len(Append(q, e)) = Len(q) + 1 /\ DOMAIN q = 1..Len(q)
      /\ Append(q, e)[Len(q) + 1] = e
      /\ \A k \in 1..Len(q) : Append(q, e)[k] = q[k]
  OBVIOUS
<1>2. \A k \in 1..Len(q) : q[k] < e
  BY <1>1 DEF Range
<1> QED BY <1>1, <1>2 DEF Increasing

\* Two queues in order, one below the other, are in order together.
LEMMA OrderedConcat ==
    ASSUME NEW p \in Seq(Nat), NEW q \in Seq(Nat),
           Increasing(p), Increasing(q), Below(p, q)
    PROVE  Increasing(p \o q)
<1>1. /\ Len(p) \in Nat /\ Len(q) \in Nat /\ Len(p \o q) = Len(p) + Len(q)
      /\ DOMAIN p = 1..Len(p) /\ DOMAIN q = 1..Len(q)
      /\ \A k \in 1..Len(p) : (p \o q)[k] = p[k]
      /\ \A k \in (Len(p) + 1)..(Len(p) + Len(q)) : (p \o q)[k] = q[k - Len(p)]
  OBVIOUS
<1>2. ASSUME NEW i \in 1..Len(p \o q), NEW j \in 1..Len(p \o q), i < j
      PROVE  (p \o q)[i] < (p \o q)[j]
  <2>1. CASE j <= Len(p)
    BY <1>1, <1>2, <2>1 DEF Increasing
  <2>2. CASE i > Len(p)
    <3>1. /\ i - Len(p) \in 1..Len(q) /\ j - Len(p) \in 1..Len(q)
          /\ i - Len(p) < j - Len(p)
      BY <1>1, <1>2, <2>2
    <3>2. q[i - Len(p)] < q[j - Len(p)]
      BY <3>1 DEF Increasing
    <3>3. (p \o q)[i] = q[i - Len(p)] /\ (p \o q)[j] = q[j - Len(p)]
      BY <1>1, <1>2, <2>2
    <3> QED BY <3>2, <3>3
  <2>3. CASE i <= Len(p) /\ j > Len(p)
    <3>1. i \in DOMAIN p /\ j - Len(p) \in DOMAIN q
      BY <1>1, <2>3
    <3>2. p[i] \in Range(p) /\ q[j - Len(p)] \in Range(q)
      BY <3>1 DEF Range
    <3>3. p[i] < q[j - Len(p)]
      BY <3>2 DEF Below
    <3>4. (p \o q)[i] = p[i] /\ (p \o q)[j] = q[j - Len(p)]
      BY <1>1, <2>3
    <3> QED BY <3>3, <3>4
  <2> QED BY <1>1, <2>1, <2>2, <2>3
<1> QED BY <1>2 DEF Increasing
-----------------------------------------------------------------------------
(* The rank of a line among those of a set D, as a reader that goes through *)
(* lines 1 to n and keeps those of D numbers them.                          *)

UpTo(D, m) == {j \in D : j <= m}
Rank(D, m) == Cardinality(UpTo(D, m))

\* Reading line m + 1 adds one if it is in D; the numbers of earlier lines
\* stay, and lie between 1 and the number of lines kept.
LEMMA RankFacts ==
    ASSUME NEW n \in Nat, NEW D \in SUBSET (1..n), NEW m \in 0..n
    PROVE  /\ IsFiniteSet(UpTo(D, m)) /\ Rank(D, m) \in Nat
           /\ m + 1 \notin D => Rank(D, m + 1) = Rank(D, m)
           /\ m + 1 \in D => Rank(D, m + 1) = Rank(D, m) + 1
           /\ \A k \in UpTo(D, m) : Rank(D, k) \in 1..Rank(D, m)
           /\ Rank(D, 0) = 0 /\ Rank(D, n) = Cardinality(D)
<1>0. m \in Nat /\ m <= n /\ \A j \in D : j \in Nat /\ j >= 1 /\ j <= n
  OBVIOUS
<1>1. /\ \A j \in D : j <= m + 1 <=> (j <= m \/ j = m + 1)
      /\ \A j \in D : ~(j <= 0) /\ j <= n
      /\ \A j, k \in D : k <= m /\ j <= k => j <= m
      /\ ~(m + 1 <= m)
  BY <1>0
<1>2. IsFiniteSet(D)
  <2>1. D \in SUBSET Nat /\ \A j \in D : j <= n
    BY <1>0
  <2> QED BY <2>1, FS_BoundedSetOfNaturals
<1>3. \A k : UpTo(D, k) \in SUBSET D
  BY DEF UpTo
<1>4. \A k : IsFiniteSet(UpTo(D, k)) /\ Rank(D, k) \in Nat
  BY <1>2, <1>3, FS_Subset, FS_CardinalityType DEF Rank
<1>5. m + 1 \notin D => Rank(D, m + 1) = Rank(D, m)
  <2>1. m + 1 \notin D => UpTo(D, m + 1) = UpTo(D, m)
    BY <1>1, Zenon DEF UpTo
  <2> QED BY <2>1 DEF Rank
<1>6. m + 1 \in D => Rank(D, m + 1) = Rank(D, m) + 1
  <2>1. m + 1 \in D => UpTo(D, m + 1) = UpTo(D, m) \cup {m + 1}
    BY <1>1, Zenon DEF UpTo
  <2>2. m + 1 \notin UpTo(D, m)
    BY <1>1, Zenon DEF UpTo
  <2> QED BY <1>4, <2>1, <2>2, FS_AddElement DEF Rank
<1>7. ASSUME NEW k \in UpTo(D, m)  PROVE Rank(D, k) \in 1..Rank(D, m)
  <2>1. UpTo(D, k) \in SUBSET UpTo(D, m)
    BY <1>1, Zenon DEF UpTo
  <2>2. k \in UpTo(D, k)
    BY <1>0 DEF UpTo
  <2>3. Rank(D, k) <= Rank(D, m)
    BY <1>4, <2>1, FS_Subset DEF Rank
  <2>4. Rank(D, k) # 0
    BY <1>4, <2>2, FS_EmptySet DEF Rank
  <2> QED BY <1>4, <2>3, <2>4, SMT
<1>8. Rank(D, 0) = 0
  <2>1. UpTo(D, 0) = {}
    BY <1>1, Zenon DEF UpTo
  <2> QED BY <2>1, FS_EmptySet DEF Rank
<1>9. Rank(D, n) = Cardinality(D)
  <2>1. UpTo(D, n) = D
    BY <1>1, Zenon DEF UpTo
  <2> QED BY <2>1 DEF Rank
<1> QED BY <1>4, <1>5, <1>6, <1>7, <1>8, <1>9
=============================================================================
