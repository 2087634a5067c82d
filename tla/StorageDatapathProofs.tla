------------------------ MODULE StorageDatapathProofs -----------------------
(***************************************************************************)
(* What the storage datapath program prints, for every file, every         *)
(* configuration and any number of requests.                               *)
(***************************************************************************)
EXTENDS StorageDatapath, QueueFacts, FiniteSetTheorems, TLAPS

Request == [id : Nat, operation : {"Read", "Write"}, size : Nat, cache_hit : BOOLEAN]

Result == [id : Nat, queue_delay : Nat, service_latency : Nat, total_latency : Nat,
           queue_depth : Nat, cache_hit : BOOLEAN]

\* The lines of requests of a kind.
ReadLines == {k \in DataLines : file[k] # Header /\ file[k].operation = "read"}
HitLines == {k \in DataLines : file[k] # Header /\ file[k].cache_hit = "true"}

Reads == {r \in Request : r.operation = "Read"}
Hits == {r \in Request : r.cache_hit}

\* The places of s whose element is in F.
Where(s, F) == {k \in DOMAIN s : s[k] \in F}

StorageTypeOK ==
    /\ file \in Files /\ config \in Configs
    /\ state \in {"open", "parse", "run", "summarize", "exit0", "exit1"}
    /\ line \in 0..Len(file) /\ first \in BOOLEAN
    /\ requests \in Seq(Request)
    /\ results \in Seq(Result)
    /\ virtual_time \in Nat /\ completion_time \in Nat

\* Every line up to the present one is accounted for by the requests.
LinesInv ==
    /\ first <=> \A k \in TextLines : k > line
    /\ \A k \in DataLines : k <= line => file[k] # Header /\ RowParses(file[k])
    /\ Len(requests) = Rank(DataLines, line)
    /\ Cardinality(Where(requests, Reads)) = Rank(ReadLines, line)
    /\ Cardinality(Where(requests, Hits)) = Rank(HitLines, line)

\* Where the program is tells what has been read, run and printed.
OrderInv ==
    /\ state \in {"open", "parse"} => results = <<>>
    /\ state \in {"run", "summarize", "exit0"} => line = Len(file)
    /\ state \in {"summarize", "exit0"} => Len(results) = Len(requests)
    /\ summary # <<>> => state = "exit0" /\ summary = <<Summary>>

\* The k-th request meets k requests or a full queue.
DepthInv == \A k \in DOMAIN results : results[k].queue_depth = QueueDepth(k)

\* While no latency is below the arrival interval the device is never idle.
BusyInv ==
    /\ virtual_time = 2 * Len(results)
    /\ results = <<>> => completion_time = 0
    /\ results # <<>> /\ (\A k \in DOMAIN results : results[k].total_latency >= 2)
          => /\ completion_time = Total(Latencies) + 2
             /\ Total(Latencies) >= 2 * Len(results)

StorageInv == StorageTypeOK /\ LinesInv /\ OrderInv /\ DepthInv /\ BusyInv
-----------------------------------------------------------------------------
(* Counts and sums.                                                        *)

\* A place more in a sequence is one more of the kind of its element.
LEMMA WhereAppend ==
    ASSUME NEW S, NEW s \in Seq(S), NEW e \in S, NEW F
    PROVE  /\ IsFiniteSet(Where(s, F)) /\ Cardinality(Where(s, F)) \in Nat
           /\ e \in F => Cardinality(Where(Append(s, e), F)) = Cardinality(Where(s, F)) + 1
           /\ e \notin F => Where(Append(s, e), F) = Where(s, F)
<1>1. /\ Len(s) \in Nat /\ DOMAIN s = 1..Len(s) /\ DOMAIN Append(s, e) = 1..(Len(s) + 1)
      /\ Append(s, e)[Len(s) + 1] = e
      /\ \A k \in 1..Len(s) : Append(s, e)[k] = s[k]
  OBVIOUS
<1>2. IsFiniteSet(Where(s, F)) /\ Cardinality(Where(s, F)) \in Nat
  <2>1. Where(s, F) \in SUBSET (1..Len(s))
    BY <1>1 DEF Where
  <2>2. IsFiniteSet(1..Len(s))
    <3>1. 1 \in Int /\ Len(s) \in Int
      BY <1>1
    <3> QED BY <3>1, FS_Interval
  <2>3. IsFiniteSet(Where(s, F))
    BY <2>1, <2>2, FS_Subset
  <2> QED BY <2>3, FS_CardinalityType
<1>3. Len(s) + 1 \notin Where(s, F)
  BY <1>1 DEF Where
<1>4. ASSUME e \in F
      PROVE  Cardinality(Where(Append(s, e), F)) = Cardinality(Where(s, F)) + 1
  <2>1. Where(Append(s, e), F) = Where(s, F) \cup {Len(s) + 1}
    BY <1>1, <1>4 DEF Where
  <2> QED BY <1>2, <1>3, <2>1, FS_AddElement
<1>5. ASSUME e \notin F  PROVE Where(Append(s, e), F) = Where(s, F)
  BY <1>1, <1>5 DEF Where
<1> QED BY <1>2, <1>4, <1>5

\* What is of a kind and what is not of it are all there is.
LEMMA WhereSplit ==
    ASSUME NEW S, NEW s \in Seq(S), NEW F
    PROVE  Cardinality(Where(s, F)) + Cardinality((DOMAIN s) \ Where(s, F)) = Len(s)
<1>1. Len(s) \in Nat /\ DOMAIN s = 1..Len(s) /\ 1 \in Int /\ Len(s) \in Int
  OBVIOUS
<1>2. IsFiniteSet(DOMAIN s) /\ Cardinality(DOMAIN s) = Len(s)
  <2>1. /\ IsFiniteSet(1..Len(s))
        /\ Cardinality(1..Len(s)) = IF 1 > Len(s) THEN 0 ELSE Len(s) - 1 + 1
    BY <1>1, FS_Interval
  <2> QED BY <1>1, <2>1
<1>3. Where(s, F) \in SUBSET DOMAIN s /\ (DOMAIN s) \cap Where(s, F) = Where(s, F)
  BY DEF Where
<1>4. IsFiniteSet(Where(s, F)) /\ Cardinality(Where(s, F)) \in Nat
  BY <1>2, <1>3, FS_Subset, FS_CardinalityType
<1>5. Cardinality((DOMAIN s) \ Where(s, F)) = Cardinality(DOMAIN s) - Cardinality((DOMAIN s) \cap Where(s, F))
  BY <1>2, FS_Difference
<1>6. Cardinality((DOMAIN s) \ Where(s, F)) = Len(s) - Cardinality(Where(s, F))
  BY <1>2, <1>3, <1>5, Zenon
<1> QED BY <1>1, <1>4, <1>6

\* The pairs that Total counts.
Parts(f) == UNION {{k} \X (1..f[k]) : k \in DOMAIN f}

LEMMA PartsFacts ==
    ASSUME NEW n \in Nat, NEW f \in [1..n -> Nat]
    PROVE  /\ IsFiniteSet(Parts(f)) /\ Total(f) = Cardinality(Parts(f)) /\ Total(f) \in Nat
           /\ \A p : p \in Parts(f) <=> \E k \in 1..n : p \in {k} \X (1..f[k])
<1> DEFINE Pieces == {{k} \X (1..f[k]) : k \in 1..n}
           g == [k \in 1..n |-> {k} \X (1..f[k])]
<1>1. IsFiniteSet(Pieces)
  <2>1. g \in Surjection(1..n, Pieces)
    BY DEF Surjection
  <2>2. IsFiniteSet(1..n)
    <3>1. 1 \in Int /\ n \in Int
      OBVIOUS
    <3> QED BY <3>1, FS_Interval
  <2> HIDE DEF g, Pieces
  <2> QED BY <2>1, <2>2, FS_Surjection
<1>2. ASSUME NEW T \in Pieces  PROVE IsFiniteSet(T)
  <2>1. PICK k \in 1..n : T = {k} \X (1..f[k])
    OBVIOUS
  <2>2. IsFiniteSet({k})
    BY FS_Singleton
  <2>3. IsFiniteSet(1..f[k])
    <3>1. 1 \in Int /\ f[k] \in Int
      OBVIOUS
    <3> QED BY <3>1, FS_Interval
  <2> QED BY <2>1, <2>2, <2>3, FS_Product
<1>3. Parts(f) = UNION Pieces
  BY DEF Parts
<1>4. IsFiniteSet(Parts(f))
  <2> HIDE DEF Pieces
  <2> QED BY <1>1, <1>2, <1>3, FS_UNION
<1>5. \A p : p \in Parts(f) <=> \E k \in 1..n : p \in {k} \X (1..f[k])
  BY <1>3
<1>6. Total(f) = Cardinality(Parts(f))
  BY DEF Total, Parts
<1> QED BY <1>4, <1>5, <1>6, FS_CardinalityType

\* A value more in a sequence is that much more in its sum.
LEMMA TotalAppend ==
    ASSUME NEW n \in Nat, NEW f \in [1..n -> Nat], NEW g \in [1..(n + 1) -> Nat],
           \A k \in 1..n : g[k] = f[k]
    PROVE  Total(g) = Total(f) + g[n + 1]
<1> DEFINE new == {n + 1} \X (1..g[n + 1])
<1>1. n + 1 \in Nat /\ g[n + 1] \in Nat
  OBVIOUS
<1>2. /\ IsFiniteSet(Parts(f)) /\ Total(f) = Cardinality(Parts(f)) /\ Total(f) \in Nat
      /\ \A p : p \in Parts(f) <=> \E k \in 1..n : p \in {k} \X (1..f[k])
  BY PartsFacts
<1>3. /\ Total(g) = Cardinality(Parts(g))
      /\ \A p : p \in Parts(g) <=> \E k \in 1..(n + 1) : p \in {k} \X (1..g[k])
  BY <1>1, PartsFacts
<1>4. IsFiniteSet(new) /\ Cardinality(new) = g[n + 1]
  <2>1. IsFiniteSet({n + 1}) /\ Cardinality({n + 1}) = 1
    BY FS_Singleton
  <2>2. /\ IsFiniteSet(1..g[n + 1])
        /\ Cardinality(1..g[n + 1]) = IF 1 > g[n + 1] THEN 0 ELSE g[n + 1] - 1 + 1
    <3>1. 1 \in Int /\ g[n + 1] \in Int
      BY <1>1
    <3> QED BY <3>1, FS_Interval
  <2>3. Cardinality(1..g[n + 1]) = g[n + 1]
    BY <1>1, <2>2
  <2>4. IsFiniteSet(new) /\ Cardinality(new) = Cardinality({n + 1}) * Cardinality(1..g[n + 1])
    BY <2>1, <2>2, FS_Product
  <2> QED BY <1>1, <2>1, <2>3, <2>4
<1>5. Parts(f) \cap new = {}
  <2> SUFFICES ASSUME NEW p \in Parts(f), p \in new PROVE FALSE
    OBVIOUS
  <2>1. PICK k \in 1..n : p \in {k} \X (1..f[k])
    BY <1>2
  <2>2. p[1] = k /\ p[1] = n + 1
    BY <2>1
  <2> QED BY <2>2
<1>6. ASSUME NEW p  PROVE p \in Parts(g) <=> p \in Parts(f) \/ p \in new
  <2>1. \A k : k \in 1..(n + 1) <=> k \in 1..n \/ k = n + 1
    OBVIOUS
  <2> QED BY <1>2, <1>3, <2>1
<1> HIDE DEF new
<1>7. Parts(g) = Parts(f) \cup new
  BY <1>6
<1>8. Cardinality(Parts(f) \cup new) = Cardinality(Parts(f)) + Cardinality(new) - Cardinality(Parts(f) \cap new)
  BY <1>2, <1>4, FS_Union
<1>9. Cardinality(Parts(f) \cap new) = 0
  BY <1>5, FS_EmptySet
<1>10. Total(g) = Cardinality(Parts(f)) + Cardinality(new) - 0
  BY <1>3, <1>7, <1>8, <1>9, Zenon
<1> QED BY <1>1, <1>2, <1>4, <1>10

\* The smaller and the larger of two numbers.
LEMMA MinMax ==
    ASSUME NEW a \in Nat, NEW b \in Nat
    PROVE  /\ Min({a, b}) = IF a <= b THEN a ELSE b
           /\ Max({a, b}) = IF a >= b THEN a ELSE b
<1>1. Min({a, b}) = IF a <= b THEN a ELSE b
  BY DEF Min
<1>2. Max({a, b}) = IF a >= b THEN a ELSE b
  BY DEF Max
<1> QED BY <1>1, <1>2
-----------------------------------------------------------------------------
(* Sorting and percentiles.                                                *)

\* The places of the values that come before the k-th when f is sorted, k's own
\* included.
Ahead(f, k) == {j \in DOMAIN f : f[j] < f[k] \/ (f[j] = f[k] /\ j <= k)}

\* Two places are put one before the other, by their values.
LEMMA AheadFacts ==
    ASSUME NEW n \in Nat, NEW f \in [1..n -> Nat], NEW k \in 1..n, NEW l \in 1..n
    PROVE  /\ Ahead(f, k) \in SUBSET (1..n) /\ k \in Ahead(f, k)
           /\ l \in Ahead(f, k) => Ahead(f, l) \subseteq Ahead(f, k) /\ f[l] <= f[k]
           /\ l \in Ahead(f, k) \/ k \in Ahead(f, l)
           /\ l \in Ahead(f, k) /\ k \in Ahead(f, l) => k = l
<1>1. DOMAIN f = 1..n /\ f[k] \in Nat /\ f[l] \in Nat /\ k \in Nat /\ l \in Nat
  OBVIOUS
<1>2. \A i, m \in 1..n : i \in Ahead(f, m) <=> f[i] < f[m] \/ (f[i] = f[m] /\ i <= m)
  BY <1>1 DEF Ahead
<1>3. Ahead(f, k) \in SUBSET (1..n) /\ Ahead(f, l) \in SUBSET (1..n)
  BY <1>1 DEF Ahead
<1>4. k \in Ahead(f, k)
  BY <1>1, <1>2
<1>5. ASSUME l \in Ahead(f, k)
      PROVE  Ahead(f, l) \subseteq Ahead(f, k) /\ f[l] <= f[k]
  <2>1. f[l] < f[k] \/ (f[l] = f[k] /\ l <= k)
    BY <1>2, <1>5
  <2>2. ASSUME NEW i \in 1..n, i \in Ahead(f, l)  PROVE i \in Ahead(f, k)
    <3>1. f[i] \in Nat /\ i \in Nat
      OBVIOUS
    <3>2. f[i] < f[l] \/ (f[i] = f[l] /\ i <= l)
      BY <1>2, <2>2
    <3>3. f[i] < f[k] \/ (f[i] = f[k] /\ i <= k)
      BY <1>1, <2>1, <3>1, <3>2
    <3> QED BY <1>2, <3>3
  <2> QED BY <1>1, <1>3, <2>1, <2>2
<1>6. l \in Ahead(f, k) \/ k \in Ahead(f, l)
  BY <1>1, <1>2
<1>7. l \in Ahead(f, k) /\ k \in Ahead(f, l) => k = l
  BY <1>1, <1>2
<1> QED BY <1>3, <1>4, <1>5, <1>6, <1>7

\* The places after sorting are 1 to n, each taken once, in the values' order.
LEMMA PlaceFacts ==
    ASSUME NEW n \in Nat, NEW f \in [1..n -> Nat]
    PROVE  /\ \A k \in 1..n : PlaceOf(f, k) = Cardinality(Ahead(f, k)) /\ PlaceOf(f, k) \in 1..n
           /\ \A k, l \in 1..n : PlaceOf(f, k) <= PlaceOf(f, l) => f[k] <= f[l]
           /\ \A i \in 1..n : \E k \in 1..n : PlaceOf(f, k) = i
<1> DEFINE place == [k \in 1..n |-> PlaceOf(f, k)]
<1>1. IsFiniteSet(1..n) /\ Cardinality(1..n) = n
  <2>1. 1 \in Int /\ n \in Int
    OBVIOUS
  <2>2. IsFiniteSet(1..n) /\ Cardinality(1..n) = IF 1 > n THEN 0 ELSE n - 1 + 1
    BY <2>1, FS_Interval
  <2> QED BY <2>2
<1>2. \A k : PlaceOf(f, k) = Cardinality(Ahead(f, k))
  BY DEF PlaceOf, Ahead
<1>3. ASSUME NEW k \in 1..n
      PROVE  IsFiniteSet(Ahead(f, k)) /\ PlaceOf(f, k) \in 1..n
  <2>1. Ahead(f, k) \in SUBSET (1..n) /\ k \in Ahead(f, k)
    BY AheadFacts
  <2>2. IsFiniteSet(Ahead(f, k)) /\ Cardinality(Ahead(f, k)) <= n
    BY <1>1, <2>1, FS_Subset
  <2>3. Cardinality(Ahead(f, k)) \in Nat /\ Cardinality(Ahead(f, k)) # 0
    BY <2>1, <2>2, FS_CardinalityType, FS_EmptySet
  <2> QED BY <1>2, <2>2, <2>3
<1>4. ASSUME NEW k \in 1..n, NEW l \in 1..n, PlaceOf(f, k) <= PlaceOf(f, l)
      PROVE  k \in Ahead(f, l)
  <2> SUFFICES ASSUME k \notin Ahead(f, l) PROVE FALSE
    OBVIOUS
  <2>1. l \in Ahead(f, k) /\ Ahead(f, l) \in SUBSET Ahead(f, k) /\ k \in Ahead(f, k)
    BY AheadFacts
  <2>2. PlaceOf(f, l) <= PlaceOf(f, k) /\ PlaceOf(f, k) # PlaceOf(f, l)
    <3>1. IsFiniteSet(Ahead(f, k)) /\ Ahead(f, k) # Ahead(f, l)
      BY <1>3, <2>1
    <3>2. /\ Cardinality(Ahead(f, l)) <= Cardinality(Ahead(f, k))
          /\ Cardinality(Ahead(f, k)) # Cardinality(Ahead(f, l))
      BY <2>1, <3>1, FS_Subset
    <3> QED BY <1>2, <3>2, Zenon
  <2>3. PlaceOf(f, k) \in 1..n /\ PlaceOf(f, l) \in 1..n
    BY <1>3
  <2> QED BY <1>4, <2>2, <2>3
<1>5. \A k, l \in 1..n : PlaceOf(f, k) <= PlaceOf(f, l) => f[k] <= f[l]
  BY <1>4, AheadFacts
<1>6. place \in Injection(1..n, 1..n)
  <2>1. place \in [1..n -> 1..n]
    BY <1>3
  <2>2. ASSUME NEW k \in 1..n, NEW l \in 1..n, place[k] = place[l]  PROVE k = l
    <3>1. PlaceOf(f, k) = PlaceOf(f, l) /\ PlaceOf(f, k) \in 1..n
      BY <1>3, <2>2
    <3>2. k \in Ahead(f, l) /\ l \in Ahead(f, k)
      BY <1>4, <3>1
    <3> QED BY <3>2, AheadFacts
  <2> HIDE DEF place
  <2> QED BY <2>1, <2>2 DEF Injection, IsInjective
<1>7. place \in Surjection(1..n, 1..n)
  <2> HIDE DEF place
  <2> QED BY <1>1, <1>6, FS_Injection
<1>8. ASSUME NEW i \in 1..n  PROVE \E k \in 1..n : PlaceOf(f, k) = i
  <2>1. \E k \in 1..n : place[k] = i
    <3> HIDE DEF place
    <3> QED BY <1>7 DEF Surjection
  <2> QED BY <2>1
<1> QED BY <1>2, <1>3, <1>5, <1>8

\* n numbers in ascending order.
Ascends(g, n) ==
    g \in [1..n -> Nat] /\ \A i, j \in 1..n : i <= j => g[i] <= g[j]

\* A sorted sequence ascends and holds values of the sequence, each at its place.
LEMMA SortedFacts ==
    ASSUME NEW n \in Nat, NEW f \in [1..n -> Nat]
    PROVE  /\ Ascends(Sorted(f), n)
           /\ \A i \in 1..n : \E k \in 1..n : PlaceOf(f, k) = i /\ Sorted(f)[i] = f[k]
<1> DEFINE from(i) == CHOOSE k \in 1..n : PlaceOf(f, k) = i
<1>1. ASSUME NEW i \in 1..n
      PROVE  from(i) \in 1..n /\ PlaceOf(f, from(i)) = i
  <2>1. \E k \in 1..n : PlaceOf(f, k) = i
    BY PlaceFacts
  <2> QED BY <2>1
<1>2. DOMAIN f = 1..n
  OBVIOUS
<1>3. ASSUME NEW i \in 1..n  PROVE Sorted(f)[i] = f[from(i)]
  BY <1>2 DEF Sorted
<1> HIDE DEF from
<1>4. ASSUME NEW i \in 1..n
      PROVE  \E k \in 1..n : PlaceOf(f, k) = i /\ Sorted(f)[i] = f[k]
  BY <1>1, <1>3
<1>5. ASSUME NEW i \in 1..n, NEW j \in 1..n, i <= j
      PROVE  Sorted(f)[i] <= Sorted(f)[j]
  <2>1. f[from(i)] <= f[from(j)]
    BY <1>1, <1>5, PlaceFacts
  <2> QED BY <1>3, <2>1
<1>6. Sorted(f) \in [1..n -> Nat]
  <2>1. \A i \in 1..n : Sorted(f)[i] \in Nat
    BY <1>1, <1>3
  <2>2. DOMAIN Sorted(f) = 1..n /\ Sorted(f) = [i \in 1..n |-> Sorted(f)[i]]
    BY <1>2 DEF Sorted
  <2> QED BY <2>1, <2>2
<1> QED BY <1>4, <1>5, <1>6 DEF Ascends

\* i values are not above the i-th of the sorted ones.
LEMMA SortedCounts ==
    ASSUME NEW n \in Nat, NEW f \in [1..n -> Nat], NEW i \in 1..n
    PROVE  LET low == {k \in 1..n : f[k] <= Sorted(f)[i]} IN
           IsFiniteSet(low) /\ Cardinality(low) \in Nat /\ i <= Cardinality(low)
<1> DEFINE low == {k \in 1..n : f[k] <= Sorted(f)[i]}
<1>1. PICK l \in 1..n : PlaceOf(f, l) = i /\ Sorted(f)[i] = f[l]
  BY SortedFacts
<1>2. Ahead(f, l) \in SUBSET low
  <2>1. Ahead(f, l) \in SUBSET (1..n)
    BY AheadFacts
  <2>2. ASSUME NEW k \in 1..n, k \in Ahead(f, l)  PROVE f[k] <= Sorted(f)[i]
    BY <1>1, <2>2, AheadFacts
  <2> QED BY <2>1, <2>2
<1>3. IsFiniteSet(low) /\ Cardinality(low) \in Nat
  <2>1. low \in SUBSET Nat /\ \A k \in low : k <= n
    OBVIOUS
  <2> HIDE DEF low
  <2> QED BY <2>1, FS_BoundedSetOfNaturals, FS_CardinalityType
<1>4. Cardinality(Ahead(f, l)) = i
  BY <1>1, PlaceFacts
<1> HIDE DEF low
<1>5. i <= Cardinality(low)
  BY <1>2, <1>3, <1>4, FS_Subset
<1> QED BY <1>3, <1>5 DEF low

\* A weighted mean of two values, in hundredths.
Mix(a, b, t) == a * (100 - t) + b * t

\* The mean ascends with the weight of the larger and lies between the two.
LEMMA MixFacts ==
    ASSUME NEW a \in Nat, NEW b \in Nat, a <= b, NEW w \in 0..100, NEW u \in w..100
    PROVE  /\ Mix(a, b, w) \in Nat /\ Mix(a, b, w) <= Mix(a, b, u)
           /\ 100 * a <= Mix(a, b, w) /\ Mix(a, b, w) <= 100 * b
<1>1. PICK d \in Nat : b = a + d
  <2>1. b - a \in Nat /\ b = a + (b - a)
    OBVIOUS
  <2> QED BY <2>1
<1>2. ASSUME NEW t \in 0..100
      PROVE  /\ Mix(a, b, t) = 100 * a + d * t
             /\ d * t \in Nat /\ d * t <= 100 * d
  <2>1. a * (100 - t) + (a + d) * t = 100 * a + d * t
    OBVIOUS
  <2>2. d * t \in Nat
    OBVIOUS
  <2>3. d * (100 - t) \in Nat /\ d * (100 - t) = 100 * d - d * t
    OBVIOUS
  <2> QED BY <1>1, <2>1, <2>2, <2>3 DEF Mix
<1>3. d * w <= d * u
  <2>1. u - w \in Nat /\ d * (u - w) \in Nat /\ d * (u - w) = d * u - d * w
    OBVIOUS
  <2>2. d * w \in Nat /\ d * u \in Nat
    BY <1>2
  <2> QED BY <2>1, <2>2
<1>4. w \in 0..100 /\ u \in 0..100
  OBVIOUS
<1>5. /\ Mix(a, b, w) = 100 * a + d * w /\ d * w \in Nat /\ d * w <= 100 * d
      /\ Mix(a, b, u) = 100 * a + d * u /\ d * u \in Nat
  BY <1>2, <1>4
<1> QED BY <1>1, <1>3, <1>5

\* The interpolation between neighbours of a sequence, w hundredths of the way
\* from the one at l + 1 to the next.
Between(g, l, w) == IF w = 0 THEN 100 * g[l + 1] ELSE Mix(g[l + 1], g[l + 2], w)

LEMMA BetweenIs ==
    ASSUME NEW g, NEW l, NEW w
    PROVE  /\ w = 0 => Between(g, l, w) = 100 * g[l + 1]
           /\ w # 0 => Between(g, l, w) = Mix(g[l + 1], g[l + 2], w)
BY SMT DEF Between

\* A place not after the last of n, w hundredths of the way from l + 1 to l + 2.
Inside(l, w, n) == l \in Nat /\ w \in 0..99 /\ 100 * l + w <= 100 * (n - 1)

\* Two places of an ascending sequence.
LEMMA AscendsAt ==
    ASSUME NEW n \in Nat, NEW g, Ascends(g, n), NEW i \in 1..n, NEW j \in 1..n, i <= j
    PROVE  g[i] \in Nat /\ g[j] \in Nat /\ g[i] <= g[j]
BY DEF Ascends

\* Interpolated values of an ascending sequence stay between their neighbours,
\* and ascend.
LEMMA BetweenFacts ==
    ASSUME NEW n \in Nat \ {0}, NEW g, Ascends(g, n), NEW l, NEW w, Inside(l, w, n)
    PROVE  /\ l + 1 \in 1..n /\ Between(g, l, w) \in Nat
           /\ 100 * g[l + 1] <= Between(g, l, w)
           /\ w = 0 => Between(g, l, w) = 100 * g[l + 1]
           /\ w # 0 => l + 2 \in 1..n /\ Between(g, l, w) <= 100 * g[l + 2]
<1>1. /\ l + 1 \in 1..n /\ (w # 0 => l + 2 \in 1..n) /\ l + 1 <= l + 2
      /\ w \in 0..100 /\ w \in w..100
  BY DEF Inside
<1>2. CASE w = 0
  <2>1. g[l + 1] \in Nat /\ Between(g, l, w) = 100 * g[l + 1]
    BY <1>1, <1>2, BetweenIs DEF Ascends
  <2> QED BY <1>1, <1>2, <2>1
<1>3. CASE w # 0
  <2> DEFINE a == g[l + 1]
             b == g[l + 2]
  <2>1. a \in Nat /\ b \in Nat /\ a <= b
    <3>1. n \in Nat /\ l + 1 \in 1..n /\ l + 2 \in 1..n /\ l + 1 <= l + 2
      BY <1>1, <1>3
    <3> QED BY <3>1, AscendsAt, Zenon
  <2>2. Between(g, l, w) = Mix(a, b, w)
    BY <1>3, BetweenIs
  <2> HIDE DEF a, b
  <2>3. Mix(a, b, w) \in Nat /\ 100 * a <= Mix(a, b, w) /\ Mix(a, b, w) <= 100 * b
    BY <1>1, <2>1, MixFacts
  <2> QED BY <1>1, <1>3, <2>2, <2>3 DEF a, b
<1> QED BY <1>2, <1>3

LEMMA BetweenAscends ==
    ASSUME NEW n \in Nat \ {0}, NEW g, Ascends(g, n),
           NEW l, NEW w, Inside(l, w, n), NEW m, NEW u, Inside(m, u, n),
           100 * l + w <= 100 * m + u
    PROVE  Between(g, l, w) <= Between(g, m, u)
<1>1. /\ l < m \/ (l = m /\ w <= u)
      /\ l \in Nat /\ m \in Nat /\ w \in 0..99 /\ u \in 0..99
  BY DEF Inside
<1>2. /\ l + 1 \in 1..n /\ Between(g, l, w) \in Nat
      /\ w = 0 => Between(g, l, w) = 100 * g[l + 1]
      /\ w # 0 => l + 2 \in 1..n /\ Between(g, l, w) <= 100 * g[l + 2]
  BY BetweenFacts
<1>3. /\ m + 1 \in 1..n /\ 100 * g[m + 1] <= Between(g, m, u) /\ Between(g, m, u) \in Nat
      /\ (u # 0 => m + 2 \in 1..n)
  BY BetweenFacts
<1>4. CASE w = 0
  <2>1. l + 1 <= m + 1
    BY <1>1
  <2>2. g[l + 1] <= g[m + 1] /\ g[l + 1] \in Nat /\ g[m + 1] \in Nat
    BY <1>2, <1>3, <2>1 DEF Ascends
  <2> QED BY <1>2, <1>3, <1>4, <2>2
<1>5. CASE w # 0 /\ l < m
  <2>1. l + 2 \in 1..n /\ l + 2 <= m + 1 /\ Between(g, l, w) <= 100 * g[l + 2]
    BY <1>1, <1>2, <1>5
  <2>2. g[l + 2] \in Nat /\ g[m + 1] \in Nat /\ g[l + 2] <= g[m + 1]
    BY <1>3, <2>1 DEF Ascends
  <2> QED BY <1>2, <1>3, <2>1, <2>2
<1>6. CASE w # 0 /\ l = m /\ w <= u
  <2> DEFINE a == g[l + 1]
             b == g[l + 2]
  <2>1. l + 2 \in 1..n /\ u # 0 /\ l + 1 <= l + 2 /\ w \in 0..100 /\ u \in w..100
    BY <1>1, <1>2, <1>6
  <2>2. a \in Nat /\ b \in Nat /\ a <= b
    <3>1. n \in Nat /\ l + 1 \in 1..n /\ l + 2 \in 1..n /\ l + 1 <= l + 2
      BY <1>2, <2>1
    <3> QED BY <3>1, AscendsAt, Zenon
  <2>3. Between(g, l, w) = Mix(a, b, w) /\ Between(g, m, u) = Mix(a, b, u)
    BY <1>6, <2>1, BetweenIs
  <2> HIDE DEF a, b
  <2>4. Mix(a, b, w) <= Mix(a, b, u)
    BY <2>1, <2>2, MixFacts
  <2> QED BY <2>3, <2>4
<1> QED BY <1>1, <1>4, <1>5, <1>6

\* A number of hundredths as a whole part and a rest.
LEMMA Hundredths ==
    ASSUME NEW x \in Nat
    PROVE  \E l \in Nat, w \in 0..99 : x = 100 * l + w /\ l = x \div 100 /\ w = x % 100
OBVIOUS

\* The place of the p-th percentile among n values, in hundredths; it ascends
\* with p.
Index(p, n) == p * (n - 1)

LEMMA IndexFacts ==
    ASSUME NEW n \in Nat \ {0}, NEW p \in 0..100, NEW q \in p..100
    PROVE  Index(p, n) \in Nat /\ Index(p, n) <= Index(q, n) /\ Index(100, n) = 100 * (n - 1)
<1> DEFINE m == n - 1
<1>1. p \in Nat /\ q - p \in Nat /\ m \in Nat
  OBVIOUS
<1> HIDE DEF m
<1>2. p * m \in Nat /\ (q - p) * m \in Nat
  BY <1>1
<1>3. (q - p) * m = q * m - p * m /\ q * m \in Int
  BY <1>1
<1>4. p * m <= q * m
  BY <1>2, <1>3
<1> QED BY <1>2, <1>4 DEF Index, m

\* What percentile takes for p percent of a sequence: the interpolation at the
\* index.
LEMMA PercentileIs ==
    ASSUME NEW f \in Seq(Nat), f # <<>>, NEW p \in 0..100
    PROVE  \E l, w :
               /\ Inside(l, w, Len(f)) /\ Index(p, Len(f)) = 100 * l + w
               /\ percentile(f, p) = Between(Sorted(f), l, w)
<1> DEFINE n == Len(f)
           x == Index(p, n)
<1>1. n \in Nat \ {0}
  OBVIOUS
<1>2. percentile(f, p) = Between(Sorted(f), x \div 100, x % 100)
  BY Zenon DEF percentile, Between, Mix, Index
<1> HIDE DEF n
<1>3. x \in Nat /\ x <= 100 * (n - 1)
  <2>1. 100 \in p..100
    OBVIOUS
  <2> HIDE DEF x
  <2>2. x \in Nat /\ x <= Index(100, n) /\ Index(100, n) = 100 * (n - 1)
    BY <1>1, <2>1, IndexFacts DEF x
  <2> QED BY <2>2, Zenon
<1> HIDE DEF x
<1>4. PICK l \in Nat, w \in 0..99 : x = 100 * l + w /\ l = x \div 100 /\ w = x % 100
  BY <1>3, Hundredths, Zenon
<1>5. Inside(l, w, n) /\ percentile(f, p) = Between(Sorted(f), l, w)
  BY <1>2, <1>3, <1>4, Zenon DEF Inside
<1>6. Inside(l, w, n) /\ Index(p, n) = 100 * l + w
  BY <1>4, <1>5 DEF x
<1> QED BY <1>5, <1>6, Zenon DEF n

\* A percentile is no less than that of a smaller part.
LEMMA PercentileAscends ==
    ASSUME NEW f \in Seq(Nat), f # <<>>, NEW p \in 0..100, NEW q \in p..100
    PROVE  percentile(f, p) <= percentile(f, q)
<1> DEFINE g == Sorted(f)
           n == Len(f)
<1>1. n \in Nat \ {0} /\ n \in Nat /\ f \in [1..n -> Nat] /\ q \in 0..100
  OBVIOUS
<1>2. PICK l, w : /\ Inside(l, w, n) /\ Index(p, n) = 100 * l + w
                  /\ percentile(f, p) = Between(g, l, w)
  BY PercentileIs, Zenon
<1>3. PICK m, u : /\ Inside(m, u, n) /\ Index(q, n) = 100 * m + u
                  /\ percentile(f, q) = Between(g, m, u)
  BY <1>1, PercentileIs, Zenon
<1> HIDE DEF n
<1>4. Ascends(g, n)
  BY <1>1, SortedFacts
<1> HIDE DEF g
<1>5. 100 * l + w <= 100 * m + u
  <2>1. Index(p, n) <= Index(q, n)
    BY <1>1, IndexFacts
  <2>2. Index(p, n) = 100 * l + w /\ Index(q, n) = 100 * m + u
    BY <1>2, <1>3
  <2> QED BY <2>1, <2>2
<1>6. Between(g, l, w) <= Between(g, m, u)
  BY <1>1, <1>2, <1>3, <1>4, <1>5, BetweenAscends, Zenon
<1> QED BY <1>2, <1>3, <1>6, Zenon

\* It is at least the value at its rank and at most some value.
LEMMA PercentileFacts ==
    ASSUME NEW f \in Seq(Nat), f # <<>>, NEW p \in 0..100
    PROVE  /\ percentile(f, p) \in Nat
           /\ \E i \in 1..Len(f) :
                 Index(p, Len(f)) < 100 * i /\ 100 * Sorted(f)[i] <= percentile(f, p)
           /\ \E k \in 1..Len(f) : percentile(f, p) <= 100 * f[k]
<1> DEFINE g == Sorted(f)
           n == Len(f)
<1>1. n \in Nat \ {0} /\ n \in Nat /\ f \in [1..n -> Nat]
  OBVIOUS
<1>2. PICK l, w : /\ Inside(l, w, n) /\ Index(p, n) = 100 * l + w
                  /\ percentile(f, p) = Between(g, l, w)
  BY PercentileIs, Zenon
<1> HIDE DEF n
<1>3. Ascends(g, n) /\ \A i \in 1..n : \E k \in 1..n : PlaceOf(f, k) = i /\ g[i] = f[k]
  BY <1>1, SortedFacts, Zenon
<1> HIDE DEF g
<1>4. /\ l + 1 \in 1..n /\ Between(g, l, w) \in Nat
      /\ 100 * g[l + 1] <= Between(g, l, w)
      /\ w = 0 => Between(g, l, w) = 100 * g[l + 1]
      /\ w # 0 => l + 2 \in 1..n /\ Between(g, l, w) <= 100 * g[l + 2]
  BY <1>1, <1>2, <1>3, BetweenFacts
<1>5. Index(p, n) < 100 * (l + 1)
  BY <1>2 DEF Inside
<1>6. \E k \in 1..n : percentile(f, p) <= 100 * f[k]
  <2>1. \E i \in 1..n : Between(g, l, w) <= 100 * g[i]
    BY <1>4
  <2>2. PICK i \in 1..n : percentile(f, p) <= 100 * g[i]
    BY <1>2, <2>1, Zenon
  <2>3. PICK k \in 1..n : g[i] = f[k]
    BY <1>3, Zenon
  <2> QED BY <2>2, <2>3, Zenon
<1> QED BY <1>2, <1>4, <1>5, <1>6, Zenon DEF g, n

\* As many values as its rank asks for are not above a percentile.
LEMMA NotAboveFacts ==
    ASSUME NEW f \in Seq(Nat), f # <<>>, NEW p \in 0..100
    PROVE  LET low == {k \in 1..Len(f) : 100 * f[k] <= percentile(f, p)} IN
           Cardinality(low) \in Nat /\ Index(p, Len(f)) < 100 * Cardinality(low)
<1> DEFINE v == percentile(f, p)
           n == Len(f)
           low == {k \in 1..n : 100 * f[k] <= v}
<1>1. n \in Nat \ {0} /\ n \in Nat /\ f \in [1..n -> Nat]
  OBVIOUS
<1>2. v \in Nat
  BY PercentileFacts, Zenon
<1>3. PICK i \in 1..n : Index(p, n) < 100 * i /\ 100 * Sorted(f)[i] <= v
  BY PercentileFacts, Zenon
<1> HIDE DEF v, n
<1>4. Index(p, n) \in Nat
  <2>1. p \in p..100
    OBVIOUS
  <2> QED BY <1>1, <2>1, IndexFacts
<1> DEFINE s == Sorted(f)[i]
           few == {k \in 1..n : f[k] <= s}
<1>5. s \in Nat /\ 100 * s <= v
  <2>1. Ascends(Sorted(f), n)
    BY <1>1, SortedFacts
  <2> QED BY <1>3, <2>1 DEF Ascends
<1>6. Cardinality(few) \in Nat /\ i <= Cardinality(few)
  BY <1>1, SortedCounts
<1> HIDE DEF s
<1>7. few \in SUBSET low
  <2> SUFFICES ASSUME NEW k \in 1..n, f[k] <= s
               PROVE  100 * f[k] <= v
    OBVIOUS
  <2>1. f[k] \in Nat
    BY <1>1
  <2> QED BY <1>2, <1>5, <2>1
<1>8. IsFiniteSet(low) /\ Cardinality(low) \in Nat
  <2>1. low \in SUBSET Nat /\ \A k \in low : k <= n
    BY <1>1
  <2> HIDE DEF low
  <2> QED BY <1>1, <2>1, FS_BoundedSetOfNaturals, FS_CardinalityType
<1> HIDE DEF low, few
<1>9. Cardinality(few) <= Cardinality(low)
  BY <1>7, <1>8, FS_Subset
<1>10. Index(p, n) < 100 * Cardinality(low)
  BY <1>1, <1>3, <1>4, <1>6, <1>8, <1>9
<1> QED BY <1>8, <1>10, Zenon DEF low, v, n

-----------------------------------------------------------------------------
(* Reading the file.                                                       *)

\* What the next line is to the summary.
LEMMA NextLineKinds ==
    ASSUME StorageTypeOK, LinesInv, line < Len(file)
    PROVE  LET k == line + 1 IN
           /\ k \in 1..Len(file) /\ line \in Nat
           /\ NextLine = Blank => k \notin TextLines /\ k \notin DataLines
           /\ NextLine = Header /\ first => k \in TextLines /\ k \notin DataLines
           /\ NextLine \notin {Blank, Header} =>
                 k \in TextLines /\ k \in DataLines /\ NextLine \in Row
<1>1. /\ line \in 0..Len(file) /\ Len(file) \in Nat /\ DOMAIN file = 1..Len(file)
      /\ file \in Seq({Blank, Header} \cup Row) /\ Blank # Header
  BY StorageConstants DEF StorageTypeOK
<1> DEFINE k == line + 1
<1>2. /\ k \in 1..Len(file) /\ line \in Nat /\ k \in DOMAIN file
      /\ NextLine = file[k] /\ file[k] \in {Blank, Header} \cup Row
  BY <1>1 DEF NextLine
<1>3. first => \A j \in TextLines : k <= j
  <2>1. \A j \in TextLines : j \in 1..Len(file)
    BY <1>1 DEF TextLines
  <2> QED BY <1>1, <2>1 DEF LinesInv
<1> HIDE DEF k
<1>4. NextLine = Blank => k \notin TextLines /\ k \notin DataLines
  BY <1>2 DEF TextLines, DataLines
<1>5. NextLine = Header /\ first => k \in TextLines /\ k \notin DataLines
  BY <1>1, <1>2, <1>3 DEF TextLines, DataLines
<1>6. NextLine \notin {Blank, Header} =>
         k \in TextLines /\ k \in DataLines /\ NextLine \in Row
  BY <1>2 DEF TextLines, DataLines
<1> QED BY <1>2, <1>4, <1>5, <1>6 DEF k

\* The sets of lines are sets of numbers up to the length of the file.
LEMMA LineSets ==
    ASSUME StorageTypeOK
    PROVE  /\ Len(file) \in Nat /\ line \in 0..Len(file) /\ DOMAIN file = 1..Len(file)
           /\ TextLines \in SUBSET (1..Len(file)) /\ DataLines \in SUBSET (1..Len(file))
           /\ ReadLines \in SUBSET (1..Len(file)) /\ HitLines \in SUBSET (1..Len(file))
<1>1. Len(file) \in Nat /\ line \in 0..Len(file) /\ DOMAIN file = 1..Len(file)
  BY StorageConstants DEF StorageTypeOK
<1> QED BY <1>1 DEF TextLines, DataLines, ReadLines, HitLines

\* A row that parses is a request of the kinds that its texts say.
LEMMA RowKinds ==
    ASSUME NEW row \in Row, RowParses(row)
    PROVE  /\ ParseRow(row) \in Request
           /\ ParseRow(row) \in Reads <=> row.operation = "read"
           /\ ParseRow(row) \in Hits <=> row.cache_hit = "true"
<1>1. row.id \in Nat /\ row.size \in Nat
  BY DEF Row, RowParses
<1>2. ParseRow(row) \in Request
  BY <1>1 DEF ParseRow, Request
<1>3. /\ ParseRow(row).operation = (IF row.operation = "read" THEN "Read" ELSE "Write")
      /\ ParseRow(row).cache_hit = (row.cache_hit = "true")
  BY DEF ParseRow
<1> QED BY <1>2, <1>3 DEF Reads, Hits

\* Reading a line that holds no request.
LEMMA LineSkipped ==
    ASSUME StorageTypeOK, LinesInv, line < Len(file), UNCHANGED <<file, requests>>,
           line' = line + 1, line + 1 \notin DataLines,
           \/ line + 1 \notin TextLines /\ first' = first
           \/ line + 1 \in TextLines /\ first' = FALSE
    PROVE  LinesInv'
<1>1. /\ Len(file) \in Nat /\ line \in 0..Len(file) /\ DataLines \in SUBSET (1..Len(file))
      /\ TextLines \in SUBSET (1..Len(file))
      /\ ReadLines \in SUBSET (1..Len(file)) /\ HitLines \in SUBSET (1..Len(file))
  BY LineSets
<1>2. UNCHANGED <<TextLines, DataLines, ReadLines, HitLines>>
  BY DEF TextLines, DataLines, ReadLines, HitLines
<1>3. line + 1 \notin ReadLines /\ line + 1 \notin HitLines
  BY DEF ReadLines, HitLines
<1>4. /\ Rank(DataLines, line + 1) = Rank(DataLines, line)
      /\ Rank(ReadLines, line + 1) = Rank(ReadLines, line)
      /\ Rank(HitLines, line + 1) = Rank(HitLines, line)
  <2>1. Rank(DataLines, line + 1) = Rank(DataLines, line)
    BY <1>1, RankFacts
  <2>2. Rank(ReadLines, line + 1) = Rank(ReadLines, line)
    BY <1>1, <1>3, RankFacts
  <2>3. Rank(HitLines, line + 1) = Rank(HitLines, line)
    BY <1>1, <1>3, RankFacts
  <2> QED BY <2>1, <2>2, <2>3
<1>5. first' <=> \A k \in TextLines' : k > line'
  <2>1. \A k \in TextLines : k > line + 1 <=> k > line /\ k # line + 1
    BY <1>1
  <2>2. \A k \in TextLines : k = line + 1 => ~(k > line + 1)
    BY <1>1
  <2> QED BY <1>2, <2>1, <2>2 DEF LinesInv
<1>6. \A k \in DataLines' : k <= line' => file'[k] # Header /\ RowParses(file'[k])
  <2>1. \A k \in DataLines : k <= line + 1 => k <= line
    BY <1>1
  <2> QED BY <1>2, <2>1 DEF LinesInv
<1>7. /\ Len(requests') = Rank(DataLines', line')
      /\ Cardinality(Where(requests', Reads)) = Rank(ReadLines', line')
      /\ Cardinality(Where(requests', Hits)) = Rank(HitLines', line')
  BY <1>2, <1>4 DEF LinesInv
<1> QED BY <1>5, <1>6, <1>7 DEF LinesInv

\* Reading a line that holds one.
LEMMA LineAdded ==
    ASSUME StorageTypeOK, LinesInv, AddRow
    PROVE  LinesInv' /\ requests' \in Seq(Request) /\ line' \in 0..Len(file')
<1>0. /\ line < Len(file) /\ line' = line + 1 /\ file' = file /\ first' = FALSE
      /\ NextLine \notin {Blank, Header} /\ RowParses(NextLine)
      /\ requests' = Append(requests, ParseRow(NextLine))
  BY DEF AddRow, Reading
<1>1. /\ Len(file) \in Nat /\ line \in 0..Len(file) /\ DataLines \in SUBSET (1..Len(file))
      /\ TextLines \in SUBSET (1..Len(file))
      /\ ReadLines \in SUBSET (1..Len(file)) /\ HitLines \in SUBSET (1..Len(file))
  BY LineSets
<1>2. UNCHANGED <<TextLines, DataLines, ReadLines, HitLines>>
  BY <1>0 DEF TextLines, DataLines, ReadLines, HitLines
<1>3. line + 1 \in TextLines /\ line + 1 \in DataLines /\ NextLine \in Row
  BY <1>0, NextLineKinds
<1>4. /\ line + 1 \in ReadLines <=> NextLine.operation = "read"
      /\ line + 1 \in HitLines <=> NextLine.cache_hit = "true"
  BY <1>0, <1>3 DEF ReadLines, HitLines, NextLine
<1> DEFINE e == ParseRow(NextLine)
<1>5. /\ e \in Request /\ requests \in Seq(Request)
      /\ e \in Reads <=> line + 1 \in ReadLines
      /\ e \in Hits <=> line + 1 \in HitLines
  BY <1>0, <1>3, <1>4, RowKinds DEF StorageTypeOK
<1> HIDE DEF e
<1>6. /\ Len(requests') = Len(requests) + 1 /\ requests' \in Seq(Request)
      /\ Len(requests) \in Nat
  BY <1>0, <1>5 DEF e
<1>7. Len(requests') = Rank(DataLines, line + 1)
  <2>1. Rank(DataLines, line + 1) = Rank(DataLines, line) + 1
    BY <1>1, <1>3, RankFacts
  <2> QED BY <1>6, <2>1 DEF LinesInv
<1>8. Cardinality(Where(requests', Reads)) = Rank(ReadLines, line + 1)
  <2>1. /\ line + 1 \in ReadLines => Rank(ReadLines, line + 1) = Rank(ReadLines, line) + 1
        /\ line + 1 \notin ReadLines => Rank(ReadLines, line + 1) = Rank(ReadLines, line)
    BY <1>1, RankFacts
  <2>2. /\ e \in Reads => Cardinality(Where(requests', Reads)) = Cardinality(Where(requests, Reads)) + 1
        /\ e \notin Reads => Where(requests', Reads) = Where(requests, Reads)
    BY <1>0, <1>5, WhereAppend DEF e
  <2> QED BY <1>5, <2>1, <2>2 DEF LinesInv
<1>9. Cardinality(Where(requests', Hits)) = Rank(HitLines, line + 1)
  <2>1. /\ line + 1 \in HitLines => Rank(HitLines, line + 1) = Rank(HitLines, line) + 1
        /\ line + 1 \notin HitLines => Rank(HitLines, line + 1) = Rank(HitLines, line)
    BY <1>1, RankFacts
  <2>2. /\ e \in Hits => Cardinality(Where(requests', Hits)) = Cardinality(Where(requests, Hits)) + 1
        /\ e \notin Hits => Where(requests', Hits) = Where(requests, Hits)
    BY <1>0, <1>5, WhereAppend DEF e
  <2> QED BY <1>5, <2>1, <2>2 DEF LinesInv
<1>10. \A k \in DataLines' : k <= line' => file'[k] # Header /\ RowParses(file'[k])
  <2>1. \A k \in DataLines : k <= line + 1 => k <= line \/ k = line + 1
    BY <1>1
  <2> QED BY <1>0, <1>2, <2>1 DEF LinesInv, NextLine
<1>11. first' <=> \A k \in TextLines' : k > line'
  <2>1. ~(line + 1 > line + 1)
    BY <1>1
  <2> QED BY <1>0, <1>2, <1>3, <2>1
<1>12. line' \in 0..Len(file')
  BY <1>0, <1>1
<1> QED BY <1>0, <1>2, <1>6, <1>7, <1>8, <1>9, <1>10, <1>11, <1>12 DEF LinesInv
-----------------------------------------------------------------------------
(* Running the requests.                                                   *)

\* The latencies of a request and its depth are naturals; size_t wraps.
LEMMA ServiceFacts ==
    ASSUME StorageTypeOK, NEW r \in Request, NEW i \in Nat
    PROVE  /\ config.max_queue_depth \in Nat /\ QueueDepth(i) \in Nat
           /\ QueueDelay(QueueDepth(i)) \in Nat /\ service_latency(r) \in Nat
<1>1. config \in Config /\ SizeT \in Nat \ {0}
  BY StorageConstants DEF StorageTypeOK
<1>2. /\ config.max_queue_depth \in Nat /\ config.cache_hit_latency \in Nat
      /\ config.cache_miss_latency \in Nat /\ config.write_base_latency \in Nat
      /\ config.queue_penalty \in Nat
  BY <1>1 DEF Config
<1>3. QueueDepth(i) \in Nat
  <2>1. Min({i, config.max_queue_depth}) =
           IF i <= config.max_queue_depth THEN i ELSE config.max_queue_depth
    BY <1>2, MinMax
  <2> QED BY <1>2, <2>1 DEF QueueDepth
<1>4. QueueDelay(QueueDepth(i)) \in Nat
  <2> DEFINE d == QueueDepth(i)
             p == config.queue_penalty
  <2>1. (d + SizeT - 1) % SizeT \in Nat
    <3>1. d + SizeT - 1 \in Int
      BY <1>1, <1>3
    <3> HIDE DEF d
    <3> QED BY <1>1, <3>1
  <2>2. \A x \in Nat : x * p \in Nat
    BY <1>2
  <2> QED BY <2>1, <2>2 DEF QueueDelay
<1>5. service_latency(r) \in Nat
  <2>1. r.size \in Nat
    BY DEF Request
  <2> QED BY <1>2, <2>1 DEF service_latency
<1> QED BY <1>2, <1>3, <1>4, <1>5

\* One request run adds a result whose latency the device's clock moves by.
LEMMA OneRun ==
    ASSUME StorageTypeOK, RunOne
    PROVE  /\ Len(results') = Len(results) + 1 /\ Len(results) \in Nat
           /\ results' \in Seq(Result) /\ Len(results) < Len(requests)
           /\ \A k \in 1..Len(results) : results'[k] = results[k]
           /\ results'[Len(results) + 1].queue_depth = QueueDepth(Len(results) + 1)
           /\ completion_time' = Completion(results'[Len(results) + 1].total_latency)
           /\ virtual_time' = virtual_time + 2
           /\ UNCHANGED <<file, config, state, parsing, summary>>
<1> DEFINE i       == Len(results) + 1
           delay   == QueueDelay(QueueDepth(i))
           service == service_latency(requests[i])
           new     == [id |-> requests[i].id, queue_delay |-> delay,
                       service_latency |-> service, total_latency |-> delay + service,
                       queue_depth |-> QueueDepth(i), cache_hit |-> requests[i].cache_hit]
<1>1. /\ results \in Seq(Result) /\ requests \in Seq(Request)
      /\ Len(results) \in Nat /\ Len(requests) \in Nat /\ Len(results) < Len(requests)
  BY DEF StorageTypeOK, RunOne
<1>2. i \in Nat /\ requests[i] \in Request
  BY <1>1
<1>3. /\ results' = Append(results, new)
      /\ completion_time' = Completion(delay + service)
      /\ virtual_time' = virtual_time + 2
      /\ UNCHANGED <<file, config, state, parsing, summary>>
  BY DEF RunOne
<1>4. delay \in Nat /\ service \in Nat /\ QueueDepth(i) \in Nat
  BY <1>2, ServiceFacts
<1>5. requests[i].id \in Nat /\ requests[i].cache_hit \in BOOLEAN
  BY <1>2 DEF Request
<1>6. delay + service \in Nat
  BY <1>4
<1> HIDE DEF delay, service
<1>7. new \in Result /\ new.total_latency = delay + service /\ new.queue_depth = QueueDepth(i)
  BY <1>4, <1>5, <1>6 DEF Result
<1> HIDE DEF new
<1>8. /\ Len(results') = Len(results) + 1 /\ results' \in Seq(Result)
      /\ \A k \in 1..Len(results) : results'[k] = results[k]
      /\ results'[i] = new
  BY <1>1, <1>3, <1>7
<1> QED BY <1>1, <1>3, <1>7, <1>8

\* The latencies of results, as a function on their places.
LEMMA LatencyFacts ==
    ASSUME NEW s \in Seq(Result)
    PROVE  LET f == [k \in DOMAIN s |-> s[k].total_latency] IN
           /\ Len(s) \in Nat /\ DOMAIN s = 1..Len(s)
           /\ f \in [1..Len(s) -> Nat]
           /\ \A k \in 1..Len(s) :
                 s[k].total_latency \in Nat /\ f[k] = s[k].total_latency
<1>1. Len(s) \in Nat /\ DOMAIN s = 1..Len(s)
  OBVIOUS
<1>2. \A r \in Result : r.total_latency \in Nat
  BY DEF Result
<1>3. \A k \in 1..Len(s) : s[k] \in Result
  OBVIOUS
<1>4. \A k \in 1..Len(s) : s[k].total_latency \in Nat
  BY <1>2, <1>3
<1> QED BY <1>1, <1>4

LEMMA RunKeepsDepth ==
    ASSUME StorageTypeOK, DepthInv, RunOne
    PROVE  DepthInv'
<1>1. /\ Len(results') = Len(results) + 1 /\ Len(results) \in Nat
      /\ results' \in Seq(Result)
      /\ \A k \in 1..Len(results) : results'[k] = results[k]
      /\ results'[Len(results) + 1].queue_depth = QueueDepth(Len(results) + 1)
      /\ config' = config
  BY OneRun
<1>2. DOMAIN results' = 1..(Len(results) + 1) /\ DOMAIN results = 1..Len(results)
  BY <1>1 DEF StorageTypeOK
<1>3. \A k : k \in 1..(Len(results) + 1) <=> k \in 1..Len(results) \/ k = Len(results) + 1
  BY <1>1
<1>4. \A k : QueueDepth(k)' = QueueDepth(k)
  BY <1>1 DEF QueueDepth
<1> QED BY <1>1, <1>2, <1>3, <1>4 DEF DepthInv

LEMMA RunKeepsBusy ==
    ASSUME StorageTypeOK, BusyInv, RunOne
    PROVE  BusyInv' /\ virtual_time' \in Nat /\ completion_time' \in Nat
<1> DEFINE n == Len(results)
           t == results'[n + 1].total_latency
<1>1. /\ Len(results') = n + 1 /\ n \in Nat /\ results' \in Seq(Result)
      /\ \A k \in 1..n : results'[k] = results[k]
      /\ completion_time' = Completion(t)
      /\ virtual_time' = virtual_time + 2
  BY OneRun
<1>2. /\ DOMAIN results = 1..n /\ Latencies \in [1..n -> Nat]
      /\ \A k \in 1..n : results[k].total_latency \in Nat
                            /\ Latencies[k] = results[k].total_latency
  BY LatencyFacts DEF StorageTypeOK, Latencies
<1>3. /\ DOMAIN results' = 1..(n + 1) /\ Latencies' \in [1..(n + 1) -> Nat]
      /\ \A k \in 1..(n + 1) : results'[k].total_latency \in Nat
                            /\ Latencies'[k] = results'[k].total_latency
  <2>1. /\ DOMAIN results' = 1..Len(results') /\ Latencies' \in [1..Len(results') -> Nat]
        /\ \A k \in 1..Len(results') : results'[k].total_latency \in Nat
                              /\ Latencies'[k] = results'[k].total_latency
    BY <1>1, LatencyFacts DEF Latencies
  <2> QED BY <1>1, <2>1, Zenon
<1>4. t \in Nat /\ Latencies'[n + 1] = t /\ Total(Latencies') = Total(Latencies) + t
  <2>1. n + 1 \in 1..(n + 1) /\ \A k \in 1..n : k \in 1..(n + 1)
    BY <1>1
  <2>2. \A k \in 1..n : Latencies'[k] = Latencies[k]
    BY <1>1, <1>2, <1>3, <2>1
  <2>3. Total(Latencies') = Total(Latencies) + Latencies'[n + 1]
    <3> DEFINE f == Latencies
               g == Latencies'
    <3>1. n \in Nat /\ f \in [1..n -> Nat] /\ g \in [1..(n + 1) -> Nat]
          /\ \A k \in 1..n : g[k] = f[k]
      BY <1>1, <1>2, <1>3, <2>2
    <3> HIDE DEF f, g, n
    <3>2. Total(g) = Total(f) + g[n + 1]
      BY <3>1, TotalAppend
    <3> QED BY <3>2 DEF f, g
  <2> QED BY <1>3, <2>1, <2>3
<1>5. Total(Latencies) \in Nat
  BY <1>1, <1>2, PartsFacts
<1>6. virtual_time = 2 * n /\ virtual_time \in Nat /\ completion_time \in Nat
  BY DEF BusyInv, StorageTypeOK
<1> HIDE DEF t, n
<1>7. completion_time' =
         (IF completion_time >= virtual_time + 2 THEN completion_time ELSE virtual_time + 2) + t
  <2>1. virtual_time + 2 \in Nat
    BY <1>6
  <2>2. Max({completion_time, virtual_time + 2}) =
           IF completion_time >= virtual_time + 2 THEN completion_time ELSE virtual_time + 2
    BY <1>6, <2>1, MinMax
  <2> QED BY <1>1, <2>2 DEF Completion
<1>8. virtual_time' = 2 * Len(results') /\ virtual_time' \in Nat /\ completion_time' \in Nat
  BY <1>1, <1>4, <1>6, <1>7
<1>9. results' # <<>>
  BY <1>1
<1>10. ASSUME \A k \in DOMAIN results' : results'[k].total_latency >= 2
       PROVE  /\ completion_time' = Total(Latencies') + 2
              /\ Total(Latencies') >= 2 * Len(results')
  <2>1. t >= 2
    BY <1>1, <1>3, <1>10 DEF t
  <2>2. \A k \in DOMAIN results : results[k].total_latency >= 2
    <3>1. \A k \in 1..n : k \in 1..(n + 1)
      BY <1>1
    <3> QED BY <1>1, <1>2, <1>3, <1>10, <3>1
  <2>3. CASE results = <<>>
    <3>1. n = 0 /\ completion_time = 0
      BY <2>3 DEF BusyInv, n
    <3>2. Total(Latencies) = 0
      <4>1. Parts(Latencies) = {}
        BY <1>2, <3>1 DEF Parts
      <4>2. Total(Latencies) = Cardinality(Parts(Latencies))
        BY <1>1, <1>2, PartsFacts
      <4> QED BY <4>1, <4>2, FS_EmptySet
    <3> QED BY <1>1, <1>4, <1>6, <1>7, <2>1, <3>1, <3>2
  <2>4. CASE results # <<>>
    <3>1. completion_time = Total(Latencies) + 2 /\ Total(Latencies) >= 2 * n
      BY <2>2, <2>4 DEF BusyInv, n
    <3> QED BY <1>1, <1>4, <1>5, <1>6, <1>7, <2>1, <3>1
  <2> QED BY <2>3, <2>4
<1> QED BY <1>8, <1>9, <1>10 DEF BusyInv
-----------------------------------------------------------------------------
(* The invariant.                                                          *)

\* The summary is made of the requests, the results and the configuration.
LEMMA SummaryKept ==
    ASSUME UNCHANGED <<requests, results, config>>
    PROVE  Summary' = Summary
<1>1. Latencies' = Latencies
  BY DEF Latencies
<1>2. \A n : QueuePressure(n)' = QueuePressure(n)
  BY DEF QueuePressure, Count, Quantify
<1>3. classify_bottleneck' = classify_bottleneck
  BY <1>2 DEF classify_bottleneck, Count, Quantify
<1> QED BY <1>1, <1>3 DEF Summary, Count, Quantify

\* A step that reads, runs and configures nothing.
LEMMA DataKept ==
    ASSUME StorageInv, UNCHANGED <<file, config, parsing, running>>
    PROVE  LinesInv' /\ DepthInv' /\ BusyInv'
<1>1. UNCHANGED <<file, config, line, first, requests, results, virtual_time, completion_time>>
  BY DEF parsing, running
<1>2. LinesInv'
  <2>1. UNCHANGED <<TextLines, DataLines, ReadLines, HitLines>>
    BY <1>1 DEF TextLines, DataLines, ReadLines, HitLines
  <2> QED BY <1>1, <2>1 DEF StorageInv, LinesInv
<1>3. DepthInv'
  BY <1>1 DEF StorageInv, DepthInv, QueueDepth
<1>4. BusyInv'
  BY <1>1 DEF StorageInv, BusyInv, Latencies
<1> QED BY <1>2, <1>3, <1>4

LEMMA StorageInitially == Init => StorageInv
<1> SUFFICES ASSUME Init PROVE StorageInv
  OBVIOUS
<1>1. /\ file \in Files /\ config \in Configs /\ state = "open" /\ line = 0
      /\ first = TRUE /\ requests = <<>> /\ results = <<>> /\ virtual_time = 0
      /\ completion_time = 0 /\ summary = <<>>
  BY DEF Init
<1>2. StorageTypeOK
  <2>1. Len(file) \in Nat
    BY <1>1, StorageConstants
  <2> QED BY <1>1, <2>1 DEF StorageTypeOK
<1>3. LinesInv
  <2>1. /\ Len(file) \in Nat
        /\ TextLines \in SUBSET (1..Len(file)) /\ DataLines \in SUBSET (1..Len(file))
        /\ ReadLines \in SUBSET (1..Len(file)) /\ HitLines \in SUBSET (1..Len(file))
    BY <1>2, LineSets
  <2>2. /\ \A k \in TextLines : k > 0
        /\ \A k \in DataLines : ~(k <= 0)
    BY <2>1
  <2>3. Rank(DataLines, 0) = 0 /\ Rank(ReadLines, 0) = 0 /\ Rank(HitLines, 0) = 0
    BY <2>1, RankFacts
  <2>4. Where(requests, Reads) = {} /\ Where(requests, Hits) = {}
    BY <1>1 DEF Where
  <2>5. Cardinality(Where(requests, Reads)) = 0 /\ Cardinality(Where(requests, Hits)) = 0
    BY <2>4, FS_EmptySet
  <2> QED BY <1>1, <2>2, <2>3, <2>5 DEF LinesInv
<1>4. OrderInv
  BY <1>1 DEF OrderInv
<1>5. DepthInv
  BY <1>1 DEF DepthInv
<1>6. BusyInv
  BY <1>1 DEF BusyInv
<1> QED BY <1>2, <1>3, <1>4, <1>5, <1>6 DEF StorageInv

LEMMA StorageStep == StorageInv /\ [Next]_vars => StorageInv'
<1> SUFFICES ASSUME StorageInv, [Next]_vars PROVE StorageInv'
  OBVIOUS
<1>0. StorageTypeOK /\ LinesInv /\ OrderInv /\ DepthInv /\ BusyInv
  BY DEF StorageInv
<1>1. /\ Len(file) \in Nat /\ line \in 0..Len(file)
  BY <1>0, LineSets
<1>2. CASE OpenFile \/ OpenFails \/ RejectRow \/ EndOfFile \/ RunEnd
  <2>1. /\ UNCHANGED <<file, config, parsing, running, summary>>
        /\ state # "exit0" /\ state' \in {"parse", "run", "summarize", "exit1"}
    BY <1>2 DEF OpenFile, OpenFails, RejectRow, EndOfFile, RunEnd, Reading
  <2>2. StorageTypeOK'
    BY <1>0, <2>1 DEF StorageTypeOK, parsing, running
  <2>3. OrderInv'
    <3>1. summary' = <<>>
      BY <1>0, <2>1 DEF OrderInv
    <3>2. state' = "parse" => results' = <<>>
      BY <1>0, <1>2, <2>1 DEF OpenFile, OpenFails, RejectRow, EndOfFile, RunEnd, OrderInv, running
    <3>3. state' \in {"run", "summarize"} => line' = Len(file')
      BY <1>0, <1>2, <2>1 DEF OpenFile, OpenFails, RejectRow, EndOfFile, RunEnd, OrderInv, parsing
    <3>4. state' = "summarize" => Len(results') = Len(requests')
      BY <1>2, <2>1 DEF OpenFile, OpenFails, RejectRow, EndOfFile, RunEnd, parsing, running
    <3> QED BY <2>1, <3>1, <3>2, <3>3, <3>4 DEF OrderInv
  <2>4. LinesInv' /\ DepthInv' /\ BusyInv'
    BY <2>1, DataKept
  <2> QED BY <2>2, <2>3, <2>4 DEF StorageInv
<1>3. CASE SkipBlank \/ SkipHeader \/ AddRow
  <2>1. /\ state = "parse" /\ line < Len(file) /\ line' = line + 1
        /\ UNCHANGED <<file, config, state, running, summary>>
        /\ UNCHANGED <<results, virtual_time, completion_time>>
    BY <1>3 DEF SkipBlank, SkipHeader, AddRow, Reading, running
  <2>2. LinesInv' /\ requests' \in Seq(Request) /\ first' \in BOOLEAN
    <3>1. CASE SkipBlank
      <4>1. line + 1 \notin TextLines /\ line + 1 \notin DataLines
        BY <1>0, <2>1, <3>1, NextLineKinds DEF SkipBlank
      <4>2. first' = first /\ requests' = requests
        BY <3>1 DEF SkipBlank
      <4> QED BY <1>0, <2>1, <4>1, <4>2, LineSkipped DEF StorageTypeOK
    <3>2. CASE SkipHeader
      <4>1. line + 1 \in TextLines /\ line + 1 \notin DataLines
        BY <1>0, <2>1, <3>2, NextLineKinds DEF SkipHeader
      <4>2. first' = FALSE /\ requests' = requests
        BY <3>2 DEF SkipHeader
      <4> QED BY <1>0, <2>1, <4>1, <4>2, LineSkipped DEF StorageTypeOK
    <3>3. CASE AddRow
      BY <1>0, <3>3, LineAdded DEF AddRow
    <3> QED BY <1>3, <3>1, <3>2, <3>3
  <2>3. StorageTypeOK'
    BY <1>0, <1>1, <2>1, <2>2 DEF StorageTypeOK
  <2>4. OrderInv'
    BY <1>0, <2>1 DEF OrderInv
  <2>5. DepthInv' /\ BusyInv'
    BY <1>0, <2>1 DEF DepthInv, QueueDepth, BusyInv, Latencies
  <2> QED BY <2>2, <2>3, <2>4, <2>5 DEF StorageInv
<1>4. CASE RunOne
  <2>1. /\ results' \in Seq(Result) /\ Len(results) < Len(requests)
        /\ UNCHANGED <<file, config, state, line, first, requests, summary>>
    BY <1>0, <1>4, OneRun DEF parsing
  <2>2. state = "run"
    BY <1>4 DEF RunOne
  <2>3. DepthInv'
    BY <1>0, <1>4, RunKeepsDepth
  <2>4. BusyInv' /\ virtual_time' \in Nat /\ completion_time' \in Nat
    BY <1>0, <1>4, RunKeepsBusy
  <2>5. StorageTypeOK'
    BY <1>0, <2>1, <2>4 DEF StorageTypeOK
  <2>6. LinesInv'
    <3>1. UNCHANGED <<TextLines, DataLines, ReadLines, HitLines>>
      BY <2>1 DEF TextLines, DataLines, ReadLines, HitLines
    <3> QED BY <1>0, <2>1, <3>1 DEF LinesInv
  <2>7. OrderInv'
    BY <1>0, <2>1, <2>2 DEF OrderInv
  <2> QED BY <2>3, <2>4, <2>5, <2>6, <2>7 DEF StorageInv
<1>5. CASE Summarize \/ UNCHANGED vars
  <2>1. /\ UNCHANGED <<file, config, parsing, running>>
        /\ \/ state' = "exit0" /\ state = "summarize" /\ summary' = <<Summary>>
           \/ state' = state /\ summary' = summary
    BY <1>5 DEF Summarize, vars, parsing, running
  <2>2. UNCHANGED <<file, config, line, first, requests, results, virtual_time, completion_time>>
    BY <2>1 DEF parsing, running
  <2>3. Summary' = Summary
    BY <2>2, SummaryKept
  <2>4. StorageTypeOK'
    BY <1>0, <2>1, <2>2 DEF StorageTypeOK
  <2>5. OrderInv'
    BY <1>0, <2>1, <2>2, <2>3 DEF OrderInv
  <2>6. LinesInv' /\ DepthInv' /\ BusyInv'
    BY <2>1, DataKept
  <2> QED BY <2>4, <2>5, <2>6 DEF StorageInv
<1> QED BY <1>2, <1>3, <1>4, <1>5 DEF Next

LEMMA StorageInvariant == Spec => []StorageInv
BY StorageInitially, StorageStep, PTL DEF Spec
-----------------------------------------------------------------------------
(* The theorems.                                                           *)

\* The lengths and the counts behind a printed summary.
LEMMA Printed ==
    ASSUME StorageInv, summary # <<>>
    PROVE  /\ summary[1] = Summary /\ line = Len(file)
           /\ Len(results) = Len(requests) /\ Len(requests) \in Nat
           /\ DOMAIN requests = 1..Len(requests) /\ DOMAIN results = 1..Len(requests)
BY DEF StorageInv, StorageTypeOK, OrderInv

\* The summary's counters, as sizes of sets of requests.
LEMMA Counters ==
    ASSUME StorageInv
    PROVE  /\ Summary.total_requests = Len(requests)
           /\ Summary.read_requests = Cardinality(Where(requests, Reads))
           /\ Summary.write_requests = Cardinality((DOMAIN requests) \ Where(requests, Reads))
           /\ Summary.cache_hits = Cardinality(Where(requests, Hits))
           /\ Summary.cache_misses = Cardinality((DOMAIN requests) \ Where(requests, Hits))
<1>1. \A k \in DOMAIN requests : requests[k] \in Request
  BY DEF StorageInv, StorageTypeOK
<1>2. /\ {k \in DOMAIN requests : requests[k].operation = "Read"} = Where(requests, Reads)
      /\ {k \in DOMAIN requests : requests[k].operation # "Read"}
            = (DOMAIN requests) \ Where(requests, Reads)
  BY <1>1 DEF Where, Reads
<1>3. /\ {k \in DOMAIN requests : requests[k].cache_hit} = Where(requests, Hits)
      /\ {k \in DOMAIN requests : ~requests[k].cache_hit}
            = (DOMAIN requests) \ Where(requests, Hits)
  BY <1>1 DEF Where, Hits
<1>4. /\ Summary.total_requests = Len(requests)
      /\ Summary.read_requests = Cardinality({k \in DOMAIN requests : requests[k].operation = "Read"})
      /\ Summary.write_requests = Cardinality({k \in DOMAIN requests : requests[k].operation # "Read"})
      /\ Summary.cache_hits = Cardinality({k \in DOMAIN requests : requests[k].cache_hit})
      /\ Summary.cache_misses = Cardinality({k \in DOMAIN requests : ~requests[k].cache_hit})
  BY DEF Summary, Count, Quantify
<1> QED BY <1>2, <1>3, <1>4

\* A printed summary accounts for every data row of the file exactly once, as a
\* read or a write and as a hit or a miss, and every one of them parsed; for
\* every file, however its blank lines, headers and malformed rows are placed.
THEOREM RowsAllCounted == Spec => []AllRowsCounted
<1>1. StorageInv => AllRowsCounted
  <2> SUFFICES ASSUME StorageInv, summary # <<>>
               PROVE  LET s == summary[1] IN
                      /\ \A k \in DataLines : file[k] # Header /\ RowParses(file[k])
                      /\ s.total_requests = Cardinality(DataLines)
                      /\ s.read_requests + s.write_requests = s.total_requests
                      /\ s.cache_hits + s.cache_misses = s.total_requests
                      /\ s.read_requests =
                            Cardinality({k \in DataLines : file[k].operation = "read"})
                      /\ s.cache_hits =
                            Cardinality({k \in DataLines : file[k].cache_hit = "true"})
                      /\ Len(results) = s.total_requests
    BY DEF AllRowsCounted
  <2>1. summary[1] = Summary /\ line = Len(file) /\ Len(results) = Len(requests)
    BY Printed
  <2>2. /\ Len(file) \in Nat /\ DataLines \in SUBSET (1..Len(file))
        /\ ReadLines \in SUBSET (1..Len(file)) /\ HitLines \in SUBSET (1..Len(file))
    BY LineSets DEF StorageInv
  <2>3. \A k \in DataLines : file[k] # Header /\ RowParses(file[k])
    <3>1. \A k \in DataLines : k <= line
      BY <2>1, <2>2
    <3> QED BY <3>1 DEF StorageInv, LinesInv
  <2>4. /\ Len(requests) = Cardinality(DataLines)
        /\ Cardinality(Where(requests, Reads)) = Cardinality(ReadLines)
        /\ Cardinality(Where(requests, Hits)) = Cardinality(HitLines)
    <3>1. /\ Rank(DataLines, Len(file)) = Cardinality(DataLines)
          /\ Rank(ReadLines, Len(file)) = Cardinality(ReadLines)
          /\ Rank(HitLines, Len(file)) = Cardinality(HitLines)
      <4>1. Len(file) \in 0..Len(file)
        BY <2>2
      <4> QED BY <2>2, <4>1, RankFacts
    <3> QED BY <2>1, <3>1 DEF StorageInv, LinesInv
  <2>5. /\ ReadLines = {k \in DataLines : file[k].operation = "read"}
        /\ HitLines = {k \in DataLines : file[k].cache_hit = "true"}
    BY <2>3 DEF ReadLines, HitLines
  <2>6. requests \in Seq(Request)
    BY DEF StorageInv, StorageTypeOK
  <2>7. /\ Cardinality(Where(requests, Reads)) + Cardinality((DOMAIN requests) \ Where(requests, Reads))
              = Len(requests)
        /\ Cardinality(Where(requests, Hits)) + Cardinality((DOMAIN requests) \ Where(requests, Hits))
              = Len(requests)
    BY <2>6, WhereSplit
  <2> QED BY <2>1, <2>3, <2>4, <2>5, <2>7, Counters
<1> QED BY <1>1, StorageInvariant, PTL

\* How many of n requests meet a full queue of depth D.
LEMMA FullQueue ==
    ASSUME NEW n \in Nat, NEW D \in Nat, n # 0
    PROVE  LET d == IF D >= 1 THEN D ELSE 1
               F == {k \in 1..n : (IF k <= D THEN k ELSE D) >= D} IN
           Cardinality(F) = IF d > n THEN 0 ELSE n - d + 1
<1> DEFINE d == IF D >= 1 THEN D ELSE 1
           F == {k \in 1..n : (IF k <= D THEN k ELSE D) >= D}
<1>1. d \in Int /\ n \in Int
  OBVIOUS
<1>2. F = d..n
  OBVIOUS
<1> HIDE DEF d, F
<1>3. Cardinality(d..n) = IF d > n THEN 0 ELSE n - d + 1
  BY <1>1, FS_Interval
<1>4. Cardinality(F) = IF d > n THEN 0 ELSE n - d + 1
  BY <1>2, <1>3
<1> QED BY <1>4 DEF d, F

\* The class queue_depth_pressure is reported for exactly the workloads whose
\* number of requests is large against max_queue_depth, whatever they read or
\* write: the closed form of the comparison with 0.40, for every depth, 0 too.
THEOREM SaturationIsArithmetic == Spec => []SaturationRule
<1>1. StorageInv => SaturationRule
  <2> SUFFICES ASSUME StorageInv, summary # <<>>, requests # <<>>
               PROVE  LET n == Len(requests)
                          d == Max({config.max_queue_depth, 1}) IN
                      (summary[1].bottleneck = "queue_depth_pressure")
                          <=> (n >= d /\ 3 * n >= 5 * (d - 1))
    BY DEF SaturationRule
  <2> DEFINE n == Len(requests)
             D == config.max_queue_depth
             d == IF D >= 1 THEN D ELSE 1
             F == {k \in 1..n : (IF k <= D THEN k ELSE D) >= D}
  <2>1. /\ summary[1] = Summary /\ n \in Nat /\ n # 0 /\ DOMAIN results = 1..n
    <3>1. n # 0
      BY DEF StorageInv, StorageTypeOK
    <3> QED BY <3>1, Printed
  <2>2. D \in Nat
    BY StorageConstants DEF StorageInv, StorageTypeOK, Config
  <2>3. Max({D, 1}) = d
    BY <2>2, MinMax
  <2>4. \A k \in 1..n : results[k].queue_depth = IF k <= D THEN k ELSE D
    <3>1. \A k \in 1..n : QueueDepth(k) = IF k <= D THEN k ELSE D
      <4>1. \A k \in 1..n : k \in Nat
        BY <2>1
      <4> QED BY <2>2, <4>1, MinMax DEF QueueDepth
    <3> QED BY <2>1, <3>1 DEF StorageInv, DepthInv
  <2>5. QueuePressure(n) <=> 5 * Cardinality(F) >= 2 * n
    <3>1. {k \in DOMAIN results : results[k].queue_depth >= D} = F
      BY <2>1, <2>4
    <3>2. QueuePressure(n) <=>
            5 * Cardinality({k \in DOMAIN results : results[k].queue_depth >= D}) >= 2 * n
      BY DEF QueuePressure, Count, Quantify
    <3> QED BY <3>1, <3>2
  <2>6. Summary.bottleneck = "queue_depth_pressure" <=> QueuePressure(n)
    BY <2>1 DEF Summary, classify_bottleneck
  <2>7. Cardinality(F) = IF d > n THEN 0 ELSE n - d + 1
    BY <2>1, <2>2, FullQueue
  <2>8. 5 * Cardinality(F) >= 2 * n <=> (n >= d /\ 3 * n >= 5 * (d - 1))
    <3>1. d \in Nat
      BY <2>2
    <3> HIDE DEF F, d, n, D
    <3> QED BY <2>1, <2>7, <3>1
  <2> HIDE DEF F, d
  <2> QED BY <2>1, <2>3, <2>5, <2>6, <2>8
<1> QED BY <1>1, StorageInvariant, PTL

\* The runtime that the throughput is computed from, a sum of latencies, is the
\* time the device's own clock ran since the first arrival, for any number of
\* requests no one of which is shorter than the arrival interval.
THEOREM RuntimeIsClockTime == Spec => []RuntimeIsBusyTime
<1>1. StorageInv => RuntimeIsBusyTime
  <2> SUFFICES ASSUME StorageInv, summary # <<>>, results # <<>>,
                      \A k \in DOMAIN results : results[k].total_latency >= 2
               PROVE  completion_time = summary[1].total_runtime + 2
    BY DEF RuntimeIsBusyTime
  <2>1. summary[1] = Summary
    BY Printed
  <2>2. Summary.total_runtime = Total(Latencies)
    BY DEF Summary
  <2> QED BY <2>1, <2>2 DEF StorageInv, BusyInv
<1> QED BY <1>1, StorageInvariant, PTL

\* The percentiles that are printed ascend, no one exceeds every latency, and at
\* least half, or 95 percent, of the latencies are not above p50, or p95; for
\* every file, however many latencies are equal.
THEOREM PercentilesAreSound == Spec => []PercentilesSound
<1>1. StorageInv => PercentilesSound
  <2> SUFFICES ASSUME StorageInv, summary # <<>>, results # <<>>
               PROVE  PercentilesSound
    BY DEF PercentilesSound
  <2> DEFINE n == Len(results)
             NotAbove(v) == Cardinality({k \in DOMAIN results :
                                            100 * results[k].total_latency <= v})
  <2>1. /\ n \in Nat \ {0} /\ DOMAIN results = 1..n
        /\ \A k \in 1..n : Latencies[k] = results[k].total_latency
        /\ Latencies \in Seq(Nat) /\ Len(Latencies) = n /\ Latencies # <<>>
    <3>1. results \in Seq(Result)
      BY DEF StorageInv, StorageTypeOK
    <3>2. /\ n \in Nat /\ DOMAIN results = 1..n /\ Latencies \in [1..n -> Nat]
          /\ \A k \in 1..n : Latencies[k] = results[k].total_latency
      BY <3>1, LatencyFacts DEF Latencies
    <3>3. n # 0
      BY <3>1
    <3> HIDE DEF n
    <3>4. Latencies \in Seq(Nat) /\ Len(Latencies) = n
      BY <3>2
    <3>5. Latencies # <<>>
      BY <3>3, <3>4
    <3> QED BY <3>2, <3>3, <3>4, <3>5
  <2>2. /\ summary[1].p50 = percentile(Latencies, 50)
        /\ summary[1].p95 = percentile(Latencies, 95)
        /\ summary[1].p99 = percentile(Latencies, 99)
    BY Printed DEF Summary
  <2>3. 50 \in 0..100 /\ 95 \in 0..100 /\ 99 \in 0..100 /\ 95 \in 50..100 /\ 99 \in 95..100
    OBVIOUS
  <2> HIDE DEF n
  <2>4. summary[1].p50 <= summary[1].p95 /\ summary[1].p95 <= summary[1].p99
    <3>1. percentile(Latencies, 50) <= percentile(Latencies, 95)
      BY <2>1, <2>3, PercentileAscends, Zenon
    <3>2. percentile(Latencies, 95) <= percentile(Latencies, 99)
      BY <2>1, <2>3, PercentileAscends, Zenon
    <3> QED BY <2>2, <3>1, <3>2
  <2>5. \E k \in DOMAIN results : summary[1].p99 <= 100 * results[k].total_latency
    <3>1. \E k \in 1..Len(Latencies) : percentile(Latencies, 99) <= 100 * Latencies[k]
      BY <2>1, <2>3, PercentileFacts, Zenon
    <3>2. PICK k \in 1..n : percentile(Latencies, 99) <= 100 * Latencies[k]
      BY <2>1, <3>1, Zenon
    <3>3. k \in DOMAIN results /\ percentile(Latencies, 99) <= 100 * results[k].total_latency
      BY <2>1, <3>2
    <3> QED BY <2>2, <3>3
  <2>6. ASSUME NEW p \in 0..100
        PROVE  /\ NotAbove(percentile(Latencies, p)) \in Nat
               /\ Index(p, n) < 100 * NotAbove(percentile(Latencies, p))
    <3> DEFINE low == {k \in 1..Len(Latencies) : 100 * Latencies[k] <= percentile(Latencies, p)}
    <3>1. {k \in DOMAIN results : 100 * results[k].total_latency <= percentile(Latencies, p)} = low
      BY <2>1
    <3>2. Cardinality(low) \in Nat /\ Index(p, Len(Latencies)) < 100 * Cardinality(low)
      BY <2>1, NotAboveFacts, Zenon
    <3> HIDE DEF low
    <3> QED BY <2>1, <3>1, <3>2, Zenon
  <2> HIDE DEF NotAbove
  <2>7. 2 * NotAbove(summary[1].p50) >= n
    <3>1. /\ NotAbove(percentile(Latencies, 50)) \in Nat
          /\ Index(50, n) < 100 * NotAbove(percentile(Latencies, 50))
      BY <2>3, <2>6
    <3>2. NotAbove(summary[1].p50) \in Nat /\ Index(50, n) < 100 * NotAbove(summary[1].p50)
      BY <2>2, <3>1
    <3> QED BY <2>1, <3>2 DEF Index
  <2>8. 100 * NotAbove(summary[1].p95) > 95 * (n - 1)
    <3>1. /\ NotAbove(percentile(Latencies, 95)) \in Nat
          /\ Index(95, n) < 100 * NotAbove(percentile(Latencies, 95))
      BY <2>3, <2>6
    <3>2. NotAbove(summary[1].p95) \in Nat /\ Index(95, n) < 100 * NotAbove(summary[1].p95)
      BY <2>2, <3>1
    <3> QED BY <2>1, <3>2 DEF Index
  <2> QED BY <2>4, <2>5, <2>7, <2>8, Zenon DEF PercentilesSound, NotAbove, n
<1> QED BY <1>1, StorageInvariant, PTL
=============================================================================
