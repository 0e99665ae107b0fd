------------------------ MODULE LatencyTrackerProofs ------------------------
(***************************************************************************)
(* The ring of samples for every capacity that is a power of two, any      *)
(* samples and any number of calls.                                        *)
(***************************************************************************)
EXTENDS LatencyTracker, NumberFacts, SequenceTheorems, TLAPS

LEMMA CapacityType == CAPACITY \in Nat \ {0}
BY TrackerAssumption

(* What RingHoldsWindow says of the variables; the rest of it is           *)
(* arithmetic.                                                             *)
Newest ==
  /\ latencyCount = Len(samples)
  /\ \A i \in Window : latencies[Slot(i - 1)] = samples[i]

TrackerInv == TypeOK /\ Newest

LEMMA SlotType ==
  ASSUME NEW n \in Nat
  PROVE  Slot(n) \in 0 .. CAPACITY - 1
BY CapacityType, DivMod DEF Slot

LEMMA WindowType ==
  ASSUME TrackerInv
  PROVE  Window = {i \in 1 .. latencyCount : i > latencyCount - CAPACITY}
BY DEF TrackerInv, TypeOK, Newest, Window

LEMMA InitNewest == Init => TrackerInv
BY CapacityType DEF Init, TrackerInv, TypeOK, Newest, Window

(* A new sample takes the slot of the one that leaves the window, and of   *)
(* none that stays in it.                                                  *)
LEMMA MeasureNewest ==
  ASSUME TrackerInv, NEW ns \in Samples, Measure(ns)
  PROVE  TrackerInv'
<1>1. /\ latencies' = Store(latencies, Slot(latencyCount), ns)
      /\ latencyCount' = latencyCount + 1
      /\ samples' = Append(samples, ns)
  BY DEF Measure, AddLatency
<1>2. /\ latencies \in [0 .. CAPACITY - 1 -> Samples \cup {0}]
      /\ samples \in Seq(Samples) /\ latencyCount = Len(samples)
      /\ latencyCount \in Nat
  BY DEF TrackerInv, TypeOK, Newest
<1>3. /\ Slot(latencyCount) \in 0 .. CAPACITY - 1
      /\ latencies' = [j \in 0 .. CAPACITY - 1 |->
                         IF j = Slot(latencyCount) THEN ns ELSE latencies[j]]
  <2>1. Slot(latencyCount) \in 0 .. CAPACITY - 1
    BY <1>2, SlotType
  <2>2. DOMAIN latencies \cup {Slot(latencyCount)} = 0 .. CAPACITY - 1
    BY <1>2, <2>1
  <2>. QED  BY <1>1, <2>1, <2>2 DEF Store
<1>4. /\ samples' \in Seq(Samples) /\ Len(samples') = latencyCount + 1
      /\ \A i \in 1 .. latencyCount : samples'[i] = samples[i]
      /\ samples'[latencyCount + 1] = ns
  BY <1>1, <1>2, AppendProperties
<1>5. TypeOK'
  BY <1>1, <1>2, <1>3, <1>4 DEF TypeOK
<1>6. ASSUME NEW i \in Window'
      PROVE  latencies'[Slot(i - 1)] = samples'[i]
  <2>1. i \in 1 .. latencyCount + 1 /\ i > (latencyCount + 1) - CAPACITY
    BY <1>4, <1>6 DEF Window
  <2>2. CASE i = latencyCount + 1
    <3>1. i - 1 = latencyCount
      BY <1>2, <2>2
    <3>. QED  BY <1>1, <1>2, <1>3, <1>4, <2>2, <3>1
  <2>3. CASE i # latencyCount + 1
    <3>1. i \in 1 .. latencyCount /\ i \in Window
      BY <1>2, <2>1, <2>3, CapacityType DEF Window
    <3>2. i - 1 \in Nat /\ i - 1 < latencyCount /\ latencyCount - (i - 1) < CAPACITY
      BY <1>2, <2>1, <3>1, CapacityType
    <3>3. Slot(i - 1) # Slot(latencyCount)
      BY <1>2, <3>2, CapacityType, SameRemainder DEF Slot
    <3>4. Slot(i - 1) \in 0 .. CAPACITY - 1
      BY <3>2, SlotType
    <3>5. latencies'[Slot(i - 1)] = latencies[Slot(i - 1)]
      BY <1>3, <3>3, <3>4
    <3>6. latencies[Slot(i - 1)] = samples[i]
      BY <3>1 DEF TrackerInv, Newest
    <3>. QED  BY <1>4, <3>1, <3>5, <3>6
  <2>. QED  BY <2>2, <2>3
<1>. QED  BY <1>1, <1>4, <1>5, <1>6 DEF TrackerInv, Newest

LEMMA NextNewest == TrackerInv /\ [Next]_vars => TrackerInv'
<1>1. ASSUME TrackerInv, UNCHANGED vars PROVE TrackerInv'
  BY <1>1 DEF vars, TrackerInv, TypeOK, Newest, Window
<1>. QED  BY <1>1, MeasureNewest DEF Next

(* The slots of the window are the first Kept slots of the ring. *)
LEMMA WindowSlots ==
  ASSUME NEW n \in Nat
  PROVE  /\ \A i \in 1 .. n : Slot(i - 1) \in 0 .. Kept(n) - 1
         /\ \A s \in 0 .. Kept(n) - 1 :
              \E i \in 1 .. n : i > n - CAPACITY /\ Slot(i - 1) = s
<1>. USE CapacityType
<1>1. CASE n < CAPACITY
  <2>1. \A a \in 0 .. n - 1 : Slot(a) = a
    BY <1>1, SmallRemainder DEF Slot
  <2>2. \A i \in 1 .. n : i - 1 \in 0 .. n - 1
    OBVIOUS
  <2>3. \A s \in 0 .. n - 1 : s + 1 \in 1 .. n /\ (s + 1) - 1 = s /\ s + 1 > n - CAPACITY
    BY <1>1
  <2>. QED  BY <1>1, <2>1, <2>2, <2>3 DEF Kept
<1>2. CASE n >= CAPACITY
  <2>1. Kept(n) = CAPACITY
    BY <1>2 DEF Kept
  <2>2. \A i \in 1 .. n : i - 1 \in Nat
    OBVIOUS
  <2>3. \A i \in 1 .. n : Slot(i - 1) \in 0 .. CAPACITY - 1
    BY <2>2, SlotType
  <2>4. ASSUME NEW s \in 0 .. CAPACITY - 1
        PROVE  \E i \in 1 .. n : i > n - CAPACITY /\ Slot(i - 1) = s
    <3> DEFINE b == n - CAPACITY
               r == b % CAPACITY
               k == IF s >= r THEN s - r ELSE (s + CAPACITY) - r
    <3>1. b \in Nat /\ n = b + CAPACITY
      BY <1>2
    <3> HIDE DEF b
    <3>2. r \in 0 .. CAPACITY - 1
      BY <3>1, DivMod
    <3>3. Slot(b + k) = (r + k) % CAPACITY /\ k \in Nat /\ k < CAPACITY
      <4> HIDE DEF r
      <4>1. k \in Nat /\ k < CAPACITY
        BY <3>2
      <4> HIDE DEF k
      <4>2. ((b % CAPACITY) + k) % CAPACITY = (b + k) % CAPACITY
        BY <3>1, <4>1, AddRemainder
      <4>. QED  BY <4>1, <4>2 DEF r, Slot
    <3> HIDE DEF r
    <3>4. r + k = s \/ r + k = s + CAPACITY
      BY <3>2
    <3> HIDE DEF k
    <3>5. (r + k) % CAPACITY = s
      BY <3>4, SmallRemainder
    <3> DEFINE i == b + k + 1
    <3>6. i \in 1 .. n /\ i > n - CAPACITY /\ i - 1 = b + k
      BY <3>1, <3>3
    <3> HIDE DEF i
    <3>. QED  BY <3>3, <3>5, <3>6
  <2>. QED  BY <2>1, <2>3, <2>4
<1>. QED  BY <1>1, <1>2

LEMMA NewestIsWindow == TrackerInv => RingHoldsWindow
<1>. SUFFICES ASSUME TrackerInv PROVE RingHoldsWindow
  OBVIOUS
<1>1. Window = {i \in 1 .. latencyCount : i > latencyCount - CAPACITY}
  BY WindowType
<1>2. latencyCount \in Nat
  BY DEF TrackerInv, TypeOK
<1>3. \A i \in Window : Slot(i - 1) \in 0 .. Kept(latencyCount) - 1
  BY <1>1, <1>2, WindowSlots
<1>4. \A s \in 0 .. Kept(latencyCount) - 1 : \E i \in Window : Slot(i - 1) = s
  BY <1>1, <1>2, WindowSlots
<1>5. {Slot(i - 1) : i \in Window} = 0 .. Kept(latencyCount) - 1
  BY <1>3, <1>4
<1>. QED  BY <1>5 DEF TrackerInv, Newest, RingHoldsWindow

----------------------------------------------------------------------------
(***************************************************************************)
(* The percentiles                                                         *)
(***************************************************************************)

(* An element comes before another or the other before it. *)
LEMMA BeforeOrders ==
  ASSUME NEW K \in Nat, NEW s \in [1 .. K -> Int],
         NEW i \in 1 .. K, NEW j \in 1 .. K, i # j
  PROVE  \/ Before(s, i) \cup {i} \subseteq Before(s, j)
         \/ Before(s, j) \cup {j} \subseteq Before(s, i)
<1>1. \A a, b \in 1 .. K :
        a \in Before(s, b) <=> s[a] < s[b] \/ (s[a] = s[b] /\ a < b)
  BY DEF Before
<1>2. \A a, b \in 1 .. K :
        a \in Before(s, b) => Before(s, a) \cup {a} \subseteq Before(s, b)
  BY DEF Before
<1>3. i \in Before(s, j) \/ j \in Before(s, i)
  BY <1>1
<1>. QED  BY <1>2, <1>3

LEMMA BeforeSize ==
  ASSUME NEW K \in Nat, NEW s \in [1 .. K -> Int], NEW i \in 1 .. K
  PROVE  /\ IsFiniteSet(Before(s, i)) /\ i \notin Before(s, i)
         /\ Before(s, i) \subseteq 1 .. K
         /\ Cardinality(Before(s, i)) \in 0 .. K - 1
<1>1. Before(s, i) \subseteq 1 .. K /\ i \notin Before(s, i)
  BY DEF Before
<1>2. IsFiniteSet(1 .. K) /\ Cardinality(1 .. K) = K
  BY FS_Interval
<1>3. IsFiniteSet(Before(s, i)) /\ Cardinality(Before(s, i)) <= K
  BY <1>1, <1>2, FS_Subset
<1>4. Cardinality(Before(s, i)) \in Nat
  BY <1>3, FS_CardinalityType
<1>5. Cardinality(Before(s, i)) # K
  BY <1>1, <1>2, FS_Subset
<1>. QED  BY <1>1, <1>3, <1>4, <1>5

(* Every place of the sorted sequence has its element: different elements  *)
(* have different numbers of elements before them.                         *)
LEMMA RankExists ==
  ASSUME NEW K \in Nat, NEW s \in [1 .. K -> Int], NEW k \in 1 .. K
  PROVE  \E i \in 1 .. K : Cardinality(Before(s, i)) = k - 1
<1> DEFINE rank == [i \in 1 .. K |-> Cardinality(Before(s, i)) + 1]
<1>1. \A i \in 1 .. K : Cardinality(Before(s, i)) \in 0 .. K - 1
  BY BeforeSize
<1>2. rank \in [1 .. K -> 1 .. K]
  BY <1>1
<1>3. ASSUME NEW i \in 1 .. K, NEW j \in 1 .. K, i # j,
             Before(s, i) \cup {i} \subseteq Before(s, j)
      PROVE  rank[i] # rank[j]
  <2>1. /\ IsFiniteSet(Before(s, i)) /\ i \notin Before(s, i)
        /\ IsFiniteSet(Before(s, j))
    BY BeforeSize
  <2>2. Cardinality(Before(s, i)) # Cardinality(Before(s, j))
    BY <1>3, <2>1, FS_Subset
  <2>. QED  BY <1>1, <2>2
<1>4. \A i, j \in 1 .. K : rank[i] = rank[j] => i = j
  BY <1>3, BeforeOrders
<1> HIDE DEF rank
<1>5. rank \in Injection(1 .. K, 1 .. K)
  BY <1>2, <1>4 DEF Injection, IsInjective
<1>6. IsFiniteSet(1 .. K)
  BY FS_Interval
<1>7. rank \in Surjection(1 .. K, 1 .. K)
  BY <1>5, <1>6, FS_Injection
<1>8. PICK i \in 1 .. K : rank[i] = k
  BY <1>7 DEF Surjection
<1>9. Cardinality(Before(s, i)) \in 0 .. K - 1 /\ rank[i] = Cardinality(Before(s, i)) + 1
  BY <1>1 DEF rank
<1>. QED  BY <1>8, <1>9

(* Fewer than k elements are less than the k-th of the sorted sequence,    *)
(* and at least k are not greater.                                         *)
LEMMA SortedRank ==
  ASSUME NEW K \in Nat, NEW s \in [1 .. K -> Int], NEW k \in 1 .. K
  PROVE  /\ \E i \in 1 .. K : s[i] = Sorted(s)[k]
         /\ Cardinality({j \in 1 .. K : s[j] < Sorted(s)[k]}) <= k - 1
         /\ Cardinality({j \in 1 .. K : s[j] <= Sorted(s)[k]}) >= k
<1> DEFINE i == CHOOSE i \in 1 .. K : Cardinality(Before(s, i)) = k - 1
<1>1. i \in 1 .. K /\ Cardinality(Before(s, i)) = k - 1
  BY RankExists
<1>2. Sorted(s)[k] = s[i]
  BY DEF Sorted
<1> HIDE DEF i
<1>3. IsFiniteSet(Before(s, i)) /\ i \notin Before(s, i)
  BY <1>1, BeforeSize
<1>4. IsFiniteSet(1 .. K)
  BY FS_Interval
<1> DEFINE Less == {j \in 1 .. K : s[j] < s[i]}
           NotGreater == {j \in 1 .. K : s[j] <= s[i]}
<1>5. Less \subseteq Before(s, i)
  BY <1>1 DEF Before
<1>6. Before(s, i) \cup {i} \subseteq NotGreater
  BY <1>1 DEF Before
<1>7. NotGreater \subseteq 1 .. K
  OBVIOUS
<1> HIDE DEF Less, NotGreater
<1>8. Cardinality(Less) <= k - 1
  BY <1>1, <1>3, <1>5, FS_Subset
<1>9. IsFiniteSet(NotGreater)
  BY <1>4, <1>7, FS_Subset
<1>10. /\ IsFiniteSet(Before(s, i) \cup {i})
       /\ Cardinality(Before(s, i) \cup {i}) = k - 1 + 1
  BY <1>1, <1>3, FS_AddElement
<1>11. Cardinality(Before(s, i) \cup {i}) <= Cardinality(NotGreater)
  BY <1>6, <1>9, FS_Subset
<1>12. Cardinality(NotGreater) >= k
  <2>1. Cardinality(NotGreater) \in Nat /\ k - 1 + 1 = k /\ k \in Nat
    BY <1>9, FS_CardinalityType
  <2>. QED  BY <1>10, <1>11, <2>1
<1>. QED  BY <1>1, <1>2, <1>8, <1>12 DEF Less, NotGreater

(* The index of a percentile is inside the part in use. *)
LEMMA IndexBounds ==
  ASSUME NEW n \in Nat \ {0}, NEW p \in Percents
  PROVE  /\ Index(n, p) \in 0 .. Kept(n) - 1
         /\ 100 * Index(n, p) <= p * Kept(n)
         /\ p * Kept(n) < 100 * (Index(n, p) + 1)
<1> DEFINE K == Kept(n)
           m == K * p
           d == m \div 100
           r == m % 100
<1>1. K \in Nat \ {0}
  BY CapacityType DEF Kept
<1>2. p \in Nat /\ p < 100 /\ p > 0
  BY DEF Percents
<1>3. Index(n, p) = d
  BY DEF Index
<1> HIDE DEF K
<1>4. m \in Nat /\ m = p * K /\ m < 100 * K
  <2>1. p = 50 \/ p = 90 \/ p = 99
    BY DEF Percents
  <2>. QED  BY <1>1, <2>1
<1> HIDE DEF m
<1>5. d \in Nat /\ r \in 0 .. 99 /\ m = 100 * d + r
  <2>1. m \in Nat /\ 100 \in Nat \ {0}
    BY <1>4
  <2>2. /\ m \div 100 \in Nat /\ m % 100 \in 0 .. 100 - 1
        /\ m = 100 * (m \div 100) + (m % 100)
    BY <2>1, DivMod, Zenon
  <2>. QED  BY <2>2
<1> HIDE DEF d, r
<1>6. 100 * d <= p * K /\ p * K < 100 * (d + 1) /\ d < K
  BY <1>1, <1>4, <1>5
<1>. QED  BY <1>1, <1>3, <1>5, <1>6 DEF K

(* After a sample has been taken, the slots in use and the window are in   *)
(* one-to-one correspondence.                                              *)
LEMMA WindowSample ==
  ASSUME TrackerInv, NEW i \in Window
  PROVE  /\ Slot(i - 1) + 1 \in 1 .. Kept(latencyCount)
         /\ InUse(latencies, latencyCount)[Slot(i - 1) + 1] = samples[i]
<1>1. latencyCount \in Nat /\ i \in 1 .. latencyCount
  BY WindowType DEF TrackerInv, TypeOK
<1>2. Slot(i - 1) \in 0 .. Kept(latencyCount) - 1
  BY <1>1, WindowSlots
<1>3. Kept(latencyCount) \in Nat
  BY <1>1, CapacityType DEF Kept
<1>4. latencies[Slot(i - 1)] = samples[i]
  BY DEF TrackerInv, Newest
<1> DEFINE j == Slot(i - 1) + 1
<1>5. j \in 1 .. Kept(latencyCount) /\ j - 1 = Slot(i - 1)
  BY <1>2, <1>3
<1> HIDE DEF j
<1>6. InUse(latencies, latencyCount)[j] = latencies[j - 1]
  BY <1>5 DEF InUse
<1>. QED  BY <1>4, <1>5, <1>6 DEF j

LEMMA SlotSample ==
  ASSUME TrackerInv, NEW j \in 1 .. Kept(latencyCount)
  PROVE  \E i \in Window : Slot(i - 1) + 1 = j
<1>1. latencyCount \in Nat /\ Kept(latencyCount) \in Nat
  BY CapacityType DEF TrackerInv, TypeOK, Kept
<1>2. j - 1 \in 0 .. Kept(latencyCount) - 1 /\ j - 1 + 1 = j
  BY <1>1
<1>3. \E i \in Window : Slot(i - 1) = j - 1
  BY <1>1, <1>2, WindowSlots, WindowType
<1>. QED  BY <1>2, <1>3

LEMMA SlotsApart ==
  ASSUME TrackerInv, NEW i \in Window, NEW j \in Window, Slot(i - 1) = Slot(j - 1)
  PROVE  i = j
<1>1. /\ latencyCount \in Nat
      /\ i \in 1 .. latencyCount /\ j \in 1 .. latencyCount
      /\ i > latencyCount - CAPACITY /\ j > latencyCount - CAPACITY
  BY WindowType DEF TrackerInv, TypeOK
<1>2. i - 1 \in Nat /\ j - 1 \in Nat
  BY <1>1
<1>3. CASE j <= i
  <2>1. j - 1 <= i - 1 /\ (i - 1) - (j - 1) < CAPACITY
    BY <1>1, <1>3, CapacityType
  <2>2. i - 1 = j - 1
    BY <1>2, <2>1, CapacityType, SameRemainder DEF Slot
  <2>. QED  BY <1>1, <2>2
<1>4. CASE i <= j
  <2>1. i - 1 <= j - 1 /\ (j - 1) - (i - 1) < CAPACITY
    BY <1>1, <1>4, CapacityType
  <2>2. j - 1 = i - 1
    BY <1>2, <2>1, CapacityType, SameRemainder DEF Slot
  <2>. QED  BY <1>1, <2>2
<1>. QED  BY <1>1, <1>3, <1>4

(* What holds of some samples of the window holds of as many elements in   *)
(* use: the sets W and U are the two sides of one bijection.               *)
LEMMA SameNumber ==
  ASSUME TrackerInv,
         NEW W \in SUBSET Window, NEW U \in SUBSET (1 .. Kept(latencyCount)),
         \A i \in Window : i \in W <=> Slot(i - 1) + 1 \in U
  PROVE  IsFiniteSet(U) /\ Cardinality(W) = Cardinality(U)
<1> DEFINE f == [i \in W |-> Slot(i - 1) + 1]
           K == Kept(latencyCount)
<1>1. latencyCount \in Nat /\ K \in Nat
  BY CapacityType DEF TrackerInv, TypeOK, Kept
<1>2. \A i \in Window : Slot(i - 1) \in 0 .. K - 1
  BY <1>1, WindowSlots, WindowType
<1>3. f \in [W -> U]
  OBVIOUS
<1>4. \A i, j \in W : f[i] = f[j] => i = j
  BY <1>1, <1>2, SlotsApart
<1>5. ASSUME NEW u \in U PROVE \E i \in W : f[i] = u
  <2>1. PICK i \in Window : Slot(i - 1) + 1 = u
    BY SlotSample
  <2>2. i \in W /\ f[i] = u
    BY <2>1
  <2>. QED  BY <2>2
<1>6. IsFiniteSet(U)
  <2>1. IsFiniteSet(1 .. K)
    BY <1>1, FS_Interval
  <2>. QED  BY <2>1, FS_Subset
<1> HIDE DEF f
<1>7. f \in Injection(W, U) /\ f \in Surjection(W, U)
  BY <1>3, <1>4, <1>5 DEF Injection, IsInjective, Surjection
<1>8. Cardinality(W) = Cardinality(U)
  BY <1>6, <1>7, FS_Injection
<1>. QED  BY <1>6, <1>8

(* What printStats has printed last, when it prints. *)
ReportInv ==
  latencyCount > 0 /\ latencyCount % PrintEvery = 0 =>
    report = Percentiles(latencies, latencyCount)

LEMMA InitReport == Init => ReportInv
BY DEF Init, ReportInv

LEMMA NextReport == TrackerInv /\ ReportInv /\ [Next]_vars => ReportInv'
<1>1. ASSUME TrackerInv, NEW ns \in Samples, Measure(ns) PROVE ReportInv'
  <2>1. latencyCount' # 0
    BY <1>1 DEF Measure, AddLatency, TrackerInv, TypeOK
  <2>. QED  BY <1>1, <2>1 DEF Measure, PrintStats, ReportInv
<1>2. ASSUME ReportInv, UNCHANGED vars PROVE ReportInv'
  BY <1>2 DEF vars, ReportInv
<1>. QED  BY <1>1, <1>2 DEF Next

LEMMA ReportIsPercentile == TrackerInv /\ ReportInv => ReportsPercentiles
<1>. SUFFICES ASSUME TrackerInv, ReportInv,
                     latencyCount > 0, latencyCount % PrintEvery = 0,
                     NEW p \in Percents
              PROVE  LET Below    == {i \in Window : samples[i] < report[p]}
                         NotAbove == {i \in Window : samples[i] <= report[p]}
                     IN  /\ \E i \in Window : samples[i] = report[p]
                         /\ 100 * Cardinality(Below) <= p * Cardinality(Window)
                         /\ 100 * Cardinality(NotAbove) > p * Cardinality(Window)
  BY DEF ReportsPercentiles
<1> DEFINE K == Kept(latencyCount)
           q == InUse(latencies, latencyCount)
           k == Index(latencyCount, p) + 1
           v == report[p]
           Below == {i \in Window : samples[i] < v}
           NotAbove == {i \in Window : samples[i] <= v}
           QBelow == {j \in 1 .. K : q[j] < v}
           QNotAbove == {j \in 1 .. K : q[j] <= v}
<1>1. latencyCount \in Nat \ {0}
  BY DEF TrackerInv, TypeOK
<1>2. K \in Nat /\ K <= CAPACITY
  BY <1>1, CapacityType DEF Kept
<1>3. q \in [1 .. K -> Int]
  <2>1. latencies \in [0 .. CAPACITY - 1 -> Samples \cup {0}]
    BY DEF TrackerInv, TypeOK
  <2>2. Samples \cup {0} \subseteq Int
    BY TrackerAssumption
  <2>3. \A i \in 1 .. K : i - 1 \in 0 .. CAPACITY - 1
    BY <1>2, CapacityType
  <2>4. \A i \in 1 .. K : latencies[i - 1] \in Int
    BY <2>1, <2>2, <2>3
  <2>. QED  BY <2>4 DEF InUse
<1>4. v = Sorted(q)[k]
  BY DEF ReportInv, Percentiles
<1>5. /\ k \in 1 .. K /\ 100 * (k - 1) <= p * K /\ p * K < 100 * k
  <2>1. /\ Index(latencyCount, p) \in 0 .. K - 1
        /\ 100 * Index(latencyCount, p) <= p * K
        /\ p * K < 100 * (Index(latencyCount, p) + 1)
    BY <1>1, IndexBounds
  <2>. QED  BY <1>2, <2>1
<1>6. \A i \in Window : Slot(i - 1) + 1 \in 1 .. K /\ q[Slot(i - 1) + 1] = samples[i]
  BY WindowSample
<1>7. \A j \in 1 .. K : \E i \in Window : Slot(i - 1) + 1 = j
  BY SlotSample
<1> HIDE DEF K, q, k, v
<1> DEFINE w == Sorted(q)[k]
<1>8. /\ \E j \in 1 .. K : q[j] = w
      /\ Cardinality({j \in 1 .. K : q[j] < w}) <= k - 1
      /\ Cardinality({j \in 1 .. K : q[j] <= w}) >= k
  <2>1. k \in 1 .. K
    BY <1>5
  <2>. QED  BY <1>2, <1>3, <2>1, SortedRank
<1> HIDE DEF w
<1>9. \E i \in Window : samples[i] = v
  BY <1>4, <1>6, <1>7, <1>8 DEF w
<1>10. Cardinality(QBelow) <= k - 1 /\ Cardinality(QNotAbove) >= k
  BY <1>4, <1>8 DEF w
<1>11. IsFiniteSet(QBelow) /\ Cardinality(Below) = Cardinality(QBelow)
  <2>1. \A i \in Window : i \in Below <=> Slot(i - 1) + 1 \in QBelow
    BY <1>6
  <2>. QED  BY <2>1, SameNumber DEF K
<1>12. IsFiniteSet(QNotAbove) /\ Cardinality(NotAbove) = Cardinality(QNotAbove)
  <2>1. \A i \in Window : i \in NotAbove <=> Slot(i - 1) + 1 \in QNotAbove
    BY <1>6
  <2>. QED  BY <2>1, SameNumber DEF K
<1>13. Cardinality(Window) = K
  <2>1. Cardinality(Window) = Cardinality(1 .. K)
    BY <1>6, SameNumber DEF K
  <2>. QED  BY <1>2, <2>1, FS_Interval
<1>14. Cardinality(QBelow) \in Nat /\ Cardinality(QNotAbove) \in Nat
  BY <1>11, <1>12, FS_CardinalityType
<1> HIDE DEF Below, NotAbove, QBelow, QNotAbove
<1>15. 100 * Cardinality(Below) <= p * Cardinality(Window)
  <2>1. 100 * Cardinality(QBelow) <= 100 * (k - 1)
    BY <1>5, <1>10, <1>14
  <2>2. p * K \in Int
    BY <1>2 DEF Percents
  <2>. QED  BY <1>5, <1>11, <1>13, <1>14, <2>1, <2>2
<1>16. 100 * Cardinality(NotAbove) > p * Cardinality(Window)
  <2>1. 100 * Cardinality(QNotAbove) >= 100 * k
    BY <1>5, <1>10, <1>14
  <2>2. p * K \in Int
    BY <1>2 DEF Percents
  <2>. QED  BY <1>5, <1>12, <1>13, <1>14, <2>1, <2>2
<1>. QED  BY <1>9, <1>15, <1>16 DEF Below, NotAbove, v

(* The index addLatency stores at is always inside the ring, which holds   *)
(* nothing but what was measured, and zeros.                               *)
THEOREM TypeCorrect == Spec => []TypeOK
<1>1. TrackerInv => TypeOK
  BY DEF TrackerInv
<1>. QED  BY InitNewest, NextNewest, <1>1, PTL DEF Spec

(* The ring holds the last CAPACITY samples in the slots that printStats   *)
(* sorts, however often it has wrapped.                                    *)
THEOREM WindowCorrect == Spec => []RingHoldsWindow
BY InitNewest, NextNewest, NewestIsWindow, PTL DEF Spec

(* Each printed percentile is one of the last CAPACITY samples, with no    *)
(* more of them below it and no fewer up to it than its percentage says,   *)
(* for any samples, any capacity and any number of samples between two     *)
(* reports.                                                                *)
THEOREM PercentilesCorrect == Spec => []ReportsPercentiles
BY InitNewest, NextNewest, InitReport, NextReport, ReportIsPercentile, PTL DEF Spec
=============================================================================
