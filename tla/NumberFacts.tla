---------------------------- MODULE NumberFacts ----------------------------
(***************************************************************************)
(* Facts about numbers that several proofs rest on: least elements and     *)
(* induction, the remainders that index the rings of the program, and sums *)
(* over finite sets.                                                       *)
(***************************************************************************)
EXTENDS Integers, WellFoundedInduction, FiniteSetTheorems, TLAPS

(* Every nonempty set of natural numbers has a least element. *)
LEMMA NatMin ==
  ASSUME NEW S \in SUBSET Nat, S # {}
  PROVE  \E m \in S : \A k \in S : m <= k
<1> DEFINE R == OpToRel(<, Nat)
<1>1. IsWellFoundedOn(R, Nat)
  BY NatLessThanWellFounded
<1>2. \A x, y \in Nat : << y, x >> \in R <=> y < x
  BY DEF OpToRel
<1> HIDE DEF R
<1>3. PICK x \in S : \A y \in S : ~ (<< y, x >> \in R)
  BY <1>1, WFMin
<1>4. ASSUME NEW k \in S PROVE x <= k
  <2>1. k \in Nat /\ x \in Nat
    OBVIOUS
  <2>2. ~ (k < x)
    BY <1>2, <1>3, <2>1, Zenon
  <2>. QED  BY <2>1, <2>2
<1>. QED  BY <1>4

(* A set that holds zero and with each number the next holds all: the      *)
(* least number it does not hold would follow one that it holds.           *)
LEMMA NatSetInduction ==
  ASSUME NEW P \in SUBSET Nat, 0 \in P, \A n \in P : n + 1 \in P
  PROVE  P = Nat
<1> DEFINE S == Nat \ P
<1>1. CASE S # {}
  <2>1. PICK m \in S : \A k \in S : m <= k
    BY <1>1, NatMin
  <2>2. m \in Nat /\ m # 0 /\ m \notin P
    BY <2>1
  <2>3. m - 1 \in Nat /\ ~ (m <= m - 1) /\ m - 1 + 1 = m
    BY <2>2
  <2>4. m - 1 \in P
    BY <2>1, <2>3
  <2>. QED  BY <2>2, <2>3, <2>4
<1>. QED  BY <1>1
----------------------------------------------------------------------------
LEMMA DivMod ==
  ASSUME NEW n \in Nat \ {0}, NEW a \in Nat
  PROVE  /\ a \div n \in Nat
         /\ a % n \in 0 .. n - 1
         /\ a = n * (a \div n) + (a % n)
OBVIOUS

(* Zero is the only multiple of n nearer to zero than n. *)
LEMMA NoMultiple ==
  ASSUME NEW n \in Nat \ {0}, NEW d \in Int, NEW r \in Int,
         -n < r, r < n, n * d = r
  PROVE  r = 0
<1>1. CASE d >= 1
  <2>1. n * d >= n
    BY <1>1
  <2>. QED  BY <2>1
<1>2. CASE d <= -1
  <2>1. n * (-d) >= n
    BY <1>2
  <2>2. n * (-d) = -r
    OBVIOUS
  <2>. QED  BY <2>1, <2>2
<1>. QED  BY <1>1, <1>2

(* Two numbers less than n apart with one remainder are equal. *)
LEMMA SameRemainder ==
  ASSUME NEW n \in Nat \ {0}, NEW a \in Nat, NEW b \in Nat,
         a % n = b % n, b <= a, a - b < n
  PROVE  a = b
<1> DEFINE d == (a \div n) - (b \div n)
           e == a - b
<1>1. /\ a \div n \in Nat /\ b \div n \in Nat /\ a % n \in 0 .. n - 1
      /\ a = n * (a \div n) + (a % n) /\ b = n * (b \div n) + (b % n)
  BY DivMod
<1>2. n * d = e /\ d \in Int
  BY <1>1
<1>3. e \in Int /\ -n < e /\ e < n
  OBVIOUS
<1> HIDE DEF d, e
<1>4. e = 0
  BY <1>2, <1>3, NoMultiple
<1>. QED  BY <1>4 DEF e

(* A remainder can be taken before a sum is. *)
LEMMA AddRemainder ==
  ASSUME NEW n \in Nat \ {0}, NEW a \in Nat, NEW k \in Nat
  PROVE  ((a % n) + k) % n = (a + k) % n
<1> DEFINE q == a \div n
           r == a % n
           x == r + k
           y == a + k
           p == x \div n
           s == x % n
           u == y \div n
           v == y % n
           d == q + p - u
           e == v - s
<1>1. q \in Nat /\ r \in 0 .. n - 1 /\ a = n * q + r
  BY DivMod
<1>2. x \in Nat /\ y \in Nat /\ y = n * q + x
  BY <1>1
<1> HIDE DEF q, r, x, y
<1>3. p \in Nat /\ s \in 0 .. n - 1 /\ x = n * p + s
  BY <1>2, DivMod
<1>4. u \in Nat /\ v \in 0 .. n - 1 /\ y = n * u + v
  BY <1>2, DivMod
<1> HIDE DEF p, s, u, v
<1>5. n * q + n * p + s = n * u + v
  BY <1>1, <1>2, <1>3, <1>4
<1>6. n * d = e
  BY <1>1, <1>3, <1>4, <1>5
<1>7. d \in Int /\ e \in Int /\ -n < e /\ e < n
  BY <1>1, <1>3, <1>4
<1> HIDE DEF d, e
<1>8. e = 0
  BY <1>6, <1>7, NoMultiple
<1>9. s = v
  BY <1>3, <1>4, <1>8 DEF e
<1>. QED  BY <1>9 DEF s, v, r, x, y

(* Less than n is its own remainder, also a round later. *)
LEMMA SmallRemainder ==
  ASSUME NEW n \in Nat \ {0}, NEW a \in 0 .. n - 1
  PROVE  a % n = a /\ (a + n) % n = a
<1> DEFINE b == a + n
           p == a \div n
           q == b \div n
           r == a % n
           s == b % n
<1>1. a \in Nat /\ b \in Nat /\ b = a + n
  OBVIOUS
<1> HIDE DEF b
<1>2. p \in Nat /\ r \in 0 .. n - 1 /\ a = n * p + r
  BY <1>1, DivMod
<1>3. q \in Nat /\ s \in 0 .. n - 1 /\ b = n * q + s
  BY <1>1, DivMod
<1> HIDE DEF p, q, r, s
<1> DEFINE c == a - r
           d == q - 1
           e == a - s
<1>4. n * p = c /\ c \in Int /\ -n < c /\ c < n
  BY <1>2
<1>5. n * d = e /\ d \in Int /\ e \in Int /\ -n < e /\ e < n
  BY <1>1, <1>3
<1> HIDE DEF c, d, e
<1>6. c = 0 /\ e = 0
  BY <1>2, <1>4, <1>5, NoMultiple
<1>. QED  BY <1>1, <1>2, <1>3, <1>6 DEF c, e, r, s, b
----------------------------------------------------------------------------
(* The element of set s that a sum over s adds last. *)
Pick(s) == CHOOSE x \in s : TRUE

(* Function it holds the sums of g over the subsets of S. *)
SumSteps(it, g, S) ==
  it = [s \in SUBSET S |->
          IF s = {} THEN 0 ELSE g[Pick(s)] + it[s \ {Pick(s)}]]

(* n is the sum of g over S. *)
IsSum(n, g, S) == \E it : SumSteps(it, g, S) /\ n = it[S]

LEMMA PickIn ==
  ASSUME NEW s, s # {}
  PROVE  Pick(s) \in s
BY DEF Pick

LEMMA SumStep ==
  ASSUME NEW g, NEW S, NEW it, SumSteps(it, g, S), NEW s \in SUBSET S
  PROVE  it[s] = IF s = {} THEN 0 ELSE g[Pick(s)] + it[s \ {Pick(s)}]
<1> HIDE DEF Pick
<1>1. it = [u \in SUBSET S |->
              IF u = {} THEN 0 ELSE g[Pick(u)] + it[u \ {Pick(u)}]]
  BY DEF SumSteps
<1> DEFINE h == [u \in SUBSET S |->
              IF u = {} THEN 0 ELSE g[Pick(u)] + it[u \ {Pick(u)}]]
<1>2. h[s] = IF s = {} THEN 0 ELSE g[Pick(s)] + it[s \ {Pick(s)}]
  OBVIOUS
<1>3. it = h
  BY <1>1
<1> HIDE DEF h
<1>. QED  BY <1>2, <1>3

(* A smaller set has smaller subsets: what holds of the empty set, and of  *)
(* a set when it holds of all smaller ones, holds of every finite set.     *)
LEMMA SmallerPart ==
  ASSUME NEW S, IsFiniteSet(S), NEW s \in SUBSET S, NEW x \in s
  PROVE  /\ IsFiniteSet(s) /\ Cardinality(s) \in Nat
         /\ Cardinality(s \ {x}) = Cardinality(s) - 1
         /\ Cardinality(s \ {x}) \in Nat
<1>1. IsFiniteSet(s)
  BY FS_Subset
<1>. QED  BY <1>1, FS_RemoveElement, FS_CardinalityType

LEMMA SetInduction ==
  ASSUME NEW S, IsFiniteSet(S), NEW Q \in SUBSET (SUBSET S),
         \A s \in SUBSET S : (\A y \in s : s \ {y} \in Q) => s \in Q
  PROVE  Q = SUBSET S
<1> DEFINE P == {m \in Nat : \A s \in SUBSET S : Cardinality(s) <= m => s \in Q}
<1>1. 0 \in P
  <2>1. ASSUME NEW s \in SUBSET S, Cardinality(s) <= 0 PROVE s \in Q
    <3>1. s = {}
      BY <2>1, FS_Subset, FS_CardinalityType, FS_EmptySet
    <3>. QED  BY <3>1
  <2>. QED  BY <2>1
<1>2. ASSUME NEW m \in P PROVE m + 1 \in P
  <2>1. ASSUME NEW s \in SUBSET S, Cardinality(s) <= m + 1, NEW y \in s
        PROVE  s \ {y} \in Q
    <3>1. /\ s \ {y} \in SUBSET S /\ Cardinality(s) \in Nat
          /\ Cardinality(s \ {y}) = Cardinality(s) - 1
      BY SmallerPart
    <3>2. Cardinality(s \ {y}) <= m
      BY <2>1, <3>1
    <3>. QED  BY <3>1, <3>2
  <2>2. \A s \in SUBSET S : Cardinality(s) <= m + 1 => s \in Q
    BY <2>1
  <2>3. m + 1 \in Nat
    OBVIOUS
  <2>. QED  BY <2>2, <2>3
<1>3. P \in SUBSET Nat
  OBVIOUS
<1>4. Cardinality(S) \in Nat /\ \A s \in SUBSET S : Cardinality(s) <= Cardinality(S)
  BY FS_Subset, FS_CardinalityType
<1> HIDE DEF P
<1>5. Cardinality(S) \in P
  BY <1>1, <1>2, <1>3, <1>4, NatSetInduction
<1>. QED  BY <1>4, <1>5 DEF P

LEMMA SumExists ==
  ASSUME NEW g, NEW S, IsFiniteSet(S)
  PROVE  \E it : SumSteps(it, g, S)
<1> HIDE DEF Pick
<1> DEFINE Upto(it, m) ==
      \A s \in SUBSET S : Cardinality(s) <= m =>
        it[s] = IF s = {} THEN 0 ELSE g[Pick(s)] + it[s \ {Pick(s)}]
           P == {m \in Nat : \E it : Upto(it, m)}
<1>1. 0 \in P
  <2> DEFINE it == [s \in SUBSET S |-> 0]
  <2>1. ASSUME NEW s \in SUBSET S, Cardinality(s) <= 0 PROVE s = {}
    <3>1. IsFiniteSet(s)
      BY FS_Subset
    <3>2. Cardinality(s) \in Nat
      BY <3>1, FS_CardinalityType
    <3>3. Cardinality(s) = 0
      BY <2>1, <3>2
    <3>. QED  BY <3>1, <3>3, FS_EmptySet
  <2>2. Upto(it, 0)
    BY <2>1
  <2>. QED  BY <2>2
<1>2. ASSUME NEW m \in P PROVE m + 1 \in P
  <2>1. PICK it : Upto(it, m)
    OBVIOUS
  <2> DEFINE Value(s) ==
               IF s = {} THEN 0 ELSE g[Pick(s)] + it[s \ {Pick(s)}]
             nu == [s \in SUBSET S |-> Value(s)]
  <2>2. ASSUME NEW s \in SUBSET S, Cardinality(s) <= m PROVE nu[s] = it[s]
    BY <2>1, <2>2
  <2>3. ASSUME NEW s \in SUBSET S, Cardinality(s) <= m + 1
        PROVE  nu[s] = IF s = {} THEN 0 ELSE g[Pick(s)] + nu[s \ {Pick(s)}]
    <3>1. CASE s = {}
      BY <3>1
    <3>2. CASE s # {}
      <4>1. Pick(s) \in s
        BY <3>2, PickIn
      <4>2. /\ Cardinality(s) \in Nat
            /\ Cardinality(s \ {Pick(s)}) = Cardinality(s) - 1
        BY <4>1, SmallerPart
      <4>3. Cardinality(s \ {Pick(s)}) <= m
        BY <2>3, <4>2
      <4>4. s \ {Pick(s)} \in SUBSET S
        OBVIOUS
      <4>5. nu[s \ {Pick(s)}] = it[s \ {Pick(s)}]
        BY <2>2, <4>3, <4>4
      <4>6. nu[s] = g[Pick(s)] + it[s \ {Pick(s)}]
        BY <3>2
      <4> HIDE DEF nu
      <4>. QED  BY <3>2, <4>5, <4>6
    <3>. QED  BY <3>1, <3>2
  <2> HIDE DEF nu
  <2>4. Upto(nu, m + 1)
    BY <2>3
  <2>. QED  BY <2>4
<1>3. P \in SUBSET Nat
  OBVIOUS
<1>4. Cardinality(S) \in Nat
  BY FS_CardinalityType
<1> HIDE DEF P
<1>5. Cardinality(S) \in P
  BY <1>1, <1>2, <1>3, <1>4, NatSetInduction
<1>6. PICK it : Upto(it, Cardinality(S))
  BY <1>5 DEF P
<1>7. \A s \in SUBSET S : Cardinality(s) <= Cardinality(S)
  BY FS_Subset
<1> DEFINE nu == [s \in SUBSET S |-> it[s]]
<1>8. ASSUME NEW s \in SUBSET S
      PROVE  nu[s] = IF s = {} THEN 0 ELSE g[Pick(s)] + nu[s \ {Pick(s)}]
  <2>1. s \ {Pick(s)} \in SUBSET S
    OBVIOUS
  <2>2. nu[s \ {Pick(s)}] = it[s \ {Pick(s)}] /\ nu[s] = it[s]
    BY <2>1
  <2>. QED  BY <1>6, <1>7, <2>2
<1>9. nu = [s \in SUBSET S |-> nu[s]]
  OBVIOUS
<1> HIDE DEF nu
<1>10. SumSteps(nu, g, S)
  BY <1>8, <1>9 DEF SumSteps
<1>. QED  BY <1>10

(* What a sum is depends on the elements of the set alone. *)
LEMMA SumAgrees ==
  ASSUME NEW S, IsFiniteSet(S), NEW T, S \subseteq T,
         NEW g, NEW h, \A x \in S : g[x] = h[x],
         NEW it, SumSteps(it, g, S), NEW nu, SumSteps(nu, h, T)
  PROVE  \A s \in SUBSET S : it[s] = nu[s]
<1> HIDE DEF Pick, SumSteps
<1> DEFINE Q == {s \in SUBSET S : it[s] = nu[s]}
<1>1. ASSUME NEW s \in SUBSET S, \A y \in s : s \ {y} \in Q
      PROVE  s \in Q
  <2>1. s \in SUBSET T
    OBVIOUS
  <2>2. it[s] = IF s = {} THEN 0 ELSE g[Pick(s)] + it[s \ {Pick(s)}]
    BY SumStep
  <2>3. nu[s] = IF s = {} THEN 0 ELSE h[Pick(s)] + nu[s \ {Pick(s)}]
    BY <2>1, SumStep
  <2>4. s # {} => /\ g[Pick(s)] = h[Pick(s)]
                 /\ it[s \ {Pick(s)}] = nu[s \ {Pick(s)}]
    BY <1>1, PickIn
  <2>. QED  BY <2>2, <2>3, <2>4
<1>2. Q \in SUBSET (SUBSET S)
  OBVIOUS
<1> HIDE DEF Q
<1>3. Q = SUBSET S
  BY <1>1, <1>2, SetInduction
<1>. QED  BY <1>3 DEF Q

LEMMA SumType ==
  ASSUME NEW S, IsFiniteSet(S), NEW g, \A x \in S : g[x] \in Nat,
         NEW it, SumSteps(it, g, S)
  PROVE  \A s \in SUBSET S : it[s] \in Nat
<1> HIDE DEF Pick, SumSteps
<1> DEFINE Q == {s \in SUBSET S : it[s] \in Nat}
<1>1. ASSUME NEW s \in SUBSET S, \A y \in s : s \ {y} \in Q
      PROVE  s \in Q
  <2>1. it[s] = IF s = {} THEN 0 ELSE g[Pick(s)] + it[s \ {Pick(s)}]
    BY SumStep
  <2>2. s # {} => g[Pick(s)] \in Nat /\ it[s \ {Pick(s)}] \in Nat
    BY <1>1, PickIn
  <2>. QED  BY <2>1, <2>2
<1>2. Q \in SUBSET (SUBSET S)
  OBVIOUS
<1> HIDE DEF Q
<1>3. Q = SUBSET S
  BY <1>1, <1>2, SetInduction
<1>. QED  BY <1>3 DEF Q

(* Any element may be added last. *)
LEMMA SumAddsAny ==
  ASSUME NEW S, IsFiniteSet(S), NEW g, \A x \in S : g[x] \in Nat,
         NEW it, SumSteps(it, g, S)
  PROVE  \A s \in SUBSET S : \A x \in s : it[s] = g[x] + it[s \ {x}]
<1> HIDE DEF Pick, SumSteps
<1> DEFINE Right(s) == \A x \in s : it[s] = g[x] + it[s \ {x}]
           Q == {s \in SUBSET S : Right(s)}
<1>1. ASSUME NEW s \in SUBSET S, NEW x \in s,
             \A y \in s : Right(s \ {y})
      PROVE  it[s] = g[x] + it[s \ {x}]
  <2> DEFINE y == Pick(s)
  <2>1. y \in s /\ it[s] = g[y] + it[s \ {y}]
    <3>1. s # {}
      OBVIOUS
    <3>. QED  BY <3>1, SumStep, PickIn
  <2> HIDE DEF y
  <2>2. CASE x = y
    BY <2>1, <2>2
  <2>3. CASE x # y
    <3> DEFINE r == (s \ {y}) \ {x}
    <3>1. r = (s \ {x}) \ {y} /\ r \in SUBSET S
      OBVIOUS
    <3>2. it[s \ {y}] = g[x] + it[r]
      <4>1. Right(s \ {y})
        BY <1>1, <2>1
      <4>. QED  BY <2>3, <4>1
    <3>3. it[s \ {x}] = g[y] + it[r]
      <4>1. Right(s \ {x})
        BY <1>1
      <4>2. y \in s \ {x}
        BY <2>1, <2>3
      <4> HIDE DEF r
      <4>. QED  BY <3>1, <4>1, <4>2
    <3>4. g[x] \in Nat /\ g[y] \in Nat /\ it[r] \in Nat
      BY <2>1, <3>1, SumType
    <3> HIDE DEF r
    <3>. QED  BY <2>1, <3>2, <3>3, <3>4
  <2>. QED  BY <2>2, <2>3
<1> HIDE DEF Right
<1>2. ASSUME NEW s \in SUBSET S, \A y \in s : s \ {y} \in Q
      PROVE  s \in Q
  <2>1. \A y \in s : Right(s \ {y})
    BY <1>2
  <2>2. Right(s)
    BY <1>1, <2>1 DEF Right
  <2>. QED  BY <2>2
<1>3. Q \in SUBSET (SUBSET S)
  OBVIOUS
<1> HIDE DEF Q
<1>4. Q = SUBSET S
  BY <1>2, <1>3, SetInduction
<1>. QED  BY <1>4 DEF Q, Right
----------------------------------------------------------------------------
(* A finite set of natural numbers has one sum. *)
LEMMA SumUnique ==
  ASSUME NEW S, IsFiniteSet(S), NEW g, NEW h, \A x \in S : g[x] = h[x],
         NEW n, IsSum(n, g, S), NEW m, IsSum(m, h, S)
  PROVE  n = m
BY SumAgrees DEF IsSum

LEMMA SumNat ==
  ASSUME NEW S, IsFiniteSet(S), NEW g, \A x \in S : g[x] \in Nat,
         NEW n, IsSum(n, g, S)
  PROVE  n \in Nat
BY SumType DEF IsSum

LEMMA SumEmpty ==
  ASSUME NEW g, NEW n, IsSum(n, g, {})
  PROVE  n = 0
BY SumStep DEF IsSum

(* One more element. *)
LEMMA SumAdd ==
  ASSUME NEW S, IsFiniteSet(S), NEW x, x \notin S,
         NEW g, NEW h, \A y \in S : g[y] = h[y],
         \A y \in S \cup {x} : h[y] \in Nat,
         NEW n, IsSum(n, g, S), NEW m, IsSum(m, h, S \cup {x})
  PROVE  m = n + h[x]
<1> HIDE DEF SumSteps
<1> DEFINE T == S \cup {x}
<1>1. PICK it : SumSteps(it, g, S) /\ n = it[S]
  BY DEF IsSum
<1>2. PICK nu : SumSteps(nu, h, T) /\ m = nu[T]
  BY DEF IsSum
<1>3. n = nu[S]
  <2>1. S \subseteq T
    OBVIOUS
  <2> HIDE DEF T
  <2>. QED  BY <1>1, <1>2, <2>1, SumAgrees
<1>4. IsFiniteSet(T) /\ x \in T /\ T \ {x} = S /\ \A y \in T : h[y] \in Nat
  BY FS_AddElement
<1>5. h[x] \in Nat /\ nu[S] \in Nat
  <2>1. S \in SUBSET T
    OBVIOUS
  <2> HIDE DEF T
  <2>. QED  BY <1>2, <1>4, <2>1, SumType
<1> HIDE DEF T
<1>6. m = h[x] + nu[S]
  BY <1>2, <1>4, SumAddsAny
<1>. QED  BY <1>3, <1>5, <1>6
=============================================================================
