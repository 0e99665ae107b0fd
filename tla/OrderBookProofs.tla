-------------------------- MODULE OrderBookProofs --------------------------
(***************************************************************************)
(* Lemmas about the operators of OrderBook and MatchingStep: what each of  *)
(* them keeps of a book and of an order, for every price range, every book *)
(* and every order.  The proofs of the engine and of the exchange rest on  *)
(* them.                                                                   *)
(***************************************************************************)
EXTENDS MatchingStep, NumberFacts, FiniteSetsExt, SequenceTheorems

(* Order o may rest on side s at price p. *)
RestsAt(o, s, p) ==
  /\ o.side = s /\ o.price = p /\ o.orderType = "LIMIT"
  /\ o.remainingQuantity \in 1 .. o.quantity
  /\ o.status = IF o.remainingQuantity = o.quantity
                 THEN "NEW" ELSE "PARTIAL_FILL"
  /\ o.orderId \in OrderIds

(* What a call of processOrder holds of the order in its hands. *)
InHand(o, lo, hi) ==
  /\ o.price \in lo .. hi
  /\ o.orderId \in OrderIds
  /\ o.quantity > 0
  /\ o.remainingQuantity <= o.quantity
  /\ o.remainingQuantity = o.quantity => o.status = "NEW"
  /\ o.remainingQuantity \in 1 .. (o.quantity - 1)
       => o.status = "PARTIAL_FILL"

WellPlaced(b) ==
  \A s \in Side, p \in Prices(b) :
    \A i \in DOMAIN b.levels[s][p] : RestsAt(b.levels[s][p][i], s, p)

Occupied(b, s, p) == b.levels[s][p] # << >>

(* No occupied level lies beyond the best pointer of its side. *)
Reached(b) ==
  \A s \in Side, p \in Prices(b) : Occupied(b, s, p) => ~ Better(s, p, b.best[s])

(* The best pointer is on an occupied level, or at the worst price. *)
PointsAtLive(b) ==
  \A s \in Side : Occupied(b, s, b.best[s]) \/ b.best[s] = WorstPrice(b, s)

Uncrossed(b) ==
  \A p, q \in Prices(b) : Occupied(b, "BUY", p) /\ Occupied(b, "SELL", q) => p < q
----------------------------------------------------------------------------
(* Every nonempty set of prices has a lowest and a highest price. *)
LEMMA LowestPrice ==
  ASSUME NEW lo \in Int, NEW hi \in Int, NEW S \in SUBSET (lo .. hi), S # {}
  PROVE  \E m \in S : \A k \in S : m <= k
<1> DEFINE T == {q \in Nat : \E k \in S : q = k - lo}
<1>0. PICK k0 \in S : TRUE
  OBVIOUS
<1>1. k0 - lo \in T
  OBVIOUS
<1>2. PICK m \in T : \A k \in T : m <= k
  <2> HIDE DEF T
  <2>1. T \in SUBSET Nat
    BY DEF T
  <2>. QED  BY <1>1, <2>1, NatMin
<1>3. m + lo \in S /\ m \in Nat
  OBVIOUS
<1>4. ASSUME NEW k \in S PROVE m + lo <= k
  <2>1. k - lo \in T
    OBVIOUS
  <2>. QED  BY <1>2, <1>3, <2>1
<1>. QED  BY <1>3, <1>4

LEMMA HighestPrice ==
  ASSUME NEW lo \in Int, NEW hi \in Int, NEW S \in SUBSET (lo .. hi), S # {}
  PROVE  \E m \in S : \A k \in S : k <= m
<1> DEFINE T == {q \in Nat : \E k \in S : q = hi - k}
<1>0. PICK k0 \in S : TRUE
  OBVIOUS
<1>1. hi - k0 \in T
  OBVIOUS
<1>2. PICK m \in T : \A k \in T : m <= k
  <2> HIDE DEF T
  <2>1. T \in SUBSET Nat
    BY DEF T
  <2>. QED  BY <1>1, <2>1, NatMin
<1>3. hi - m \in S /\ m \in Nat
  OBVIOUS
<1>4. ASSUME NEW k \in S PROVE k <= hi - m
  <2>1. hi - k \in T
    OBVIOUS
  <2>. QED  BY <1>2, <1>3, <2>1
<1>. QED  BY <1>3, <1>4

(* Every nonempty set of prices has a best one, on either side. *)
LEMMA BestPrice ==
  ASSUME NEW lo \in Int, NEW hi \in Int, NEW S \in SUBSET (lo .. hi), S # {},
         NEW s \in Side
  PROVE  \E m \in S : \A k \in S : ~ Better(s, k, m)
<1>1. CASE s = "BUY"
  <2>1. PICK m \in S : \A k \in S : k <= m
    BY HighestPrice
  <2>. QED  BY <1>1, <2>1 DEF Better
<1>2. CASE s = "SELL"
  <2>1. PICK m \in S : \A k \in S : m <= k
    BY LowestPrice
  <2>. QED  BY <1>2, <2>1 DEF Better
<1>. QED  BY <1>1, <1>2 DEF Side
----------------------------------------------------------------------------
(* What a book is made of, field by field. *)
LEMMA BookFields ==
  ASSUME NEW lo \in Int, NEW hi \in Int, NEW b \in Book(lo, hi)
  PROVE  /\ b.minPrice = lo /\ b.maxPrice = hi /\ Prices(b) = lo .. hi
         /\ b.levels \in [Side -> [lo .. hi -> Seq(Order)]]
         /\ b.best \in [Side -> lo .. hi]
         /\ b.orderIndex \in
              [OrderIds -> [price : lo .. hi, side : Side] \cup {NoLocation}]
         /\ b.cancelledOrders \in SUBSET OrderIds
<1>1. b.minPrice = lo /\ b.maxPrice = hi
  BY DEF Book
<1>2. /\ b.levels \in [Side -> [lo .. hi -> Seq(Order)]]
      /\ b.best \in [Side -> lo .. hi]
      /\ b.orderIndex \in
           [OrderIds -> [price : lo .. hi, side : Side] \cup {NoLocation}]
      /\ b.cancelledOrders \in SUBSET OrderIds
  BY DEF Book
<1>. QED  BY <1>1, <1>2 DEF Prices

(* NewBook builds a book whose levels are all empty. *)
LEMMA NewBookCorrect ==
  ASSUME NEW lo \in Int, NEW hi \in Int, lo <= hi
  PROVE  /\ NewBook(lo, hi) \in Book(lo, hi)
         /\ \A s \in Side, p \in lo .. hi :
              NewBook(lo, hi).levels[s][p] = << >>
  BY DEF NewBook, Book, Side

(* AddOrder appends the order to its own level, and moves the pointer of   *)
(* its side to that level when it beats the pointer.                       *)
LEMMA AddOrderCorrect ==
  ASSUME NEW lo \in Int, NEW hi \in Int, NEW b \in Book(lo, hi),
         NEW o \in Order, o.price \in lo .. hi, o.orderId \in OrderIds
  PROVE  LET c == AddOrder(b, o) IN
         /\ c \in Book(lo, hi)
         /\ \A s \in Side, p \in lo .. hi :
              c.levels[s][p] = IF s = o.side /\ p = o.price
                               THEN Append(b.levels[s][p], o)
                               ELSE b.levels[s][p]
         /\ \A s \in Side :
              c.best[s] = IF s = o.side /\ Better(s, o.price, b.best[s])
                          THEN o.price ELSE b.best[s]
<1> DEFINE c == AddOrder(b, o)
           L == b.levels
           M == [L[o.side] EXCEPT ![o.price] = Append(L[o.side][o.price], o)]
<1>1. o.side \in Side
  BY DEF Order
<1>2. c.levels = [L EXCEPT ![o.side] = M]
  BY DEF AddOrder, Book
<1>3. c.best = [b.best EXCEPT ![o.side] =
                   IF Better(o.side, o.price, @) THEN o.price ELSE @]
  BY DEF AddOrder, Book
<1>4. c.orderIndex = [b.orderIndex EXCEPT ![o.orderId] =
                         [price |-> o.price, side |-> o.side]]
  BY DEF AddOrder, Book
<1>5. \A s \in Side : L[s] \in [lo .. hi -> Seq(Order)]
  BY BookFields
<1>6. M \in [lo .. hi -> Seq(Order)]
  BY <1>1, <1>5
<1>7. c.levels \in [Side -> [lo .. hi -> Seq(Order)]]
  <2> HIDE DEF c, M
  <2>. QED  BY <1>1, <1>2, <1>6, BookFields
<1>8. c.best \in [Side -> lo .. hi]
  <2> HIDE DEF c
  <2>. QED  BY <1>1, <1>3, BookFields
<1>9. c.orderIndex \in
        [OrderIds -> [price : lo .. hi, side : Side] \cup {NoLocation}]
  <2>1. [price |-> o.price, side |-> o.side] \in [price : lo .. hi, side : Side]
    BY <1>1
  <2> HIDE DEF c
  <2>. QED  BY <1>4, <2>1, BookFields
<1>10. c \in Book(lo, hi)
  BY <1>7, <1>8, <1>9 DEF AddOrder, Book
<1>11. ASSUME NEW s \in Side, NEW p \in lo .. hi
       PROVE  c.levels[s][p] = IF s = o.side /\ p = o.price
                               THEN Append(L[s][p], o) ELSE L[s][p]
  <2>1. c.levels[s] = IF s = o.side THEN M ELSE L[s]
    <3> HIDE DEF c, M
    <3>. QED  BY <1>1, <1>2, BookFields
  <2> HIDE DEF c
  <2>. QED  BY <1>5, <2>1
<1>12. ASSUME NEW s \in Side
       PROVE  c.best[s] = IF s = o.side /\ Better(s, o.price, b.best[s])
                          THEN o.price ELSE b.best[s]
  <2> HIDE DEF c
  <2>. QED  BY <1>1, <1>3, BookFields
<1>. QED  BY <1>10, <1>11, <1>12
----------------------------------------------------------------------------
(* NextBest finds the best occupied level that is not better than p. *)
LEMMA NextBestCorrect ==
  ASSUME NEW lo \in Int, NEW hi \in Int, NEW b \in Book(lo, hi),
         NEW L \in [lo .. hi -> Seq(Order)],
         NEW s \in Side, NEW p \in lo .. hi
  PROVE  LET n == NextBest(b, L, s, p) IN
         /\ n \in lo .. hi
         /\ ~ Better(s, n, p)
         /\ \A q \in lo .. hi :
              L[q] # << >> /\ ~ Better(s, q, p)
                => ~ Better(s, q, n) /\ L[n] # << >>
<1> DEFINE live == {q \in Prices(b) : L[q] # << >> /\ ~ Better(s, q, p)}
           n == NextBest(b, L, s, p)
<1>1. n = IF live = {} THEN WorstPrice(b, s)
          ELSE CHOOSE q \in live : \A r \in live : ~ Better(s, r, q)
  BY DEF NextBest
<1>2. Prices(b) = lo .. hi
  BY BookFields
<1>3. CASE live = {}
  <2>1. n = WorstPrice(b, s)
    BY <1>1, <1>3
  <2>2. n \in lo .. hi /\ ~ Better(s, n, p)
    BY <2>1, BookFields DEF WorstPrice, Better, Side
  <2>. QED  BY <1>2, <1>3, <2>2
<1>4. CASE live # {}
  <2>1. live \in SUBSET (lo .. hi)
    BY <1>2
  <2>2. \E q \in live : \A r \in live : ~ Better(s, r, q)
    <3> HIDE DEF live
    <3>. QED  BY <1>4, <2>1, BestPrice
  <2>3. n \in live /\ \A r \in live : ~ Better(s, r, n)
    <3> HIDE DEF live
    <3>. QED  BY <1>1, <1>4, <2>2
  <2>. QED  BY <1>2, <2>3
<1>. QED  BY <1>3, <1>4

(* RemoveTop pops the front of the level its pointer points at, if there   *)
(* is one, and only then moves that pointer.                               *)
LEMMA RemoveTopCorrect ==
  ASSUME NEW lo \in Int, NEW hi \in Int, NEW b \in Book(lo, hi), NEW s \in Side
  PROVE  LET c == RemoveTop(b, s)
             p == b.best[s] IN
         /\ c \in Book(lo, hi)
         /\ b.levels[s][p] = << >> => c = b
         /\ b.levels[s][p] # << >> =>
              /\ \A t \in Side, q \in lo .. hi :
                   c.levels[t][q] = IF t = s /\ q = p THEN Tail(b.levels[t][q])
                                                      ELSE b.levels[t][q]
              /\ \A t \in Side :
                   c.best[t] = IF t = s THEN NextBest(b, c.levels[s], s, p)
                                        ELSE b.best[t]
<1> DEFINE c == RemoveTop(b, s)
           p == b.best[s]
           L == b.levels
           M == [L[s] EXCEPT ![p] = Tail(L[s][p])]
           n == NextBest(b, M, s, p)
<1>1. /\ L \in [Side -> [lo .. hi -> Seq(Order)]]
      /\ b.best \in [Side -> lo .. hi]
      /\ p \in lo .. hi
      /\ \A t \in Side : L[t] \in [lo .. hi -> Seq(Order)]
  BY BookFields
<1>2. CASE L[s][p] = << >>
  <2>1. c = b
    BY <1>2 DEF RemoveTop
  <2>. QED  BY <1>2, <2>1
<1>3. CASE L[s][p] # << >>
  <2>1. c = [b EXCEPT !.levels[s] = M, !.best[s] = n]
    BY <1>3 DEF RemoveTop
  <2>2. M \in [lo .. hi -> Seq(Order)]
    <3>1. Tail(L[s][p]) \in Seq(Order)
      BY <1>1, <1>3
    <3>. QED  BY <1>1, <3>1
  <2>3. n \in lo .. hi
    <3> HIDE DEF M
    <3>. QED  BY <1>1, <2>2, NextBestCorrect
  <2>4. c \in Book(lo, hi) /\ c.levels = [L EXCEPT ![s] = M]
        /\ c.best = [b.best EXCEPT ![s] = n]
    <3> HIDE DEF M, n, c
    <3>. QED  BY <2>1, <2>2, <2>3 DEF Book
  <2>5. c.levels[s] = M /\ \A t \in Side \ {s} : c.levels[t] = L[t]
    <3> HIDE DEF M, c
    <3>. QED  BY <1>1, <2>4
  <2>6. ASSUME NEW t \in Side, NEW q \in lo .. hi
        PROVE  c.levels[t][q] = IF t = s /\ q = p THEN Tail(L[t][q]) ELSE L[t][q]
    <3> HIDE DEF c
    <3>1. CASE t = s
      BY <1>1, <2>5, <3>1
    <3>2. CASE t # s
      BY <2>5, <3>2
    <3>. QED  BY <3>1, <3>2
  <2>7. ASSUME NEW t \in Side
        PROVE  c.best[t] = IF t = s THEN NextBest(b, c.levels[s], s, p)
                                    ELSE b.best[t]
    <3> HIDE DEF c, M
    <3>. QED  BY <1>1, <2>4, <2>5
  <2>. QED  BY <1>3, <2>4, <2>6, <2>7
<1>. QED  BY <1>2, <1>3

(* Updating the order at the front of a level in place. *)
LEMMA SetFrontCorrect ==
  ASSUME NEW lo \in Int, NEW hi \in Int, NEW b \in Book(lo, hi), NEW s \in Side,
         NEW p \in lo .. hi, NEW r \in Order, b.levels[s][p] # << >>
  PROVE  LET c == [b EXCEPT !.levels[s][p] = << r >> \o Tail(@)] IN
         /\ c \in Book(lo, hi)
         /\ c.best = b.best
         /\ \A t \in Side, q \in lo .. hi :
              c.levels[t][q] = IF t = s /\ q = p
                               THEN << r >> \o Tail(b.levels[t][q])
                               ELSE b.levels[t][q]
<1> DEFINE c == [b EXCEPT !.levels[s][p] = << r >> \o Tail(@)]
           L == b.levels
           M == [L[s] EXCEPT ![p] = << r >> \o Tail(L[s][p])]
<1>1. /\ L \in [Side -> [lo .. hi -> Seq(Order)]]
      /\ \A t \in Side : L[t] \in [lo .. hi -> Seq(Order)]
  BY BookFields
<1>2. M \in [lo .. hi -> Seq(Order)]
  <2>1. Tail(L[s][p]) \in Seq(Order)
    BY <1>1
  <2>2. << r >> \o Tail(L[s][p]) \in Seq(Order)
    BY <2>1
  <2>. QED  BY <1>1, <2>2
<1>3. c.levels = [L EXCEPT ![s] = M] /\ c.best = b.best
  BY DEF Book
<1>4. c.levels \in [Side -> [lo .. hi -> Seq(Order)]]
  <2> HIDE DEF M, c
  <2>. QED  BY <1>1, <1>2, <1>3
<1>5. c \in Book(lo, hi)
  BY <1>4 DEF Book
<1>6. c.levels[s] = M /\ \A t \in Side \ {s} : c.levels[t] = L[t]
  <2> HIDE DEF M, c
  <2>. QED  BY <1>1, <1>3
<1>7. ASSUME NEW t \in Side, NEW q \in lo .. hi
      PROVE  c.levels[t][q] = IF t = s /\ q = p THEN << r >> \o Tail(L[t][q])
                                                ELSE L[t][q]
  <2> HIDE DEF c
  <2>1. CASE t = s
    BY <1>1, <1>6, <2>1
  <2>2. CASE t # s
    BY <1>6, <2>2
  <2>. QED  BY <2>1, <2>2
<1>. QED  BY <1>3, <1>5, <1>7

(* Erasing the i-th element of a sequence leaves only elements it had. *)
LEMMA EraseCorrect ==
  ASSUME NEW S, NEW q \in Seq(S), NEW i \in 1 .. Len(q)
  PROVE  LET r == SubSeq(q, 1, i - 1) \o SubSeq(q, i + 1, Len(q)) IN
         /\ r \in Seq(S)
         /\ \A j \in DOMAIN r : \E k \in DOMAIN q : r[j] = q[k]
         /\ \A k \in DOMAIN q \ {i} : \E j \in DOMAIN r : r[j] = q[k]
<1> DEFINE u == SubSeq(q, 1, i - 1)
           v == SubSeq(q, i + 1, Len(q))
<1>1. u \in Seq(S) /\ v \in Seq(S)
  OBVIOUS
<1>2. Len(u) = i - 1 /\ Len(v) = Len(q) - i
  OBVIOUS
<1>3. \A k \in 1 .. i - 1 : u[k] = q[k]
  OBVIOUS
<1>4. \A k \in 1 .. Len(q) - i : v[k] = q[i + k]
  OBVIOUS
<1>5. ASSUME NEW j \in DOMAIN (u \o v)
      PROVE  \E k \in DOMAIN q : (u \o v)[j] = q[k]
  <2> HIDE DEF u, v
  <2>1. j \in 1 .. Len(q) - 1
    BY <1>1, <1>2
  <2>2. CASE j < i
    <3>1. (u \o v)[j] = q[j]
      BY <1>1, <1>2, <1>3, <2>1, <2>2
    <3>. QED  BY <2>1, <3>1
  <2>3. CASE j >= i
    <3>1. (u \o v)[j] = v[j - (i - 1)]
      BY <1>1, <1>2, <2>1, <2>3
    <3>2. v[j - (i - 1)] = q[j + 1]
      BY <1>4, <2>1, <2>3
    <3>. QED  BY <2>1, <3>1, <3>2
  <2>. QED  BY <2>1, <2>2, <2>3
<1>6. u \o v \in Seq(S)
  BY <1>1
<1>7. ASSUME NEW j \in 1 .. Len(q) - 1
      PROVE  (u \o v)[j] = IF j < i THEN q[j] ELSE q[j + 1]
  <2> HIDE DEF u, v
  <2>1. CASE j < i
    BY <1>1, <1>2, <1>3, <2>1
  <2>2. CASE j >= i
    <3>1. (u \o v)[j] = v[j - (i - 1)]
      BY <1>1, <1>2, <2>2
    <3>2. v[j - (i - 1)] = q[j + 1]
      BY <1>4, <2>2
    <3>3. ~ (j < i)
      BY <2>2
    <3>. QED  BY <3>1, <3>2, <3>3
  <2>3. j < i \/ j >= i
    OBVIOUS
  <2>. QED  BY <2>1, <2>2, <2>3
<1>8. ASSUME NEW k \in DOMAIN q \ {i}
      PROVE  \E j \in DOMAIN (u \o v) : (u \o v)[j] = q[k]
  <2> DEFINE j == IF k < i THEN k ELSE k - 1
  <2> HIDE DEF u, v
  <2>1. DOMAIN (u \o v) = 1 .. Len(q) - 1
    BY <1>1, <1>2
  <2>2. /\ j \in 1 .. Len(q) - 1
        /\ q[k] = IF j < i THEN q[j] ELSE q[j + 1]
    OBVIOUS
  <2> HIDE DEF j
  <2>. QED  BY <1>7, <2>1, <2>2
<1>. QED  BY <1>5, <1>6, <1>8

(* Sequence q without its i-th element. *)
Without(q, i) == SubSeq(q, 1, i - 1) \o SubSeq(q, i + 1, Len(q))

(* CancelOrder takes at most one order off a level, one that has the id;   *)
(* no pointer moves.                                                       *)
LEMMA CancelErases ==
  ASSUME NEW lo \in Int, NEW hi \in Int, NEW b \in Book(lo, hi),
         NEW id \in OrderIds
  PROVE  LET c == CancelOrder(b, id) IN
         /\ c \in Book(lo, hi)
         /\ c.best = b.best
         /\ \/ c.levels = b.levels
            \/ \E s \in Side, p \in lo .. hi : \E i \in DOMAIN b.levels[s][p] :
                 /\ b.levels[s][p][i].orderId = id
                 /\ \A t \in Side, q \in lo .. hi :
                      c.levels[t][q] = IF t = s /\ q = p
                                       THEN Without(b.levels[t][q], i)
                                       ELSE b.levels[t][q]
<1> DEFINE c     == CancelOrder(b, id)
           L     == b.levels
           loc   == b.orderIndex[id]
           level == L[loc.side][loc.price]
           at    == {i \in DOMAIN level : level[i].orderId = id}
           i     == CHOOSE n \in at : \A m \in at : n <= m
           rest  == SubSeq(level, 1, i - 1) \o SubSeq(level, i + 1, Len(level))
           M     == [L[loc.side] EXCEPT ![loc.price] = rest]
<1>1. /\ L \in [Side -> [lo .. hi -> Seq(Order)]]
      /\ \A t \in Side : L[t] \in [lo .. hi -> Seq(Order)]
  BY BookFields
<1>2. CASE loc = NoLocation \/ at = {}
  <2>1. c = [b EXCEPT !.cancelledOrders = @ \cup {id}]
    BY <1>2 DEF CancelOrder
  <2>2. c \in Book(lo, hi) /\ c.best = b.best /\ c.levels = b.levels
    <3> HIDE DEF c
    <3>. QED  BY <2>1 DEF Book
  <2>. QED  BY <2>2
<1>3. CASE ~ (loc = NoLocation \/ at = {})
  <2>1. loc \in [price : lo .. hi, side : Side]
    <3>1. loc # NoLocation
      BY <1>3
    <3>2. loc \in [price : lo .. hi, side : Side] \cup {NoLocation}
      BY BookFields
    <3> HIDE DEF loc
    <3>. QED  BY <3>1, <3>2
  <2>2. loc.side \in Side /\ loc.price \in lo .. hi
    BY <2>1
  <2>3. level \in Seq(Order)
    BY <1>1, <2>2
  <2>4. at \in SUBSET Nat /\ at # {}
    <3>1. at # {}
      BY <1>3
    <3>2. DOMAIN level = 1 .. Len(level)
      <4> HIDE DEF level
      <4>. QED  BY <2>3
    <3> HIDE DEF level
    <3>. QED  BY <3>1, <3>2
  <2>5. i \in at
    <3>1. \E n \in at : \A m \in at : n <= m
      BY <2>4, NatMin
    <3> HIDE DEF at
    <3>. QED  BY <3>1
  <2>6. i \in 1 .. Len(level)
    <3> HIDE DEF level, i
    <3>. QED  BY <2>3, <2>5
  <2>7. rest \in Seq(Order)
    <3> HIDE DEF level, i
    <3>. QED  BY <2>3, <2>6, EraseCorrect
  <2>8. c = [b EXCEPT !.levels[loc.side] = M, !.orderIndex[id] = NoLocation,
                      !.cancelledOrders = @ \ {id}]
    BY <1>3 DEF CancelOrder
  <2>9. M \in [lo .. hi -> Seq(Order)]
    <3> HIDE DEF rest, loc
    <3>. QED  BY <1>1, <2>2, <2>7
  <2>10. c \in Book(lo, hi) /\ c.best = b.best
         /\ c.levels = [L EXCEPT ![loc.side] = M]
    <3> HIDE DEF M, c, loc
    <3>. QED  BY <2>2, <2>8, <2>9 DEF Book
  <2>11. c.levels[loc.side] = M /\ \A t \in Side \ {loc.side} : c.levels[t] = L[t]
    <3> HIDE DEF M, c, loc
    <3>. QED  BY <1>1, <2>2, <2>10
  <2>12. ASSUME NEW s \in Side, NEW p \in lo .. hi
         PROVE  c.levels[s][p] = IF s = loc.side /\ p = loc.price THEN rest
                                                                  ELSE L[s][p]
    <3> HIDE DEF c, rest, loc
    <3>1. CASE s = loc.side
      BY <1>1, <2>2, <2>11, <3>1
    <3>2. CASE s # loc.side
      BY <2>11, <3>2
    <3>. QED  BY <3>1, <3>2
  <2>13. level[i].orderId = id /\ i \in DOMAIN level
    <3> HIDE DEF level, i
    <3>. QED  BY <2>5
  <2>14. ASSUME NEW s \in Side, NEW p \in lo .. hi
         PROVE  c.levels[s][p] =
                  IF s = loc.side /\ p = loc.price
                  THEN Without(L[s][p], i) ELSE L[s][p]
    <3>1. s = loc.side /\ p = loc.price => Without(L[s][p], i) = rest
      BY DEF Without
    <3> HIDE DEF c, i, rest, loc
    <3>. QED  BY <2>12, <3>1
  <2> HIDE DEF i, loc
  <2>15. \E s \in Side, p \in lo .. hi : \E k \in DOMAIN L[s][p] :
           /\ L[s][p][k].orderId = id
           /\ \A t \in Side, q \in lo .. hi :
                c.levels[t][q] = IF t = s /\ q = p THEN Without(L[t][q], k)
                                                   ELSE L[t][q]
    <3> HIDE DEF c
    <3>. QED  BY <2>2, <2>13, <2>14
  <2>. QED  BY <2>10, <2>15
<1>. QED  BY <1>2, <1>3

LEMMA CancelOrderCorrect ==
  ASSUME NEW lo \in Int, NEW hi \in Int, NEW b \in Book(lo, hi),
         NEW id \in OrderIds
  PROVE  LET c == CancelOrder(b, id) IN
         /\ c \in Book(lo, hi)
         /\ c.best = b.best
         /\ \A s \in Side, p \in lo .. hi : \A j \in DOMAIN c.levels[s][p] :
              \E k \in DOMAIN b.levels[s][p] :
                c.levels[s][p][j] = b.levels[s][p][k]
<1> DEFINE c == CancelOrder(b, id)
<1>1. c \in Book(lo, hi) /\ c.best = b.best
  BY CancelErases
<1>2. \/ c.levels = b.levels
      \/ \E s \in Side, p \in lo .. hi : \E i \in DOMAIN b.levels[s][p] :
           \A t \in Side, q \in lo .. hi :
             c.levels[t][q] = IF t = s /\ q = p THEN Without(b.levels[t][q], i)
                                                 ELSE b.levels[t][q]
  BY CancelErases
<1>3. \A s \in Side, p \in lo .. hi : b.levels[s][p] \in Seq(Order)
  BY BookFields
<1> HIDE DEF c
<1>4. ASSUME NEW s \in Side, NEW p \in lo .. hi, NEW i \in DOMAIN b.levels[s][p],
             NEW j \in DOMAIN Without(b.levels[s][p], i)
      PROVE  \E k \in DOMAIN b.levels[s][p] :
               Without(b.levels[s][p], i)[j] = b.levels[s][p][k]
  <2> DEFINE q == b.levels[s][p]
  <2>1. q \in Seq(Order)
    BY <1>3
  <2> HIDE DEF q
  <2>2. i \in 1 .. Len(q) /\ j \in DOMAIN Without(q, i)
    BY <2>1 DEF q
  <2>3. \E k \in DOMAIN q : Without(q, i)[j] = q[k]
    BY <2>1, <2>2, EraseCorrect DEF Without
  <2>. QED  BY <2>3 DEF q
<1>5. \A s \in Side, p \in lo .. hi : \A j \in DOMAIN c.levels[s][p] :
        \E k \in DOMAIN b.levels[s][p] : c.levels[s][p][j] = b.levels[s][p][k]
  <2>1. CASE c.levels = b.levels
    BY <2>1
  <2>2. ASSUME NEW s \in Side, NEW p \in lo .. hi, NEW i \in DOMAIN b.levels[s][p],
               \A t \in Side, q \in lo .. hi :
                 c.levels[t][q] = IF t = s /\ q = p THEN Without(b.levels[t][q], i)
                                                     ELSE b.levels[t][q],
               NEW t \in Side, NEW q \in lo .. hi, NEW j \in DOMAIN c.levels[t][q]
        PROVE  \E k \in DOMAIN b.levels[t][q] : c.levels[t][q][j] = b.levels[t][q][k]
    <3>1. CASE t = s /\ q = p
      <4>1. c.levels[t][q] = Without(b.levels[s][p], i)
        BY <2>2, <3>1
      <4>. QED  BY <1>4, <3>1, <4>1
    <3>2. CASE ~ (t = s /\ q = p)
      <4>1. c.levels[t][q] = b.levels[t][q]
        BY <2>2, <3>2
      <4>. QED  BY <4>1
    <3>. QED  BY <3>1, <3>2
  <2>. QED  BY <1>2, <2>1, <2>2
<1>. QED  BY <1>1, <1>5 DEF c

(* A cancel leaves every order of another id where it is.                  *)
LEMMA CancelLeaves ==
  ASSUME NEW lo \in Int, NEW hi \in Int, NEW b \in Book(lo, hi),
         NEW id \in OrderIds, NEW s \in Side, NEW p \in lo .. hi,
         NEW k \in DOMAIN b.levels[s][p], b.levels[s][p][k].orderId # id
  PROVE  LET c == CancelOrder(b, id) IN
         \E j \in DOMAIN c.levels[s][p] :
           c.levels[s][p][j] = b.levels[s][p][k]
<1> DEFINE c == CancelOrder(b, id)
<1>1. \/ c.levels = b.levels
      \/ \E t \in Side, q \in lo .. hi : \E i \in DOMAIN b.levels[t][q] :
           /\ b.levels[t][q][i].orderId = id
           /\ c.levels[s][p] = IF s = t /\ p = q THEN Without(b.levels[s][p], i)
                                                  ELSE b.levels[s][p]
  BY CancelErases
<1>2. b.levels[s][p] \in Seq(Order)
  BY BookFields
<1> HIDE DEF c
<1>3. ASSUME NEW i \in DOMAIN b.levels[s][p], i # k
      PROVE  \E j \in DOMAIN Without(b.levels[s][p], i) :
               Without(b.levels[s][p], i)[j] = b.levels[s][p][k]
  <2> DEFINE q == b.levels[s][p]
  <2>1. /\ q \in Seq(Order) /\ i \in DOMAIN q /\ k \in DOMAIN q \ {i}
        /\ i \in 1 .. Len(q)
    BY <1>2, <1>3
  <2> HIDE DEF q
  <2>2. \E j \in DOMAIN Without(q, i) : Without(q, i)[j] = q[k]
    BY <2>1, EraseCorrect DEF Without
  <2>. QED  BY <2>2 DEF q
<1>4. \E j \in DOMAIN c.levels[s][p] : c.levels[s][p][j] = b.levels[s][p][k]
  BY <1>1, <1>3
<1>. QED  BY <1>4 DEF c
----------------------------------------------------------------------------
(* A book whose levels only hold orders that another book holds on the     *)
(* same levels is as well placed and as uncrossed as that book.            *)
LEMMA FewerOrders ==
  ASSUME NEW lo \in Int, NEW hi \in Int,
         NEW b \in Book(lo, hi), NEW c \in Book(lo, hi),
         \A s \in Side, p \in lo .. hi : \A j \in DOMAIN c.levels[s][p] :
           \E k \in DOMAIN b.levels[s][p] :
             c.levels[s][p][j] = b.levels[s][p][k]
  PROVE  /\ WellPlaced(b) => WellPlaced(c)
         /\ \A s \in Side, p \in lo .. hi : Occupied(c, s, p) => Occupied(b, s, p)
         /\ Uncrossed(b) => Uncrossed(c)
<1>1. Prices(b) = lo .. hi /\ Prices(c) = lo .. hi
  BY BookFields
<1>2. WellPlaced(b) => WellPlaced(c)
  BY <1>1 DEF WellPlaced
<1>3. ASSUME NEW s \in Side, NEW p \in lo .. hi, Occupied(c, s, p)
      PROVE  Occupied(b, s, p)
  <2>1. c.levels[s][p] \in Seq(Order) /\ b.levels[s][p] \in Seq(Order)
    BY BookFields
  <2>2. 1 \in DOMAIN c.levels[s][p]
    BY <1>3, <2>1 DEF Occupied
  <2>3. \E k \in DOMAIN b.levels[s][p] : TRUE
    BY <2>2
  <2>. QED  BY <2>1, <2>3 DEF Occupied
<1>4. Uncrossed(b) => Uncrossed(c)
  BY <1>1, <1>3 DEF Uncrossed, Side
<1>. QED  BY <1>2, <1>3, <1>4

(* Resting an order keeps the levels well placed and within reach, and     *)
(* leaves no pointer on an empty level that was not on one.                *)
LEMMA RestKeeps ==
  ASSUME NEW lo \in Int, NEW hi \in Int, NEW b \in Book(lo, hi),
         NEW o \in Order, o.price \in lo .. hi, RestsAt(o, o.side, o.price),
         WellPlaced(b), Reached(b)
  PROVE  LET c == AddOrder(b, o) IN
         /\ WellPlaced(c) /\ Reached(c)
         /\ PointsAtLive(b) => PointsAtLive(c)
         /\ \A s \in Side, p \in lo .. hi :
              Occupied(c, s, p)
                <=> Occupied(b, s, p) \/ (s = o.side /\ p = o.price)
<1> DEFINE c == AddOrder(b, o)
<1>1. /\ Prices(b) = lo .. hi
      /\ \A s \in Side : b.best[s] \in lo .. hi
      /\ \A s \in Side, p \in lo .. hi : b.levels[s][p] \in Seq(Order)
  BY BookFields
<1>2. /\ c \in Book(lo, hi)
      /\ \A s \in Side, p \in lo .. hi :
           c.levels[s][p] = IF s = o.side /\ p = o.price
                            THEN Append(b.levels[s][p], o) ELSE b.levels[s][p]
      /\ \A s \in Side :
           c.best[s] = IF s = o.side /\ Better(s, o.price, b.best[s])
                       THEN o.price ELSE b.best[s]
  BY AddOrderCorrect DEF RestsAt
<1>3. Prices(c) = lo .. hi
  BY <1>2, BookFields
<1>4. o.side \in Side
  BY DEF Order
<1>5. WellPlaced(c)
  <2> SUFFICES ASSUME NEW s \in Side, NEW p \in lo .. hi,
                      NEW i \in DOMAIN c.levels[s][p]
               PROVE  RestsAt(c.levels[s][p][i], s, p)
    BY <1>3 DEF WellPlaced
  <2>1. CASE s = o.side /\ p = o.price
    <3>1. c.levels[s][p] = Append(b.levels[s][p], o)
      BY <1>2, <2>1
    <3>2. \/ i \in DOMAIN b.levels[s][p] /\ c.levels[s][p][i] = b.levels[s][p][i]
          \/ c.levels[s][p][i] = o
      BY <1>1, <3>1
    <3>. QED  BY <1>1, <2>1, <3>2 DEF WellPlaced
  <2>2. CASE ~ (s = o.side /\ p = o.price)
    <3>1. c.levels[s][p] = b.levels[s][p]
      BY <1>2, <2>2
    <3>. QED  BY <1>1, <3>1 DEF WellPlaced
  <2>. QED  BY <2>1, <2>2
<1>6. \A s \in Side, p \in lo .. hi :
        Occupied(c, s, p) <=> Occupied(b, s, p) \/ (s = o.side /\ p = o.price)
  <2>1. \A q \in Seq(Order) : Append(q, o) # << >>
    OBVIOUS
  <2>2. ASSUME NEW s \in Side, NEW p \in lo .. hi
        PROVE  c.levels[s][p] # << >>
                 <=> b.levels[s][p] # << >> \/ (s = o.side /\ p = o.price)
    <3>1. CASE s = o.side /\ p = o.price
      <4>1. c.levels[s][p] = Append(b.levels[s][p], o)
        BY <1>2, <3>1
      <4>2. b.levels[s][p] \in Seq(Order)
        BY <1>1
      <4>. QED  BY <2>1, <3>1, <4>1, <4>2
    <3>2. CASE ~ (s = o.side /\ p = o.price)
      BY <1>2, <3>2
    <3>. QED  BY <3>1, <3>2
  <2>. QED  BY <2>2 DEF Occupied
<1>7. Reached(c)
  <2> SUFFICES ASSUME NEW s \in Side, NEW p \in lo .. hi, Occupied(c, s, p)
               PROVE  ~ Better(s, p, c.best[s])
    BY <1>3 DEF Reached
  <2>1. Occupied(b, s, p) => ~ Better(s, p, b.best[s])
    BY <1>1 DEF Reached
  <2>2. c.best[s] = IF s = o.side /\ Better(s, o.price, b.best[s])
                    THEN o.price ELSE b.best[s]
    BY <1>2
  <2>3. b.best[s] \in Int /\ p \in Int /\ o.price \in Int
    BY <1>1
  <2>. QED  BY <1>6, <2>1, <2>2, <2>3 DEF Better
<1>8. ASSUME PointsAtLive(b) PROVE PointsAtLive(c)
  <2> SUFFICES ASSUME NEW s \in Side
               PROVE  Occupied(c, s, c.best[s]) \/ c.best[s] = WorstPrice(c, s)
    BY DEF PointsAtLive
  <2>1. WorstPrice(c, s) = WorstPrice(b, s)
    BY <1>2, BookFields DEF WorstPrice
  <2>2. CASE c.best[s] = o.price /\ s = o.side
    BY <1>6, <2>2
  <2>3. CASE ~ (c.best[s] = o.price /\ s = o.side)
    <3>1. c.best[s] = b.best[s]
      BY <1>2, <2>3
    <3>2. Occupied(b, s, b.best[s]) \/ b.best[s] = WorstPrice(b, s)
      BY <1>8 DEF PointsAtLive
    <3>. QED  BY <1>1, <1>6, <2>1, <3>1, <3>2
  <2>. QED  BY <2>2, <2>3
<1>. QED  BY <1>5, <1>6, <1>7, <1>8

(* Removing the front of a level keeps the levels well placed, within      *)
(* reach and uncrossed, and the scan leaves the pointer on an occupied     *)
(* level whenever the side still holds one.                                *)
LEMMA RemoveTopKeeps ==
  ASSUME NEW lo \in Int, NEW hi \in Int, NEW b \in Book(lo, hi), NEW s \in Side,
         WellPlaced(b), Reached(b)
  PROVE  LET c == RemoveTop(b, s) IN
         /\ c \in Book(lo, hi)
         /\ WellPlaced(c) /\ Reached(c)
         /\ PointsAtLive(b) => PointsAtLive(c)
         /\ Uncrossed(b) => Uncrossed(c)
<1> DEFINE c == RemoveTop(b, s)
           p == b.best[s]
<1>1. /\ Prices(b) = lo .. hi
      /\ \A t \in Side : b.best[t] \in lo .. hi
      /\ \A t \in Side : b.levels[t] \in [lo .. hi -> Seq(Order)]
      /\ \A t \in Side, q \in lo .. hi : b.levels[t][q] \in Seq(Order)
  BY BookFields
<1>2. c \in Book(lo, hi)
  BY RemoveTopCorrect
<1>3. Prices(c) = lo .. hi /\ \A t \in Side : WorstPrice(c, t) = WorstPrice(b, t)
  BY <1>2, BookFields DEF WorstPrice
<1>4. CASE b.levels[s][p] = << >>
  <2>1. c = b
    BY <1>4, RemoveTopCorrect
  <2>. QED  BY <1>2, <2>1
<1>5. CASE b.levels[s][p] # << >>
  <2>1. /\ \A t \in Side, q \in lo .. hi :
             c.levels[t][q] = IF t = s /\ q = p THEN Tail(b.levels[t][q])
                                                ELSE b.levels[t][q]
        /\ \A t \in Side :
             c.best[t] = IF t = s THEN NextBest(b, c.levels[s], s, p)
                                  ELSE b.best[t]
    BY <1>5, RemoveTopCorrect
  <2>2. ASSUME NEW t \in Side, NEW q \in lo .. hi, NEW j \in DOMAIN c.levels[t][q]
        PROVE  \E k \in DOMAIN b.levels[t][q] :
                 c.levels[t][q][j] = b.levels[t][q][k]
    <3>1. CASE t = s /\ q = p
      <4>1. c.levels[t][q] = Tail(b.levels[t][q])
        BY <2>1, <3>1
      <4>2. b.levels[t][q] \in Seq(Order) /\ b.levels[t][q] # << >>
        BY <1>1, <1>5, <3>1
      <4>3. j + 1 \in DOMAIN b.levels[t][q]
            /\ c.levels[t][q][j] = b.levels[t][q][j + 1]
        BY <4>1, <4>2
      <4>. QED  BY <4>3
    <3>2. CASE ~ (t = s /\ q = p)
      BY <2>1, <3>2
    <3>. QED  BY <3>1, <3>2
  <2>3. /\ WellPlaced(c)
        /\ \A t \in Side, q \in lo .. hi : Occupied(c, t, q) => Occupied(b, t, q)
        /\ Uncrossed(b) => Uncrossed(c)
    BY <1>2, <2>2, FewerOrders
  <2>4. /\ c.best[s] \in lo .. hi
        /\ \A q \in lo .. hi : Occupied(c, s, q) /\ ~ Better(s, q, p)
             => ~ Better(s, q, c.best[s]) /\ Occupied(c, s, c.best[s])
    <3>1. c.levels[s] \in [lo .. hi -> Seq(Order)]
      BY <1>2, BookFields
    <3>2. c.best[s] = NextBest(b, c.levels[s], s, p)
      BY <2>1
    <3>3. p \in lo .. hi
      BY <1>1
    <3> DEFINE M == c.levels[s]
               n == NextBest(b, M, s, p)
    <3>4. /\ n \in lo .. hi
          /\ \A q \in lo .. hi : M[q] # << >> /\ ~ Better(s, q, p)
               => ~ Better(s, q, n) /\ M[n] # << >>
      <4>1. M \in [lo .. hi -> Seq(Order)]
        BY <3>1
      <4> HIDE DEF M, p
      <4>. QED  BY <3>3, <4>1, NextBestCorrect
    <3>. QED  BY <3>2, <3>4 DEF Occupied
  <2>5. \A q \in lo .. hi : Occupied(c, s, q) => ~ Better(s, q, p)
    BY <1>1, <2>3 DEF Reached
  <2>6. Reached(c)
    <3>1. ASSUME NEW t \in Side, NEW q \in lo .. hi, Occupied(c, t, q)
          PROVE  ~ Better(t, q, c.best[t])
      <4>1. CASE t = s
        BY <2>4, <2>5, <3>1, <4>1
      <4>2. CASE t # s
        BY <1>1, <2>1, <2>3, <3>1, <4>2 DEF Reached
      <4>. QED  BY <4>1, <4>2
    <3>. QED  BY <1>3, <3>1 DEF Reached
  <2>7. ASSUME PointsAtLive(b) PROVE PointsAtLive(c)
    <3> SUFFICES ASSUME NEW t \in Side
                 PROVE  Occupied(c, t, c.best[t]) \/ c.best[t] = WorstPrice(c, t)
      BY DEF PointsAtLive
    <3>1. CASE t # s
      <4>1. c.best[t] = b.best[t] /\ c.levels[t][b.best[t]] = b.levels[t][b.best[t]]
        BY <1>1, <2>1, <3>1
      <4>. QED  BY <1>3, <2>7, <4>1 DEF PointsAtLive, Occupied
    <3>2. CASE t = s /\ \E q \in lo .. hi : Occupied(c, s, q)
      BY <2>4, <2>5, <3>2
    <3>3. CASE t = s /\ \A q \in lo .. hi : ~ Occupied(c, s, q)
      <4>1. c.best[s] = WorstPrice(b, s)
        BY <1>1, <2>1, <3>3 DEF NextBest, Occupied
      <4>. QED  BY <1>3, <3>3, <4>1
    <3>. QED  BY <3>1, <3>2, <3>3
  <2>. QED  BY <1>2, <2>3, <2>6, <2>7
<1>. QED  BY <1>4, <1>5

(* Updating the front order of a level first makes no difference to what   *)
(* RemoveTop leaves.                                                       *)
LEMMA RemoveUpdatedTop ==
  ASSUME NEW lo \in Int, NEW hi \in Int, NEW b \in Book(lo, hi), NEW s \in Side,
         NEW r \in Order, b.levels[s][b.best[s]] # << >>
  PROVE  RemoveTop([b EXCEPT !.levels[s][b.best[s]] = << r >> \o Tail(@)], s)
           = RemoveTop(b, s)
<1> DEFINE p == b.best[s]
           c == [b EXCEPT !.levels[s][p] = << r >> \o Tail(@)]
           L == b.levels
           N == [L[s] EXCEPT ![p] = << r >> \o Tail(L[s][p])]
           M == [L[s] EXCEPT ![p] = Tail(L[s][p])]
<1>1. /\ L \in [Side -> [lo .. hi -> Seq(Order)]]
      /\ b.best \in [Side -> lo .. hi]
      /\ p \in lo .. hi
      /\ L[s] \in [lo .. hi -> Seq(Order)]
      /\ L[s][p] \in Seq(Order)
  BY BookFields
<1>2. /\ c = [b EXCEPT !.levels[s] = N]
      /\ c.levels = [L EXCEPT ![s] = N] /\ c.best = b.best
      /\ c.minPrice = b.minPrice /\ c.maxPrice = b.maxPrice
  BY DEF Book
<1>3. c.levels[s] = N
  <2> HIDE DEF c, N
  <2>. QED  BY <1>1, <1>2
<1>4. N[p] = << r >> \o Tail(L[s][p])
  BY <1>1
<1>5. N[p] # << >> /\ Tail(N[p]) = Tail(L[s][p])
  <2>1. Tail(L[s][p]) \in Seq(Order)
    BY <1>1
  <2>2. \A q \in Seq(Order) : << r >> \o q # << >> /\ Tail(<< r >> \o q) = q
    OBVIOUS
  <2> HIDE DEF N
  <2>. QED  BY <1>4, <2>1, <2>2
<1>6. [N EXCEPT ![p] = Tail(N[p])] = M
  <2>1. [N EXCEPT ![p] = Tail(L[s][p])] = M
    BY <1>1
  <2> HIDE DEF M, N
  <2>. QED  BY <1>5, <2>1
<1>7. NextBest(c, M, s, p) = NextBest(b, M, s, p)
  <2>1. Prices(c) = Prices(b) /\ WorstPrice(c, s) = WorstPrice(b, s)
    BY <1>2 DEF Prices, WorstPrice
  <2> HIDE DEF c, M, p
  <2>. QED  BY <2>1 DEF NextBest
<1>8. RemoveTop(c, s) = [c EXCEPT !.levels[s] = M, !.best[s] = NextBest(b, M, s, p)]
  <2> HIDE DEF c, M, N
  <2>. QED  BY <1>2, <1>3, <1>5, <1>6, <1>7 DEF RemoveTop
<1>9. RemoveTop(b, s) = [b EXCEPT !.levels[s] = M, !.best[s] = NextBest(b, M, s, p)]
  BY DEF RemoveTop
<1>10. [c EXCEPT !.levels[s] = M, !.best[s] = NextBest(b, M, s, p)]
         = [b EXCEPT !.levels[s] = M, !.best[s] = NextBest(b, M, s, p)]
  <2> HIDE DEF c, M, N
  <2>. QED  BY <1>1, <1>2 DEF Book
<1>. QED  BY <1>8, <1>9, <1>10

(* The order a step trades with is the front of the best opposite level,   *)
(* and the quantity traded is positive and left on both sides.             *)
LEMMA ContraCorrect ==
  ASSUME NEW lo \in Int, NEW hi \in Int, NEW b \in Book(lo, hi), NEW o \in Order,
         WellPlaced(b), ~ NoContra(b, o)
  PROVE  LET s == Opposite(o.side) IN
         /\ s \in Side /\ b.best[s] \in lo .. hi
         /\ Occupied(b, s, b.best[s])
         /\ Contra(b, o) = b.levels[s][b.best[s]][1]
         /\ Contra(b, o) \in Order
         /\ RestsAt(Contra(b, o), s, b.best[s])
<1> DEFINE s == Opposite(o.side)
           p == b.best[s]
           level == b.levels[s][p]
<1>1. s \in Side
  BY DEF Opposite, Side, Order
<1>2. p \in lo .. hi /\ level \in Seq(Order) /\ Prices(b) = lo .. hi
  BY <1>1, BookFields
<1>3. Contra(b, o) = IF level = << >> THEN EmptyOrder ELSE Head(level)
  BY DEF Contra, GetBest
<1>4. level # << >>
  <2>1. EmptyOrder.orderId = 0
    BY DEF EmptyOrder
  <2>2. Contra(b, o) # EmptyOrder
    BY <2>1 DEF NoContra
  <2>. QED  BY <1>3, <2>2
<1>5. 1 \in DOMAIN level /\ Contra(b, o) = level[1] /\ level[1] \in Order
  <2> HIDE DEF level
  <2>. QED  BY <1>2, <1>3, <1>4
<1>6. RestsAt(level[1], s, p)
  BY <1>1, <1>2, <1>5 DEF WellPlaced
<1>. QED  BY <1>1, <1>2, <1>4, <1>5, <1>6 DEF Occupied

(* An order with quantity left does not see an empty side unless it is.    *)
LEMMA NoContraCorrect ==
  ASSUME NEW lo \in Int, NEW hi \in Int, NEW b \in Book(lo, hi), NEW o \in Order,
         WellPlaced(b), NoContra(b, o)
  PROVE  ~ Occupied(b, Opposite(o.side), b.best[Opposite(o.side)])
<1> DEFINE s == Opposite(o.side)
           p == b.best[s]
           level == b.levels[s][p]
<1>1. s \in Side
  BY DEF Opposite, Side, Order
<1>2. p \in lo .. hi /\ level \in Seq(Order) /\ Prices(b) = lo .. hi
  BY <1>1, BookFields
<1> SUFFICES ASSUME level # << >> PROVE FALSE
  BY DEF Occupied
<1>3. Contra(b, o) = Head(level)
  BY DEF Contra, GetBest
<1>4. 1 \in DOMAIN level /\ Contra(b, o) = level[1]
  <2> HIDE DEF level
  <2>. QED  BY <1>2, <1>3
<1>5. RestsAt(level[1], s, p)
  BY <1>1, <1>2, <1>4 DEF WellPlaced
<1>6. Contra(b, o).orderId \in OrderIds
  BY <1>4, <1>5 DEF RestsAt
<1>. QED  BY <1>6, OrderIdsAssumption DEF NoContra

(* The quantity of a trade is positive, and both orders have it. *)
LEMMA TradeQuantityCorrect ==
  ASSUME NEW lo \in Int, NEW hi \in Int, NEW b \in Book(lo, hi), NEW o \in Order,
         WellPlaced(b), ~ NoContra(b, o), LoopGuard(o)
  PROVE  LET q == TradeQuantity(b, o) IN
         /\ q \in Nat /\ q > 0
         /\ q <= o.remainingQuantity
         /\ q <= Contra(b, o).remainingQuantity
<1>1. o.remainingQuantity \in Nat /\ o.remainingQuantity > 0
  BY DEF Order, LoopGuard
<1>2. Contra(b, o) \in Order /\ RestsAt(Contra(b, o), Opposite(o.side), b.best[Opposite(o.side)])
  BY ContraCorrect
<1>3. Contra(b, o).remainingQuantity \in Nat /\ Contra(b, o).remainingQuantity > 0
  BY <1>2 DEF RestsAt, Order
<1>. QED  BY <1>1, <1>3 DEF TradeQuantity

(* Taking a positive quantity an order has leaves an order. *)
LEMMA FilledCorrect ==
  ASSUME NEW o \in Order, NEW q \in Nat, q > 0, q <= o.remainingQuantity
  PROVE  LET r == Filled(o, q) IN
         /\ r \in Order
         /\ r.remainingQuantity = o.remainingQuantity - q
         /\ r.status = IF r.remainingQuantity = 0 THEN "FILLED" ELSE "PARTIAL_FILL"
         /\ r.side = o.side /\ r.price = o.price /\ r.quantity = o.quantity
         /\ r.orderType = o.orderType /\ r.orderId = o.orderId
         /\ r.symbol = o.symbol
<1>1. o.remainingQuantity \in Nat /\ o.remainingQuantity - q \in Nat
  BY DEF Order
<1>2. (o.remainingQuantity = q) <=> (o.remainingQuantity - q = 0)
  BY <1>1
<1>. QED  BY <1>1, <1>2 DEF Filled, Order, Status

(* A trade keeps the levels well placed, within reach and uncrossed, and   *)
(* the pointers on occupied levels.                                        *)
LEMMA TradeKeeps ==
  ASSUME NEW lo \in Int, NEW hi \in Int, NEW b \in Book(lo, hi), NEW o \in Order,
         WellPlaced(b), Reached(b), MustTrade(b, o)
  PROVE  LET c == BookAfterTrade(b, o) IN
         /\ c \in Book(lo, hi)
         /\ WellPlaced(c) /\ Reached(c)
         /\ PointsAtLive(b) => PointsAtLive(c)
         /\ Uncrossed(b) => Uncrossed(c)
<1> DEFINE s == Opposite(o.side)
           p == b.best[s]
           q == TradeQuantity(b, o)
           r == Filled(Contra(b, o), q)
           d == [b EXCEPT !.levels[s][p] = << r >> \o Tail(@)]
           c == BookAfterTrade(b, o)
<1>1. ~ NoContra(b, o) /\ LoopGuard(o)
  BY DEF MustTrade, LiveContra
<1>2. /\ s \in Side /\ p \in lo .. hi
      /\ b.levels[s][p] # << >>
      /\ Contra(b, o) \in Order
      /\ RestsAt(Contra(b, o), s, p)
  BY <1>1, ContraCorrect DEF Occupied
<1>3. q \in Nat /\ q > 0 /\ q <= Contra(b, o).remainingQuantity
  BY <1>1, TradeQuantityCorrect
<1>4. /\ r \in Order
      /\ r.remainingQuantity = Contra(b, o).remainingQuantity - q
      /\ r.status = IF r.remainingQuantity = 0 THEN "FILLED" ELSE "PARTIAL_FILL"
      /\ r.side = Contra(b, o).side /\ r.price = Contra(b, o).price
      /\ r.quantity = Contra(b, o).quantity
      /\ r.orderType = Contra(b, o).orderType /\ r.orderId = Contra(b, o).orderId
  BY <1>2, <1>3, FilledCorrect
<1>5. CASE r.remainingQuantity = 0
  <2>1. c = RemoveTop(d, s)
    BY <1>5 DEF BookAfterTrade
  <2>2. RemoveTop(d, s) = RemoveTop(b, s)
    <3> HIDE DEF r
    <3>. QED  BY <1>2, <1>4, RemoveUpdatedTop
  <2>3. c = RemoveTop(b, s)
    BY <2>1, <2>2
  <2>. QED  BY <1>2, <2>3, RemoveTopKeeps
<1>6. CASE r.remainingQuantity # 0
  <2>1. c = d
    BY <1>6 DEF BookAfterTrade
  <2>2. RestsAt(r, s, p)
    <3>1. Contra(b, o).remainingQuantity \in 1 .. Contra(b, o).quantity
      BY <1>2 DEF RestsAt
    <3>2. r.remainingQuantity \in 1 .. r.quantity /\ r.remainingQuantity # r.quantity
      BY <1>2, <1>3, <1>4, <1>6, <3>1 DEF Order
    <3>. QED  BY <1>2, <1>4, <1>6, <3>2 DEF RestsAt
  <2>3. /\ d \in Book(lo, hi) /\ d.best = b.best
        /\ \A t \in Side, x \in lo .. hi :
             d.levels[t][x] = IF t = s /\ x = p
                              THEN << r >> \o Tail(b.levels[t][x])
                              ELSE b.levels[t][x]
    <3> HIDE DEF r, s, p
    <3>1. s \in Side /\ p \in lo .. hi /\ r \in Order /\ b.levels[s][p] # << >>
      BY <1>2, <1>4
    <3>. QED  BY <3>1, SetFrontCorrect
  <2>4. /\ Prices(b) = lo .. hi /\ Prices(d) = lo .. hi
        /\ b.minPrice = d.minPrice /\ b.maxPrice = d.maxPrice
        /\ \A t \in Side, x \in lo .. hi : b.levels[t][x] \in Seq(Order)
        /\ \A t \in Side : b.best[t] \in lo .. hi
    BY <2>3, BookFields
  <2>5. ASSUME NEW t \in Side, NEW x \in lo .. hi
        PROVE  /\ Occupied(d, t, x) <=> Occupied(b, t, x)
               /\ \A i \in DOMAIN d.levels[t][x] : RestsAt(d.levels[t][x][i], t, x)
    <3> HIDE DEF d, r
    <3>1. CASE t = s /\ x = p
      <4>1. d.levels[t][x] = << r >> \o Tail(b.levels[t][x])
        BY <2>3, <3>1
      <4>2. b.levels[t][x] \in Seq(Order) /\ b.levels[t][x] # << >>
        BY <1>2, <2>4, <3>1
      <4>3. /\ d.levels[t][x] # << >>
            /\ \A i \in DOMAIN d.levels[t][x] :
                 \/ d.levels[t][x][i] = r
                 \/ i \in DOMAIN b.levels[t][x]
                    /\ d.levels[t][x][i] = b.levels[t][x][i]
        BY <1>4, <4>1, <4>2
      <4>. QED  BY <2>2, <2>4, <3>1, <4>2, <4>3 DEF Occupied, WellPlaced
    <3>2. CASE ~ (t = s /\ x = p)
      BY <2>3, <2>4, <3>2 DEF Occupied, WellPlaced
    <3>. QED  BY <3>1, <3>2
  <2> HIDE DEF d
  <2>6. WellPlaced(d)
    BY <2>4, <2>5 DEF WellPlaced
  <2>7. Reached(d)
    BY <2>3, <2>4, <2>5 DEF Reached
  <2>8. PointsAtLive(b) => PointsAtLive(d)
    BY <2>3, <2>4, <2>5 DEF PointsAtLive, WorstPrice
  <2>9. Uncrossed(b) => Uncrossed(d)
    BY <2>4, <2>5 DEF Uncrossed, Side
  <2>. QED  BY <2>1, <2>3, <2>6, <2>7, <2>8, <2>9
<1>. QED  BY <1>5, <1>6

(* A trade that does not fill the order in hand fills the resting one,     *)
(* which leaves its level.                                                 *)
LEMMA TradeRemovesTop ==
  ASSUME NEW lo \in Int, NEW hi \in Int, NEW b \in Book(lo, hi), NEW o \in Order,
         WellPlaced(b), MustTrade(b, o), LoopGuard(Filled(o, TradeQuantity(b, o)))
  PROVE  /\ TradeQuantity(b, o) = Contra(b, o).remainingQuantity
         /\ BookAfterTrade(b, o) = RemoveTop(b, Opposite(o.side))
<1> DEFINE s == Opposite(o.side)
           p == b.best[s]
           q == TradeQuantity(b, o)
           r == Filled(Contra(b, o), q)
<1>1. ~ NoContra(b, o) /\ LoopGuard(o)
  BY DEF MustTrade, LiveContra
<1>2. /\ s \in Side /\ Contra(b, o) \in Order /\ b.levels[s][p] # << >>
      /\ q \in Nat /\ q > 0
      /\ q <= o.remainingQuantity /\ q <= Contra(b, o).remainingQuantity
  BY <1>1, ContraCorrect, TradeQuantityCorrect DEF Occupied
<1>3. /\ r \in Order /\ r.remainingQuantity = Contra(b, o).remainingQuantity - q
      /\ o.remainingQuantity - q > 0
  <2>1. LoopGuard(Filled(o, q))
    OBVIOUS
  <2> HIDE DEF q
  <2>2. Filled(o, q).remainingQuantity = o.remainingQuantity - q
    BY <1>2, FilledCorrect
  <2>3. r \in Order /\ r.remainingQuantity = Contra(b, o).remainingQuantity - q
    BY <1>2, FilledCorrect
  <2>. QED  BY <2>1, <2>2, <2>3 DEF LoopGuard
<1>4. q = Contra(b, o).remainingQuantity
  <2>1. o.remainingQuantity \in Nat /\ Contra(b, o).remainingQuantity \in Nat
    BY <1>2 DEF Order
  <2>2. q = o.remainingQuantity \/ q = Contra(b, o).remainingQuantity
    BY DEF TradeQuantity
  <2> HIDE DEF q, r
  <2>. QED  BY <1>2, <1>3, <2>1, <2>2
<1>5. r.remainingQuantity = 0
  <2>1. Contra(b, o).remainingQuantity \in Nat
    BY <1>2 DEF Order
  <2> HIDE DEF q, r
  <2>. QED  BY <1>3, <1>4, <2>1
<1>6. BookAfterTrade(b, o)
        = RemoveTop([b EXCEPT !.levels[s][p] = << r >> \o Tail(@)], s)
  BY <1>5 DEF BookAfterTrade
<1>7. RemoveTop([b EXCEPT !.levels[s][p] = << r >> \o Tail(@)], s) = RemoveTop(b, s)
  <2> HIDE DEF r
  <2>. QED  BY <1>2, <1>3, RemoveUpdatedTop
<1>. QED  BY <1>4, <1>6, <1>7

(* The order in hand fits the level it would rest on. *)
LEMMA InHandRests ==
  ASSUME NEW lo \in Int, NEW hi \in Int, NEW b, NEW o \in Order,
         InHand(o, lo, hi), MustRest(b, o)
  PROVE  o.price \in lo .. hi /\ RestsAt(o, o.side, o.price)
<1>1. o.remainingQuantity \in Nat /\ o.quantity \in Nat
  BY DEF Order
<1>2. o.remainingQuantity > 0 /\ o.orderType = "LIMIT"
  BY DEF MustRest, LoopGuard
<1>3. o.remainingQuantity \in 1 .. o.quantity
  BY <1>1, <1>2 DEF InHand
<1>4. o.status = IF o.remainingQuantity = o.quantity
                 THEN "NEW" ELSE "PARTIAL_FILL"
  BY <1>1, <1>3 DEF InHand
<1>. QED  BY <1>1, <1>2, <1>3, <1>4 DEF InHand, RestsAt

(* What an order rests beside is out of its reach. *)
LEMMA RestUncrossed ==
  ASSUME NEW lo \in Int, NEW hi \in Int, NEW b \in Book(lo, hi), NEW o \in Order,
         InHand(o, lo, hi), MustRest(b, o),
         WellPlaced(b), Reached(b), PointsAtLive(b), Uncrossed(b)
  PROVE  Uncrossed(AddOrder(b, o))
<1> DEFINE c == AddOrder(b, o)
           s == Opposite(o.side)
<1>1. o.price \in lo .. hi /\ RestsAt(o, o.side, o.price)
  BY InHandRests
<1>2. /\ c \in Book(lo, hi)
      /\ \A t \in Side, p \in lo .. hi :
           Occupied(c, t, p)
             <=> Occupied(b, t, p) \/ (t = o.side /\ p = o.price)
  BY <1>1, RestKeeps, AddOrderCorrect DEF RestsAt
<1>3. /\ Prices(b) = lo .. hi /\ Prices(c) = lo .. hi
      /\ \A t \in Side : b.best[t] \in lo .. hi
  BY <1>2, BookFields
<1>4. o.side \in Side /\ s \in Side /\ s # o.side
  BY <1>1 DEF Order, Side, Opposite
<1>5. ASSUME NEW q \in lo .. hi, Occupied(b, s, q)
      PROVE  IF o.side = "BUY" THEN o.price < q ELSE q < o.price
  <2>1. ~ Better(s, q, b.best[s])
    BY <1>3, <1>4, <1>5 DEF Reached
  <2>2. Occupied(b, s, b.best[s])
    <3>1. CASE b.best[s] = WorstPrice(b, s)
      <4>1. b.minPrice = lo /\ b.maxPrice = hi
        BY BookFields
      <4>2. q = b.best[s]
        BY <1>4, <2>1, <3>1, <4>1 DEF WorstPrice, Better, Side
      <4>. QED  BY <1>5, <4>2
    <3>. QED  BY <1>4, <3>1 DEF PointsAtLive
  <2>3. ~ NoContra(b, o)
    BY <1>1, <2>2, NoContraCorrect
  <2>4. Contra(b, o).price = b.best[s]
    BY <1>1, <2>3, ContraCorrect DEF RestsAt
  <2>5. Better(o.side, b.best[s], o.price)
    BY <2>3, <2>4 DEF MustRest, OutOfReach
  <2>. QED  BY <1>1, <1>3, <1>4, <2>1, <2>5 DEF Better, Opposite, Side
<1>6. ASSUME NEW p \in lo .. hi, NEW q \in lo .. hi,
             Occupied(c, "BUY", p), Occupied(c, "SELL", q)
      PROVE  p < q
  <2>1. CASE o.side = "BUY"
    <3>1. Occupied(b, "SELL", q) /\ s = "SELL"
      BY <1>2, <1>6, <2>1 DEF Opposite, Side
    <3>2. o.price < q
      BY <1>5, <2>1, <3>1
    <3>3. CASE p = o.price
      BY <3>2, <3>3
    <3>4. CASE Occupied(b, "BUY", p)
      BY <1>3, <3>1, <3>4 DEF Uncrossed
    <3>. QED  BY <1>2, <1>6, <3>3, <3>4 DEF Side
  <2>2. CASE o.side = "SELL"
    <3>1. Occupied(b, "BUY", p) /\ s = "BUY"
      BY <1>2, <1>6, <2>2 DEF Opposite, Side
    <3>2. p < o.price
      BY <1>5, <2>2, <3>1
    <3>3. CASE q = o.price
      BY <3>2, <3>3
    <3>4. CASE Occupied(b, "SELL", q)
      BY <1>3, <3>1, <3>4 DEF Uncrossed
    <3>. QED  BY <1>2, <1>6, <3>3, <3>4 DEF Side
  <2>. QED  BY <1>4, <2>1, <2>2 DEF Side
<1>. QED  BY <1>3, <1>6 DEF Uncrossed

(* What a trade leaves of it stays in hand. *)
LEMMA InHandTrades ==
  ASSUME NEW lo \in Int, NEW hi \in Int, NEW b \in Book(lo, hi), NEW o \in Order,
         WellPlaced(b), InHand(o, lo, hi), MustTrade(b, o)
  PROVE  LET r == Filled(o, TradeQuantity(b, o)) IN
         r \in Order /\ InHand(r, lo, hi)
<1> DEFINE q == TradeQuantity(b, o)
           r == Filled(o, q)
<1>1. q \in Nat /\ q > 0 /\ q <= o.remainingQuantity
  BY TradeQuantityCorrect DEF MustTrade, LiveContra
<1>2. /\ r \in Order
      /\ r.remainingQuantity = o.remainingQuantity - q
      /\ r.status = IF r.remainingQuantity = 0 THEN "FILLED" ELSE "PARTIAL_FILL"
      /\ r.price = o.price /\ r.quantity = o.quantity /\ r.orderId = o.orderId
  <2> HIDE DEF q
  <2>. QED  BY <1>1, FilledCorrect
<1>3. o.remainingQuantity \in Nat /\ o.quantity \in Nat
  BY DEF Order
<1> HIDE DEF q, r
<1>4. InHand(r, lo, hi)
  BY <1>1, <1>2, <1>3 DEF InHand
<1>. QED  BY <1>2, <1>4 DEF q, r

(* The line executeTrade logs. *)
LEMMA TradeOfCorrect ==
  ASSUME NEW lo \in Int, NEW hi \in Int, NEW b \in Book(lo, hi), NEW o \in Order,
         WellPlaced(b), MustTrade(b, o)
  PROVE  TradeOf(b, o) \in Trade
<1>1. ~ NoContra(b, o) /\ LoopGuard(o)
  BY DEF MustTrade, LiveContra
<1>2. Contra(b, o) \in Order
  BY <1>1, ContraCorrect
<1>3. TradeQuantity(b, o) \in Nat
  BY <1>1, TradeQuantityCorrect
<1>. QED  BY <1>1, <1>2, <1>3 DEF TradeOf, Trade, Order

(* Where an order of Resting rests. *)
LEMMA RestingAt ==
  ASSUME NEW lo \in Int, NEW hi \in Int, NEW b \in Book(lo, hi), NEW s \in Side,
         WellPlaced(b), NEW r \in Resting(b, s)
  PROVE  \E p \in lo .. hi : Occupied(b, s, p) /\ RestsAt(r, s, p)
<1>1. Prices(b) = lo .. hi
  BY BookFields
<1>2. PICK p \in lo .. hi : \E i \in DOMAIN b.levels[s][p] : r = b.levels[s][p][i]
  BY <1>1 DEF Resting
<1>3. b.levels[s][p] \in Seq(Order)
  BY BookFields
<1>4. Occupied(b, s, p)
  BY <1>2, <1>3 DEF Occupied
<1>. QED  BY <1>1, <1>2, <1>4 DEF WellPlaced

----------------------------------------------------------------------------
(* What a fill does not change of an order. *)
SameOrder(o, r) ==
  /\ o.orderId = r.orderId /\ o.side = r.side /\ o.symbol = r.symbol
  /\ o.price = r.price /\ o.orderType = r.orderType

(* Order o is one of the orders rs that clients sent. *)
Came(rs, o) == \E i \in DOMAIN rs : SameOrder(o, rs[i])

Increasing(rs) ==
  \A i, j \in DOMAIN rs : i < j => rs[i].orderId < rs[j].orderId

Traced(b, rs) ==
  \A s \in Side, p \in Prices(b) : \A i \in DOMAIN b.levels[s][p] :
    Came(rs, b.levels[s][p][i])

Indexed(b) ==
  \A s \in Side, p \in Prices(b) : \A i \in DOMAIN b.levels[s][p] :
    b.orderIndex[b.levels[s][p][i].orderId] = [price |-> p, side |-> s]

(* The orders of a level rest in the order of their ids. *)
InOrder(b) ==
  \A s \in Side, p \in Prices(b) : \A i, j \in DOMAIN b.levels[s][p] :
    i < j => b.levels[s][p][i].orderId < b.levels[s][p][j].orderId

NoneOf(b, ids) ==
  \A s \in Side, p \in Prices(b) : \A i \in DOMAIN b.levels[s][p] :
    b.levels[s][p][i].orderId \notin ids

(* The orders of a book are older than one with the given id. *)
Older(b, id) ==
  \A s \in Side, p \in Prices(b) : \A i \in DOMAIN b.levels[s][p] :
    b.levels[s][p][i].orderId < id

(* The orders of a book name symbol y. *)
OfSymbol(b, y) ==
  \A s \in Side, p \in Prices(b) : \A i \in DOMAIN b.levels[s][p] :
    b.levels[s][p][i].symbol = y

(* Trade t is between a buy order and a sell order of rs, of which one at  *)
(* least has a limit, at the seller's price, within the limits of both.    *)
Within(t, rs) ==
  \E i, j \in DOMAIN rs :
    /\ rs[i].orderId = t.buyOrderId /\ rs[j].orderId = t.sellOrderId
    /\ rs[i].side = "BUY" /\ rs[j].side = "SELL"
    /\ "LIMIT" \in {rs[i].orderType, rs[j].orderType}
    /\ t.price = rs[j].price
    /\ rs[i].orderType = "LIMIT" /\ rs[j].orderType = "LIMIT"
         => t.price \in rs[j].price .. rs[i].price

----------------------------------------------------------------------------
(* Sequence r is q with at most one element left out, and its orders are   *)
(* those of q but for their fills.                                         *)
Kept(q, r) ==
  \E m \in Nat : \A j \in DOMAIN r :
    LET k == IF j < m THEN j ELSE j + 1
    IN  k \in DOMAIN q /\ SameOrder(r[j], q[k])

LEMMA KeptSame ==
  ASSUME NEW q \in Seq(Order)
  PROVE  Kept(q, q)
<1>1. \A j \in DOMAIN q : j < Len(q) + 1
  OBVIOUS
<1>2. \A j \in DOMAIN q : SameOrder(q[j], q[j])
  BY DEF SameOrder
<1>3. Len(q) + 1 \in Nat
  OBVIOUS
<1>. QED  BY <1>1, <1>2, <1>3 DEF Kept

LEMMA KeptTail ==
  ASSUME NEW q \in Seq(Order), q # << >>
  PROVE  Kept(q, Tail(q))
<1>1. ASSUME NEW j \in DOMAIN Tail(q)
      PROVE  ~ (j < 1) /\ j + 1 \in DOMAIN q /\ SameOrder(Tail(q)[j], q[j + 1])
  BY DEF SameOrder
<1>2. 1 \in Nat
  OBVIOUS
<1>. QED  BY <1>1, <1>2 DEF Kept

LEMMA KeptShorter ==
  ASSUME NEW q \in Seq(Order), NEW r \in Seq(Order), Kept(q, r)
  PROVE  Len(r) <= Len(q)
<1>1. PICK m \in Nat : \A j \in DOMAIN r :
        LET k == IF j < m THEN j ELSE j + 1 IN k \in DOMAIN q
  BY DEF Kept
<1>2. CASE Len(r) = 0
  BY <1>2
<1>3. CASE Len(r) # 0
  <2>1. Len(r) \in DOMAIN r
    BY <1>3
  <2>2. Len(r) \in DOMAIN q \/ Len(r) + 1 \in DOMAIN q
    BY <1>1, <2>1
  <2>. QED  BY <2>2
<1>. QED  BY <1>2, <1>3

LEMMA KeptFront ==
  ASSUME NEW q \in Seq(Order), q # << >>, NEW r \in Order, SameOrder(r, q[1])
  PROVE  Kept(q, << r >> \o Tail(q))
<1> DEFINE u == << r >> \o Tail(q)
<1>1. u \in Seq(Order) /\ Len(u) = Len(q) /\ u[1] = r
      /\ \A j \in 2 .. Len(q) : u[j] = q[j]
  OBVIOUS
<1>2. ASSUME NEW j \in DOMAIN u
      PROVE  j < Len(q) + 1 /\ j \in DOMAIN q /\ SameOrder(u[j], q[j])
  <2> HIDE DEF u
  <2>1. j \in 1 .. Len(q)
    BY <1>1
  <2>2. CASE j = 1
    BY <1>1, <2>1, <2>2
  <2>3. CASE j # 1
    <3>1. u[j] = q[j]
      BY <1>1, <2>1, <2>3
    <3>. QED  BY <2>1, <3>1 DEF SameOrder
  <2>. QED  BY <2>1, <2>2, <2>3
<1>3. Len(q) + 1 \in Nat
  OBVIOUS
<1>. QED  BY <1>2, <1>3 DEF Kept

(* What holds of every order of a book holds of a book that only keeps     *)
(* orders of it.                                                           *)
LEMMA KeptBook ==
  ASSUME NEW lo \in Int, NEW hi \in Int,
         NEW b \in Book(lo, hi), NEW c \in Book(lo, hi),
         \A s \in Side, p \in lo .. hi : Kept(b.levels[s][p], c.levels[s][p])
  PROVE  /\ \A rs : Traced(b, rs) => Traced(c, rs)
         /\ InOrder(b) => InOrder(c)
         /\ \A ids : NoneOf(b, ids) => NoneOf(c, ids)
         /\ \A id : Older(b, id) => Older(c, id)
         /\ \A y : OfSymbol(b, y) => OfSymbol(c, y)
         /\ Indexed(b) /\ c.orderIndex = b.orderIndex => Indexed(c)
<1>1. Prices(b) = lo .. hi /\ Prices(c) = lo .. hi
  BY BookFields
<1>2. ASSUME NEW s \in Side, NEW p \in lo .. hi, NEW j \in DOMAIN c.levels[s][p]
      PROVE  \E k \in DOMAIN b.levels[s][p] :
               SameOrder(c.levels[s][p][j], b.levels[s][p][k])
  BY DEF Kept
<1>3. ASSUME NEW rs, Traced(b, rs) PROVE Traced(c, rs)
  <2> SUFFICES ASSUME NEW s \in Side, NEW p \in lo .. hi,
                      NEW j \in DOMAIN c.levels[s][p]
               PROVE  Came(rs, c.levels[s][p][j])
    BY <1>1 DEF Traced
  <2>1. PICK k \in DOMAIN b.levels[s][p] :
          SameOrder(c.levels[s][p][j], b.levels[s][p][k])
    BY <1>2
  <2>2. Came(rs, b.levels[s][p][k])
    BY <1>1, <1>3 DEF Traced
  <2>. QED  BY <2>1, <2>2 DEF Came, SameOrder
<1>4. ASSUME InOrder(b) PROVE InOrder(c)
  <2> SUFFICES ASSUME NEW s \in Side, NEW p \in lo .. hi,
                      NEW i \in DOMAIN c.levels[s][p],
                      NEW j \in DOMAIN c.levels[s][p], i < j
               PROVE  c.levels[s][p][i].orderId < c.levels[s][p][j].orderId
    BY <1>1 DEF InOrder
  <2> DEFINE q == b.levels[s][p]
             r == c.levels[s][p]
  <2>1. PICK m \in Nat : \A x \in DOMAIN r :
          LET k == IF x < m THEN x ELSE x + 1
          IN  k \in DOMAIN q /\ SameOrder(r[x], q[k])
    BY DEF Kept
  <2> DEFINE ki == IF i < m THEN i ELSE i + 1
             kj == IF j < m THEN j ELSE j + 1
  <2>2. /\ ki \in DOMAIN q /\ r[i].orderId = q[ki].orderId
        /\ kj \in DOMAIN q /\ r[j].orderId = q[kj].orderId
    BY <2>1 DEF SameOrder
  <2>3. i \in Nat /\ j \in Nat
    <3>1. r \in Seq(Order)
      BY BookFields
    <3>. QED  BY <3>1
  <2>4. ki < kj
    BY <2>3
  <2>5. q[ki].orderId < q[kj].orderId
    BY <1>1, <1>4, <2>2, <2>4 DEF InOrder
  <2>. QED  BY <2>2, <2>5
<1>5. ASSUME NEW ids, NoneOf(b, ids) PROVE NoneOf(c, ids)
  BY <1>1, <1>2, <1>5 DEF NoneOf, SameOrder
<1>6. ASSUME NEW id, Older(b, id) PROVE Older(c, id)
  BY <1>1, <1>2, <1>6 DEF Older, SameOrder
<1>7. ASSUME Indexed(b), c.orderIndex = b.orderIndex PROVE Indexed(c)
  <2> SUFFICES ASSUME NEW s \in Side, NEW p \in lo .. hi,
                      NEW j \in DOMAIN c.levels[s][p]
               PROVE  c.orderIndex[c.levels[s][p][j].orderId]
                        = [price |-> p, side |-> s]
    BY <1>1 DEF Indexed
  <2>1. PICK k \in DOMAIN b.levels[s][p] :
          SameOrder(c.levels[s][p][j], b.levels[s][p][k])
    BY <1>2
  <2>2. b.orderIndex[b.levels[s][p][k].orderId] = [price |-> p, side |-> s]
    BY <1>1, <1>7 DEF Indexed
  <2>. QED  BY <1>7, <2>1, <2>2 DEF SameOrder
<1>8. ASSUME NEW y, OfSymbol(b, y) PROVE OfSymbol(c, y)
  BY <1>1, <1>2, <1>8 DEF OfSymbol, SameOrder
<1>. QED  BY <1>3, <1>4, <1>5, <1>6, <1>7, <1>8
----------------------------------------------------------------------------
(* RemoveTop and a trade leave at most one order out, and touch neither    *)
(* the index nor the cancelled ids.                                        *)
LEMMA RemoveTopKept ==
  ASSUME NEW lo \in Int, NEW hi \in Int, NEW b \in Book(lo, hi), NEW s \in Side
  PROVE  LET c == RemoveTop(b, s) IN
         /\ \A t \in Side, q \in lo .. hi : Kept(b.levels[t][q], c.levels[t][q])
         /\ c.orderIndex = b.orderIndex /\ c.cancelledOrders = b.cancelledOrders
<1> DEFINE c == RemoveTop(b, s)
           p == b.best[s]
<1>1. \A t \in Side, q \in lo .. hi : b.levels[t][q] \in Seq(Order)
  BY BookFields
<1>2. \A t \in Side, q \in lo .. hi : Kept(b.levels[t][q], b.levels[t][q])
  BY <1>1, KeptSame
<1>3. CASE b.levels[s][p] = << >>
  <2>1. c = b
    BY <1>3, RemoveTopCorrect
  <2>. QED  BY <1>2, <2>1
<1>4. CASE b.levels[s][p] # << >>
  <2>1. \A t \in Side, q \in lo .. hi :
          c.levels[t][q] = IF t = s /\ q = p THEN Tail(b.levels[t][q])
                                             ELSE b.levels[t][q]
    BY <1>4, RemoveTopCorrect
  <2>2. ASSUME NEW t \in Side, NEW q \in lo .. hi
        PROVE  Kept(b.levels[t][q], c.levels[t][q])
    <3>1. CASE t = s /\ q = p
      BY <1>1, <1>4, <2>1, <3>1, KeptTail
    <3>2. CASE ~ (t = s /\ q = p)
      BY <1>2, <2>1, <3>2
    <3>. QED  BY <3>1, <3>2
  <2>3. c.orderIndex = b.orderIndex /\ c.cancelledOrders = b.cancelledOrders
    BY <1>4 DEF RemoveTop, Book
  <2>. QED  BY <2>2, <2>3
<1>. QED  BY <1>3, <1>4

LEMMA TradeKept ==
  ASSUME NEW lo \in Int, NEW hi \in Int, NEW b \in Book(lo, hi), NEW o \in Order,
         WellPlaced(b), MustTrade(b, o)
  PROVE  LET c == BookAfterTrade(b, o) IN
         /\ \A t \in Side, q \in lo .. hi : Kept(b.levels[t][q], c.levels[t][q])
         /\ c.orderIndex = b.orderIndex /\ c.cancelledOrders = b.cancelledOrders
<1> DEFINE s == Opposite(o.side)
           p == b.best[s]
           n == TradeQuantity(b, o)
           r == Filled(Contra(b, o), n)
           d == [b EXCEPT !.levels[s][p] = << r >> \o Tail(@)]
           c == BookAfterTrade(b, o)
<1>1. ~ NoContra(b, o) /\ LoopGuard(o)
  BY DEF MustTrade, LiveContra
<1>2. /\ s \in Side /\ p \in lo .. hi
      /\ b.levels[s][p] # << >>
      /\ Contra(b, o) \in Order
      /\ Contra(b, o) = b.levels[s][p][1]
  BY <1>1, ContraCorrect DEF Occupied
<1>3. n \in Nat /\ n > 0 /\ n <= Contra(b, o).remainingQuantity
  BY <1>1, TradeQuantityCorrect
<1>4. r \in Order /\ SameOrder(r, b.levels[s][p][1])
  <2> HIDE DEF n
  <2>1. r \in Order /\ SameOrder(r, Contra(b, o))
    BY <1>2, <1>3, FilledCorrect DEF SameOrder
  <2>. QED  BY <1>2, <2>1, Zenon
<1>5. \A t \in Side, q \in lo .. hi : b.levels[t][q] \in Seq(Order)
  BY BookFields
<1>6. CASE r.remainingQuantity = 0
  <2>1. c = RemoveTop(d, s)
    BY <1>6 DEF BookAfterTrade
  <2>2. RemoveTop(d, s) = RemoveTop(b, s)
    <3> HIDE DEF r
    <3>. QED  BY <1>2, <1>4, RemoveUpdatedTop
  <2>3. c = RemoveTop(b, s)
    BY <2>1, <2>2
  <2>. QED  BY <1>2, <2>3, RemoveTopKept
<1>7. CASE r.remainingQuantity # 0
  <2>1. c = d
    BY <1>7 DEF BookAfterTrade
  <2>2. /\ d \in Book(lo, hi) /\ d.best = b.best
        /\ \A t \in Side, x \in lo .. hi :
             d.levels[t][x] = IF t = s /\ x = p
                              THEN << r >> \o Tail(b.levels[t][x])
                              ELSE b.levels[t][x]
    <3> HIDE DEF r, s, p
    <3>. QED  BY <1>2, <1>4, SetFrontCorrect, SMTT(30)
  <2>3. ASSUME NEW t \in Side, NEW x \in lo .. hi
        PROVE  Kept(b.levels[t][x], d.levels[t][x])
    <3> HIDE DEF d, r
    <3>1. CASE t = s /\ x = p
      BY <1>2, <1>4, <1>5, <2>2, <3>1, KeptFront
    <3>2. CASE ~ (t = s /\ x = p)
      BY <1>5, <2>2, <3>2, KeptSame
    <3>. QED  BY <3>1, <3>2
  <2>4. d.orderIndex = b.orderIndex /\ d.cancelledOrders = b.cancelledOrders
    BY DEF Book
  <2>. QED  BY <2>1, <2>3, <2>4
<1>. QED  BY <1>6, <1>7

(* Erasing the i-th element of a sequence leaves just that one out. *)
LEMMA KeptErase ==
  ASSUME NEW q \in Seq(Order), NEW i \in 1 .. Len(q)
  PROVE  LET r == SubSeq(q, 1, i - 1) \o SubSeq(q, i + 1, Len(q)) IN
         /\ Kept(q, r)
         /\ \A j \in DOMAIN r : \E k \in DOMAIN q \ {i} : r[j] = q[k]
<1> DEFINE u == SubSeq(q, 1, i - 1)
           v == SubSeq(q, i + 1, Len(q))
<1>1. u \in Seq(Order) /\ v \in Seq(Order)
  OBVIOUS
<1>2. Len(u) = i - 1 /\ Len(v) = Len(q) - i
  OBVIOUS
<1>3. \A k \in 1 .. i - 1 : u[k] = q[k]
  OBVIOUS
<1>4. \A k \in 1 .. Len(q) - i : v[k] = q[i + k]
  OBVIOUS
<1>5. ASSUME NEW j \in DOMAIN (u \o v)
      PROVE  LET k == IF j < i THEN j ELSE j + 1
             IN  k \in DOMAIN q \ {i} /\ (u \o v)[j] = q[k]
  <2> HIDE DEF u, v
  <2>1. j \in 1 .. Len(q) - 1
    BY <1>1, <1>2
  <2>2. CASE j < i
    <3>1. (u \o v)[j] = q[j]
      BY <1>1, <1>2, <1>3, <2>1, <2>2
    <3>. QED  BY <2>1, <2>2, <3>1
  <2>3. CASE j >= i
    <3>1. (u \o v)[j] = v[j - (i - 1)]
      BY <1>1, <1>2, <2>1, <2>3
    <3>2. v[j - (i - 1)] = q[j + 1]
      BY <1>4, <2>1, <2>3
    <3>. QED  BY <2>1, <2>3, <3>1, <3>2
  <2>. QED  BY <2>1, <2>2, <2>3
<1>6. i \in Nat
  OBVIOUS
<1> HIDE DEF u, v
<1>7. Kept(q, u \o v)
  BY <1>5, <1>6 DEF Kept, SameOrder
<1>8. \A j \in DOMAIN (u \o v) : \E k \in DOMAIN q \ {i} : (u \o v)[j] = q[k]
  BY <1>5
<1>. QED  BY <1>7, <1>8 DEF u, v

(* On a book with an index, one order per id, a cancel takes its order off *)
(* the book and no other.                                                  *)
LEMMA CancelKept ==
  ASSUME NEW lo \in Int, NEW hi \in Int, NEW b \in Book(lo, hi),
         NEW id \in OrderIds, WellPlaced(b), Indexed(b), InOrder(b)
  PROVE  LET c == CancelOrder(b, id) IN
         /\ \A s \in Side, p \in lo .. hi : Kept(b.levels[s][p], c.levels[s][p])
         /\ Indexed(c)
         /\ NoneOf(c, {id})
         /\ \/ c.cancelledOrders = b.cancelledOrders \cup {id}
            \/ /\ c.cancelledOrders = b.cancelledOrders \ {id}
               /\ \E s \in Side, p \in lo .. hi : \E k \in DOMAIN b.levels[s][p] :
                    b.levels[s][p][k].orderId = id
<1> DEFINE c     == CancelOrder(b, id)
           L     == b.levels
           loc   == b.orderIndex[id]
           level == L[loc.side][loc.price]
           at    == {i \in DOMAIN level : level[i].orderId = id}
           i     == CHOOSE n \in at : \A m \in at : n <= m
           rest  == SubSeq(level, 1, i - 1) \o SubSeq(level, i + 1, Len(level))
           M     == [L[loc.side] EXCEPT ![loc.price] = rest]
<1>1. /\ L \in [Side -> [lo .. hi -> Seq(Order)]]
      /\ \A t \in Side : L[t] \in [lo .. hi -> Seq(Order)]
      /\ \A t \in Side, q \in lo .. hi : L[t][q] \in Seq(Order)
      /\ Prices(b) = lo .. hi
      /\ b.orderIndex \in [OrderIds -> [price : lo .. hi, side : Side] \cup {NoLocation}]
  BY BookFields
<1>2. c \in Book(lo, hi) /\ Prices(c) = lo .. hi
  BY CancelOrderCorrect, BookFields
<1>3. ASSUME NEW s \in Side, NEW p \in lo .. hi, NEW k \in DOMAIN L[s][p],
             L[s][p][k].orderId = id
      PROVE  loc = [price |-> p, side |-> s] /\ loc.side = s /\ loc.price = p
             /\ loc # NoLocation /\ k \in at
  <2>1. loc = [price |-> p, side |-> s]
    BY <1>1, <1>3 DEF Indexed
  <2>2. loc \in OrderLocation
    BY <1>1, <2>1 DEF OrderLocation
  <2>. QED  BY <1>3, <2>1, <2>2, NoLocationAssumption
<1>4. \A s \in Side, p \in lo .. hi : \A k \in DOMAIN L[s][p] :
        L[s][p][k].orderId \in OrderIds
  BY <1>1 DEF WellPlaced, RestsAt
<1>5. CASE loc = NoLocation \/ at = {}
  <2>1. c = [b EXCEPT !.cancelledOrders = @ \cup {id}]
    BY <1>5 DEF CancelOrder
  <2>2. c.levels = L /\ c.orderIndex = b.orderIndex
        /\ c.cancelledOrders = b.cancelledOrders \cup {id}
    <3> HIDE DEF c
    <3>. QED  BY <2>1 DEF Book
  <2>3. NoneOf(b, {id})
    BY <1>1, <1>3, <1>5 DEF NoneOf
  <2>4. \A s \in Side, p \in lo .. hi : Kept(L[s][p], c.levels[s][p])
    BY <1>1, <2>2, KeptSame
  <2>5. Indexed(c) /\ NoneOf(c, {id})
    BY <1>2, <2>2, <2>3, <2>4, KeptBook
  <2>. QED  BY <2>2, <2>4, <2>5
<1>6. CASE ~ (loc = NoLocation \/ at = {})
  <2>1. loc.side \in Side /\ loc.price \in lo .. hi
    <3>1. loc \in [price : lo .. hi, side : Side]
      BY <1>1, <1>6
    <3>. QED  BY <3>1
  <2>2. level \in Seq(Order)
    BY <1>1, <2>1
  <2>3. at \in SUBSET Nat /\ at # {}
    <3>1. DOMAIN level = 1 .. Len(level)
      <4> HIDE DEF level
      <4>. QED  BY <2>2
    <3> HIDE DEF level
    <3>. QED  BY <1>6, <3>1
  <2>4. i \in at
    <3>1. \E n \in at : \A m \in at : n <= m
      BY <2>3, NatMin
    <3> HIDE DEF at
    <3>. QED  BY <3>1
  <2>5. i \in 1 .. Len(level) /\ level[i].orderId = id
    <3> HIDE DEF level, i
    <3>. QED  BY <2>2, <2>4
  <2>6. /\ Kept(level, rest)
        /\ \A j \in DOMAIN rest : \E k \in DOMAIN level \ {i} : rest[j] = level[k]
    <3> HIDE DEF level, i
    <3>. QED  BY <2>2, <2>5, KeptErase
  <2>7. c = [b EXCEPT !.levels[loc.side] = M, !.orderIndex[id] = NoLocation,
                      !.cancelledOrders = @ \ {id}]
    BY <1>6 DEF CancelOrder
  <2>8. /\ c.levels = [L EXCEPT ![loc.side] = M]
        /\ c.orderIndex = [b.orderIndex EXCEPT ![id] = NoLocation]
        /\ c.cancelledOrders = b.cancelledOrders \ {id}
    <3> HIDE DEF M, c, loc
    <3>. QED  BY <2>7 DEF Book
  <2>9. c.levels[loc.side] = M /\ \A t \in Side \ {loc.side} : c.levels[t] = L[t]
    <3> HIDE DEF M, c, loc
    <3>. QED  BY <1>1, <2>1, <2>8
  <2>10. ASSUME NEW s \in Side, NEW p \in lo .. hi
         PROVE  c.levels[s][p] = IF s = loc.side /\ p = loc.price THEN rest
                                                                  ELSE L[s][p]
    <3> HIDE DEF c, rest, loc
    <3>1. CASE s = loc.side
      BY <1>1, <2>1, <2>9, <3>1
    <3>2. CASE s # loc.side
      BY <2>9, <3>2
    <3>. QED  BY <3>1, <3>2
  <2>11. ASSUME NEW s \in Side, NEW p \in lo .. hi
         PROVE  Kept(L[s][p], c.levels[s][p])
    <3> HIDE DEF c, rest, loc
    <3>1. CASE s = loc.side /\ p = loc.price
      BY <2>6, <2>10, <3>1
    <3>2. CASE ~ (s = loc.side /\ p = loc.price)
      BY <1>1, <2>10, <3>2, KeptSame
    <3>. QED  BY <3>1, <3>2
  <2>12. ASSUME NEW s \in Side, NEW p \in lo .. hi, NEW j \in DOMAIN c.levels[s][p]
         PROVE  \E k \in DOMAIN L[s][p] :
                  c.levels[s][p][j] = L[s][p][k] /\ L[s][p][k].orderId # id
    <3>1. CASE s = loc.side /\ p = loc.price
      <4>1. c.levels[s][p] = rest /\ L[s][p] = level
        BY <2>10, <3>1
      <4>2. PICK k \in DOMAIN level \ {i} : rest[j] = level[k]
        <5> HIDE DEF c, rest, level, i
        <5>. QED  BY <2>6, <4>1
      <4>3. level[k].orderId # id
        <5>1. k \in Nat /\ k \in DOMAIN level /\ i \in DOMAIN level /\ (k < i \/ i < k)
          <6> HIDE DEF level, i
          <6>. QED  BY <2>2, <2>5, <4>2, SMTT(30)
        <5>2. level[k].orderId < level[i].orderId \/ level[i].orderId < level[k].orderId
          <6> HIDE DEF i, loc
          <6>. QED  BY <1>1, <2>1, <5>1 DEF InOrder
        <5>3. level[k].orderId \in Nat /\ level[i].orderId \in Nat
          <6> HIDE DEF level, i
          <6>1. level[k] \in Order /\ level[i] \in Order
            BY <2>2, <5>1
          <6>2. \A x \in Order : x.orderId \in Nat
            BY DEF Order
          <6>. QED  BY <6>1, <6>2
        <5> HIDE DEF level, i
        <5>. QED  BY <2>5, <5>2, <5>3
      <4>. QED  BY <4>1, <4>2, <4>3
    <3>2. CASE ~ (s = loc.side /\ p = loc.price)
      <4>1. c.levels[s][p] = L[s][p]
        BY <2>10, <3>2
      <4>. QED  BY <1>3, <3>2, <4>1
    <3>. QED  BY <3>1, <3>2
  <2>13. NoneOf(c, {id})
    BY <1>2, <2>12 DEF NoneOf
  <2>14. Indexed(c)
    <3> SUFFICES ASSUME NEW s \in Side, NEW p \in lo .. hi,
                        NEW j \in DOMAIN c.levels[s][p]
                 PROVE  c.orderIndex[c.levels[s][p][j].orderId]
                          = [price |-> p, side |-> s]
      BY <1>2 DEF Indexed
    <3>1. PICK k \in DOMAIN L[s][p] :
            c.levels[s][p][j] = L[s][p][k] /\ L[s][p][k].orderId # id
      BY <2>12
    <3>2. b.orderIndex[L[s][p][k].orderId] = [price |-> p, side |-> s]
      BY <1>1 DEF Indexed
    <3>3. L[s][p][k].orderId \in OrderIds
      BY <1>4
    <3>4. \A x \in OrderIds \ {id} : c.orderIndex[x] = b.orderIndex[x]
      <4> HIDE DEF c
      <4>. QED  BY <1>1, <2>8
    <3> HIDE DEF c
    <3>. QED  BY <3>1, <3>2, <3>3, <3>4
  <2>15. \E s \in Side, p \in lo .. hi : \E k \in DOMAIN L[s][p] :
           L[s][p][k].orderId = id
    <3>1. level[i].orderId = id /\ i \in DOMAIN level
      <4> HIDE DEF level, i
      <4>. QED  BY <2>2, <2>5
    <3> HIDE DEF i, loc
    <3>. QED  BY <2>1, <3>1
  <2>16. c.cancelledOrders = b.cancelledOrders \ {id}
    BY <2>8
  <2>. QED  BY <2>11, <2>13, <2>14, <2>15, <2>16
<1>. QED  BY <1>5, <1>6

(* Resting an order whose id is not on the book. *)
LEMMA RestTraced ==
  ASSUME NEW lo \in Int, NEW hi \in Int, NEW b \in Book(lo, hi),
         NEW o \in Order, o.price \in lo .. hi, o.orderId \in OrderIds,
         NEW rs, NEW ids, Came(rs, o), o.orderId \notin ids,
         WellPlaced(b), Traced(b, rs), Indexed(b), InOrder(b), NoneOf(b, ids),
         Older(b, o.orderId)
  PROVE  LET c == AddOrder(b, o) IN
         /\ Traced(c, rs) /\ Indexed(c) /\ InOrder(c) /\ NoneOf(c, ids)
         /\ c.cancelledOrders = b.cancelledOrders
<1> DEFINE c == AddOrder(b, o)
<1>1. /\ c \in Book(lo, hi)
      /\ \A s \in Side, p \in lo .. hi :
           c.levels[s][p] = IF s = o.side /\ p = o.price
                            THEN Append(b.levels[s][p], o) ELSE b.levels[s][p]
  BY AddOrderCorrect
<1>2. /\ Prices(b) = lo .. hi /\ Prices(c) = lo .. hi
      /\ \A s \in Side, p \in lo .. hi : b.levels[s][p] \in Seq(Order)
      /\ b.orderIndex \in [OrderIds -> [price : lo .. hi, side : Side] \cup {NoLocation}]
  BY <1>1, BookFields
<1>3. /\ c.orderIndex = [b.orderIndex EXCEPT ![o.orderId] =
                           [price |-> o.price, side |-> o.side]]
      /\ c.cancelledOrders = b.cancelledOrders
  BY DEF AddOrder, Book
<1>4. ASSUME NEW s \in Side, NEW p \in lo .. hi, NEW j \in DOMAIN c.levels[s][p]
      PROVE  \/ /\ j \in DOMAIN b.levels[s][p]
                /\ c.levels[s][p][j] = b.levels[s][p][j]
                /\ b.levels[s][p][j].orderId < o.orderId
             \/ /\ s = o.side /\ p = o.price
                /\ j = Len(b.levels[s][p]) + 1 /\ c.levels[s][p][j] = o
  <2>1. \A k \in DOMAIN b.levels[s][p] : b.levels[s][p][k].orderId < o.orderId
    BY <1>2 DEF Older
  <2>2. CASE s = o.side /\ p = o.price
    <3>1. c.levels[s][p] = Append(b.levels[s][p], o)
      BY <1>1, <2>2
    <3>2. \/ j \in DOMAIN b.levels[s][p] /\ c.levels[s][p][j] = b.levels[s][p][j]
          \/ j = Len(b.levels[s][p]) + 1 /\ c.levels[s][p][j] = o
      BY <1>2, <3>1
    <3>. QED  BY <2>1, <2>2, <3>2
  <2>3. CASE ~ (s = o.side /\ p = o.price)
    <3>1. c.levels[s][p] = b.levels[s][p]
      BY <1>1, <2>3
    <3>. QED  BY <2>1, <3>1
  <2>. QED  BY <2>2, <2>3
<1>5. Traced(c, rs) /\ NoneOf(c, ids)
  BY <1>2, <1>4 DEF Traced, NoneOf
<1>6. InOrder(c)
  <2> SUFFICES ASSUME NEW s \in Side, NEW p \in lo .. hi,
                      NEW i \in DOMAIN c.levels[s][p],
                      NEW j \in DOMAIN c.levels[s][p], i < j
               PROVE  c.levels[s][p][i].orderId < c.levels[s][p][j].orderId
    BY <1>2 DEF InOrder
  <2> DEFINE Old(k) == /\ k \in DOMAIN b.levels[s][p]
                       /\ c.levels[s][p][k] = b.levels[s][p][k]
                       /\ b.levels[s][p][k].orderId < o.orderId
             New(k) == k = Len(b.levels[s][p]) + 1 /\ c.levels[s][p][k] = o
  <2>1. (Old(i) \/ New(i)) /\ (Old(j) \/ New(j))
    BY <1>4
  <2>2. CASE Old(i) /\ Old(j)
    BY <1>2, <2>2 DEF InOrder
  <2>3. CASE New(i)
    <3>1. b.levels[s][p] \in Seq(Order)
      BY <1>2
    <3>. QED  BY <2>1, <2>3, <3>1
  <2>4. CASE Old(i) /\ New(j)
    BY <2>4
  <2>. QED  BY <2>1, <2>2, <2>3, <2>4
<1>7. Indexed(c)
  <2> SUFFICES ASSUME NEW s \in Side, NEW p \in lo .. hi,
                      NEW j \in DOMAIN c.levels[s][p]
               PROVE  c.orderIndex[c.levels[s][p][j].orderId]
                        = [price |-> p, side |-> s]
    BY <1>2 DEF Indexed
  <2>1. CASE /\ j \in DOMAIN b.levels[s][p]
             /\ c.levels[s][p][j] = b.levels[s][p][j]
             /\ b.levels[s][p][j].orderId < o.orderId
    <3>1. b.levels[s][p][j].orderId \in OrderIds
      BY <1>2, <2>1 DEF WellPlaced, RestsAt
    <3>2. b.orderIndex[b.levels[s][p][j].orderId] = [price |-> p, side |-> s]
      BY <1>2, <2>1 DEF Indexed
    <3>3. b.levels[s][p][j].orderId # o.orderId
      <4>1. \A x, y \in OrderIds : x < y => x # y
        BY OrderIdsAssumption
      <4>. QED  BY <2>1, <3>1, <4>1
    <3> HIDE DEF c
    <3>. QED  BY <1>2, <1>3, <2>1, <3>1, <3>2, <3>3
  <2>2. CASE s = o.side /\ p = o.price /\ c.levels[s][p][j] = o
    <3> HIDE DEF c
    <3>. QED  BY <1>2, <1>3, <2>2
  <2>. QED  BY <1>4, <2>1, <2>2
<1>. QED  BY <1>3, <1>5, <1>6, <1>7

(* What is said of the orders received stays true when one more comes. *)
LEMMA OneMoreReceived ==
  ASSUME NEW rs \in Seq(Order), NEW o \in Order
  PROVE  LET qs == Append(rs, o) IN
         /\ Came(qs, o)
         /\ \A x : Came(rs, x) => Came(qs, x)
         /\ \A b : Traced(b, rs) => Traced(b, qs)
         /\ \A t : Within(t, rs) => Within(t, qs)
<1> DEFINE qs == Append(rs, o)
<1>1. /\ \A i \in DOMAIN rs : i \in DOMAIN qs /\ qs[i] = rs[i]
      /\ Len(rs) + 1 \in DOMAIN qs /\ qs[Len(rs) + 1] = o
  OBVIOUS
<1> HIDE DEF qs
<1>2. Came(qs, o)
  BY <1>1 DEF Came, SameOrder
<1>3. \A x : Came(rs, x) => Came(qs, x)
  BY <1>1 DEF Came
<1>4. \A b : Traced(b, rs) => Traced(b, qs)
  BY <1>3 DEF Traced
<1>5. \A t : Within(t, rs) => Within(t, qs)
  BY <1>1 DEF Within
<1>. QED  BY <1>2, <1>3, <1>4, <1>5 DEF qs

(* The trade of the order in hand with the best of the other side is       *)
(* within the limits of both, and names the symbol of the book.            *)
LEMMA TradeWithin ==
  ASSUME NEW lo \in Int, NEW hi \in Int, NEW b \in Book(lo, hi), NEW o \in Order,
         NEW rs, WellPlaced(b), Came(rs, o), Traced(b, rs), MustTrade(b, o)
  PROVE  /\ Within(TradeOf(b, o), rs)
         /\ \A y : OfSymbol(b, y) /\ o.symbol = y => TradeOf(b, o).symbol = y
<1> DEFINE t == TradeOf(b, o)
           r == Contra(b, o)
           s == Opposite(o.side)
<1>2. ~ NoContra(b, o) /\ ~ OutOfReach(b, o)
  BY DEF MustTrade, LiveContra
<1>3. /\ s \in Side /\ b.best[s] \in lo .. hi
      /\ b.levels[s][b.best[s]] # << >>
      /\ r = b.levels[s][b.best[s]][1]
      /\ r \in Order /\ r.side = s
  BY <1>2, ContraCorrect DEF Occupied, RestsAt
<1>4. /\ Came(rs, r)
      /\ \A y : OfSymbol(b, y) => r.symbol = y
  <2>1. Prices(b) = lo .. hi /\ b.levels[s][b.best[s]] \in Seq(Order)
    BY <1>3, BookFields
  <2>2. 1 \in DOMAIN b.levels[s][b.best[s]]
    BY <1>3, <2>1
  <2>. QED  BY <1>3, <2>1, <2>2 DEF Traced, OfSymbol
<1>5. PICK i \in DOMAIN rs : SameOrder(o, rs[i])
  BY DEF Came
<1>6. PICK j \in DOMAIN rs : SameOrder(r, rs[j])
  BY <1>4 DEF Came
<1>7. o.price \in Int /\ r.price \in Int /\ o.side \in Side
  BY <1>3 DEF Order
<1>8. r.orderType = "LIMIT"
  BY <1>2, ContraCorrect DEF RestsAt
<1>9. CASE o.side = "BUY"
  <2>1. t.buyOrderId = o.orderId /\ t.sellOrderId = r.orderId
        /\ t.price = r.price /\ t.symbol = r.symbol
    BY <1>9 DEF TradeOf
  <2>2. o.orderType = "LIMIT" => r.price <= o.price
    BY <1>2, <1>7, <1>9 DEF OutOfReach, Better
  <2>3. rs[i].side = "BUY" /\ rs[j].side = "SELL"
    BY <1>3, <1>5, <1>6, <1>9 DEF SameOrder, Opposite
  <2>4. /\ rs[i].orderId = t.buyOrderId /\ rs[j].orderId = t.sellOrderId
        /\ rs[j].orderType = "LIMIT" /\ t.price = rs[j].price
        /\ rs[i].orderType = "LIMIT" => t.price \in rs[j].price .. rs[i].price
    BY <1>5, <1>6, <1>7, <1>8, <2>1, <2>2 DEF SameOrder
  <2>5. Within(t, rs)
    <3> HIDE DEF t
    <3>. QED  BY <2>3, <2>4 DEF Within
  <2>6. \A y : OfSymbol(b, y) => t.symbol = y
    BY <1>4, <2>1
  <2>. QED  BY <2>5, <2>6
<1>10. CASE o.side = "SELL"
  <2>1. t.buyOrderId = r.orderId /\ t.sellOrderId = o.orderId
        /\ t.price = o.price /\ t.symbol = o.symbol
    BY <1>10 DEF TradeOf
  <2>2. o.orderType = "LIMIT" => o.price <= r.price
    BY <1>2, <1>7, <1>10 DEF OutOfReach, Better
  <2>3. rs[j].side = "BUY" /\ rs[i].side = "SELL"
    BY <1>3, <1>5, <1>6, <1>10 DEF SameOrder, Opposite
  <2>4. /\ rs[j].orderId = t.buyOrderId /\ rs[i].orderId = t.sellOrderId
        /\ rs[j].orderType = "LIMIT" /\ t.price = rs[i].price
        /\ rs[i].orderType = "LIMIT" => t.price \in rs[i].price .. rs[j].price
    BY <1>5, <1>6, <1>7, <1>8, <2>1, <2>2 DEF SameOrder
  <2>5. Within(t, rs)
    <3> HIDE DEF t
    <3>. QED  BY <2>3, <2>4 DEF Within
  <2>. QED  BY <2>1, <2>5
<1>. QED  BY <1>7, <1>9, <1>10 DEF Side

(* The order a step trades with comes before all others of its side: the   *)
(* best level has the best price, and the front of it is its oldest order. *)
LEMMA ContraFirst ==
  ASSUME NEW lo \in Int, NEW hi \in Int, NEW b \in Book(lo, hi), NEW o \in Order,
         WellPlaced(b), Reached(b), InOrder(b), ~ NoContra(b, o),
         NEW q \in Resting(b, Opposite(o.side))
  PROVE  LET r == Contra(b, o) IN
         /\ q.side = Opposite(o.side)
         /\ \/ Better(q.side, r.price, q.price)
            \/ r.price = q.price /\ (r = q \/ r.orderId < q.orderId)
<1> DEFINE s == Opposite(o.side)
           r == Contra(b, o)
           p == b.best[s]
<1>1. /\ s \in Side /\ p \in lo .. hi
      /\ b.levels[s][p] # << >>
      /\ r = b.levels[s][p][1] /\ r.price = p
  BY ContraCorrect DEF Occupied, RestsAt
<1>2. Prices(b) = lo .. hi /\ \A x \in lo .. hi : b.levels[s][x] \in Seq(Order)
  BY <1>1, BookFields
<1>3. PICK x \in lo .. hi : \E k \in DOMAIN b.levels[s][x] : q = b.levels[s][x][k]
  BY <1>2 DEF Resting
<1>4. PICK k \in DOMAIN b.levels[s][x] : q = b.levels[s][x][k]
  BY <1>3
<1>5. q.price = x /\ q.side = s
  <2>1. RestsAt(b.levels[s][x][k], s, x)
    BY <1>1, <1>2 DEF WellPlaced
  <2>. QED  BY <1>4, <2>1, Zenon DEF RestsAt
<1>6. ~ Better(s, x, p)
  <2>1. b.levels[s][x] # << >>
    BY <1>2, <1>4
  <2>. QED  BY <1>1, <1>2, <2>1 DEF Reached, Occupied
<1>7. CASE x # p
  <2>1. Better(s, p, x)
    BY <1>1, <1>6, <1>7 DEF Better
  <2>. QED  BY <1>1, <1>5, <2>1
<1>8. CASE x = p
  <2>1. k \in 1 .. Len(b.levels[s][p]) /\ 1 \in DOMAIN b.levels[s][p]
    <3>1. b.levels[s][p] \in Seq(Order) /\ k \in DOMAIN b.levels[s][p]
      BY <1>1, <1>2, <1>4, <1>8
    <3>. HIDE DEF s, p
    <3>2. /\ DOMAIN b.levels[s][p] = 1 .. Len(b.levels[s][p])
          /\ Len(b.levels[s][p]) \in Nat
      BY <3>1, LenProperties
    <3>. QED  BY <3>1, <3>2
  <2>2. CASE k = 1
    BY <1>1, <1>4, <1>5, <1>8, <2>2
  <2>3. CASE 1 < k
    <3>1. b.levels[s][p][1].orderId < b.levels[s][p][k].orderId
      BY <1>1, <1>2, <1>4, <1>8, <2>1, <2>3 DEF InOrder
    <3>. QED  BY <1>1, <1>4, <1>5, <1>8, <3>1
  <2>. QED  BY <2>1, <2>2, <2>3
<1>. QED  BY <1>7, <1>8

LEMMA AllRestingAt ==
  ASSUME NEW lo \in Int, NEW hi \in Int, NEW b \in Book(lo, hi), NEW x
  PROVE  x \in AllResting(b)
           <=> \E t \in Side, q \in lo .. hi : \E k \in DOMAIN b.levels[t][q] :
                 x = b.levels[t][q][k]
<1>1. Prices(b) = lo .. hi
  BY BookFields
<1>. QED  BY <1>1 DEF AllResting, Resting, Side

LEMMA RestAddsOrder ==
  ASSUME NEW lo \in Int, NEW hi \in Int, NEW b \in Book(lo, hi),
         NEW o \in Order, o.price \in lo .. hi, o.orderId \in OrderIds
  PROVE  AllResting(AddOrder(b, o)) = AllResting(b) \cup {o}
<1> DEFINE c == AddOrder(b, o)
<1>1. /\ c \in Book(lo, hi)
      /\ \A s \in Side, p \in lo .. hi :
           c.levels[s][p] = IF s = o.side /\ p = o.price
                            THEN Append(b.levels[s][p], o) ELSE b.levels[s][p]
  BY AddOrderCorrect
<1>2. /\ o.side \in Side
      /\ \A s \in Side, p \in lo .. hi : b.levels[s][p] \in Seq(Order)
  <2>1. o.side \in Side
    BY DEF Order
  <2>2. \A s \in Side, p \in lo .. hi : b.levels[s][p] \in Seq(Order)
    BY BookFields
  <2>. QED  BY <2>1, <2>2
<1>3. ASSUME NEW x \in AllResting(c) PROVE x \in AllResting(b) \cup {o}
  <2>1. PICK s \in Side, p \in lo .. hi : \E k \in DOMAIN c.levels[s][p] :
          x = c.levels[s][p][k]
    BY <1>1, AllRestingAt
  <2>2. PICK k \in DOMAIN c.levels[s][p] : x = c.levels[s][p][k]
    BY <2>1
  <2>3. x = o \/ (k \in DOMAIN b.levels[s][p] /\ x = b.levels[s][p][k])
    <3>1. CASE s = o.side /\ p = o.price
      <4>1. c.levels[s][p] = Append(b.levels[s][p], o)
        BY <1>1, <3>1
      <4>. QED  BY <1>2, <2>2, <4>1, SMTT(30)
    <3>2. CASE ~ (s = o.side /\ p = o.price)
      BY <1>1, <2>2, <3>2
    <3>. QED  BY <3>1, <3>2
  <2>. QED  BY <2>3, AllRestingAt
<1>4. ASSUME NEW x \in AllResting(b) PROVE x \in AllResting(c)
  <2>1. PICK s \in Side, p \in lo .. hi : \E k \in DOMAIN b.levels[s][p] :
          x = b.levels[s][p][k]
    BY AllRestingAt
  <2>2. PICK k \in DOMAIN b.levels[s][p] : x = b.levels[s][p][k]
    BY <2>1
  <2>3. k \in DOMAIN c.levels[s][p] /\ x = c.levels[s][p][k]
    <3>1. CASE s = o.side /\ p = o.price
      <4>1. c.levels[s][p] = Append(b.levels[s][p], o)
        BY <1>1, <3>1
      <4>. QED  BY <1>2, <2>2, <4>1
    <3>2. CASE ~ (s = o.side /\ p = o.price)
      BY <1>1, <2>2, <3>2
    <3>. QED  BY <3>1, <3>2
  <2>. QED  BY <1>1, <2>3, AllRestingAt
<1>5. o \in AllResting(c)
  <2> DEFINE u == b.levels[o.side][o.price]
  <2>1. c.levels[o.side][o.price] = Append(u, o) /\ u \in Seq(Order)
    BY <1>1, <1>2
  <2> HIDE DEF u
  <2>2. Len(u) + 1 \in DOMAIN Append(u, o) /\ Append(u, o)[Len(u) + 1] = o
    BY <2>1
  <2>3. \E k \in DOMAIN c.levels[o.side][o.price] : o = c.levels[o.side][o.price][k]
    BY <2>1, <2>2
  <2> HIDE DEF c
  <2>. QED  BY <1>1, <1>2, <2>3, AllRestingAt
<1>. QED  BY <1>3, <1>4, <1>5

(* A trade takes the order it trades with off the book and puts what is    *)
(* left of it back; every other order stays.                               *)
LEMMA TradeReplacesOrder ==
  ASSUME NEW lo \in Int, NEW hi \in Int, NEW b \in Book(lo, hi), NEW o \in Order,
         WellPlaced(b), InOrder(b), MustTrade(b, o)
  PROVE  LET r == Contra(b, o)
             f == Filled(r, TradeQuantity(b, o))
         IN  /\ r \in AllResting(b)
             /\ AllResting(BookAfterTrade(b, o)) =
                  (AllResting(b) \ {r}) \cup
                  {x \in {f} : x.remainingQuantity > 0}
<1> DEFINE s == Opposite(o.side)
           p == b.best[s]
           n == TradeQuantity(b, o)
           r == Contra(b, o)
           f == Filled(r, n)
           d == [b EXCEPT !.levels[s][p] = << f >> \o Tail(@)]
           c == BookAfterTrade(b, o)
<1>1. ~ NoContra(b, o) /\ LoopGuard(o)
  BY DEF MustTrade, LiveContra
<1>2. /\ s \in Side /\ p \in lo .. hi
      /\ b.levels[s][p] # << >>
      /\ r \in Order /\ r = b.levels[s][p][1]
      /\ r.side = s /\ r.price = p
  BY <1>1, ContraCorrect DEF Occupied, RestsAt
<1>3. n \in Nat /\ n > 0 /\ n <= r.remainingQuantity
  BY <1>1, TradeQuantityCorrect
<1>4. f \in Order /\ f.remainingQuantity \in Nat
  <2>1. f \in Order
    <3> HIDE DEF n, r
    <3>. QED  BY <1>2, <1>3, FilledCorrect
  <2> HIDE DEF f
  <2>. QED  BY <2>1 DEF Order
<1>5. /\ \A t \in Side, q \in lo .. hi : b.levels[t][q] \in Seq(Order)
      /\ Prices(b) = lo .. hi
  BY BookFields
<1>6. ASSUME NEW t \in Side, NEW q \in lo .. hi, NEW k \in DOMAIN b.levels[t][q],
             b.levels[t][q][k] = r
      PROVE  t = s /\ q = p /\ k = 1
  <2>1. t = s /\ q = p
    <3>1. RestsAt(b.levels[t][q][k], t, q)
      BY <1>5 DEF WellPlaced
    <3> HIDE DEF r, s, p
    <3>. QED  BY <1>2, <1>6, <3>1 DEF RestsAt
  <2>2. k \in Nat /\ k >= 1 /\ 1 \in DOMAIN b.levels[t][q]
    BY <1>5
  <2>3. ~ (1 < k)
    <3> SUFFICES ASSUME 1 < k PROVE FALSE
      OBVIOUS
    <3>1. b.levels[t][q][1].orderId < b.levels[t][q][k].orderId
      BY <1>5, <2>2 DEF InOrder
    <3>2. r.orderId < r.orderId /\ r.orderId \in Nat
      BY <1>2, <1>6, <2>1, <3>1 DEF Order
    <3>. QED  BY <3>2
  <2>. QED  BY <2>1, <2>2, <2>3
<1>7. c \in Book(lo, hi) /\ \A t \in Side, q \in lo .. hi :
        c.levels[t][q] =
          IF t = s /\ q = p
          THEN IF f.remainingQuantity = 0 THEN Tail(b.levels[t][q])
                                          ELSE << f >> \o Tail(b.levels[t][q])
          ELSE b.levels[t][q]
  <2>1. CASE f.remainingQuantity = 0
    <3>1. c = RemoveTop(d, s)
      BY <2>1 DEF BookAfterTrade
    <3>2. RemoveTop(d, s) = RemoveTop(b, s)
      <4> HIDE DEF f
      <4>. QED  BY <1>2, <1>4, RemoveUpdatedTop
    <3>3. c = RemoveTop(b, s)
      BY <3>1, <3>2
    <3>4. /\ RemoveTop(b, s) \in Book(lo, hi)
          /\ \A t \in Side, q \in lo .. hi :
               RemoveTop(b, s).levels[t][q] =
                 IF t = s /\ q = p THEN Tail(b.levels[t][q]) ELSE b.levels[t][q]
      <4>1. s \in Side /\ b.levels[s][p] # << >>
        BY <1>2
      <4> HIDE DEF s
      <4>. QED  BY <4>1, RemoveTopCorrect
    <3>. QED  BY <2>1, <3>3, <3>4
  <2>2. CASE f.remainingQuantity # 0
    <3>1. c = d
      BY <2>2 DEF BookAfterTrade
    <3>2. /\ d \in Book(lo, hi) /\ d.best = b.best
          /\ \A t \in Side, x \in lo .. hi :
               d.levels[t][x] = IF t = s /\ x = p
                                THEN << f >> \o Tail(b.levels[t][x])
                                ELSE b.levels[t][x]
      <4> HIDE DEF f, s, p
      <4>. QED  BY <1>2, <1>4, SetFrontCorrect, SMTT(30)
    <3> HIDE DEF c, d, f, s, p
    <3>. QED  BY <2>2, <3>1, <3>2
  <2>. QED  BY <2>1, <2>2
<1> HIDE DEF c, f, r, s, p
<1>8. r \in AllResting(b)
  <2>1. 1 \in DOMAIN b.levels[s][p]
    BY <1>2, <1>5
  <2>. QED  BY <1>2, <2>1, AllRestingAt
<1>9. ASSUME NEW x \in AllResting(c)
      PROVE  x \in AllResting(b) \ {r} \/ (x = f /\ f.remainingQuantity > 0)
  <2>1. PICK t \in Side, q \in lo .. hi : \E k \in DOMAIN c.levels[t][q] :
          x = c.levels[t][q][k]
    BY <1>7, AllRestingAt
  <2>2. PICK k \in DOMAIN c.levels[t][q] : x = c.levels[t][q][k]
    BY <2>1
  <2>3. CASE ~ (t = s /\ q = p)
    <3>1. k \in DOMAIN b.levels[t][q] /\ x = b.levels[t][q][k]
      BY <1>7, <2>2, <2>3
    <3>. QED  BY <1>6, <2>3, <3>1, AllRestingAt
  <2>4. CASE t = s /\ q = p
    <3> DEFINE u == b.levels[s][p]
    <3>1. u \in Seq(Order) /\ u # << >>
      BY <1>2, <1>5
    <3>2. \/ x = f /\ f.remainingQuantity # 0
          \/ \E j \in DOMAIN u : j # 1 /\ x = u[j]
      <4>1. CASE f.remainingQuantity = 0
        <5>1. c.levels[t][q] = Tail(u)
          BY <1>7, <2>4, <4>1
        <5> HIDE DEF u
        <5>2. k + 1 \in DOMAIN u /\ k + 1 # 1 /\ x = u[k + 1]
          BY <2>2, <3>1, <5>1
        <5>. QED  BY <5>2
      <4>2. CASE f.remainingQuantity # 0
        <5>1. c.levels[t][q] = << f >> \o Tail(u)
          BY <1>7, <2>4, <4>2
        <5> HIDE DEF u
        <5>2. x = f \/ (k \in DOMAIN u /\ k # 1 /\ x = u[k])
          BY <1>4, <2>2, <3>1, <5>1
        <5>. QED  BY <4>2, <5>2
      <4>. QED  BY <4>1, <4>2
    <3>3. CASE x = f /\ f.remainingQuantity # 0
      BY <1>4, <3>3
    <3>4. CASE \E j \in DOMAIN u : j # 1 /\ x = u[j]
      BY <1>2, <1>6, <3>4, AllRestingAt
    <3>. QED  BY <3>2, <3>3, <3>4
  <2>. QED  BY <2>3, <2>4
<1>10. ASSUME NEW x \in AllResting(b), x # r PROVE x \in AllResting(c)
  <2>1. PICK t \in Side, q \in lo .. hi : \E k \in DOMAIN b.levels[t][q] :
          x = b.levels[t][q][k]
    BY AllRestingAt
  <2>2. PICK k \in DOMAIN b.levels[t][q] : x = b.levels[t][q][k]
    BY <2>1
  <2>3. CASE ~ (t = s /\ q = p)
    <3>1. c.levels[t][q] = b.levels[t][q]
      BY <1>7, <2>3
    <3>. QED  BY <1>7, <2>2, <3>1, AllRestingAt
  <2>4. CASE t = s /\ q = p
    <3> DEFINE u == b.levels[s][p]
    <3>1. u \in Seq(Order) /\ u # << >> /\ k \in DOMAIN u /\ x = u[k] /\ k # 1
      BY <1>2, <1>5, <1>10, <2>2, <2>4
    <3>2. \E j \in DOMAIN c.levels[s][p] : x = c.levels[s][p][j]
      <4>1. CASE f.remainingQuantity = 0
        <5>1. c.levels[s][p] = Tail(u)
          BY <1>7, <2>4, <4>1
        <5> HIDE DEF u
        <5>2. k - 1 \in DOMAIN Tail(u) /\ x = Tail(u)[k - 1]
          BY <3>1
        <5>. QED  BY <5>1, <5>2
      <4>2. CASE f.remainingQuantity # 0
        <5>1. c.levels[s][p] = << f >> \o Tail(u)
          BY <1>7, <2>4, <4>2
        <5> HIDE DEF u
        <5>2. k \in DOMAIN (<< f >> \o Tail(u)) /\ x = (<< f >> \o Tail(u))[k]
          BY <1>4, <3>1
        <5>. QED  BY <5>1, <5>2
      <4>. QED  BY <4>1, <4>2
    <3>. QED  BY <1>2, <1>7, <3>2, AllRestingAt
  <2>. QED  BY <2>3, <2>4
<1>11. ASSUME f.remainingQuantity > 0 PROVE f \in AllResting(c)
  <2> DEFINE u == b.levels[s][p]
  <2>1. u \in Seq(Order) /\ u # << >>
    BY <1>2, <1>5
  <2>2. c.levels[s][p] = << f >> \o Tail(u)
    <3>1. f.remainingQuantity # 0
      BY <1>4, <1>11
    <3>. QED  BY <1>2, <1>7, <3>1
  <2>3. 1 \in DOMAIN c.levels[s][p] /\ f = c.levels[s][p][1]
    <3> HIDE DEF u
    <3>. QED  BY <1>4, <2>1, <2>2
  <2>. QED  BY <1>2, <1>7, <2>3, AllRestingAt
<1>12. AllResting(c) = (AllResting(b) \ {r}) \cup {x \in {f} : x.remainingQuantity > 0}
  BY <1>9, <1>10, <1>11
<1>. QED  BY <1>8, <1>12 DEF c, f, r
----------------------------------------------------------------------------
(* The quantities of those elements of ts that set S indexes. *)
QuantityIn(ts, S) == MapThenSumSet(LAMBDA i : ts[i].quantity, S)

(* What is left to trade of the orders of set S. *)
RemainingIn(S) == MapThenSumSet(LAMBDA o : o.remainingQuantity, S)

LEMMA QuantityIsSum ==
  ASSUME NEW ts, NEW S, IsFiniteSet(S)
  PROVE  IsSum(QuantityIn(ts, S), [i \in S |-> ts[i].quantity], S)
<1> DEFINE g == [i \in S |-> ts[i].quantity]
           Steps(it) == it = [s \in SUBSET S |->
                                IF s = {} THEN 0
                                ELSE ts[Pick(s)].quantity + it[s \ {Pick(s)}]]
<1>1. QuantityIn(ts, S) = (CHOOSE it : Steps(it))[S]
  BY DEF QuantityIn, MapThenSumSet, MapThenFoldSet, Pick
<1>2. ASSUME NEW it PROVE Steps(it) <=> SumSteps(it, g, S)
  <2>1. ASSUME NEW s \in SUBSET S
        PROVE  (IF s = {} THEN 0 ELSE ts[Pick(s)].quantity + it[s \ {Pick(s)}])
                 = (IF s = {} THEN 0 ELSE g[Pick(s)] + it[s \ {Pick(s)}])
    <3>1. s # {} => g[Pick(s)] = ts[Pick(s)].quantity
      BY PickIn
    <3> HIDE DEF g, Pick
    <3>. QED  BY <3>1
  <2> HIDE DEF g, Pick
  <2>. QED  BY <2>1 DEF SumSteps
<1> HIDE DEF Steps, g
<1>3. Steps(CHOOSE it : Steps(it))
  BY <1>2, SumExists
<1>. QED  BY <1>1, <1>2, <1>3 DEF IsSum, g

LEMMA RemainingIsSum ==
  ASSUME NEW S, IsFiniteSet(S)
  PROVE  IsSum(RemainingIn(S), [o \in S |-> o.remainingQuantity], S)
<1> DEFINE g == [o \in S |-> o.remainingQuantity]
           Steps(it) == it = [s \in SUBSET S |->
                                IF s = {} THEN 0
                                ELSE Pick(s).remainingQuantity + it[s \ {Pick(s)}]]
<1>1. RemainingIn(S) = (CHOOSE it : Steps(it))[S]
  BY DEF RemainingIn, MapThenSumSet, MapThenFoldSet, Pick
<1>2. ASSUME NEW it PROVE Steps(it) <=> SumSteps(it, g, S)
  <2>1. ASSUME NEW s \in SUBSET S
        PROVE  (IF s = {} THEN 0 ELSE Pick(s).remainingQuantity + it[s \ {Pick(s)}])
                 = (IF s = {} THEN 0 ELSE g[Pick(s)] + it[s \ {Pick(s)}])
    <3>1. s # {} => g[Pick(s)] = Pick(s).remainingQuantity
      BY PickIn
    <3> HIDE DEF g, Pick
    <3>. QED  BY <3>1
  <2> HIDE DEF g, Pick
  <2>. QED  BY <2>1 DEF SumSteps
<1> HIDE DEF Steps, g
<1>3. Steps(CHOOSE it : Steps(it))
  BY <1>2, SumExists
<1>. QED  BY <1>1, <1>2, <1>3 DEF IsSum, g

LEMMA QuantityEmpty ==
  ASSUME NEW ts
  PROVE  QuantityIn(ts, {}) = 0
BY QuantityIsSum, SumEmpty, FS_EmptySet

LEMMA QuantityType ==
  ASSUME NEW ts, NEW S, IsFiniteSet(S), \A i \in S : ts[i].quantity \in Nat
  PROVE  QuantityIn(ts, S) \in Nat
<1> DEFINE g == [i \in S |-> ts[i].quantity]
<1>1. \A i \in S : g[i] \in Nat
  OBVIOUS
<1>2. IsSum(QuantityIn(ts, S), g, S)
  BY QuantityIsSum
<1> HIDE DEF g
<1>. QED  BY <1>1, <1>2, SumNat

LEMMA QuantityAgrees ==
  ASSUME NEW ts, NEW us, NEW S, IsFiniteSet(S),
         \A i \in S : ts[i].quantity = us[i].quantity
  PROVE  QuantityIn(ts, S) = QuantityIn(us, S)
<1> DEFINE g == [i \in S |-> ts[i].quantity]
           h == [i \in S |-> us[i].quantity]
<1>1. \A i \in S : g[i] = h[i]
  OBVIOUS
<1>2. IsSum(QuantityIn(ts, S), g, S) /\ IsSum(QuantityIn(us, S), h, S)
  BY QuantityIsSum
<1> HIDE DEF g, h
<1>. QED  BY <1>1, <1>2, SumUnique

LEMMA QuantityAdd ==
  ASSUME NEW ts, NEW S, IsFiniteSet(S), NEW k, k \notin S,
         \A i \in S \cup {k} : ts[i].quantity \in Nat
  PROVE  QuantityIn(ts, S \cup {k}) = QuantityIn(ts, S) + ts[k].quantity
<1> DEFINE T == S \cup {k}
           g == [i \in S |-> ts[i].quantity]
           h == [i \in T |-> ts[i].quantity]
<1>1. /\ \A i \in S : g[i] = h[i]
      /\ \A i \in T : h[i] \in Nat
      /\ h[k] = ts[k].quantity
  OBVIOUS
<1>2. IsSum(QuantityIn(ts, S), g, S) /\ IsSum(QuantityIn(ts, T), h, T)
  BY QuantityIsSum, FS_AddElement
<1> HIDE DEF g, h
<1>. QED  BY <1>1, <1>2, SumAdd

LEMMA RemainingEmpty == RemainingIn({}) = 0
BY RemainingIsSum, SumEmpty, FS_EmptySet

LEMMA RemainingType ==
  ASSUME NEW S, IsFiniteSet(S), \A o \in S : o.remainingQuantity \in Nat
  PROVE  RemainingIn(S) \in Nat
<1> DEFINE g == [o \in S |-> o.remainingQuantity]
<1>1. \A o \in S : g[o] \in Nat
  OBVIOUS
<1>2. IsSum(RemainingIn(S), g, S)
  BY RemainingIsSum
<1> HIDE DEF g
<1>. QED  BY <1>1, <1>2, SumNat

LEMMA RemainingAdd ==
  ASSUME NEW S, IsFiniteSet(S), NEW x, x \notin S,
         \A o \in S \cup {x} : o.remainingQuantity \in Nat
  PROVE  RemainingIn(S \cup {x}) = RemainingIn(S) + x.remainingQuantity
<1> DEFINE T == S \cup {x}
           g == [o \in S |-> o.remainingQuantity]
           h == [o \in T |-> o.remainingQuantity]
<1>1. /\ \A o \in S : g[o] = h[o]
      /\ \A o \in T : h[o] \in Nat
      /\ h[x] = x.remainingQuantity
  OBVIOUS
<1>2. IsSum(RemainingIn(S), g, S) /\ IsSum(RemainingIn(T), h, T)
  BY RemainingIsSum, FS_AddElement
<1> HIDE DEF g, h
<1>. QED  BY <1>1, <1>2, SumAdd

LEMMA RemainingOne ==
  ASSUME NEW x, x.remainingQuantity \in Nat
  PROVE  RemainingIn({x}) = x.remainingQuantity
<1>1. IsFiniteSet({}) /\ {} \cup {x} = {x} /\ x \notin {}
  BY FS_EmptySet
<1>2. RemainingIn({} \cup {x}) = RemainingIn({}) + x.remainingQuantity
  BY <1>1, RemainingAdd
<1>. QED  BY <1>1, <1>2, RemainingEmpty

(* One more element adds its quantity to a sum that takes it in, and       *)
(* changes no other.                                                       *)
LEMMA QuantityAppend ==
  ASSUME NEW T, NEW ts \in Seq(T), NEW t \in T, \A x \in T : x.quantity \in Nat,
         NEW S \in SUBSET (DOMAIN ts)
  PROVE  LET us == Append(ts, t) IN
         /\ QuantityIn(ts, S) \in Nat
         /\ QuantityIn(us, S) = QuantityIn(ts, S)
         /\ QuantityIn(us, S \cup {Len(us)}) = QuantityIn(ts, S) + t.quantity
<1> DEFINE us == Append(ts, t)
           k  == Len(us)
<1>1. /\ us \in Seq(T) /\ DOMAIN us = 1 .. k /\ us[k] = t
      /\ k = Len(ts) + 1 /\ DOMAIN ts = 1 .. Len(ts) /\ Len(ts) \in Nat
      /\ \A i \in 1 .. Len(ts) : us[i] = ts[i] /\ ts[i] \in T
  OBVIOUS
<1> HIDE DEF us, k
<1>2. IsFiniteSet(S)
  <2>1. IsFiniteSet(DOMAIN ts)
    BY <1>1, FS_Interval
  <2>. QED  BY <2>1, FS_Subset
<1>3. \A i \in S : ts[i].quantity = us[i].quantity /\ ts[i].quantity \in Nat
  BY <1>1
<1>4. QuantityIn(us, S) = QuantityIn(ts, S) /\ QuantityIn(ts, S) \in Nat
  BY <1>2, <1>3, QuantityAgrees, QuantityType
<1>5. k \notin S
  BY <1>1
<1>6. \A i \in S \cup {k} : us[i].quantity \in Nat
  BY <1>1, <1>3
<1>7. QuantityIn(us, S \cup {k}) = QuantityIn(us, S) + us[k].quantity
  BY <1>2, <1>5, <1>6, QuantityAdd
<1>. QED  BY <1>1, <1>4, <1>7 DEF us, k

(* What one element less leaves of a sum, and another one in its place.    *)
LEMMA RemainingLess ==
  ASSUME NEW S, IsFiniteSet(S), \A o \in S : o.remainingQuantity \in Nat,
         NEW x \in S
  PROVE  /\ RemainingIn(S \ {x}) \in Nat
         /\ RemainingIn(S) = RemainingIn(S \ {x}) + x.remainingQuantity
<1>1. IsFiniteSet(S \ {x}) /\ x \notin S \ {x} /\ (S \ {x}) \cup {x} = S
  BY FS_RemoveElement
<1> DEFINE T == S \ {x}
<1>2. \A o \in T \cup {x} : o.remainingQuantity \in Nat
  OBVIOUS
<1> HIDE DEF T
<1>3. RemainingIn(T \cup {x}) = RemainingIn(T) + x.remainingQuantity
  BY <1>1, <1>2, RemainingAdd DEF T
<1>4. RemainingIn(T) \in Nat
  BY <1>1, <1>2, RemainingType DEF T
<1>. QED  BY <1>1, <1>3, <1>4 DEF T

LEMMA RemainingReplace ==
  ASSUME NEW S, IsFiniteSet(S), \A o \in S : o.remainingQuantity \in Nat,
         NEW x \in S, NEW y, y \notin S \ {x}, y.remainingQuantity \in Nat
  PROVE  RemainingIn((S \ {x}) \cup {y}) + x.remainingQuantity
           = RemainingIn(S) + y.remainingQuantity
<1> DEFINE T == S \ {x}
<1>1. IsFiniteSet(T) /\ y \notin T /\ \A o \in T \cup {y} : o.remainingQuantity \in Nat
  BY FS_RemoveElement
<1>2. RemainingIn(T) \in Nat /\ RemainingIn(S) = RemainingIn(T) + x.remainingQuantity
  BY RemainingLess
<1> HIDE DEF T
<1>3. RemainingIn(T \cup {y}) = RemainingIn(T) + y.remainingQuantity
  BY <1>1, RemainingAdd
<1>4. x.remainingQuantity \in Nat
  OBVIOUS
<1>. QED  BY <1>2, <1>3, <1>4 DEF T
----------------------------------------------------------------------------
(* Two resting orders with one id on one side at one price are one.        *)
LEMMA OneRests ==
  ASSUME NEW lo \in Int, NEW hi \in Int, NEW b \in Book(lo, hi),
         WellPlaced(b), InOrder(b),
         NEW x \in AllResting(b), NEW y \in AllResting(b),
         x.orderId = y.orderId, x.side = y.side, x.price = y.price
  PROVE  x = y
<1>1. Prices(b) = lo .. hi
  BY BookFields
<1>2. PICK s \in Side, p \in lo .. hi : \E i \in DOMAIN b.levels[s][p] :
        x = b.levels[s][p][i]
  BY AllRestingAt
<1>3. PICK t \in Side, q \in lo .. hi : \E j \in DOMAIN b.levels[t][q] :
        y = b.levels[t][q][j]
  BY AllRestingAt
<1>4. s = t /\ p = q
  BY <1>1, <1>2, <1>3 DEF WellPlaced, RestsAt
<1>5. b.levels[s][p] \in Seq(Order)
  BY BookFields
<1>6. PICK i \in DOMAIN b.levels[s][p], j \in DOMAIN b.levels[s][p] :
        x = b.levels[s][p][i] /\ y = b.levels[s][p][j]
  BY <1>2, <1>3, <1>4
<1>7. i \in Nat /\ j \in Nat /\ x.orderId \in Nat
  <2>1. i \in Nat /\ j \in Nat /\ x \in Order
    BY <1>5, <1>6
  <2>. QED  BY <2>1 DEF Order
<1>8. ~ (i < j) /\ ~ (j < i)
  BY <1>1, <1>6, <1>7 DEF InOrder
<1>. QED  BY <1>6, <1>7, <1>8

(* The orders of a book that are on one side. *)
LEMMA RestingOnSide ==
  ASSUME NEW lo \in Int, NEW hi \in Int, NEW b \in Book(lo, hi),
         WellPlaced(b), NEW s \in Side
  PROVE  Resting(b, s) = {x \in AllResting(b) : x.side = s}
<1>1. \A t \in Side : \A x \in Resting(b, t) : x.side = t
  BY RestingAt DEF RestsAt
<1>. QED  BY <1>1 DEF AllResting, Side

(* What is known of each order that rests. *)
LEMMA RestingKnown ==
  ASSUME NEW lo \in Int, NEW hi \in Int, NEW b \in Book(lo, hi),
         NEW x \in AllResting(b)
  PROVE  /\ x \in Order
         /\ \A rs : Traced(b, rs) => Came(rs, x)
         /\ \A y : OfSymbol(b, y) => x.symbol = y
         /\ \A id : Older(b, id) => x.orderId < id
<1>1. Prices(b) = lo .. hi
  BY BookFields
<1>2. PICK s \in Side, p \in lo .. hi : \E i \in DOMAIN b.levels[s][p] :
        x = b.levels[s][p][i]
  BY AllRestingAt
<1>3. PICK i \in DOMAIN b.levels[s][p] : x = b.levels[s][p][i]
  BY <1>2
<1>4. b.levels[s][p] \in Seq(Order)
  BY BookFields
<1>. QED  BY <1>1, <1>3, <1>4 DEF Traced, OfSymbol, Older

(* A cancel leaves every order of another id on the book, and adds none.   *)
LEMMA CancelKeepsOthers ==
  ASSUME NEW lo \in Int, NEW hi \in Int, NEW b \in Book(lo, hi),
         NEW id \in OrderIds
  PROVE  LET c == CancelOrder(b, id) IN
         /\ AllResting(c) \subseteq AllResting(b)
         /\ \A x \in AllResting(b) : x.orderId # id => x \in AllResting(c)
<1> DEFINE c == CancelOrder(b, id)
<1>1. /\ c \in Book(lo, hi)
      /\ \A s \in Side, p \in lo .. hi : \A j \in DOMAIN c.levels[s][p] :
           \E k \in DOMAIN b.levels[s][p] :
             c.levels[s][p][j] = b.levels[s][p][k]
  BY CancelOrderCorrect
<1>2. ASSUME NEW x \in AllResting(b), x.orderId # id
      PROVE  \E s \in Side, p \in lo .. hi : \E j \in DOMAIN c.levels[s][p] :
               x = c.levels[s][p][j]
  <2>1. PICK s \in Side, p \in lo .. hi : \E k \in DOMAIN b.levels[s][p] :
          x = b.levels[s][p][k]
    BY AllRestingAt
  <2>2. PICK k \in DOMAIN b.levels[s][p] : x = b.levels[s][p][k]
    BY <2>1
  <2>3. \E j \in DOMAIN c.levels[s][p] : c.levels[s][p][j] = b.levels[s][p][k]
    BY <1>2, <2>2, CancelLeaves
  <2>. QED  BY <2>2, <2>3
<1> HIDE DEF c
<1>3. \A x \in AllResting(c) : x \in AllResting(b)
  BY <1>1, AllRestingAt
<1>4. \A x \in AllResting(b) : x.orderId # id => x \in AllResting(c)
  BY <1>1, <1>2, AllRestingAt
<1>. QED  BY <1>3, <1>4 DEF c
============================================================================
