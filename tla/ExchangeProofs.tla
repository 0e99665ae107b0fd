--------------------------- MODULE ExchangeProofs ---------------------------
(***************************************************************************)
(* The exchange, for every set of symbols and price ranges, whatever       *)
(* clients send and however many orders: it keeps its type, its error log  *)
(* explains every order it did not process, and each engine behaves as it  *)
(* would alone.                                                            *)
(***************************************************************************)
EXTENDS Exchange, OrderBookProofs

(* The book of symbol s, after the orders rs. *)
BookOK(b, s, rs) ==
  /\ b \in Book(Lowest(s), Highest(s))
  /\ WellPlaced(b) /\ Reached(b) /\ Traced(b, rs) /\ OfSymbol(b, s)
  /\ b.cancelledOrders = {}

(* The order the engine of symbol s has in hand, after the orders rs. *)
HandOK(o, s, rs) ==
  o \in Order /\ InHand(o, Lowest(s), Highest(s)) /\ o.symbol = s /\ Came(rs, o)

(* The inductive invariant. *)
ExchangeInv ==
  /\ TypeOK
  /\ \A s \in DOMAIN books : BookOK(books[s], s, received)
  /\ running # "" => HandOK(orders[running], running, received)
  /\ \A n \in DOMAIN trades : Within(trades[n], received)
  /\ Len(received) <= MaxOrders
  /\ \A i \in DOMAIN received : received[i].orderId = i
  /\ ErrorsExplained
----------------------------------------------------------------------------
(* Function f builds the first n results of Filter(q, S). *)
FilterSteps(f, q, S, n) ==
  f = [k \in 0 .. n |->
         IF k = 0 THEN << >>
         ELSE IF q[k] \in S THEN Append(f[k - 1], q[k]) ELSE f[k - 1]]

LEMMA FilterStart ==
  ASSUME NEW q, NEW S, NEW n \in Nat, NEW f, FilterSteps(f, q, S, n)
  PROVE  f[0] = << >>
<1>1. 0 \in 0 .. n
  OBVIOUS
<1>. QED  BY <1>1 DEF FilterSteps

LEMMA FilterStep ==
  ASSUME NEW q, NEW S, NEW n \in Nat, NEW f, FilterSteps(f, q, S, n),
         NEW k \in Nat, k + 1 <= n
  PROVE  f[k + 1] = IF q[k + 1] \in S THEN Append(f[k], q[k + 1]) ELSE f[k]
<1>1. \A j \in 0 .. n :
        f[j] = IF j = 0 THEN << >>
               ELSE IF q[j] \in S THEN Append(f[j - 1], q[j]) ELSE f[j - 1]
  BY DEF FilterSteps
<1>2. k + 1 \in 0 .. n /\ k + 1 # 0 /\ k + 1 - 1 = k
  OBVIOUS
<1>. QED  BY <1>1, <1>2

LEMMA FilterExists ==
  ASSUME NEW q, NEW S, NEW n \in Nat
  PROVE  \E f : FilterSteps(f, q, S, n)
<1> DEFINE P == {m \in Nat : \E f : FilterSteps(f, q, S, m)}
<1>1. 0 \in P
  <2> DEFINE f == [k \in 0 .. 0 |-> << >>]
  <2>1. FilterSteps(f, q, S, 0)
    BY DEF FilterSteps
  <2>. QED  BY <2>1
<1>2. ASSUME NEW m \in P PROVE m + 1 \in P
  <2>1. PICK f : FilterSteps(f, q, S, m)
    OBVIOUS
  <2> DEFINE x == IF q[m + 1] \in S THEN Append(f[m], q[m + 1]) ELSE f[m]
             g == [k \in 0 .. m + 1 |-> IF k = m + 1 THEN x ELSE f[k]]
  <2>2. ASSUME NEW k \in 0 .. m + 1
        PROVE  g[k] = IF k = 0 THEN << >>
                      ELSE IF q[k] \in S THEN Append(g[k - 1], q[k]) ELSE g[k - 1]
    <3>1. CASE k = m + 1
      <4>1. g[k] = x /\ g[k - 1] = f[m] /\ k # 0 /\ k - 1 = m
        BY <3>1
      <4>. QED  BY <3>1, <4>1
    <3>2. CASE k # m + 1
      <4>1. k \in 0 .. m /\ g[k] = f[k]
        BY <3>2
      <4>2. k # 0 => g[k - 1] = f[k - 1]
        BY <3>2
      <4>. QED  BY <2>1, <4>1, <4>2 DEF FilterSteps
    <3>. QED  BY <3>1, <3>2
  <2>3. FilterSteps(g, q, S, m + 1)
    <3>1. g = [k \in 0 .. m + 1 |-> g[k]]
      OBVIOUS
    <3> HIDE DEF g
    <3>. QED  BY <2>2, <3>1 DEF FilterSteps
  <2>. QED  BY <2>3
<1>3. P \in SUBSET Nat
  OBVIOUS
<1> HIDE DEF P
<1>4. n \in P
  BY <1>1, <1>2, <1>3, NatSetInduction
<1>. QED  BY <1>4 DEF P

(* The results for a sequence are those for a longer one that it begins. *)
LEMMA FilterAgrees ==
  ASSUME NEW q, NEW r, NEW S, NEW n \in Nat, NEW m \in Nat, n <= m,
         \A k \in 1 .. n : q[k] = r[k],
         NEW f, NEW g, FilterSteps(f, q, S, n), FilterSteps(g, r, S, m)
  PROVE  f[n] = g[n]
<1> DEFINE P == {k \in Nat : k <= n => f[k] = g[k]}
<1>1. 0 \in P
  <2>1. f[0] = << >>
    BY FilterStart, Zenon
  <2>2. g[0] = << >>
    BY FilterStart, Zenon
  <2>. QED  BY <2>1, <2>2
<1>2. ASSUME NEW k \in P PROVE k + 1 \in P
  <2> SUFFICES ASSUME k + 1 <= n PROVE f[k + 1] = g[k + 1]
    OBVIOUS
  <2>1. f[k] = g[k] /\ q[k + 1] = r[k + 1]
    OBVIOUS
  <2>2. f[k + 1] = IF q[k + 1] \in S THEN Append(f[k], q[k + 1]) ELSE f[k]
    BY FilterStep
  <2>3. g[k + 1] = IF r[k + 1] \in S THEN Append(g[k], r[k + 1]) ELSE g[k]
    BY FilterStep
  <2>. QED  BY <2>1, <2>2, <2>3
<1>3. P \in SUBSET Nat
  OBVIOUS
<1> HIDE DEF P
<1>4. n \in P
  BY <1>1, <1>2, <1>3, NatSetInduction
<1>. QED  BY <1>4 DEF P

LEMMA FilterBuilt ==
  ASSUME NEW T, NEW q \in Seq(T), NEW S
  PROVE  \E f : FilterSteps(f, q, S, Len(q)) /\ Filter(q, S) = f[Len(q)]
<1> DEFINE f == CHOOSE f : FilterSteps(f, q, S, Len(q))
<1>1. FilterSteps(f, q, S, Len(q))
  BY FilterExists
<1>2. Filter(q, S) = f[Len(q)]
  BY DEF Filter, FilterSteps
<1>. QED  BY <1>1, <1>2

(* One more element is one more step. *)
LEMMA FilterAppend ==
  ASSUME NEW T, NEW q \in Seq(T), NEW e \in T, NEW S
  PROVE  Filter(Append(q, e), S)
           = IF e \in S THEN Append(Filter(q, S), e) ELSE Filter(q, S)
<1> DEFINE r == Append(q, e)
           n == Len(q)
<1>1. r \in Seq(T) /\ Len(r) = n + 1 /\ r[n + 1] = e /\ n \in Nat
      /\ \A k \in 1 .. n : q[k] = r[k]
  OBVIOUS
<1> HIDE DEF r, n
<1>2. PICK f : FilterSteps(f, q, S, n) /\ Filter(q, S) = f[n]
  BY FilterBuilt DEF n
<1>3. PICK g : FilterSteps(g, r, S, n + 1) /\ Filter(r, S) = g[n + 1]
  BY <1>1, FilterBuilt
<1>4. f[n] = g[n]
  <2>1. n + 1 \in Nat /\ n <= n + 1
    BY <1>1
  <2>. QED  BY <1>1, <1>2, <1>3, <2>1, FilterAgrees
<1>5. g[n + 1] = IF e \in S THEN Append(g[n], e) ELSE g[n]
  BY <1>1, <1>3, FilterStep
<1>. QED  BY <1>2, <1>3, <1>4, <1>5 DEF r

LEMMA FilterEmpty ==
  ASSUME NEW S
  PROVE  Filter(<< >>, S) = << >>
<1>1. << >> \in Seq({}) /\ Len(<< >>) = 0
  OBVIOUS
<1>2. PICK f : FilterSteps(f, << >>, S, 0) /\ Filter(<< >>, S) = f[0]
  BY <1>1, FilterBuilt
<1>3. 0 \in Nat
  OBVIOUS
<1>. QED  BY <1>2, <1>3, FilterStart, Zenon

(* What a filter leaves are elements of the sequence and of the set. *)
LEMMA FilterElements ==
  ASSUME NEW T, NEW q \in Seq(T), NEW S
  PROVE  /\ Filter(q, S) \in Seq(T)
         /\ Len(Filter(q, S)) <= Len(q)
         /\ \A k \in DOMAIN Filter(q, S) :
              Filter(q, S)[k] \in S /\ \E i \in DOMAIN q : Filter(q, S)[k] = q[i]
<1>1. PICK f : FilterSteps(f, q, S, Len(q)) /\ Filter(q, S) = f[Len(q)]
  BY FilterBuilt
<1> DEFINE Ok(r, n) == /\ r \in Seq(T) /\ Len(r) <= n
                       /\ \A k \in DOMAIN r :
                            r[k] \in S /\ \E i \in DOMAIN q : r[k] = q[i]
           P == {n \in Nat : n <= Len(q) => Ok(f[n], n)}
<1>2. 0 \in P
  <2>1. f[0] = << >>
    <3>1. Len(q) \in Nat
      OBVIOUS
    <3>. QED  BY <1>1, <3>1, FilterStart, Zenon
  <2>2. Ok(<< >>, 0)
    OBVIOUS
  <2> HIDE DEF Ok
  <2>. QED  BY <2>1, <2>2
<1>3. ASSUME NEW n \in P PROVE n + 1 \in P
  <2> SUFFICES ASSUME n + 1 <= Len(q) PROVE Ok(f[n + 1], n + 1)
    OBVIOUS
  <2> DEFINE r == f[n]
             e == q[n + 1]
  <2>1. Ok(r, n)
    OBVIOUS
  <2>2. f[n + 1] = IF e \in S THEN Append(r, e) ELSE r
    BY <1>1, FilterStep
  <2>3. n + 1 \in DOMAIN q /\ e \in T /\ n \in Nat
    OBVIOUS
  <2> HIDE DEF r, P
  <2>4. CASE e \in S
    <3>1. f[n + 1] = Append(r, e)
      BY <2>2, <2>4
    <3>2. Append(r, e) \in Seq(T) /\ Len(Append(r, e)) <= n + 1
      BY <2>1, <2>3
    <3>3. ASSUME NEW k \in DOMAIN Append(r, e)
          PROVE  Append(r, e)[k] \in S /\ \E i \in DOMAIN q : Append(r, e)[k] = q[i]
      <4>1. (k \in DOMAIN r /\ Append(r, e)[k] = r[k]) \/ Append(r, e)[k] = e
        BY <2>1, <2>3
      <4>. QED  BY <2>1, <2>3, <2>4, <4>1
    <3>. QED  BY <3>1, <3>2, <3>3
  <2>5. CASE e \notin S
    <3>1. f[n + 1] = r
      BY <2>2, <2>5
    <3>2. Len(r) <= n + 1
      BY <2>1, <2>3
    <3>. QED  BY <2>1, <3>1, <3>2
  <2>. QED  BY <2>4, <2>5
<1>4. P \in SUBSET Nat
  OBVIOUS
<1> HIDE DEF P
<1>5. Len(q) \in P
  <2>1. P = Nat
    BY <1>2, <1>3, <1>4, NatSetInduction
  <2>. QED  BY <2>1
<1>6. Ok(Filter(q, S), Len(q))
  BY <1>1, <1>5 DEF P
<1>. QED  BY <1>6
----------------------------------------------------------------------------
(* The price range of a configured symbol. *)
LEMMA PriceRange ==
  ASSUME NEW s \in Configured
  PROVE  Lowest(s) \in Int /\ Highest(s) \in Int /\ Lowest(s) <= Highest(s)
<1>1. Lowest(s) \in Nat /\ Highest(s) \in Nat /\ Lowest(s) <= Highest(s)
  BY ExchangeAssumption, Zenon
<1>. QED  BY <1>1

(* What one step of an engine keeps of its book and of its order. *)

LEMMA RestOK ==
  ASSUME NEW s \in Configured, NEW rs, NEW b, NEW o,
         BookOK(b, s, rs), HandOK(o, s, rs), MustRest(b, o)
  PROVE  BookOK(AddOrder(b, o), s, rs)
<1> DEFINE lo == Lowest(s)
           hi == Highest(s)
           c == AddOrder(b, o)
<1>1. /\ lo \in Int /\ hi \in Int /\ b \in Book(lo, hi) /\ o \in Order
      /\ WellPlaced(b) /\ Reached(b) /\ InHand(o, lo, hi)
  BY PriceRange, Zenon DEF BookOK, HandOK
<1> HIDE DEF lo, hi
<1>2. o.price \in lo .. hi /\ RestsAt(o, o.side, o.price) /\ o.orderId \in OrderIds
  BY <1>1, InHandRests DEF InHand
<1>3. WellPlaced(c) /\ Reached(c)
  BY <1>1, <1>2, RestKeeps
<1>4. /\ c \in Book(lo, hi)
      /\ \A t \in Side, p \in lo .. hi :
           c.levels[t][p] = IF t = o.side /\ p = o.price
                            THEN Append(b.levels[t][p], o) ELSE b.levels[t][p]
  BY <1>1, <1>2, AddOrderCorrect
<1>5. /\ Prices(b) = lo .. hi /\ Prices(c) = lo .. hi
      /\ \A t \in Side, p \in lo .. hi : b.levels[t][p] \in Seq(Order)
  BY <1>1, <1>4, BookFields
<1>6. ASSUME NEW t \in Side, NEW p \in lo .. hi, NEW j \in DOMAIN c.levels[t][p]
      PROVE  \/ j \in DOMAIN b.levels[t][p] /\ c.levels[t][p][j] = b.levels[t][p][j]
             \/ c.levels[t][p][j] = o
  <2> DEFINE q == b.levels[t][p]
  <2>1. q \in Seq(Order)
    BY <1>5
  <2>2. c.levels[t][p] = Append(q, o) \/ c.levels[t][p] = q
    BY <1>4
  <2> HIDE DEF q, c
  <2>3. (j \in DOMAIN q /\ c.levels[t][p][j] = q[j]) \/ c.levels[t][p][j] = o
    BY <1>1, <2>1, <2>2
  <2>. QED  BY <2>3 DEF q
<1>7. Traced(c, rs)
  BY <1>5, <1>6 DEF BookOK, HandOK, Traced
<1>8. OfSymbol(c, s)
  BY <1>5, <1>6 DEF BookOK, HandOK, OfSymbol
<1>9. c.cancelledOrders = {}
  BY DEF BookOK, AddOrder, Book
<1>. QED  BY <1>3, <1>4, <1>7, <1>8, <1>9 DEF BookOK, lo, hi

LEMMA TradeOK ==
  ASSUME NEW s \in Configured, NEW rs, NEW b, NEW o,
         BookOK(b, s, rs), HandOK(o, s, rs), MustTrade(b, o)
  PROVE  /\ BookOK(BookAfterTrade(b, o), s, rs)
         /\ HandOK(Filled(o, TradeQuantity(b, o)), s, rs)
         /\ TradeOf(b, o) \in Trade
         /\ TradeOf(b, o).symbol = s
         /\ Within(TradeOf(b, o), rs)
<1> DEFINE lo == Lowest(s)
           hi == Highest(s)
           c == BookAfterTrade(b, o)
           q == TradeQuantity(b, o)
<1>1. /\ lo \in Int /\ hi \in Int /\ b \in Book(lo, hi) /\ o \in Order
      /\ WellPlaced(b) /\ Reached(b) /\ Traced(b, rs) /\ OfSymbol(b, s)
      /\ b.cancelledOrders = {}
      /\ InHand(o, lo, hi) /\ o.symbol = s /\ Came(rs, o)
  BY PriceRange, Zenon DEF BookOK, HandOK
<1> HIDE DEF lo, hi
<1>2. c \in Book(lo, hi) /\ WellPlaced(c) /\ Reached(c)
  BY <1>1, TradeKeeps
<1>3. /\ \A t \in Side, p \in lo .. hi : Kept(b.levels[t][p], c.levels[t][p])
      /\ c.cancelledOrders = b.cancelledOrders
  BY <1>1, TradeKept
<1>4. Traced(c, rs) /\ OfSymbol(c, s)
  <2> HIDE DEF c
  <2>. QED  BY <1>1, <1>2, <1>3, KeptBook
<1>5. BookOK(c, s, rs)
  <2> HIDE DEF c
  <2>. QED  BY <1>1, <1>2, <1>3, <1>4 DEF BookOK, lo, hi
<1>6. Filled(o, q) \in Order /\ InHand(Filled(o, q), lo, hi)
  BY <1>1, InHandTrades
<1>7. SameOrder(Filled(o, q), o)
  <2>1. q \in Nat /\ q > 0 /\ q <= o.remainingQuantity
    BY <1>1, TradeQuantityCorrect DEF MustTrade, LiveContra
  <2> HIDE DEF q
  <2>. QED  BY <1>1, <2>1, FilledCorrect DEF SameOrder
<1>8. HandOK(Filled(o, q), s, rs)
  <2> HIDE DEF q
  <2>. QED  BY <1>1, <1>6, <1>7 DEF HandOK, Came, SameOrder, lo, hi
<1>9. TradeOf(b, o) \in Trade
  BY <1>1, TradeOfCorrect
<1>10. Within(TradeOf(b, o), rs) /\ TradeOf(b, o).symbol = s
  BY <1>1, TradeWithin
<1>. QED  BY <1>5, <1>8, <1>9, <1>10

(* What is said of a book and of an order stays true of more orders. *)
LEMMA MoreReceivedOK ==
  ASSUME NEW rs \in Seq(Order), NEW o \in Order, NEW s
  PROVE  /\ \A b : BookOK(b, s, rs) => BookOK(b, s, Append(rs, o))
         /\ \A x : HandOK(x, s, rs) => HandOK(x, s, Append(rs, o))
BY OneMoreReceived DEF BookOK, HandOK

LEMMA NewBookOK ==
  ASSUME NEW s \in Configured, NEW rs
  PROVE  BookOK(NewBook(Lowest(s), Highest(s)), s, rs)
<1> DEFINE lo == Lowest(s)
           hi == Highest(s)
           b == NewBook(lo, hi)
<1>1. lo \in Int /\ hi \in Int /\ lo <= hi
  BY PriceRange, Zenon
<1> HIDE DEF lo, hi
<1>2. b \in Book(lo, hi) /\ \A t \in Side, p \in lo .. hi : b.levels[t][p] = << >>
  BY <1>1, NewBookCorrect
<1>3. Prices(b) = lo .. hi
  BY <1>1, <1>2, BookFields
<1>4. b.cancelledOrders = {}
  BY DEF NewBook
<1> HIDE DEF b
<1>5. WellPlaced(b) /\ Reached(b) /\ Traced(b, rs) /\ OfSymbol(b, s)
  BY <1>2, <1>3 DEF WellPlaced, Reached, Traced, OfSymbol, Occupied
<1>. QED  BY <1>2, <1>4, <1>5 DEF BookOK, b, lo, hi

(* Reason names no defect exactly when there is none. *)
LEMMA ReasonCorrect ==
  ASSUME NEW o \in Order
  PROVE  /\ Reason(o) = "none" <=> Sound(o)
         /\ Reason(o) # "none" => Reason(o) \in Reasons /\ Explains(Reason(o), o)
<1>1. /\ o.price \in Int /\ o.quantity \in Nat
      /\ \A s \in Configured : Lowest(s) \in Nat /\ Highest(s) \in Nat
  BY ExchangeAssumption DEF Order
<1>2. CASE o.symbol \notin Configured
  BY <1>2 DEF Reason, Sound, Reasons, Explains
<1>3. CASE o.symbol \in Configured
  <2> DEFINE lo == Lowest(o.symbol)
             hi == Highest(o.symbol)
  <2>1. lo \in Nat /\ hi \in Nat
    BY <1>1, <1>3
  <2>2. /\ Reason(o) = IF o.price < 0 \/ o.price \notin lo .. hi THEN "price"
                       ELSE IF o.quantity = 0 THEN "quantity"
                       ELSE IF o.remainingQuantity # o.quantity THEN "remaining"
                       ELSE "none"
        /\ Sound(o) <=> /\ o.price \in lo .. hi /\ o.quantity > 0
                        /\ o.remainingQuantity = o.quantity
        /\ Explains("price", o) <=> o.price < lo \/ o.price > hi
        /\ Explains("quantity", o) <=> o.quantity = 0
        /\ Explains("remaining", o) <=> o.remainingQuantity # o.quantity
    BY <1>3 DEF Reason, Sound, Explains
  <2> HIDE DEF lo, hi
  <2>. QED  BY <1>1, <2>1, <2>2 DEF Reasons
<1>. QED  BY <1>2, <1>3
----------------------------------------------------------------------------
LEMMA InitExchange == Init => ExchangeInv
<1> SUFFICES ASSUME Init PROVE ExchangeInv
  OBVIOUS
<1>1. /\ DOMAIN books = {} /\ running = "" /\ trades = << >> /\ errors = << >>
      /\ received = << >> /\ orders = [s \in Configured |-> EmptyOrder]
  BY DEF Init
<1>2. EmptyOrder \in Order
  BY DEF EmptyOrder, Order, Side, OrderType, Status, SymbolName
<1>3. orders \in [Configured -> Order]
  BY <1>1, <1>2
<1>4. /\ trades \in Seq(Trade) /\ errors \in Seq(ErrorLine)
      /\ received \in Seq(Order) /\ Len(received) = 0
      /\ DOMAIN trades = {} /\ DOMAIN errors = {} /\ DOMAIN received = {}
  <2> DEFINE empty == << >>
  <2>1. empty \in Seq(Trade) /\ empty \in Seq(ErrorLine) /\ empty \in Seq(Order)
    OBVIOUS
  <2>2. Len(empty) = 0 /\ DOMAIN empty = {}
    OBVIOUS
  <2>3. trades = empty /\ errors = empty /\ received = empty
    BY <1>1
  <2> HIDE DEF empty
  <2>. QED  BY <2>1, <2>2, <2>3
<1>5. TypeOK
  BY <1>1, <1>3, <1>4 DEF TypeOK
<1>6. ErrorsExplained
  <2>1. Filter(received, Unsound) = errors
    BY <1>1, FilterEmpty
  <2>. QED  BY <1>4, <2>1 DEF ErrorsExplained
<1>7. MaxOrders \in Nat
  BY ExchangeAssumption
<1>8. Len(received) <= MaxOrders
  BY <1>4, <1>7
<1>9. /\ \A s \in DOMAIN books : BookOK(books[s], s, received)
      /\ running # "" => HandOK(orders[running], running, received)
      /\ \A n \in DOMAIN trades : Within(trades[n], received)
      /\ \A i \in DOMAIN received : received[i].orderId = i
  BY <1>1, <1>4, Zenon
<1>. QED  BY <1>5, <1>6, <1>8, <1>9 DEF ExchangeInv

(* What the feed sends is an order, new and with the next id. *)
LEMMA NumberedCorrect ==
  ASSUME received \in Seq(Order), NEW o \in Incoming
  PROVE  /\ Numbered(o) \in Order
         /\ Numbered(o).status = "NEW"
         /\ Numbered(o).orderId = Len(received) + 1
<1>1. o \in Order /\ o.status = "NEW"
  BY ExchangeAssumption, Zenon
<1>2. Len(received) + 1 \in Nat
  OBVIOUS
<1>. QED  BY <1>1, <1>2 DEF Numbered, Order

(* A call of processOrder with an order that is new keeps the invariant,   *)
(* sound or not.                                                           *)
LEMMA ProcessOrderInv ==
  ASSUME ExchangeInv, NEW o \in Order, o.status = "NEW",
         o.orderId = Len(received) + 1, ProcessOrder(o)
  PROVE  ExchangeInv'
<1>0. received \in Seq(Order) /\ \A i \in DOMAIN received : received[i].orderId = i
  BY Zenon DEF ExchangeInv, TypeOK
<1>1. /\ TypeOK /\ errors \in Seq(ErrorLine)
      /\ \A s \in DOMAIN books : BookOK(books[s], s, received)
      /\ \A n \in DOMAIN trades : Within(trades[n], received)
      /\ ErrorsExplained
  BY Zenon DEF ExchangeInv, TypeOK
<1>2. /\ running = "" /\ Len(received) < MaxOrders
      /\ received' = Append(received, o)
      /\ Reject(o) \/ Dispatch(o)
  BY DEF ProcessOrder
<1>3. o.orderId \in OrderIds
  <2>1. MaxOrders \in Nat /\ 1 .. MaxOrders \subseteq OrderIds
    BY ExchangeAssumption, Zenon
  <2> DEFINE n == Len(received)
  <2>2. n < MaxOrders /\ o.orderId = n + 1
    BY <1>2, Zenon
  <2>3. n \in Nat
    <3>1. received \in Seq(Order)
      BY <1>0
    <3>. QED  BY <3>1
  <2> HIDE DEF n
  <2>4. o.orderId \in 1 .. MaxOrders
    BY <2>1, <2>2, <2>3
  <2>. QED  BY <2>1, <2>4
<1>4. /\ received' \in Seq(Order)
      /\ Len(received') <= MaxOrders
      /\ \A i \in DOMAIN received' : received'[i].orderId = i
  <2>1. MaxOrders \in Nat
    BY ExchangeAssumption, Zenon
  <2> DEFINE rs == received
             qs == Append(rs, o)
  <2>2. rs \in Seq(Order) /\ \A i \in DOMAIN rs : rs[i].orderId = i
    BY <1>0
  <2>3. received' = qs /\ o.orderId = Len(rs) + 1 /\ Len(rs) < MaxOrders
    BY <1>2
  <2> HIDE DEF rs
  <2>4. qs \in Seq(Order) /\ Len(qs) <= MaxOrders
    BY <2>1, <2>2, <2>3
  <2>5. ASSUME NEW i \in DOMAIN qs PROVE qs[i].orderId = i
    BY <2>2, <2>3
  <2> HIDE DEF qs
  <2>. QED  BY <2>3, <2>4, <2>5
<1>5. /\ \A s \in DOMAIN books : BookOK(books[s], s, received')
      /\ \A n \in DOMAIN trades : Within(trades[n], received')
      /\ Came(received', o)
  <2>1. \A s \in DOMAIN books : BookOK(books[s], s, received')
    BY <1>0, <1>1, <1>2, MoreReceivedOK
  <2>2. /\ \A n \in DOMAIN trades : Within(trades[n], received')
        /\ Came(received', o)
    BY <1>0, <1>1, <1>2, OneMoreReceived
  <2>. QED  BY <2>1, <2>2
<1>6. Filter(received', Unsound)
        = IF o \in Unsound THEN Append(Filter(received, Unsound), o)
                           ELSE Filter(received, Unsound)
  BY <1>0, <1>2, FilterAppend
<1>7. CASE Reject(o)
  <2> DEFINE e == [reason |-> Reason(o), orderId |-> o.orderId]
  <2>1. /\ Reason(o) # "none" /\ errors' = Append(errors, e)
        /\ UNCHANGED << books, orders, running, trades >>
    BY <1>7 DEF Reject
  <2>2. /\ o \in Unsound /\ Reason(o) \in Reasons /\ Explains(Reason(o), o)
    BY <2>1, ReasonCorrect DEF Unsound
  <2>3. e \in ErrorLine
    BY <1>3, <2>2 DEF ErrorLine
  <2>4. e.reason = Reason(o) /\ e.orderId = o.orderId
    OBVIOUS
  <2> HIDE DEF e
  <2>5. TypeOK'
    <3>1. errors' \in Seq(ErrorLine)
      BY <1>1, <2>1, <2>3
    <3>. QED  BY <1>1, <1>4, <2>1, <3>1 DEF TypeOK
  <2>6. ErrorsExplained'
    <3> DEFINE bad == Filter(received, Unsound)
    <3>1. bad \in Seq(Order)
      BY <1>0, FilterElements
    <3>2. /\ Len(errors) = Len(bad)
          /\ \A i \in DOMAIN errors : errors[i].orderId = bad[i].orderId
                                     /\ Explains(errors[i].reason, bad[i])
      BY <1>1 DEF ErrorsExplained
    <3>3. Filter(received', Unsound) = Append(bad, o)
      BY <1>6, <2>2
    <3> HIDE DEF bad
    <3>4. Len(errors') = Len(Append(bad, o))
      BY <1>1, <2>1, <3>1, <3>2
    <3>5. ASSUME NEW i \in DOMAIN errors'
          PROVE  /\ errors'[i].orderId = Append(bad, o)[i].orderId
                 /\ Explains(errors'[i].reason, Append(bad, o)[i])
      <4>1. CASE i \in DOMAIN errors
        <5>1. errors'[i] = errors[i] /\ Append(bad, o)[i] = bad[i]
          BY <1>1, <2>1, <3>1, <3>2, <4>1
        <5>. QED  BY <3>2, <4>1, <5>1
      <4>2. CASE i \notin DOMAIN errors
        <5>1. errors'[i] = e /\ Append(bad, o)[i] = o
          BY <1>1, <2>1, <2>3, <3>1, <3>2, <4>2
        <5>. QED  BY <2>2, <2>4, <5>1
      <4>. QED  BY <4>1, <4>2
    <3>. QED  BY <3>3, <3>4, <3>5 DEF ErrorsExplained
  <2>7. running' = ""
    BY <1>2, <2>1
  <2>. QED  BY <1>4, <1>5, <2>1, <2>5, <2>6, <2>7 DEF ExchangeInv
<1>8. CASE Dispatch(o)
  <2> DEFINE s == o.symbol
             b == BookFor(s)
  <2>1. /\ Reason(o) = "none"
        /\ books' = [t \in DOMAIN books \cup {s} |-> IF t = s THEN b ELSE books[t]]
        /\ orders' = [orders EXCEPT ![s] = o]
        /\ running' = IF IsCancelled(b, o.orderId) THEN "" ELSE s
        /\ UNCHANGED << trades, errors >>
    BY <1>8 DEF Dispatch
  <2>2. Sound(o) /\ s \in Configured /\ o \notin Unsound
    BY <2>1, ReasonCorrect DEF Sound, Unsound
  <2>3. BookOK(b, s, received')
    BY <1>5, <2>2, NewBookOK DEF BookFor
  <2>4. running' = s
    BY <2>1, <2>3 DEF BookOK, IsCancelled
  <2>5. HandOK(o, s, received')
    <3>1. InHand(o, Lowest(s), Highest(s))
      <4>1. o.quantity \in Nat
        BY DEF Order
      <4>. QED  BY <1>3, <2>2, <4>1 DEF Sound, InHand
    <3>. QED  BY <1>5, <3>1 DEF HandOK
  <2> HIDE DEF s, b
  <2>6. DOMAIN books' = DOMAIN books \cup {s} /\ books'[s] = b
        /\ \A t \in DOMAIN books \ {s} : books'[t] = books[t]
    BY <2>1
  <2>7. \A t \in DOMAIN books' : BookOK(books'[t], t, received')
    BY <1>5, <2>3, <2>6
  <2>8. orders \in [Configured -> Order] /\ orders' \in [Configured -> Order]
        /\ orders'[s] = o
    BY <1>1, <2>1, <2>2 DEF TypeOK
  <2>9. TypeOK'
    <3>1. DOMAIN books' \subseteq Configured
      BY <1>1, <2>2, <2>6 DEF TypeOK
    <3>2. \A t \in DOMAIN books' : books'[t] \in Book(Lowest(t), Highest(t))
      BY <2>7 DEF BookOK
    <3>. QED  BY <1>1, <1>4, <2>1, <2>4, <2>6, <2>8, <3>1, <3>2 DEF TypeOK
  <2>10. ErrorsExplained'
    BY <1>1, <1>6, <2>1, <2>2 DEF ErrorsExplained
  <2>11. running' # "" => HandOK(orders'[running'], running', received')
    BY <2>4, <2>5, <2>8
  <2>. QED  BY <1>4, <1>5, <2>1, <2>7, <2>9, <2>10, <2>11 DEF ExchangeInv
<1>. QED  BY <1>2, <1>7, <1>8

(* So does each step of the engine that runs. *)
LEMMA LoopInv ==
  ASSUME ExchangeInv, Loop
  PROVE  ExchangeInv'
<1> DEFINE s == running
           b == books[s]
           o == orders[s]
<1>1. /\ TypeOK
      /\ \A t \in DOMAIN books : BookOK(books[t], t, received)
      /\ running # "" => HandOK(orders[running], running, received)
      /\ \A n \in DOMAIN trades : Within(trades[n], received)
      /\ Len(received) <= MaxOrders
      /\ \A i \in DOMAIN received : received[i].orderId = i
      /\ ErrorsExplained
  BY DEF ExchangeInv
<1>2. s # "" /\ received' = received /\ errors' = errors
  BY DEF Loop, Rest, Expire, ExecuteTrade, Return
<1>3. s \in DOMAIN books /\ s \in Configured
  BY <1>1, <1>2 DEF TypeOK
<1>4. BookOK(b, s, received) /\ HandOK(o, s, received)
  BY <1>1, <1>2, <1>3
<1>5. ErrorsExplained'
  BY <1>1, <1>2 DEF ErrorsExplained
<1>6. ASSUME NEW c, BookOK(c, s, received), books' = [books EXCEPT ![s] = c]
      PROVE  /\ DOMAIN books' = DOMAIN books
             /\ \A t \in DOMAIN books' : BookOK(books'[t], t, received')
             /\ \A t \in DOMAIN books' : books'[t] \in Book(Lowest(t), Highest(t))
  <2>1. DOMAIN books' = DOMAIN books
    BY <1>6
  <2>2. ASSUME NEW t \in DOMAIN books' PROVE BookOK(books'[t], t, received')
    <3>1. books'[t] = IF t = s THEN c ELSE books[t]
      BY <1>6
    <3>. QED  BY <1>1, <1>2, <1>6, <2>1, <3>1
  <2>. QED  BY <2>1, <2>2 DEF BookOK
<1>7. ASSUME NEW x \in Order, orders' = [orders EXCEPT ![s] = x]
      PROVE  orders' \in [Configured -> Order] /\ orders'[s] = x
  BY <1>1, <1>3, <1>7 DEF TypeOK
<1>8. CASE Rest
  <2>1. /\ MustRest(b, o) /\ books' = [books EXCEPT ![s] = AddOrder(b, o)]
        /\ running' = "" /\ UNCHANGED << orders, trades >>
    BY <1>8 DEF Rest
  <2>2. BookOK(AddOrder(b, o), s, received)
    BY <1>3, <1>4, <2>1, RestOK
  <2>3. /\ DOMAIN books' = DOMAIN books
        /\ \A t \in DOMAIN books' : BookOK(books'[t], t, received')
        /\ \A t \in DOMAIN books' : books'[t] \in Book(Lowest(t), Highest(t))
    BY <1>6, <2>1, <2>2
  <2>4. TypeOK'
    BY <1>1, <1>2, <2>1, <2>3 DEF TypeOK
  <2>. QED  BY <1>1, <1>2, <1>5, <2>1, <2>3, <2>4 DEF ExchangeInv
<1>9. CASE Expire
  <2> DEFINE x == [o EXCEPT !.status = "CANCELLED"]
  <2>1. /\ running' = "" /\ orders' = [orders EXCEPT ![s] = x]
        /\ UNCHANGED << books, trades >>
    BY <1>9 DEF Expire
  <2>2. x \in Order
    BY <1>4 DEF HandOK, Order, Status
  <2> HIDE DEF x
  <2>3. TypeOK'
    <3>1. orders' \in [Configured -> Order]
      BY <1>7, <2>1, <2>2
    <3>. QED  BY <1>1, <1>2, <2>1, <3>1 DEF TypeOK
  <2>. QED  BY <1>1, <1>2, <1>5, <2>1, <2>3 DEF ExchangeInv
<1>10. CASE ExecuteTrade
  <2> DEFINE x == Filled(o, TradeQuantity(b, o))
             c == BookAfterTrade(b, o)
             d == TradeOf(b, o)
  <2>1. /\ MustTrade(b, o)
        /\ books' = [books EXCEPT ![s] = c]
        /\ orders' = [orders EXCEPT ![s] = x]
        /\ trades' = Append(trades, d)
        /\ running' = running
    BY <1>10 DEF ExecuteTrade
  <2>2. /\ BookOK(c, s, received) /\ HandOK(x, s, received)
        /\ d \in Trade /\ Within(d, received)
    BY <1>3, <1>4, <2>1, TradeOK
  <2> HIDE DEF x, c, d, b, o
  <2>3. /\ DOMAIN books' = DOMAIN books
        /\ \A t \in DOMAIN books' : BookOK(books'[t], t, received')
        /\ \A t \in DOMAIN books' : books'[t] \in Book(Lowest(t), Highest(t))
    BY <1>6, <2>1, <2>2
  <2>4. orders' \in [Configured -> Order] /\ orders'[s] = x
    BY <1>7, <2>1, <2>2 DEF HandOK
  <2>5. trades \in Seq(Trade) /\ trades' \in Seq(Trade)
    <3>1. trades \in Seq(Trade)
      BY <1>1, Zenon DEF TypeOK
    <3>. QED  BY <2>1, <2>2, <3>1
  <2>6. TypeOK'
    BY <1>1, <1>2, <2>1, <2>3, <2>4, <2>5 DEF TypeOK
  <2>7. ASSUME NEW n \in DOMAIN trades' PROVE Within(trades'[n], received')
    <3>1. (n \in DOMAIN trades /\ trades'[n] = trades[n]) \/ trades'[n] = d
      BY <2>1, <2>2, <2>5
    <3>. QED  BY <1>1, <1>2, <2>2, <3>1
  <2>8. running' # "" => HandOK(orders'[running'], running', received')
    BY <1>2, <2>1, <2>2, <2>4
  <2>. QED  BY <1>1, <1>2, <1>5, <2>3, <2>6, <2>7, <2>8 DEF ExchangeInv
<1>11. CASE Return
  <2>1. running' = "" /\ UNCHANGED << books, orders, trades >>
    BY <1>11 DEF Return
  <2>2. TypeOK'
    BY <1>1, <1>2, <2>1 DEF TypeOK
  <2>. QED  BY <1>1, <1>2, <1>5, <2>1, <2>2 DEF ExchangeInv
<1>. QED  BY <1>8, <1>9, <1>10, <1>11 DEF Loop

LEMMA NextExchange ==
  ASSUME ExchangeInv, [Next]_vars
  PROVE  ExchangeInv'
<1>1. ASSUME NEW o \in Incoming, ProcessOrder(Numbered(o)) PROVE ExchangeInv'
  <2>1. received \in Seq(Order)
    BY DEF ExchangeInv, TypeOK
  <2> DEFINE n == Numbered(o)
  <2>2. n \in Order /\ n.status = "NEW" /\ n.orderId = Len(received) + 1
    BY <2>1, NumberedCorrect
  <2> HIDE DEF n
  <2>3. ProcessOrder(n)
    BY <1>1 DEF n
  <2>. QED  BY <2>2, <2>3, ProcessOrderInv
<1>2. CASE Loop
  BY <1>2, LoopInv
<1>3. CASE UNCHANGED vars
  <2>1. TypeOK' /\ ErrorsExplained'
    BY <1>3 DEF ExchangeInv, vars, TypeOK, ErrorsExplained
  <2>. QED  BY <1>3, <2>1 DEF ExchangeInv, vars
<1>. QED  BY <1>1, <1>2, <1>3 DEF Next

LEMMA ExchangeInvariant == Spec => []ExchangeInv
<1>. QED  BY InitExchange, NextExchange, PTL DEF Spec

(* Whatever clients send, no book and no order the engines work on leaves  *)
(* the price range of its symbol, every unsigned quantity stays one, and   *)
(* only symbols with a price range ever have a book.                       *)
THEOREM ExchangeTypeCorrect == Spec => []TypeOK
<1>1. ExchangeInv => TypeOK
  BY DEF ExchangeInv
<1>. QED  BY <1>1, ExchangeInvariant, PTL

(* Every order no engine could take has exactly one line in errors.log, in *)
(* call order and with a reason that holds of it, and no other order has   *)
(* one (Exchange::processOrder).                                           *)
THEOREM EveryErrorExplained == Spec => []ErrorsExplained
<1>1. ExchangeInv => ErrorsExplained
  BY DEF ExchangeInv
<1>. QED  BY <1>1, ExchangeInvariant, PTL
----------------------------------------------------------------------------
(* The engine of symbol s, as MatchingEngine sees it. *)

LEMMA EnginesStart == Init => \A s \in Configured : Engine(s)!Init
<1> SUFFICES ASSUME Init, NEW s \in Configured PROVE Engine(s)!Init
  OBVIOUS
<1>1. /\ DOMAIN books = {} /\ orders[s] = EmptyOrder /\ running = ""
      /\ trades = << >> /\ received = << >>
  BY DEF Init
<1>2. BookFor(s) = NewBook(Lowest(s), Highest(s))
  BY <1>1 DEF BookFor
<1>3. BookFor(s) = Engine(s)!NewBook(Lowest(s), Highest(s))
  BY <1>2 DEF NewBook, Side, Engine!NewBook, Engine!Side
<1>4. orders[s] = Engine(s)!EmptyOrder
  BY <1>1 DEF EmptyOrder, Engine!EmptyOrder
<1>5. (running = s) = FALSE
  <2>1. s # ""
    BY ExchangeAssumption
  <2>. QED  BY <1>1, <2>1, Zenon
<1>6. Filter(trades, TradesOf(s)) = << >> /\ Filter(received, SoundFor(s)) = << >>
  BY <1>1, FilterEmpty
<1>. QED  BY <1>3, <1>4, <1>5, <1>6, Zenon DEF Engine!Init

(* Its steps are those of MatchingEngine, with what it owns. *)
LEMMA EngineIdle ==
  ASSUME NEW s \in Configured,
         BookFor(s)' = BookFor(s), orders'[s] = orders[s],
         running' = s <=> running = s,
         Filter(trades', TradesOf(s)) = Filter(trades, TradesOf(s)),
         Filter(received', SoundFor(s)) = Filter(received, SoundFor(s))
  PROVE  UNCHANGED (Engine(s)!vars)
<1>1. (running = s)' = (running = s)
  BY Zenon
<1>. QED  BY <1>1, Zenon DEF Engine!vars, TradesOf, SoundFor

(* MatchingEngine is built from the same operators on books and orders. *)
LEMMA EngineOperators ==
  ASSUME NEW s, NEW b, NEW o
  PROVE  /\ Engine(s)!MustRest(b, o) = MustRest(b, o)
         /\ Engine(s)!MustExpire(b, o) = MustExpire(b, o)
         /\ Engine(s)!MustTrade(b, o) = MustTrade(b, o)
         /\ Engine(s)!LoopGuard(o) = LoopGuard(o)
         /\ Engine(s)!AddOrder(b, o) = AddOrder(b, o)
         /\ Engine(s)!BookAfterTrade(b, o) = BookAfterTrade(b, o)
         /\ Engine(s)!Filled(o, Engine(s)!TradeQuantity(b, o))
              = Filled(o, TradeQuantity(b, o))
         /\ Engine(s)!TradeOf(b, o) = TradeOf(b, o)
<1>1. /\ \A t : Engine(s)!Opposite(t) = Opposite(t)
      /\ \A t, p, q : Engine(s)!Better(t, p, q) = Better(t, p, q)
      /\ \A c, t : Engine(s)!WorstPrice(c, t) = WorstPrice(c, t)
      /\ \A c : Engine(s)!Prices(c) = Prices(c)
      /\ Engine(s)!EmptyOrder = EmptyOrder
  BY Zenon DEF Opposite, Better, WorstPrice, Prices, EmptyOrder, Engine!Opposite,
       Engine!Better, Engine!WorstPrice, Engine!Prices, Engine!EmptyOrder
<1>2. /\ Engine(s)!Contra(b, o) = Contra(b, o)
      /\ \A n : Engine(s)!IsCancelled(b, n) = IsCancelled(b, n)
  <2>1. \A t : Engine(s)!GetBest(b, t) = GetBest(b, t)
    BY <1>1, Zenon DEF GetBest, Engine!GetBest
  <2>. QED  BY <1>1, <2>1, Zenon DEF Contra, IsCancelled, Engine!Contra,
              Engine!IsCancelled
<1>3. /\ Engine(s)!LoopGuard(o) = LoopGuard(o)
      /\ Engine(s)!NoContra(b, o) = NoContra(b, o)
      /\ Engine(s)!LiveContra(b, o) = LiveContra(b, o)
      /\ Engine(s)!OutOfReach(b, o) = OutOfReach(b, o)
  BY <1>1, <1>2, Zenon DEF LoopGuard, NoContra, LiveContra, OutOfReach,
       Engine!LoopGuard, Engine!NoContra, Engine!LiveContra, Engine!OutOfReach
<1>4. /\ Engine(s)!MustRest(b, o) = MustRest(b, o)
      /\ Engine(s)!MustExpire(b, o) = MustExpire(b, o)
      /\ Engine(s)!MustTrade(b, o) = MustTrade(b, o)
  BY <1>3, Zenon DEF MustRest, MustExpire, MustTrade, Engine!MustRest,
       Engine!MustExpire, Engine!MustTrade
<1>5. Engine(s)!AddOrder(b, o) = AddOrder(b, o)
  BY <1>1, Zenon DEF AddOrder, Engine!AddOrder
<1>6. Engine(s)!TradeQuantity(b, o) = TradeQuantity(b, o)
  BY <1>2, Zenon DEF TradeQuantity, Engine!TradeQuantity
<1>7. \A x, q : Engine(s)!Filled(x, q) = Filled(x, q)
  BY Zenon DEF Filled, Engine!Filled
<1>8. Engine(s)!TradeOf(b, o) = TradeOf(b, o)
  BY <1>2, <1>6, Zenon DEF TradeOf, Engine!TradeOf
<1>9. ASSUME NEW c, NEW t PROVE Engine(s)!RemoveTop(c, t) = RemoveTop(c, t)
  <2>1. \A l, p : Engine(s)!NextBest(c, l, t, p) = NextBest(c, l, t, p)
    BY Zenon DEF NextBest, Engine!NextBest, Prices, Engine!Prices, Better,
         Engine!Better, WorstPrice, Engine!WorstPrice
  <2>. QED  BY <1>1, <2>1, Zenon DEF RemoveTop, Engine!RemoveTop
<1>10. Engine(s)!BookAfterTrade(b, o) = BookAfterTrade(b, o)
  BY <1>1, <1>2, <1>6, <1>7, <1>9, Zenon DEF BookAfterTrade, Engine!BookAfterTrade
<1>. QED  BY <1>3, <1>4, <1>5, <1>6, <1>7, <1>8, <1>10

(* An order that is taken goes to the engine of its symbol and no other;   *)
(* one that is rejected goes to none.                                      *)
LEMMA EngineTakes ==
  ASSUME ExchangeInv, NEW i \in Incoming, ProcessOrder(Numbered(i)),
         NEW s \in Configured
  PROVE  Engine(s)!Next \/ UNCHANGED (Engine(s)!vars)
<1> DEFINE o == Numbered(i)
           rs == Filter(received, SoundFor(s))
<1>1. received \in Seq(Order) /\ \A k \in DOMAIN received : received[k].orderId = k
  BY Zenon DEF ExchangeInv, TypeOK
<1>2. o \in Order /\ o.status = "NEW" /\ o.orderId = Len(received) + 1
  BY <1>1, NumberedCorrect
<1>3. o.quantity = i.quantity
  <2>1. i \in Order
    BY ExchangeAssumption, Zenon
  <2>. QED  BY <2>1 DEF Numbered, Order
<1> HIDE DEF o
<1>4. /\ running = "" /\ Len(received) < MaxOrders
      /\ received' = Append(received, o) /\ (Reject(o) \/ Dispatch(o))
  BY DEF ProcessOrder, o
<1>5. s # "" /\ MaxOrders \in Nat /\ 1 .. MaxOrders \subseteq OrderIds
  BY ExchangeAssumption
<1> DEFINE n == Len(received)
<1>6. n \in Nat /\ n < MaxOrders /\ o.orderId = n + 1 /\ MaxOrders \in Nat
  <2>1. received \in Seq(Order)
    BY <1>1
  <2>2. n < MaxOrders /\ o.orderId = n + 1 /\ MaxOrders \in Nat
    BY <1>2, <1>4, <1>5, Zenon
  <2>. QED  BY <2>1, <2>2
<1>7. Filter(received', SoundFor(s)) = IF o \in SoundFor(s) THEN Append(rs, o) ELSE rs
  BY <1>1, <1>2, <1>4, FilterAppend
<1>8. CASE Reject(o) \/ o.symbol # s
  <2>1. o \notin SoundFor(s)
    BY <1>8, <1>2, ReasonCorrect DEF Reject, SoundFor
  <2>2. BookFor(s)' = BookFor(s)
    <3>1. CASE Reject(o)
      BY <3>1 DEF Reject, BookFor
    <3>2. CASE Dispatch(o) /\ o.symbol # s
      BY <3>2 DEF Dispatch, BookFor
    <3>. QED  BY <1>4, <1>8, <3>1, <3>2
  <2>3. orders'[s] = orders[s] /\ running' # s /\ trades' = trades
    BY <1>4, <1>5, <1>8 DEF Reject, Dispatch, ExchangeInv, TypeOK
  <2>4. Filter(received', SoundFor(s)) = Filter(received, SoundFor(s))
    BY <1>7, <2>1
  <2>. QED  BY <1>4, <1>5, <2>2, <2>3, <2>4, EngineIdle
<1>9. CASE Dispatch(o) /\ o.symbol = s
  <2> DEFINE b == BookFor(s)
             lo == Lowest(s)
             hi == Highest(s)
  <2>1. /\ Reason(o) = "none"
        /\ books' = [t \in DOMAIN books \cup {s} |-> IF t = s THEN b ELSE books[t]]
        /\ orders' = [orders EXCEPT ![s] = o]
        /\ running' = IF IsCancelled(b, o.orderId) THEN "" ELSE s
        /\ trades' = trades
    BY <1>9 DEF Dispatch
  <2>2. Sound(o) /\ o \in SoundFor(s)
    BY <1>2, <1>9, <2>1, ReasonCorrect DEF SoundFor
  <2>3. BookFor(s)' = b
    <3> HIDE DEF b
    <3>. QED  BY <2>1 DEF BookFor
  <2>4. orders'[s] = o
    BY <2>1 DEF ExchangeInv, TypeOK
  <2>5. running # s
    BY <1>4, <1>5
  <2>6. (running = s)' = ~ Engine(s)!IsCancelled(b, o.orderId)
    <3>1. Engine(s)!IsCancelled(b, o.orderId) = IsCancelled(b, o.orderId)
      BY Zenon DEF IsCancelled, Engine!IsCancelled
    <3> HIDE DEF b
    <3>. QED  BY <1>5, <2>1, <3>1, Zenon DEF IsCancelled
  <2>7. rs \in Seq(Order) /\ Len(rs) < MaxOrders /\ Engine(s)!FreshId(o)
    <3>1. /\ rs \in Seq(Order) /\ Len(rs) <= Len(received)
          /\ \A k \in DOMAIN rs : \E j \in DOMAIN received : rs[k] = received[j]
      BY <1>1, FilterElements
    <3>2. Len(rs) \in Nat /\ Len(rs) <= n
      BY <3>1
    <3> HIDE DEF rs, n
    <3>3. Len(rs) < MaxOrders
      BY <1>6, <3>2
    <3>4. ASSUME NEW k \in DOMAIN rs PROVE rs[k].orderId < o.orderId
      <4>1. PICK j \in DOMAIN received : rs[k] = received[j]
        BY <3>1
      <4>2. rs[k].orderId = j
        BY <1>1, <4>1
      <4>3. j \in 1 .. n
        BY <1>1 DEF n
      <4>. QED  BY <1>6, <4>2, <4>3
    <3>5. Engine(s)!FreshId(o)
      BY <3>4 DEF Engine!FreshId, rs
    <3>. QED  BY <3>1, <3>3, <3>5
  <2>8. o \in Engine(s)!NewOrders
    <3> DEFINE Q == {x.quantity : x \in Incoming} \ {0}
    <3>1. /\ o.side \in Side /\ o.orderType \in OrderType
          /\ o.price \in lo .. hi /\ o.remainingQuantity = o.quantity
      BY <1>2, <1>9, <2>2 DEF Order, Sound
    <3>2. o.quantity \in Q
      BY <1>3, <2>2, <1>2 DEF Sound, Order
    <3>3. o.orderId \in OrderIds
      <4> HIDE DEF n
      <4>1. o.orderId \in 1 .. MaxOrders
        BY <1>6
      <4>. QED  BY <1>5, <4>1
    <3>4. o = [side |-> o.side, symbol |-> s, price |-> o.price,
               quantity |-> o.quantity, orderType |-> o.orderType,
               orderId |-> o.orderId, remainingQuantity |-> o.quantity,
               status |-> "NEW"]
      BY <1>2, <1>9, <3>1 DEF Order
    <3> HIDE DEF Q, lo, hi
    <3>5. \E t \in Side, p \in lo .. hi, q \in Q, y \in OrderType, z \in OrderIds :
            o = [side |-> t, symbol |-> s, price |-> p, quantity |-> q,
                 orderType |-> y, orderId |-> z, remainingQuantity |-> q,
                 status |-> "NEW"]
      BY <3>1, <3>2, <3>3, <3>4, Zenon
    <3>. QED  BY <3>5 DEF Engine!NewOrders, Engine!Side, Side, OrderType, Q, lo, hi
  <2>9. Engine(s)!ProcessOrder(o)
    <3>1. Filter(received', SoundFor(s)) = Append(rs, o)
      BY <1>7, <2>2
    <3>. QED  BY <2>1, <2>3, <2>4, <2>5, <2>6, <2>7, <3>1, Zenon
              DEF Engine!ProcessOrder, SoundFor, TradesOf
  <2>. QED  BY <2>8, <2>9, Zenon DEF Engine!Next
<1>. QED  BY <1>4, <1>8, <1>9

(* A step of the engine that runs is a step of MatchingEngine, and the     *)
(* engines of the other symbols do not see it.                             *)
LEMMA EngineRuns ==
  ASSUME ExchangeInv, Loop, NEW s \in Configured
  PROVE  Engine(s)!Next \/ UNCHANGED (Engine(s)!vars)
<1> DEFINE b == books[running]
           o == orders[running]
           d == TradeOf(b, o)
<1>1. /\ running # "" /\ received' = received
      /\ running \in DOMAIN books /\ running \in Configured
      /\ BookOK(b, running, received) /\ HandOK(o, running, received)
  <2>1. running # "" /\ received' = received
    BY DEF Loop, Rest, Expire, ExecuteTrade, Return
  <2>2. running \in DOMAIN books /\ running \in Configured
    BY <2>1 DEF ExchangeInv, TypeOK
  <2>. QED  BY <2>1, <2>2 DEF ExchangeInv
<1>2. trades \in Seq(Trade)
  BY Zenon DEF ExchangeInv, TypeOK
<1>3. ASSUME MustTrade(b, o) PROVE d \in Trade /\ d.symbol = running
  <2>1. /\ running \in Configured
        /\ BookOK(b, running, received) /\ HandOK(o, running, received)
    BY <1>1
  <2> HIDE DEF b, o
  <2>. QED  BY <1>3, <2>1, TradeOK
<1>4. s # ""
  BY ExchangeAssumption
<1>5. CASE s # running
  <2>1. /\ orders'[s] = orders[s] /\ DOMAIN books' = DOMAIN books
        /\ s \in DOMAIN books => books'[s] = books[s]
    BY <1>5 DEF Loop, Rest, Expire, ExecuteTrade, Return, ExchangeInv, TypeOK
  <2>2. BookFor(s)' = BookFor(s)
    BY <2>1 DEF BookFor
  <2>3. running' # s
    BY <1>4, <1>5 DEF Loop, Rest, Expire, ExecuteTrade, Return
  <2>4. Filter(trades', TradesOf(s)) = Filter(trades, TradesOf(s))
    <3>1. CASE ExecuteTrade
      <4>1. trades' = Append(trades, d) /\ MustTrade(b, o)
        BY <3>1 DEF ExecuteTrade
      <4>2. d \in Trade /\ d.symbol = running
        BY <1>3, <4>1
      <4> HIDE DEF d
      <4>3. d \notin TradesOf(s)
        BY <1>5, <4>2 DEF TradesOf
      <4>4. Filter(Append(trades, d), TradesOf(s)) = Filter(trades, TradesOf(s))
        BY <1>2, <4>2, <4>3, FilterAppend
      <4>. QED  BY <4>1, <4>4
    <3>2. CASE Rest \/ Expire \/ Return
      BY <3>2 DEF Rest, Expire, Return
    <3>. QED  BY <3>1, <3>2 DEF Loop
  <2>5. Filter(received', SoundFor(s)) = Filter(received, SoundFor(s))
    BY <1>1
  <2>6. running' = s <=> running = s
    BY <1>5, <2>3
  <2>. QED  BY <2>1, <2>2, <2>4, <2>5, <2>6, EngineIdle
<1>6. CASE s = running
  <2>1. BookFor(s) = b /\ orders[s] = o /\ s \in DOMAIN books
    BY <1>1, <1>6 DEF BookFor
  <2>2. /\ \A c : books' = [books EXCEPT ![running] = c] => BookFor(s)' = c
        /\ books' = books => BookFor(s)' = b
    <3>1. ASSUME NEW c, books' = [books EXCEPT ![running] = c]
          PROVE  BookFor(s)' = c
      BY <1>6, <2>1, <3>1 DEF BookFor
    <3>2. ASSUME books' = books PROVE BookFor(s)' = b
      BY <1>6, <2>1, <3>2 DEF BookFor
    <3>. QED  BY <3>1, <3>2
  <2>3. /\ \A x : orders' = [orders EXCEPT ![running] = x] => orders'[s] = x
        /\ orders' = orders => orders'[s] = o
    BY <1>1, <1>6, <2>1 DEF ExchangeInv, TypeOK
  <2>4. /\ running' = "" => (running = s)' = FALSE
        /\ running' = running => (running = s)' = (running = s)
    BY <1>4, Zenon
  <2>5. /\ Filter(received, SoundFor(s))' = Filter(received, SoundFor(s))
        /\ trades' = trades
             => Filter(trades, TradesOf(s))' = Filter(trades, TradesOf(s))
    BY <1>1, Zenon DEF SoundFor, TradesOf
  <2> HIDE DEF b, o
  <2>6. CASE Rest
    <3>1. /\ MustRest(b, o) /\ books' = [books EXCEPT ![running] = AddOrder(b, o)]
          /\ running' = "" /\ orders' = orders /\ trades' = trades
      BY <2>6 DEF Rest, b, o
    <3>2. Engine(s)!MustRest(b, o) /\ Engine(s)!AddOrder(b, o) = AddOrder(b, o)
      BY <3>1, EngineOperators, Zenon
    <3>3. BookFor(s)' = AddOrder(b, o) /\ orders'[s] = o
      BY <2>2, <2>3, <3>1
    <3>4. Engine(s)!Rest
      BY <1>6, <2>1, <2>4, <2>5, <3>1, <3>2, <3>3, Zenon DEF Engine!Rest
    <3>. QED  BY <3>4, Zenon DEF Engine!Next, Engine!Loop
  <2>7. CASE Expire
    <3> DEFINE x == [o EXCEPT !.status = "CANCELLED"]
    <3>1. /\ MustExpire(b, o) /\ books' = books
          /\ running' = "" /\ orders' = [orders EXCEPT ![running] = x]
          /\ trades' = trades
      <4>1. orders' = [orders EXCEPT ![running].status = "CANCELLED"]
        BY <2>7 DEF Expire
      <4>2. orders' = [orders EXCEPT ![running] = x]
        BY <4>1 DEF o
      <4>. QED  BY <2>7, <4>2 DEF Expire, b, o
    <3>2. Engine(s)!MustExpire(b, o)
      BY <3>1, EngineOperators, Zenon
    <3>3. BookFor(s)' = b /\ orders'[s] = x
      BY <2>2, <2>3, <3>1
    <3>4. Engine(s)!Expire
      BY <1>6, <2>1, <2>4, <2>5, <3>1, <3>2, <3>3, Zenon DEF Engine!Expire
    <3>. QED  BY <3>4, Zenon DEF Engine!Next, Engine!Loop
  <2>8. CASE ExecuteTrade
    <3> DEFINE x == Filled(o, TradeQuantity(b, o))
               c == BookAfterTrade(b, o)
    <3>1. /\ MustTrade(b, o)
          /\ books' = [books EXCEPT ![running] = c]
          /\ orders' = [orders EXCEPT ![running] = x]
          /\ trades' = Append(trades, d)
          /\ running' = running
      BY <2>8 DEF ExecuteTrade, b, o
    <3>2. d \in Trade /\ d.symbol = s
      BY <1>6, <1>3, <3>1
    <3>3. /\ Engine(s)!MustTrade(b, o)
          /\ Engine(s)!BookAfterTrade(b, o) = c
          /\ Engine(s)!Filled(o, Engine(s)!TradeQuantity(b, o)) = x
          /\ Engine(s)!TradeOf(b, o) = d
      BY <3>1, EngineOperators, Zenon
    <3> HIDE DEF x, c, d
    <3>4. BookFor(s)' = c /\ orders'[s] = x
      BY <2>2, <2>3, <3>1
    <3>5. Filter(trades, TradesOf(s))' = Append(Filter(trades, TradesOf(s)), d)
      <4>1. d \in TradesOf(s)
        BY <3>2 DEF TradesOf
      <4>2. Filter(Append(trades, d), TradesOf(s))
              = Append(Filter(trades, TradesOf(s)), d)
        BY <1>2, <3>2, <4>1, FilterAppend
      <4>. QED  BY <3>1, <4>2, Zenon DEF TradesOf
    <3>6. Engine(s)!ExecuteTrade
      BY <1>6, <2>1, <2>4, <2>5, <3>1, <3>3, <3>4, <3>5, Zenon DEF Engine!ExecuteTrade
    <3>. QED  BY <3>6, Zenon DEF Engine!Next, Engine!Loop
  <2>9. CASE Return
    <3>1. /\ ~ LoopGuard(o) /\ books' = books
          /\ running' = "" /\ orders' = orders /\ trades' = trades
      BY <2>9 DEF Return, b, o
    <3>2. ~ Engine(s)!LoopGuard(o)
      BY <3>1, EngineOperators, Zenon
    <3>3. BookFor(s)' = b /\ orders'[s] = o
      BY <2>2, <2>3, <3>1
    <3>4. Engine(s)!Return
      BY <1>6, <2>1, <2>4, <2>5, <3>1, <3>2, <3>3, Zenon DEF Engine!Return
    <3>. QED  BY <3>4, Zenon DEF Engine!Next, Engine!Loop
  <2>. QED  BY <2>6, <2>7, <2>8, <2>9 DEF Loop
<1>. QED  BY <1>5, <1>6

(* Whatever clients send and however the calls for different symbols       *)
(* follow each other, the engine of each symbol behaves as MatchingEngine  *)
(* does alone, fed with the sound orders of its symbol                     *)
(* (Exchange::processOrder).                                               *)
THEOREM EnginesBehaveAlone == Spec => EnginesIndependent
<1>1. Init => \A s \in Configured : Engine(s)!Init
  BY EnginesStart
<1>2. ExchangeInv /\ [Next]_vars
        => [\A s \in Configured : [Engine(s)!Next]_(Engine(s)!vars)]_vars
  <2> SUFFICES ASSUME ExchangeInv, Next, NEW s \in Configured
               PROVE  [Engine(s)!Next]_(Engine(s)!vars)
    OBVIOUS
  <2>1. CASE \E i \in Incoming : ProcessOrder(Numbered(i))
    BY <2>1, EngineTakes
  <2>2. CASE Loop
    BY <2>2, EngineRuns
  <2>. QED  BY <2>1, <2>2 DEF Next
<1>. QED  BY <1>1, <1>2, ExchangeInvariant, PTL DEF Spec, EnginesIndependent
----------------------------------------------------------------------------
(* The balance of each side: what was offered on it is open or has traded. *)

Rested == UNION {AllResting(books[y]) : y \in DOMAIN books}

(* The orders still open, in the books and in hand. *)
Left == Rested \cup {orders[y] : y \in {running} \ {""}}

LeftOn(s) == {x \in Left : x.side = s}

SoundOn(rs, s) == {i \in DOMAIN rs : Sound(rs[i]) /\ rs[i].side = s}

Offered(rs, s) == QuantityIn(rs, SoundOn(rs, s))

Traded(ts) == QuantityIn(ts, DOMAIN ts)

(* The queues of the books, and the order in hand behind them. *)
QueuesInv ==
  /\ \A y \in DOMAIN books : Indexed(books[y]) /\ InOrder(books[y])
  /\ running # "" => Older(books[running], orders[running].orderId)

(* When every order is a limit order, none expires. *)
BalanceInv ==
  /\ \A i \in DOMAIN received : received[i].orderType = "LIMIT"
  /\ IsFiniteSet(Left)
  /\ QueuesInv
  /\ \A s \in Side : Offered(received, s) = RemainingIn(LeftOn(s)) + Traded(trades)

LEMMA OfferedAppend ==
  ASSUME NEW rs \in Seq(Order), NEW o \in Order, NEW s \in Side
  PROVE  /\ Offered(rs, s) \in Nat
         /\ Offered(Append(rs, o), s) =
              IF Sound(o) /\ o.side = s THEN Offered(rs, s) + o.quantity
                                        ELSE Offered(rs, s)
<1> DEFINE qs == Append(rs, o)
           S  == SoundOn(rs, s)
<1>1. /\ S \in SUBSET (DOMAIN rs)
      /\ \A x \in Order : x.quantity \in Nat
  BY DEF SoundOn, Order
<1>2. /\ DOMAIN qs = DOMAIN rs \cup {Len(qs)} /\ Len(qs) \notin DOMAIN rs
      /\ qs[Len(qs)] = o /\ \A i \in DOMAIN rs : qs[i] = rs[i]
  OBVIOUS
<1>3. /\ QuantityIn(rs, S) \in Nat
      /\ QuantityIn(qs, S) = QuantityIn(rs, S)
      /\ QuantityIn(qs, S \cup {Len(qs)}) = QuantityIn(rs, S) + o.quantity
  <2> HIDE DEF S
  <2>. QED  BY <1>1, QuantityAppend
<1> HIDE DEF qs
<1>4. SoundOn(qs, s) = IF Sound(o) /\ o.side = s THEN S \cup {Len(qs)} ELSE S
  BY <1>2 DEF SoundOn
<1>. QED  BY <1>3, <1>4 DEF Offered, qs

LEMMA TradedType ==
  ASSUME NEW ts \in Seq(Trade)
  PROVE  Traded(ts) \in Nat
<1>1. IsFiniteSet(DOMAIN ts) /\ \A i \in DOMAIN ts : ts[i] \in Trade
  <2>1. DOMAIN ts = 1 .. Len(ts) /\ Len(ts) \in Nat
    OBVIOUS
  <2>2. IsFiniteSet(1 .. Len(ts))
    BY <2>1, FS_Interval
  <2>. QED  BY <2>1, <2>2
<1>2. \A i \in DOMAIN ts : ts[i].quantity \in Nat
  BY <1>1 DEF Trade
<1>. QED  BY <1>1, <1>2, QuantityType DEF Traded

LEMMA TradedAppend ==
  ASSUME NEW ts \in Seq(Trade), NEW t \in Trade
  PROVE  Traded(Append(ts, t)) = Traded(ts) + t.quantity
<1> DEFINE us == Append(ts, t)
           S  == DOMAIN ts
<1>1. S \in SUBSET (DOMAIN ts) /\ \A x \in Trade : x.quantity \in Nat
  BY DEF Trade
<1>2. DOMAIN us = S \cup {Len(us)}
  OBVIOUS
<1>3. QuantityIn(us, S \cup {Len(us)}) = QuantityIn(ts, S) + t.quantity
  BY <1>1, QuantityAppend
<1> HIDE DEF us, S
<1>. QED  BY <1>2, <1>3 DEF Traded, us, S

(* What is known of an order that rests, and of the one in hand. *)
LEMMA RestedKnown ==
  ASSUME ExchangeInv, NEW y \in DOMAIN books, NEW x \in AllResting(books[y])
  PROVE  /\ y \in Configured /\ Lowest(y) \in Int /\ Highest(y) \in Int
         /\ books[y] \in Book(Lowest(y), Highest(y)) /\ WellPlaced(books[y])
         /\ x \in Order /\ x.symbol = y
         /\ x.orderId \in DOMAIN received /\ SameOrder(x, received[x.orderId])
         /\ \A id : Older(books[y], id) => x.orderId < id
<1>1. y \in Configured /\ BookOK(books[y], y, received)
  BY DEF ExchangeInv, TypeOK
<1>2. Lowest(y) \in Int /\ Highest(y) \in Int
  BY <1>1, PriceRange
<1>3. /\ books[y] \in Book(Lowest(y), Highest(y)) /\ WellPlaced(books[y])
      /\ Traced(books[y], received) /\ OfSymbol(books[y], y)
  BY <1>1 DEF BookOK
<1>4. /\ x \in Order /\ Came(received, x) /\ x.symbol = y
      /\ \A id : Older(books[y], id) => x.orderId < id
  BY <1>2, <1>3, RestingKnown
<1>5. \A i \in DOMAIN received : received[i].orderId = i
  BY Zenon DEF ExchangeInv
<1>6. x.orderId \in DOMAIN received /\ SameOrder(x, received[x.orderId])
  BY <1>4, <1>5 DEF Came, SameOrder
<1>. QED  BY <1>1, <1>2, <1>3, <1>4, <1>6

LEMMA HandKnown ==
  ASSUME ExchangeInv, running # ""
  PROVE  LET o == orders[running] IN
         /\ running \in Configured /\ running \in DOMAIN books
         /\ o \in Order /\ o.symbol = running
         /\ o.orderId \in DOMAIN received /\ SameOrder(o, received[o.orderId])
<1> DEFINE o == orders[running]
<1>1. running \in Configured /\ running \in DOMAIN books
      /\ HandOK(o, running, received)
  BY DEF ExchangeInv, TypeOK
<1>2. o \in Order /\ o.symbol = running /\ Came(received, o)
  BY <1>1 DEF HandOK
<1>3. \A i \in DOMAIN received : received[i].orderId = i
  BY Zenon DEF ExchangeInv
<1> HIDE DEF o
<1>4. o.orderId \in DOMAIN received /\ SameOrder(o, received[o.orderId])
  BY <1>2, <1>3 DEF Came, SameOrder
<1>. QED  BY <1>1, <1>2, <1>4 DEF o

(* An id names one open order among those of all the books. *)
LEMMA LeftDistinct ==
  ASSUME ExchangeInv, QueuesInv
  PROVE  /\ \A x \in Left : x \in Order /\ x.orderId \in DOMAIN received
         /\ \A x, z \in Left : x.orderId = z.orderId => x = z
         /\ running # "" => \A x \in Rested : x.orderId # orders[running].orderId
<1>1. ASSUME NEW x \in Rested, NEW z \in Rested, x.orderId = z.orderId
      PROVE  x = z
  <2>1. PICK y \in DOMAIN books : x \in AllResting(books[y])
    BY DEF Rested
  <2>2. PICK w \in DOMAIN books : z \in AllResting(books[w])
    BY DEF Rested
  <2>3. /\ x.symbol = y /\ SameOrder(x, received[x.orderId])
        /\ books[y] \in Book(Lowest(y), Highest(y)) /\ WellPlaced(books[y])
        /\ Lowest(y) \in Int /\ Highest(y) \in Int
    BY <2>1, RestedKnown
  <2>4. z.symbol = w /\ SameOrder(z, received[z.orderId])
    BY <2>2, RestedKnown
  <2>5. y = w /\ x.side = z.side /\ x.price = z.price
    BY <1>1, <2>3, <2>4 DEF SameOrder
  <2>6. InOrder(books[y])
    BY DEF QueuesInv
  <2>. QED  BY <1>1, <2>1, <2>2, <2>3, <2>5, <2>6, OneRests
<1>2. ASSUME running # "", NEW x \in Rested
      PROVE  x.orderId # orders[running].orderId
  <2> DEFINE o == orders[running]
  <2>1. PICK y \in DOMAIN books : x \in AllResting(books[y])
    BY DEF Rested
  <2>2. /\ x \in Order /\ x.symbol = y /\ SameOrder(x, received[x.orderId])
        /\ \A id : Older(books[y], id) => x.orderId < id
    BY <2>1, RestedKnown
  <2>3. o \in Order /\ o.symbol = running /\ SameOrder(o, received[o.orderId])
    BY <1>2, HandKnown
  <2>4. Older(books[running], o.orderId)
    BY <1>2 DEF QueuesInv
  <2> HIDE DEF o
  <2>5. SUFFICES ASSUME x.orderId = o.orderId PROVE FALSE
    BY DEF o
  <2>6. y = running
    BY <2>2, <2>3, <2>5 DEF SameOrder
  <2>7. x.orderId < x.orderId /\ x.orderId \in Nat
    BY <2>2, <2>4, <2>5, <2>6 DEF Order
  <2>. QED  BY <2>7
<1>3. ASSUME NEW x \in Rested PROVE x \in Order /\ x.orderId \in DOMAIN received
  <2>1. PICK y \in DOMAIN books : x \in AllResting(books[y])
    BY DEF Rested
  <2>. QED  BY <2>1, RestedKnown
<1>4. ASSUME NEW x \in Left
      PROVE  x \in Rested \/ (running # "" /\ x = orders[running])
  BY DEF Left
<1>5. ASSUME NEW x \in Left PROVE x \in Order /\ x.orderId \in DOMAIN received
  BY <1>3, <1>4, HandKnown
<1>6. ASSUME NEW x \in Left, NEW z \in Left, x.orderId = z.orderId PROVE x = z
  BY <1>1, <1>2, <1>4, <1>6
<1>. QED  BY <1>2, <1>5, <1>6

(* The open orders of one side, in a state with finitely many. *)
LEMMA LeftOnSide ==
  ASSUME ExchangeInv, BalanceInv, NEW s \in Side
  PROVE  /\ IsFiniteSet(LeftOn(s))
         /\ \A x \in LeftOn(s) : x.remainingQuantity \in Nat
         /\ RemainingIn(LeftOn(s)) \in Nat
<1>1. IsFiniteSet(Left) /\ LeftOn(s) \in SUBSET Left
  BY DEF BalanceInv, LeftOn
<1>2. IsFiniteSet(LeftOn(s))
  BY <1>1, FS_Subset
<1>3. \A x \in LeftOn(s) : x \in Order
  BY <1>1, LeftDistinct DEF BalanceInv
<1>4. \A x \in LeftOn(s) : x.remainingQuantity \in Nat
  BY <1>3 DEF Order
<1>. QED  BY <1>2, <1>4, RemainingType

LEMMA NewBookQueues ==
  ASSUME NEW s \in Configured
  PROVE  LET b == NewBook(Lowest(s), Highest(s))
         IN  AllResting(b) = {} /\ Indexed(b) /\ InOrder(b)
<1> DEFINE lo == Lowest(s)
           hi == Highest(s)
           b == NewBook(lo, hi)
<1>1. lo \in Int /\ hi \in Int /\ lo <= hi
  BY PriceRange, Zenon
<1> HIDE DEF lo, hi
<1>2. b \in Book(lo, hi) /\ \A t \in Side, p \in lo .. hi : b.levels[t][p] = << >>
  BY <1>1, NewBookCorrect
<1> HIDE DEF b
<1>3. Prices(b) = lo .. hi
  BY <1>1, <1>2, BookFields
<1>4. Indexed(b) /\ InOrder(b)
  BY <1>2, <1>3 DEF Indexed, InOrder
<1>5. \A t \in Side : Resting(b, t) = {}
  BY <1>2, <1>3 DEF Resting
<1>6. AllResting(b) = {}
  BY <1>5 DEF AllResting, Side
<1>. QED  BY <1>4, <1>6 DEF b, lo, hi

(* An order that no engine takes counts on no side; one that an engine     *)
(* takes is open with all of its quantity.                                 *)
LEMMA ProcessOrderBalance ==
  ASSUME ExchangeInv, BalanceInv, NEW o \in Order, o.orderType = "LIMIT",
         o.orderId = Len(received) + 1, ProcessOrder(o)
  PROVE  BalanceInv'
<1>1. /\ received \in Seq(Order) /\ trades \in Seq(Trade)
      /\ \A y \in DOMAIN books : BookOK(books[y], y, received)
      /\ orders \in [Configured -> Order]
  BY Zenon DEF ExchangeInv, TypeOK
<1>2. /\ running = "" /\ received' = Append(received, o)
      /\ Reject(o) \/ Dispatch(o)
  BY DEF ProcessOrder
<1>3. \A i \in DOMAIN received' : received'[i].orderType = "LIMIT"
  <2>1. \A i \in DOMAIN received : received[i].orderType = "LIMIT"
    BY DEF BalanceInv
  <2> DEFINE rs == received
             qs == Append(rs, o)
  <2>2. rs \in Seq(Order)
    BY <1>1
  <2>3. \A i \in DOMAIN rs : rs[i].orderType = "LIMIT"
    BY <2>1
  <2> HIDE DEF rs
  <2>4. \A i \in DOMAIN qs : (i \in DOMAIN rs /\ qs[i] = rs[i]) \/ qs[i] = o
    BY <2>2
  <2> HIDE DEF qs
  <2>5. \A i \in DOMAIN qs : qs[i].orderType = "LIMIT"
    BY <2>3, <2>4
  <2>. QED  BY <1>2, <2>5 DEF qs, rs
<1>4. ASSUME NEW s \in Side
      PROVE  /\ Offered(received, s) \in Nat
             /\ Offered(received', s) =
                  IF Sound(o) /\ o.side = s
                  THEN Offered(received, s) + o.quantity ELSE Offered(received, s)
  BY <1>1, <1>2, OfferedAppend
<1>5. /\ QueuesInv /\ IsFiniteSet(Left)
      /\ \A s \in Side :
           Offered(received, s) = RemainingIn(LeftOn(s)) + Traded(trades)
  BY DEF BalanceInv
<1>6. CASE Reject(o)
  <2>1. ~ Sound(o) /\ UNCHANGED << books, orders, running, trades >>
    BY <1>6, ReasonCorrect DEF Reject
  <2>2. Left' = Left /\ QueuesInv'
    BY <1>5, <2>1 DEF Left, Rested, QueuesInv
  <2>3. \A s \in Side : LeftOn(s)' = LeftOn(s)
    BY <2>2 DEF LeftOn
  <2>4. \A s \in Side : Offered(received', s) = Offered(received, s)
    BY <1>4, <2>1
  <2>. QED  BY <1>3, <1>5, <2>1, <2>2, <2>3, <2>4 DEF BalanceInv
<1>7. CASE Dispatch(o)
  <2> DEFINE y == o.symbol
             b == BookFor(y)
  <2>1. /\ Reason(o) = "none"
        /\ books' = [w \in DOMAIN books \cup {y} |-> IF w = y THEN b ELSE books[w]]
        /\ orders' = [orders EXCEPT ![y] = o]
        /\ running' = IF IsCancelled(b, o.orderId) THEN "" ELSE y
        /\ trades' = trades
    BY <1>7 DEF Dispatch
  <2>2. Sound(o) /\ y \in Configured /\ y # ""
    BY <2>1, ReasonCorrect, ExchangeAssumption DEF Sound
  <2>3. BookOK(b, y, received)
    BY <1>1, <2>2, NewBookOK DEF BookFor
  <2>4. running' = y /\ orders'[y] = o
    BY <1>1, <2>1, <2>2, <2>3 DEF BookOK, IsCancelled
  <2>5. /\ AllResting(b) = IF y \in DOMAIN books THEN AllResting(books[y]) ELSE {}
        /\ Indexed(b) /\ InOrder(b)
    BY <1>5, <2>2, NewBookQueues DEF BookFor, QueuesInv
  <2>6. /\ \A x \in Left : x \in Order /\ x.orderId \in DOMAIN received
        /\ Left = Rested
    BY <1>2, <1>5, LeftDistinct DEF Left
  <2>7. o \notin Left
    <3> DEFINE rs == received
    <3>1. rs \in Seq(Order) /\ o.orderId = Len(rs) + 1
      BY <1>1
    <3>2. \A x \in Left : x.orderId \in DOMAIN rs
      BY <2>6
    <3> HIDE DEF rs
    <3>3. o.orderId \notin DOMAIN rs
      BY <3>1
    <3>. QED  BY <3>2, <3>3
  <2>8. ASSUME NEW x \in AllResting(b) PROVE x.orderId < o.orderId
    <3>1. x \in Left
      BY <2>5, <2>6 DEF Rested
    <3> DEFINE rs == received
    <3>2. rs \in Seq(Order) /\ o.orderId = Len(rs) + 1
      BY <1>1
    <3>3. x.orderId \in DOMAIN rs
      BY <2>6, <3>1
    <3> HIDE DEF rs
    <3>. QED  BY <3>2, <3>3
  <2>9. Older(b, o.orderId)
    <3> DEFINE lo == Lowest(y)
               hi == Highest(y)
    <3>1. lo \in Int /\ hi \in Int /\ b \in Book(lo, hi)
      BY <2>2, <2>3, PriceRange, Zenon DEF BookOK
    <3> HIDE DEF lo, hi, b
    <3>2. Prices(b) = lo .. hi
      BY <3>1, BookFields
    <3>3. ASSUME NEW t \in Side, NEW p \in lo .. hi, NEW i \in DOMAIN b.levels[t][p]
          PROVE  b.levels[t][p][i].orderId < o.orderId
      BY <2>8, <3>1, AllRestingAt
    <3>. QED  BY <3>2, <3>3 DEF Older
  <2> HIDE DEF y, b
  <2>10. /\ DOMAIN books' = DOMAIN books \cup {y} /\ books'[y] = b
         /\ \A w \in DOMAIN books \ {y} : books'[w] = books[w]
    BY <2>1
  <2>11. Rested' = Rested
    <3>1. \A w \in DOMAIN books : AllResting(books'[w]) = AllResting(books[w])
      BY <2>5, <2>10
    <3>2. y \notin DOMAIN books => AllResting(books'[y]) = {}
      BY <2>5, <2>10
    <3>. QED  BY <2>10, <3>1, <3>2 DEF Rested
  <2>12. Left' = Left \cup {o}
    BY <2>2, <2>4, <2>6, <2>11 DEF Left
  <2>13. IsFiniteSet(Left')
    BY <1>5, <2>12, FS_AddElement
  <2>14. QueuesInv'
    <3>1. \A w \in DOMAIN books' : Indexed(books'[w]) /\ InOrder(books'[w])
      BY <1>5, <2>5, <2>10 DEF QueuesInv
    <3>. QED  BY <2>4, <2>9, <2>10, <3>1 DEF QueuesInv
  <2>15. ASSUME NEW s \in Side
         PROVE  Offered(received', s) = RemainingIn(LeftOn(s)') + Traded(trades')
    <3>1. /\ IsFiniteSet(LeftOn(s))
          /\ \A x \in LeftOn(s) : x.remainingQuantity \in Nat
          /\ RemainingIn(LeftOn(s)) \in Nat
      BY LeftOnSide
    <3>2. o.quantity \in Nat /\ o.remainingQuantity = o.quantity
      BY <2>2 DEF Sound, Order
    <3>3. Traded(trades) \in Nat
      BY <1>1, TradedType
    <3>4. CASE o.side = s
      <4>1. LeftOn(s)' = LeftOn(s) \cup {o} /\ o \notin LeftOn(s)
        BY <2>7, <2>12, <3>4 DEF LeftOn
      <4>2. RemainingIn(LeftOn(s) \cup {o}) = RemainingIn(LeftOn(s)) + o.quantity
        BY <3>1, <3>2, <4>1, RemainingAdd
      <4>3. Offered(received', s) = Offered(received, s) + o.quantity
        BY <1>4, <2>2, <3>4
      <4> DEFINE m == RemainingIn(LeftOn(s))
                 n == Traded(trades)
                 q == o.quantity
      <4>4. Offered(received', s) = (m + n) + q /\ m \in Nat /\ n \in Nat /\ q \in Nat
        BY <1>5, <3>1, <3>2, <3>3, <4>3
      <4>5. RemainingIn(LeftOn(s)') + Traded(trades') = (m + q) + n
        BY <2>1, <4>1, <4>2
      <4> HIDE DEF m, n, q
      <4>6. (m + n) + q = (m + q) + n
        BY <4>4
      <4>. QED  BY <4>4, <4>5, <4>6
    <3>5. CASE o.side # s
      <4>1. LeftOn(s)' = LeftOn(s)
        BY <2>12, <3>5 DEF LeftOn
      <4>. QED  BY <1>4, <1>5, <2>1, <3>5, <4>1
    <3>. QED  BY <3>4, <3>5
  <2>. QED  BY <1>3, <2>13, <2>14, <2>15 DEF BalanceInv
<1>. QED  BY <1>2, <1>6, <1>7

(* The books once that of the symbol running has become book c. *)
LEMMA RestedAfter ==
  ASSUME running \in DOMAIN books, NEW c, books' = [books EXCEPT ![running] = c]
  PROVE  /\ DOMAIN books' = DOMAIN books /\ books'[running] = c
         /\ \A y \in DOMAIN books \ {running} : books'[y] = books[y]
         /\ Rested' = (UNION {AllResting(books[y]) : y \in DOMAIN books \ {running}})
                        \cup AllResting(c)
         /\ Rested = (UNION {AllResting(books[y]) : y \in DOMAIN books \ {running}})
                        \cup AllResting(books[running])
<1>1. /\ DOMAIN books' = DOMAIN books /\ books'[running] = c
      /\ \A y \in DOMAIN books \ {running} : books'[y] = books[y]
  OBVIOUS
<1>2. Rested' = (UNION {AllResting(books[y]) : y \in DOMAIN books \ {running}})
                  \cup AllResting(c)
  BY <1>1 DEF Rested
<1>3. Rested = (UNION {AllResting(books[y]) : y \in DOMAIN books \ {running}})
                 \cup AllResting(books[running])
  BY DEF Rested
<1>. QED  BY <1>1, <1>2, <1>3

(* An order that comes to rest is one more; one that trades is replaced by *)
(* what is left of it, or removed.                                         *)
LEMMA RestedByRest ==
  ASSUME ExchangeInv, Rest
  PROVE  Rested' = Rested \cup {orders[running]}
<1> DEFINE b == books[running]
           o == orders[running]
           c == AddOrder(b, o)
           lo == Lowest(running)
           hi == Highest(running)
<1>1. running # "" /\ books' = [books EXCEPT ![running] = c]
  BY DEF Rest
<1>2. /\ running \in Configured /\ running \in DOMAIN books /\ o \in Order
      /\ BookOK(b, running, received) /\ HandOK(o, running, received)
  BY <1>1, HandKnown DEF ExchangeInv
<1>3. /\ lo \in Int /\ hi \in Int /\ b \in Book(lo, hi) /\ WellPlaced(b)
      /\ InHand(o, lo, hi)
  BY <1>2, PriceRange DEF BookOK, HandOK
<1> HIDE DEF b, o, c, lo, hi
<1>4. o.price \in lo .. hi /\ o.orderId \in OrderIds
  BY <1>3 DEF InHand
<1>5. AllResting(c) = AllResting(b) \cup {o}
  BY <1>2, <1>3, <1>4, RestAddsOrder DEF c
<1>. QED  BY <1>1, <1>2, <1>5, RestedAfter DEF b, o

LEMMA RestedByTrade ==
  ASSUME ExchangeInv, QueuesInv, ExecuteTrade
  PROVE  LET b == books[running]
             o == orders[running]
             r == Contra(b, o)
             f == Filled(r, TradeQuantity(b, o))
         IN  /\ r \in Rested
             /\ Rested' = (Rested \ {r}) \cup {x \in {f} : x.remainingQuantity > 0}
<1> DEFINE b == books[running]
           o == orders[running]
           c == BookAfterTrade(b, o)
           r == Contra(b, o)
           f == Filled(r, TradeQuantity(b, o))
           lo == Lowest(running)
           hi == Highest(running)
<1>1. /\ running # "" /\ MustTrade(b, o)
      /\ books' = [books EXCEPT ![running] = c]
  BY DEF ExecuteTrade
<1>2. /\ running \in Configured /\ running \in DOMAIN books /\ o \in Order
      /\ BookOK(b, running, received)
  BY <1>1, HandKnown DEF ExchangeInv
<1>3. /\ lo \in Int /\ hi \in Int /\ b \in Book(lo, hi) /\ WellPlaced(b)
      /\ InOrder(b)
  BY <1>2, PriceRange DEF BookOK, QueuesInv
<1>4. /\ r \in AllResting(b)
      /\ AllResting(c) = (AllResting(b) \ {r}) \cup
                         {x \in {f} : x.remainingQuantity > 0}
  <2>1. MustTrade(b, o)
    BY <1>1
  <2>2. o \in Order
    BY <1>2
  <2> HIDE DEF b, o, lo, hi
  <2>. QED  BY <1>3, <2>1, <2>2, TradeReplacesOrder
<1> HIDE DEF b, c, r, f, o, lo, hi
<1>5. /\ Rested' = (UNION {AllResting(books[y]) : y \in DOMAIN books \ {running}})
                     \cup AllResting(c)
      /\ Rested = (UNION {AllResting(books[y]) : y \in DOMAIN books \ {running}})
                    \cup AllResting(b)
  BY <1>1, <1>2, RestedAfter DEF b
<1>6. ASSUME NEW y \in DOMAIN books \ {running} PROVE r \notin AllResting(books[y])
  <2>1. r.symbol = running
    BY <1>2, <1>4, RestedKnown DEF b
  <2>2. r \in AllResting(books[y]) => r.symbol = y
    BY RestedKnown
  <2>. QED  BY <2>1, <2>2
<1>7. /\ r \in Rested
      /\ Rested' = (Rested \ {r}) \cup {x \in {f} : x.remainingQuantity > 0}
  BY <1>4, <1>5, <1>6
<1>. QED  BY <1>7 DEF b, o, r, f

(* The order that comes to rest stays open. *)
LEMMA RestBalance ==
  ASSUME ExchangeInv, BalanceInv, Rest
  PROVE  BalanceInv'
<1> DEFINE b == books[running]
           o == orders[running]
           c == AddOrder(b, o)
           lo == Lowest(running)
           hi == Highest(running)
<1>1. /\ running # "" /\ MustRest(b, o)
      /\ books' = [books EXCEPT ![running] = c]
      /\ running' = "" /\ UNCHANGED << orders, trades, received >>
  BY DEF Rest
<1>2. /\ running \in Configured /\ running \in DOMAIN books /\ o \in Order
      /\ BookOK(b, running, received) /\ HandOK(o, running, received)
  BY <1>1, HandKnown DEF ExchangeInv
<1>3. /\ QueuesInv /\ Indexed(b) /\ InOrder(b) /\ Older(b, o.orderId)
  BY <1>1, <1>2 DEF BalanceInv, QueuesInv
<1>4. /\ lo \in Int /\ hi \in Int /\ b \in Book(lo, hi) /\ WellPlaced(b)
      /\ Traced(b, received) /\ Came(received, o) /\ InHand(o, lo, hi)
  BY <1>2, PriceRange DEF BookOK, HandOK
<1> HIDE DEF b, o, c, lo, hi
<1>5. o.price \in lo .. hi /\ o.orderId \in OrderIds
  BY <1>4 DEF InHand
<1>6. Indexed(c) /\ InOrder(c)
  <2>1. NoneOf(b, {}) /\ o.orderId \notin {}
    BY DEF NoneOf
  <2>. QED  BY <1>2, <1>3, <1>4, <1>5, <2>1, RestTraced DEF c
<1>7. /\ DOMAIN books' = DOMAIN books /\ books'[running] = c
      /\ \A y \in DOMAIN books \ {running} : books'[y] = books[y]
  BY <1>1, <1>2, RestedAfter
<1>8. Left' = Left
  BY <1>1, RestedByRest DEF Left, o
<1>9. \A s \in Side : LeftOn(s)' = LeftOn(s)
  BY <1>8 DEF LeftOn
<1>10. QueuesInv'
  BY <1>1, <1>3, <1>6, <1>7 DEF QueuesInv
<1>. QED  BY <1>1, <1>8, <1>9, <1>10 DEF BalanceInv

(* No order in hand expires, and one that leaves has nothing left. *)
LEMMA LeaveBalance ==
  ASSUME ExchangeInv, BalanceInv, Expire \/ Return
  PROVE  BalanceInv'
<1> DEFINE o == orders[running]
<1>1. /\ running # "" /\ running' = ""
      /\ UNCHANGED << books, trades, received >>
      /\ o.orderType = "MARKET" \/ ~ LoopGuard(o)
  BY DEF Expire, Return, MustExpire
<1>2. /\ o \in Order /\ o.orderId \in DOMAIN received
      /\ SameOrder(o, received[o.orderId])
  BY <1>1, HandKnown
<1>3. o.orderType = "LIMIT"
  BY <1>2 DEF BalanceInv, SameOrder
<1>4. o.remainingQuantity = 0
  <2>1. o.remainingQuantity \in Nat
    BY <1>2 DEF Order
  <2>2. ~ LoopGuard(o)
    BY <1>1, <1>3
  <2> HIDE DEF o
  <2>. QED  BY <2>1, <2>2 DEF LoopGuard
<1>5. Left = Rested \cup {o} /\ Left' = Rested
  BY <1>1 DEF Left, Rested
<1>6. o \notin Rested
  BY <1>1, LeftDistinct DEF BalanceInv
<1> HIDE DEF o
<1>7. Left' = Left \ {o} /\ o \in Left
  BY <1>5, <1>6
<1>8. IsFiniteSet(Left')
  BY <1>7, FS_RemoveElement DEF BalanceInv
<1>9. QueuesInv'
  BY <1>1 DEF BalanceInv, QueuesInv
<1>10. ASSUME NEW s \in Side
       PROVE  Offered(received', s) = RemainingIn(LeftOn(s)') + Traded(trades')
  <2>1. /\ IsFiniteSet(LeftOn(s))
        /\ \A x \in LeftOn(s) : x.remainingQuantity \in Nat
        /\ RemainingIn(LeftOn(s)) \in Nat
    BY LeftOnSide
  <2>2. RemainingIn(LeftOn(s)') = RemainingIn(LeftOn(s))
    <3>1. CASE o.side = s
      <4>1. LeftOn(s)' = LeftOn(s) \ {o} /\ o \in LeftOn(s)
        BY <1>7, <3>1 DEF LeftOn
      <4>2. /\ RemainingIn(LeftOn(s) \ {o}) \in Nat
            /\ RemainingIn(LeftOn(s)) = RemainingIn(LeftOn(s) \ {o}) + 0
        BY <1>4, <2>1, <4>1, RemainingLess
      <4>. QED  BY <4>1, <4>2
    <3>2. CASE o.side # s
      <4>1. LeftOn(s)' = LeftOn(s)
        BY <1>7, <3>2 DEF LeftOn
      <4>. QED  BY <4>1
    <3>. QED  BY <3>1, <3>2
  <2>. QED  BY <1>1, <2>2 DEF BalanceInv
<1>. QED  BY <1>1, <1>8, <1>9, <1>10 DEF BalanceInv

(* A trade takes its quantity from what is open on either side. *)
LEMMA TradeBalance ==
  ASSUME ExchangeInv, BalanceInv, ExecuteTrade
  PROVE  BalanceInv'
<1> DEFINE b == books[running]
           o == orders[running]
           c == BookAfterTrade(b, o)
           r == Contra(b, o)
           q == TradeQuantity(b, o)
           f == Filled(r, q)
           g == Filled(o, q)
           t == TradeOf(b, o)
           lo == Lowest(running)
           hi == Highest(running)
<1>1. /\ running # "" /\ MustTrade(b, o)
      /\ books' = [books EXCEPT ![running] = c]
      /\ orders' = [orders EXCEPT ![running] = g]
      /\ trades' = Append(trades, t)
      /\ UNCHANGED << running, received >>
  BY DEF ExecuteTrade
<1>2. /\ running \in Configured /\ running \in DOMAIN books /\ o \in Order
      /\ BookOK(b, running, received) /\ HandOK(o, running, received)
      /\ orders \in [Configured -> Order] /\ trades \in Seq(Trade)
  BY <1>1, HandKnown, Zenon DEF ExchangeInv, TypeOK
<1>3. /\ QueuesInv /\ Indexed(b) /\ InOrder(b) /\ Older(b, o.orderId)
  BY <1>1, <1>2 DEF BalanceInv, QueuesInv
<1>4. /\ lo \in Int /\ hi \in Int /\ b \in Book(lo, hi)
      /\ WellPlaced(b) /\ Reached(b)
  BY <1>2, PriceRange DEF BookOK, HandOK
<1>5. ~ NoContra(b, o) /\ LoopGuard(o)
  BY <1>1 DEF MustTrade, LiveContra
<1> HIDE DEF b, o, lo, hi
<1>6. /\ q \in Nat /\ q > 0 /\ q <= o.remainingQuantity
      /\ q <= r.remainingQuantity /\ r \in Order /\ r.side = Opposite(o.side)
  BY <1>2, <1>4, <1>5, TradeQuantityCorrect, ContraCorrect DEF RestsAt
<1>7. t \in Trade /\ t.quantity = q
  <2>1. t \in Trade
    BY <1>1, <1>2, <1>4, TradeOfCorrect
  <2>. QED  BY <2>1 DEF TradeOf
<1>8. Indexed(c) /\ InOrder(c) /\ Older(c, o.orderId)
  <2>1. c \in Book(lo, hi)
    BY <1>1, <1>2, <1>4, TradeKeeps
  <2>2. /\ \A s \in Side, p \in lo .. hi : Kept(b.levels[s][p], c.levels[s][p])
        /\ c.orderIndex = b.orderIndex
    BY <1>1, <1>2, <1>4, TradeKept
  <2> HIDE DEF c
  <2>. QED  BY <1>3, <1>4, <2>1, <2>2, KeptBook
<1>9. /\ o.remainingQuantity \in Nat /\ r.remainingQuantity \in Nat
       /\ o.side \in Side
  BY <1>2, <1>6 DEF Order
<1> HIDE DEF c, r, q, f, g, t
<1>10. /\ f \in Order /\ f.orderId = r.orderId /\ f.side = r.side
       /\ f.remainingQuantity = r.remainingQuantity - q
       /\ g \in Order /\ g.orderId = o.orderId /\ g.side = o.side
       /\ g.remainingQuantity = o.remainingQuantity - q
  BY <1>2, <1>6, FilledCorrect DEF f, g
<1>11. /\ DOMAIN books' = DOMAIN books /\ books'[running] = c
       /\ \A y \in DOMAIN books \ {running} : books'[y] = books[y]
  BY <1>1, <1>2, RestedAfter
<1>12. orders'[running] = g
  BY <1>1, <1>2
<1>13. /\ Left = Rested \cup {o} /\ Left' = Rested' \cup {g}
  BY <1>1, <1>12 DEF Left, o
<1>14. /\ \A x, z \in Left : x.orderId = z.orderId => x = z
       /\ \A x \in Rested : x.orderId # o.orderId
  BY <1>1, LeftDistinct DEF BalanceInv, o
<1>15. /\ r \in Rested
       /\ Rested' = (Rested \ {r}) \cup {x \in {f} : x.remainingQuantity > 0}
  BY RestedByTrade DEF BalanceInv, b, o, r, q, f
<1>16. /\ \A x \in Left : x \in Order
       /\ r \in Left /\ o \in Left /\ r # o
       /\ \A x \in Left \ {r} : x # f
       /\ \A x \in Left \ {o} : x # g
       /\ Left' = ((Left \ {r, o}) \cup {x \in {f} : x.remainingQuantity > 0})
                    \cup {g}
  <2>1. /\ r \in Left /\ o \in Left /\ r # o
        /\ \A x \in Left \ {r} : x # f
        /\ \A x \in Left \ {o} : x # g
    BY <1>10, <1>13, <1>14, <1>15
  <2>2. \A x \in Left : x \in Order
    BY LeftDistinct DEF BalanceInv
  <2>3. o \notin Rested
    BY <1>14
  <2>. QED  BY <1>13, <1>15, <2>1, <2>2, <2>3
<1>17. IsFiniteSet(Left')
  <2>1. IsFiniteSet(Left)
    BY DEF BalanceInv
  <2>2. IsFiniteSet({f, g}) /\ Left' \subseteq Left \cup {f, g}
    <3>1. IsFiniteSet({f} \cup {g})
      BY FS_Singleton, FS_AddElement
    <3>2. {f} \cup {g} = {f, g}
      OBVIOUS
    <3>. QED  BY <1>16, <3>1, <3>2
  <2>3. IsFiniteSet(Left \cup {f, g})
    BY <2>1, <2>2, FS_Union
  <2>. QED  BY <2>2, <2>3, FS_Subset
<1>18. QueuesInv'
  <2>1. \A y \in DOMAIN books' : Indexed(books'[y]) /\ InOrder(books'[y])
    BY <1>3, <1>8, <1>11 DEF QueuesInv
  <2>2. Older(books'[running'], orders'[running'].orderId)
    BY <1>1, <1>8, <1>10, <1>11, <1>12
  <2>. QED  BY <2>1, <2>2 DEF QueuesInv
<1>19. ASSUME NEW s \in Side
       PROVE  RemainingIn(LeftOn(s)) = RemainingIn(LeftOn(s)') + q
              /\ RemainingIn(LeftOn(s)') \in Nat
  <2> DEFINE S == LeftOn(s)
             T == LeftOn(s)'
  <2>1. /\ IsFiniteSet(S) /\ \A x \in S : x.remainingQuantity \in Nat
        /\ RemainingIn(S) \in Nat
    BY LeftOnSide
  <2>2. f.remainingQuantity \in Nat /\ g.remainingQuantity \in Nat
    BY <1>10 DEF Order
  <2>3. S = {x \in Left : x.side = s} /\ T = {x \in Left' : x.side = s}
    BY DEF LeftOn
  <2> HIDE DEF S, T
  <2>4. CASE o.side = s
    <3>1. r.side # s /\ f.side # s
      BY <1>6, <1>9, <1>10, <2>4 DEF Opposite, Side
    <3>2. /\ T = (S \ {o}) \cup {g} /\ o \in S /\ g \notin S \ {o}
      BY <1>10, <1>16, <2>3, <2>4, <3>1
    <3>3. RemainingIn(T) + o.remainingQuantity = RemainingIn(S) + g.remainingQuantity
      BY <2>1, <2>2, <3>2, RemainingReplace
    <3>4. RemainingIn(T) \in Nat
      <4>1. IsFiniteSet(T) /\ \A x \in T : x.remainingQuantity \in Nat
        BY <2>1, <2>2, <3>2, FS_RemoveElement, FS_AddElement
      <4>. QED  BY <4>1, RemainingType
    <3>. QED  BY <1>6, <1>9, <1>10, <2>1, <3>3, <3>4 DEF S, T
  <2>5. CASE o.side # s
    <3>1. r.side = s /\ f.side = s /\ g.side # s
      BY <1>6, <1>9, <1>10, <2>5 DEF Opposite, Side
    <3>2. T = (S \ {r}) \cup {x \in {f} : x.remainingQuantity > 0}
          /\ r \in S /\ f \notin S \ {r}
      BY <1>16, <2>3, <2>5, <3>1
    <3>3. /\ RemainingIn(S \ {r}) \in Nat
          /\ RemainingIn(S) = RemainingIn(S \ {r}) + r.remainingQuantity
      BY <2>1, <3>2, RemainingLess
    <3>4. RemainingIn(T) = RemainingIn(S \ {r}) + f.remainingQuantity
      <4>1. CASE f.remainingQuantity = 0
        <5>1. T = S \ {r}
          BY <3>2, <4>1
        <5>. QED  BY <3>3, <4>1, <5>1
      <4>2. CASE f.remainingQuantity # 0
        <5>1. T = (S \ {r}) \cup {f}
          BY <2>2, <3>2, <4>2
        <5> DEFINE R == S \ {r}
        <5>2. /\ IsFiniteSet(R) /\ f \notin R
              /\ \A x \in R \cup {f} : x.remainingQuantity \in Nat
          BY <2>1, <2>2, <3>2, FS_RemoveElement
        <5> HIDE DEF R
        <5>3. RemainingIn(R \cup {f}) = RemainingIn(R) + f.remainingQuantity
          BY <5>2, RemainingAdd
        <5>. QED  BY <5>1, <5>3 DEF R
      <4>. QED  BY <4>1, <4>2
    <3> DEFINE n == RemainingIn(S \ {r})
    <3>5. /\ n \in Nat /\ RemainingIn(T) = n + f.remainingQuantity
          /\ RemainingIn(S) = n + r.remainingQuantity
      BY <3>3, <3>4
    <3> HIDE DEF n
    <3>. QED  BY <1>6, <1>9, <1>10, <2>2, <3>5 DEF S, T
  <2>. QED  BY <2>4, <2>5
<1>20. ASSUME NEW s \in Side
       PROVE  Offered(received', s) = RemainingIn(LeftOn(s)') + Traded(trades')
  <2>1. Traded(trades') = Traded(trades) + q /\ Traded(trades) \in Nat
    BY <1>1, <1>2, <1>7, TradedAppend, TradedType
  <2>2. Offered(received', s) = RemainingIn(LeftOn(s)) + Traded(trades)
    BY <1>1 DEF BalanceInv
  <2> DEFINE m == RemainingIn(LeftOn(s)')
             n == Traded(trades)
  <2>3. m \in Nat /\ n \in Nat /\ q \in Nat /\ RemainingIn(LeftOn(s)) = m + q
    BY <1>6, <1>19, <2>1
  <2>4. Offered(received', s) = (m + q) + n /\ Traded(trades') = n + q
    BY <2>1, <2>2, <2>3
  <2> HIDE DEF m, n
  <2>5. (m + q) + n = m + (n + q)
    BY <2>3
  <2>. QED  BY <2>4, <2>5 DEF m
<1>. QED  BY <1>1, <1>17, <1>18, <1>20 DEF BalanceInv

LEMMA LoopBalance ==
  ASSUME ExchangeInv, BalanceInv, Loop
  PROVE  BalanceInv'
BY RestBalance, LeaveBalance, TradeBalance DEF Loop

LEMMA InitBalance == Init => BalanceInv
<1> SUFFICES ASSUME Init PROVE BalanceInv
  OBVIOUS
<1>1. /\ DOMAIN books = {} /\ running = "" /\ trades = << >> /\ received = << >>
  BY DEF Init
<1>2. Left = {} /\ \A s \in Side : LeftOn(s) = {}
  BY <1>1 DEF Left, Rested, LeftOn
<1>3. DOMAIN received = {} /\ DOMAIN trades = {}
  <2>1. DOMAIN << >> = {}
    OBVIOUS
  <2>. QED  BY <1>1, <2>1
<1>4. \A s \in Side : SoundOn(received, s) = {}
  BY <1>3 DEF SoundOn
<1>5. \A s \in Side : Offered(received, s) = RemainingIn(LeftOn(s)) + Traded(trades)
  <2>1. Traded(trades) = 0 /\ \A s \in Side : Offered(received, s) = 0
    BY <1>3, <1>4, QuantityEmpty DEF Offered, Traded
  <2>. QED  BY <1>2, <2>1, RemainingEmpty
<1>6. IsFiniteSet(Left)
  BY <1>2, FS_EmptySet
<1>. QED  BY <1>1, <1>3, <1>5, <1>6 DEF BalanceInv, QueuesInv

(* What the books and the hand say of one side, book by book. *)
LEMMA LeftRests ==
  ASSUME ExchangeInv, NEW s \in Side
  PROVE  LeftOn(s) = (UNION {Resting(books[y], s) : y \in DOMAIN books})
                       \cup {o \in {orders[y] : y \in {running} \ {""}} : o.side = s}
<1>1. ASSUME NEW y \in DOMAIN books
      PROVE  Resting(books[y], s) = {x \in AllResting(books[y]) : x.side = s}
  <2>1. y \in Configured /\ BookOK(books[y], y, received)
    BY DEF ExchangeInv, TypeOK
  <2>2. Lowest(y) \in Int /\ Highest(y) \in Int
    BY <2>1, PriceRange
  <2>. QED  BY <2>1, <2>2, RestingOnSide DEF BookOK
<1>2. UNION {Resting(books[y], s) : y \in DOMAIN books}
        = {x \in UNION {AllResting(books[y]) : y \in DOMAIN books} : x.side = s}
  BY <1>1
<1> DEFINE H == {orders[y] : y \in {running} \ {""}}
<1>3. LeftOn(s) = {x \in Rested : x.side = s} \cup {o \in H : o.side = s}
  <2> HIDE DEF H
  <2>1. Left = Rested \cup H
    BY DEF Left, H
  <2>. QED  BY <2>1 DEF LeftOn
<1>. QED  BY <1>2, <1>3 DEF Rested

(* Every step keeps the balance when clients send limit orders only.       *)
LEMMA NextBalance ==
  ASSUME \A o \in Incoming : o.orderType = "LIMIT",
         ExchangeInv, BalanceInv, [Next]_vars
  PROVE  BalanceInv'
<1>1. ASSUME NEW i \in Incoming, ProcessOrder(Numbered(i)) PROVE BalanceInv'
  <2> DEFINE o == Numbered(i)
  <2>1. received \in Seq(Order)
    BY Zenon DEF ExchangeInv, TypeOK
  <2>2. o \in Order /\ o.orderId = Len(received) + 1
    BY <2>1, NumberedCorrect
  <2>3. o.orderType = "LIMIT"
    <3>1. i \in Order /\ i.orderType = "LIMIT"
      BY ExchangeAssumption
    <3>. QED  BY <3>1 DEF Numbered, Order
  <2>4. ProcessOrder(o)
    BY <1>1
  <2> HIDE DEF o
  <2>. QED  BY <2>2, <2>3, <2>4, ProcessOrderBalance
<1>2. CASE Loop
  BY <1>2, LoopBalance
<1>3. CASE UNCHANGED vars
  <2>1. Left' = Left /\ QueuesInv' = QueuesInv
    BY <1>3 DEF vars, Left, Rested, QueuesInv
  <2>2. \A s \in Side : LeftOn(s)' = LeftOn(s)
    BY <2>1 DEF LeftOn
  <2>3. received' = received /\ trades' = trades
    BY <1>3 DEF vars
  <2>. QED  BY <2>1, <2>2, <2>3 DEF BalanceInv
<1>. QED  BY <1>1, <1>2, <1>3 DEF Next
----------------------------------------------------------------------------
(* No book crosses: the pointers of every book are on its best orders, and *)
(* every bid is below every ask.                                           *)
UncrossedInv == \A y \in DOMAIN books : PointsAtLive(books[y]) /\ Uncrossed(books[y])

LEMMA NewBookUncrossed ==
  ASSUME NEW s \in Configured
  PROVE  LET b == NewBook(Lowest(s), Highest(s)) IN PointsAtLive(b) /\ Uncrossed(b)
<1> DEFINE lo == Lowest(s)
           hi == Highest(s)
           b == NewBook(lo, hi)
<1>1. lo \in Int /\ hi \in Int /\ lo <= hi
  BY PriceRange, Zenon
<1> HIDE DEF lo, hi
<1>2. b \in Book(lo, hi) /\ \A t \in Side, p \in lo .. hi : b.levels[t][p] = << >>
  BY <1>1, NewBookCorrect
<1>3. Prices(b) = lo .. hi
  BY <1>1, <1>2, BookFields
<1>4. PointsAtLive(b)
  BY DEF NewBook, PointsAtLive, WorstPrice, Side
<1> HIDE DEF b
<1>5. Uncrossed(b)
  BY <1>2, <1>3 DEF Uncrossed, Occupied, Side
<1>. QED  BY <1>4, <1>5 DEF b, lo, hi

LEMMA ProcessOrderUncrossed ==
  ASSUME ExchangeInv, UncrossedInv, NEW o \in Order, ProcessOrder(o)
  PROVE  UncrossedInv'
<1>1. CASE Reject(o)
  BY <1>1 DEF Reject, UncrossedInv
<1>2. CASE Dispatch(o)
  <2> DEFINE y == o.symbol
             b == BookFor(y)
  <2>1. /\ Reason(o) = "none"
        /\ books' = [w \in DOMAIN books \cup {y} |-> IF w = y THEN b ELSE books[w]]
    BY <1>2 DEF Dispatch
  <2>2. y \in Configured
    BY <2>1, ReasonCorrect DEF Sound
  <2>3. PointsAtLive(b) /\ Uncrossed(b)
    BY <2>2, NewBookUncrossed DEF BookFor, UncrossedInv
  <2> HIDE DEF y, b
  <2>. QED  BY <2>1, <2>3 DEF UncrossedInv
<1>. QED  BY <1>1, <1>2 DEF ProcessOrder

LEMMA LoopUncrossed ==
  ASSUME ExchangeInv, UncrossedInv, Loop
  PROVE  UncrossedInv'
<1> DEFINE b == books[running]
           o == orders[running]
           lo == Lowest(running)
           hi == Highest(running)
<1>1. CASE Expire \/ Return
  BY <1>1 DEF Expire, Return, UncrossedInv
<1>2. running # ""
  BY DEF Loop, Rest, Expire, ExecuteTrade, Return
<1>3. /\ running \in Configured /\ running \in DOMAIN books /\ o \in Order
      /\ BookOK(b, running, received) /\ HandOK(o, running, received)
  BY <1>2, HandKnown DEF ExchangeInv
<1>4. /\ lo \in Int /\ hi \in Int /\ b \in Book(lo, hi) /\ InHand(o, lo, hi)
      /\ WellPlaced(b) /\ Reached(b)
  BY <1>3, PriceRange DEF BookOK, HandOK
<1>5. PointsAtLive(b) /\ Uncrossed(b)
  BY <1>3 DEF UncrossedInv
<1> HIDE DEF b, o, lo, hi
<1>6. ASSUME NEW c, books' = [books EXCEPT ![running] = c],
             PointsAtLive(c), Uncrossed(c)
      PROVE  UncrossedInv'
  BY <1>6 DEF UncrossedInv
<1>7. CASE Rest
  <2>1. MustRest(b, o) /\ books' = [books EXCEPT ![running] = AddOrder(b, o)]
    BY <1>7 DEF Rest, b, o
  <2>2. o.price \in lo .. hi /\ RestsAt(o, o.side, o.price)
    BY <1>3, <1>4, <2>1, InHandRests
  <2>3. PointsAtLive(AddOrder(b, o))
    BY <1>3, <1>4, <1>5, <2>2, RestKeeps
  <2>4. Uncrossed(AddOrder(b, o))
    BY <1>3, <1>4, <1>5, <2>1, RestUncrossed
  <2>. QED  BY <1>6, <2>1, <2>3, <2>4
<1>8. CASE ExecuteTrade
  <2>1. MustTrade(b, o) /\ books' = [books EXCEPT ![running] = BookAfterTrade(b, o)]
    BY <1>8 DEF ExecuteTrade, b, o
  <2>2. PointsAtLive(BookAfterTrade(b, o)) /\ Uncrossed(BookAfterTrade(b, o))
    BY <1>3, <1>4, <1>5, <2>1, TradeKeeps
  <2>. QED  BY <1>6, <2>1, <2>2
<1>. QED  BY <1>1, <1>7, <1>8 DEF Loop

LEMMA InitUncrossed == Init => UncrossedInv
BY DEF Init, UncrossedInv

LEMMA NextUncrossed ==
  ASSUME ExchangeInv, UncrossedInv, [Next]_vars
  PROVE  UncrossedInv'
<1>1. ASSUME NEW i \in Incoming, ProcessOrder(Numbered(i)) PROVE UncrossedInv'
  <2>1. received \in Seq(Order)
    BY Zenon DEF ExchangeInv, TypeOK
  <2>2. Numbered(i) \in Order
    BY <2>1, NumberedCorrect
  <2>. QED  BY <1>1, <2>2, ProcessOrderUncrossed
<1>2. CASE UNCHANGED vars
  BY <1>2 DEF vars, UncrossedInv
<1>. QED  BY <1>1, <1>2, LoopUncrossed DEF Next

(* Any bid rests below any ask of its book. *)
LEMMA BidsBelowAsks ==
  ASSUME ExchangeInv, UncrossedInv, NEW y \in DOMAIN books,
         NEW x \in Resting(books[y], "BUY"), NEW z \in Resting(books[y], "SELL")
  PROVE  x.price < z.price
<1> DEFINE b == books[y]
           lo == Lowest(y)
           hi == Highest(y)
<1>1. y \in Configured /\ BookOK(b, y, received) /\ Uncrossed(b)
  BY DEF ExchangeInv, TypeOK, UncrossedInv
<1>2. lo \in Int /\ hi \in Int /\ b \in Book(lo, hi) /\ WellPlaced(b)
  BY <1>1, PriceRange DEF BookOK
<1> HIDE DEF lo, hi
<1>3. PICK p \in lo .. hi : Occupied(b, "BUY", p) /\ RestsAt(x, "BUY", p)
  BY <1>2, RestingAt DEF Side
<1>4. PICK q \in lo .. hi : Occupied(b, "SELL", q) /\ RestsAt(z, "SELL", q)
  BY <1>2, RestingAt DEF Side
<1>5. Prices(b) = lo .. hi
  BY <1>2, BookFields
<1>. QED  BY <1>1, <1>3, <1>4, <1>5 DEF Uncrossed, RestsAt
----------------------------------------------------------------------------
(* The order a trade takes is the first of its side: no order that rests   *)
(* there has a better price, and none with its price came before it.       *)
LEMMA TradesWithFirst ==
  ASSUME ExchangeInv, QueuesInv, ExecuteTrade,
         NEW x \in Resting(books[running], Opposite(orders[running].side))
  PROVE  LET s == Opposite(orders[running].side)
             t == trades'[Len(trades')]
             w == IF s = "SELL" THEN t.sellOrderId ELSE t.buyOrderId
         IN  /\ s \in Side /\ w \in DOMAIN received
             /\ x.orderId \in DOMAIN received
             /\ ~ Better(s, received[x.orderId].price, received[w].price)
             /\ received[w].price = received[x.orderId].price => w <= x.orderId
<1> DEFINE b == books[running]
           o == orders[running]
           r == Contra(b, o)
           s == Opposite(o.side)
           lo == Lowest(running)
           hi == Highest(running)
           t == TradeOf(b, o)
           w == IF s = "SELL" THEN t.sellOrderId ELSE t.buyOrderId
<1>1. /\ running # "" /\ MustTrade(b, o) /\ trades' = Append(trades, t)
  BY DEF ExecuteTrade
<1>2. /\ running \in Configured /\ running \in DOMAIN books /\ o \in Order
      /\ BookOK(b, running, received) /\ HandOK(o, running, received)
      /\ trades \in Seq(Trade)
  BY <1>1, HandKnown, Zenon DEF ExchangeInv, TypeOK
<1>3. /\ lo \in Int /\ hi \in Int /\ b \in Book(lo, hi)
      /\ WellPlaced(b) /\ Reached(b) /\ InOrder(b)
  BY <1>2, PriceRange DEF BookOK, QueuesInv
<1>4. ~ NoContra(b, o)
  BY <1>1 DEF MustTrade, LiveContra
<1>5. o.side \in Side /\ s \in Side
  BY <1>2 DEF Order, Opposite, Side
<1>6. trades'[Len(trades')] = t
  <2>1. t \in Trade
    BY <1>1, <1>2, <1>3, TradeOfCorrect
  <2> DEFINE ts == trades
  <2>2. ts \in Seq(Trade)
    BY <1>2
  <2> HIDE DEF t, ts
  <2>3. Append(ts, t)[Len(Append(ts, t))] = t
    BY <2>1, <2>2
  <2>. QED  BY <1>1, <2>3 DEF ts
<1>7. w = r.orderId
  BY <1>5 DEF TradeOf, Opposite, Side
<1>8. /\ x.side = s
      /\ Better(x.side, r.price, x.price)
         \/ (r.price = x.price /\ (r = x \/ r.orderId < x.orderId))
  BY <1>2, <1>3, <1>4, ContraFirst
<1>9. r \in AllResting(b)
  BY <1>1, <1>2, <1>3, TradeReplacesOrder
<1>10. x \in AllResting(b)
  BY <1>5 DEF AllResting, Side
<1> HIDE DEF r, s, t, w, b, o
<1>11. /\ r \in Order /\ r.orderId \in DOMAIN received
       /\ SameOrder(r, received[r.orderId])
  BY <1>2, <1>9, RestedKnown DEF b
<1>12. /\ x \in Order /\ x.orderId \in DOMAIN received
       /\ SameOrder(x, received[x.orderId])
  BY <1>2, <1>10, RestedKnown DEF b
<1>13. /\ received[w].price = r.price /\ received[x.orderId].price = x.price
       /\ r.price \in Int /\ x.price \in Int
       /\ r.orderId \in Nat /\ x.orderId \in Nat
  BY <1>7, <1>11, <1>12 DEF SameOrder, Order
<1>14. ~ Better(s, received[x.orderId].price, received[w].price)
  BY <1>8, <1>13 DEF Better
<1>15. received[w].price = received[x.orderId].price => w <= x.orderId
  BY <1>7, <1>8, <1>13 DEF Better
<1>. QED  BY <1>5, <1>6, <1>7, <1>11, <1>12, <1>14, <1>15 DEF s, o, w
----------------------------------------------------------------------------
(* The steps an engine may still take before it returns, but for those     *)
(* that a resting order answers for.                                       *)
EngineWork ==
  IF running = "" THEN 0 ELSE IF LoopGuard(orders[running]) THEN 2 ELSE 1

LEMMA EngineWorkIs ==
  /\ EngineWork \in {0, 1, 2} /\ EngineWork' \in {0, 1, 2}
  /\ running = "" => EngineWork = 0
  /\ running' = "" => EngineWork' = 0
  /\ running # "" => EngineWork \in {1, 2}
  /\ running # "" /\ LoopGuard(orders[running]) => EngineWork = 2
  /\ running' # "" /\ ~ LoopGuard(orders'[running']) => EngineWork' = 1
BY Zenon DEF EngineWork, LoopGuard

LEMMA RestedFinite ==
  ASSUME BalanceInv
  PROVE  IsFiniteSet(Rested) /\ Cardinality(Rested) \in Nat
<1>1. Rested \subseteq Left /\ IsFiniteSet(Left)
  BY DEF Left, BalanceInv
<1>2. IsFiniteSet(Rested)
  BY <1>1, FS_Subset
<1>. QED  BY <1>2, FS_CardinalityType

(* A call that begins finds as many resting orders as the last one left.   *)
LEMMA ProcessOrderWork ==
  ASSUME ExchangeInv, NEW o \in Order, ProcessOrder(o)
  PROVE  EngineWork = 0 /\ EngineWork' \in {0, 1, 2} /\ Rested' = Rested
<1>1. EngineWork = 0 /\ EngineWork' \in {0, 1, 2}
  BY EngineWorkIs DEF ProcessOrder
<1>2. CASE Reject(o)
  BY <1>1, <1>2 DEF Reject, Rested
<1>3. CASE Dispatch(o)
  <2> DEFINE y == o.symbol
             b == BookFor(y)
  <2>1. /\ Reason(o) = "none"
        /\ books' = [w \in DOMAIN books \cup {y} |-> IF w = y THEN b ELSE books[w]]
    BY <1>3 DEF Dispatch
  <2>2. y \in Configured
    BY <2>1, ReasonCorrect DEF Sound
  <2>3. AllResting(b) = IF y \in DOMAIN books THEN AllResting(books[y]) ELSE {}
    BY <2>2, NewBookQueues DEF BookFor
  <2> HIDE DEF y, b
  <2>4. \A w \in DOMAIN books : AllResting(books'[w]) = AllResting(books[w])
    BY <2>1, <2>3
  <2>5. y \notin DOMAIN books => AllResting(books'[y]) = {}
    BY <2>1, <2>3
  <2>6. DOMAIN books' = DOMAIN books \cup {y}
    BY <2>1
  <2>7. Rested' = Rested
    BY <2>4, <2>5, <2>6 DEF Rested
  <2>. QED  BY <1>1, <2>7
<1>. QED  BY <1>2, <1>3 DEF ProcessOrder

(* A trade that leaves the order in hand something to trade removes a      *)
(* resting order.                                                          *)
LEMMA TradeWork ==
  ASSUME ExchangeInv, BalanceInv, ExecuteTrade
  PROVE  /\ Cardinality(Rested') \in Nat
         /\ Cardinality(Rested') <= Cardinality(Rested)
         /\ LoopGuard(orders'[running'])
              => Cardinality(Rested') = Cardinality(Rested) - 1
<1> DEFINE b == books[running]
           o == orders[running]
           q == TradeQuantity(b, o)
           r == Contra(b, o)
           f == Filled(r, q)
           g == Filled(o, q)
           lo == Lowest(running)
           hi == Highest(running)
<1>1. /\ running # "" /\ MustTrade(b, o) /\ running' = running
      /\ orders' = [orders EXCEPT ![running] = g]
  BY DEF ExecuteTrade
<1>2. /\ running \in Configured /\ running \in DOMAIN books /\ o \in Order
      /\ BookOK(b, running, received) /\ orders \in [Configured -> Order]
  BY <1>1, HandKnown, Zenon DEF ExchangeInv, TypeOK
<1>3. /\ lo \in Int /\ hi \in Int /\ b \in Book(lo, hi) /\ WellPlaced(b)
  BY <1>2, PriceRange DEF BookOK
<1>4. /\ r \in Rested
      /\ Rested' = (Rested \ {r}) \cup {x \in {f} : x.remainingQuantity > 0}
  BY RestedByTrade DEF BalanceInv
<1>5. orders'[running'] = g
  BY <1>1, <1>2
<1> HIDE DEF b, o, lo, hi, q, r, f, g
<1>6. LoopGuard(g) => f.remainingQuantity = 0
  <2> SUFFICES ASSUME LoopGuard(g) PROVE f.remainingQuantity = 0
    OBVIOUS
  <2>1. q = r.remainingQuantity
    BY <1>1, <1>2, <1>3, TradeRemovesTop DEF g, q, r
  <2>2. r \in Order
    BY <1>4, LeftDistinct DEF BalanceInv, Left
  <2>. QED  BY <2>1, <2>2 DEF f, Filled, Order
<1> DEFINE S == Rested \ {r}
           n == Cardinality(Rested)
<1>7. IsFiniteSet(Rested) /\ n \in Nat
  BY RestedFinite
<1>8. /\ IsFiniteSet(S) /\ Cardinality(S) = n - 1
  BY <1>4, <1>7, FS_RemoveElement
<1>9. Cardinality(S) \in Nat
  BY <1>8, FS_CardinalityType
<1>10. Rested' = S \/ Rested' = S \cup {f}
  BY <1>4
<1>11. f.remainingQuantity = 0 => Rested' = S
  BY <1>4
<1> HIDE DEF S, n
<1>12. Cardinality(S \cup {f}) = n \/ Cardinality(S \cup {f}) = n - 1
  <2>1. Cardinality(S \cup {f})
          = IF f \in S THEN Cardinality(S) ELSE Cardinality(S) + 1
    BY <1>8, FS_AddElement
  <2>. QED  BY <1>7, <1>8, <2>1
<1>13. Cardinality(Rested') = n \/ Cardinality(Rested') = n - 1
  BY <1>8, <1>10, <1>12
<1>14. Cardinality(Rested') \in Nat /\ Cardinality(Rested') <= n
  BY <1>7, <1>8, <1>9, <1>13
<1>15. LoopGuard(g) => Cardinality(Rested') = n - 1
  BY <1>6, <1>8, <1>11
<1>. QED  BY <1>5, <1>14, <1>15 DEF n

(* Each iteration of an engine leaves less to do: it is the last, or a     *)
(* resting order is gone.                                                  *)
LEMMA LoopWork ==
  ASSUME ExchangeInv, BalanceInv, Loop
  PROVE  /\ EngineWork \in Nat /\ EngineWork' \in Nat
         /\ Cardinality(Rested) \in Nat /\ Cardinality(Rested') \in Nat
         /\ EngineWork' + Cardinality(Rested') < EngineWork + Cardinality(Rested)
<1> DEFINE n == Cardinality(Rested)
           m == Cardinality(Rested')
           w == EngineWork
           x == EngineWork'
<1>1. w \in {0, 1, 2} /\ x \in {0, 1, 2}
  BY EngineWorkIs
<1>2. IsFiniteSet(Rested) /\ n \in Nat
  BY RestedFinite
<1> SUFFICES m \in Nat /\ x + m < w + n
  BY <1>1, <1>2
<1>3. CASE Expire \/ Return
  <2>1. Rested' = Rested
    BY <1>3 DEF Expire, Return, Rested
  <2>2. x = 0 /\ w \in {1, 2}
    BY <1>3, EngineWorkIs DEF Expire, Return
  <2>3. m = n
    BY <2>1
  <2> HIDE DEF n, m, w, x
  <2>. QED  BY <1>2, <2>2, <2>3
<1>4. CASE Rest
  <2>1. x = 0 /\ w = 2
    BY <1>4, EngineWorkIs DEF Rest, MustRest
  <2>2. orders[running] \notin Rested
    <3>1. running # ""
      BY <1>4 DEF Rest
    <3>. QED  BY <3>1, LeftDistinct DEF BalanceInv
  <2>3. Rested' = Rested \cup {orders[running]}
    BY <1>4, RestedByRest
  <2>4. m = n + 1
    BY <1>2, <2>2, <2>3, FS_AddElement
  <2> HIDE DEF n, m, w, x
  <2>. QED  BY <1>1, <1>2, <2>1, <2>4
<1>5. CASE ExecuteTrade
  <2>1. /\ m \in Nat /\ m <= n
        /\ LoopGuard(orders'[running']) => m = n - 1
    BY <1>5, TradeWork
  <2>2. w = 2 /\ running' # ""
    BY <1>5, EngineWorkIs DEF ExecuteTrade, MustTrade
  <2>3. m \in Nat /\ m <= n /\ (m = n - 1 \/ x = 1)
    BY <2>1, <2>2, EngineWorkIs
  <2>4. w = 2 /\ n \in Nat /\ (x = 0 \/ x = 1 \/ x = 2)
    BY <1>1, <1>2, <2>2
  <2> HIDE DEF n, m, w, x
  <2>5. CASE m = n - 1
    BY <2>3, <2>4, <2>5
  <2>6. CASE x = 1
    BY <2>3, <2>4, <2>6
  <2>. QED  BY <2>3, <2>5, <2>6
<1>. QED  BY <1>3, <1>4, <1>5 DEF Loop
============================================================================
