------------------------ MODULE MatchingEngineProofs ------------------------
(***************************************************************************)
(* The safety of the matching engine, for every price range, every set of  *)
(* order ids and quantities, and any number of orders: under any cancels   *)
(* and reuse of ids (Inv), when nothing is cancelled (TradingInv), and,    *)
(* when ids are unique as those of the feed are, over the life of an order *)
(* from the call that brings it to its last trade or its cancel            *)
(* (HistoryInv).                                                           *)
(***************************************************************************)
EXTENDS MatchingEngine, OrderBookProofs

OrderInHand == busy => InHand(order, MinPrice, MaxPrice)

(* The inductive invariant under any cancels. *)
Inv == TypeOK /\ OrderInHand /\ WellPlaced(book) /\ Reached(book)

(* The inductive invariant when nothing is cancelled. *)
TradingInv == Inv /\ PointsAtLive(book) /\ Uncrossed(book)

(* A cancelled id either waits in cancelledOrders for its order, or has    *)
(* had its order, and no other will come.                                  *)
CancelsKept(b, rs, ids) ==
  \A id \in ids :
    \/ id \in b.cancelledOrders
    \/ \E i \in DOMAIN rs : rs[i].orderId = id

(* The order in hand came from a client, is not cancelled, and came after  *)
(* all that rest.                                                          *)
HandTraced ==
  busy => /\ Came(received, order)
          /\ order.orderId \notin cancelled
          /\ Older(book, order.orderId)

(* The inductive invariant when ids are unique. *)
HistoryInv ==
  /\ Inv
  /\ Increasing(received)
  /\ Traced(book, received) /\ Indexed(book) /\ InOrder(book)
  /\ NoneOf(book, cancelled)
  /\ CancelsKept(book, received, cancelled)
  /\ book.cancelledOrders \subseteq cancelled
  /\ HandTraced
  /\ \A n \in DOMAIN trades : Within(trades[n], received)
----------------------------------------------------------------------------
(* The invariant holds at the start. *)
LEMMA InitInv == Init => TradingInv
<1> SUFFICES ASSUME Init PROVE TradingInv
  OBVIOUS
<1> USE EngineAssumption
<1>1. /\ book \in Book(MinPrice, MaxPrice)
      /\ \A s \in Side, p \in MinPrice .. MaxPrice : book.levels[s][p] = << >>
  BY NewBookCorrect DEF Init
<1>2. Prices(book) = MinPrice .. MaxPrice
  BY <1>1, BookFields
<1>3. TypeOK
  <2>1. EmptyOrder \in Order
    BY DEF EmptyOrder, Order, Side, OrderType, Status, SymbolName
  <2>2. busy \in BOOLEAN
    BY Zenon DEF Init
  <2>3. trades \in Seq(Trade) /\ received \in Seq(NewOrders)
    BY DEF Init
  <2>. QED  BY <1>1, <2>1, <2>2, <2>3 DEF TypeOK, Init
<1>4. OrderInHand
  BY DEF OrderInHand, Init
<1>5. WellPlaced(book) /\ Reached(book) /\ Uncrossed(book)
  BY <1>1, <1>2 DEF WellPlaced, Reached, Uncrossed, Occupied, Side
<1>6. PointsAtLive(book)
  BY DEF Init, NewBook, PointsAtLive, WorstPrice, Side
<1>. QED  BY <1>3, <1>4, <1>5, <1>6 DEF TradingInv, Inv

(* Every order a client may send is an Order. *)
LEMMA NewOrdersAreOrders ==
  ASSUME NEW o \in NewOrders
  PROVE  /\ o \in Order
         /\ o.price \in MinPrice .. MaxPrice
         /\ o.orderId \in OrderIds
         /\ o.quantity > 0 /\ o.remainingQuantity = o.quantity
         /\ o.status = "NEW"
<1>1. PICK s \in Side, p \in MinPrice .. MaxPrice, q \in Quantities,
           t \in OrderTypes, i \in OrderIds :
        o = [side |-> s, symbol |-> Symbol, price |-> p, quantity |-> q,
             orderType |-> t, orderId |-> i, remainingQuantity |-> q,
             status |-> "NEW"]
  BY DEF NewOrders
<1>2. /\ Symbol \in Symbols /\ p \in Int /\ q \in Nat /\ q > 0
      /\ t \in OrderType /\ i \in Nat
  BY EngineAssumption, OrderIdsAssumption
<1>3. o \in Order
  BY <1>1, <1>2 DEF Order, Status, SymbolName
<1>. QED  BY <1>1, <1>2, <1>3

(* Every step keeps the invariant, and keeps the invariant of trading      *)
(* unless it is a cancel.                                                  *)
LEMMA NextInv ==
  ASSUME Inv, [Next]_vars
  PROVE  /\ Inv'
         /\ TradingInv /\ CancelIds = {} => TradingInv'
<1> USE EngineAssumption
<1>1. /\ book \in Book(MinPrice, MaxPrice) /\ order \in Order
      /\ busy \in BOOLEAN /\ trades \in Seq(Trade)
      /\ received \in Seq(NewOrders) /\ cancelled \subseteq CancelIds
      /\ WellPlaced(book) /\ Reached(book)
  BY DEF Inv, TypeOK
<1>2. TradingInv => PointsAtLive(book) /\ Uncrossed(book)
  BY DEF TradingInv
<1>3. ASSUME NEW o \in NewOrders, ProcessOrder(o)
      PROVE  Inv' /\ (TradingInv => TradingInv')
  <2>1. /\ book' = book /\ order' = o /\ trades' = trades
        /\ cancelled' = cancelled /\ received' = Append(received, o)
    BY <1>3 DEF ProcessOrder
  <2>2. busy' \in BOOLEAN
    BY <1>3, Zenon DEF ProcessOrder, IsCancelled
  <2>3. TypeOK'
    BY <1>1, <2>1, <2>2, NewOrdersAreOrders DEF TypeOK
  <2>4. OrderInHand'
    <3>1. /\ o.price \in MinPrice .. MaxPrice /\ o.orderId \in OrderIds
          /\ o.quantity \in Nat /\ o.quantity > 0
          /\ o.remainingQuantity = o.quantity /\ o.status = "NEW"
      BY NewOrdersAreOrders DEF Order
    <3>. QED  BY <2>1, <3>1 DEF OrderInHand, InHand
  <2>. QED  BY <1>1, <1>2, <2>1, <2>3, <2>4 DEF Inv, TradingInv
<1>4. ASSUME Rest PROVE Inv' /\ (TradingInv => TradingInv')
  <2>1. /\ busy /\ MustRest(book, order)
        /\ book' = AddOrder(book, order) /\ busy' = FALSE /\ order' = order
        /\ trades' = trades /\ received' = received /\ cancelled' = cancelled
    BY <1>4, Zenon DEF Rest
  <2>2. /\ order.price \in MinPrice .. MaxPrice
        /\ RestsAt(order, order.side, order.price)
    BY <1>1, <2>1, InHandRests DEF Inv, OrderInHand
  <2>3. order.orderId \in OrderIds
    BY <2>2 DEF RestsAt
  <2>4. TypeOK'
    BY <1>1, <2>1, <2>2, <2>3, AddOrderCorrect DEF TypeOK
  <2>5. /\ WellPlaced(book') /\ Reached(book')
        /\ PointsAtLive(book) => PointsAtLive(book')
    BY <1>1, <2>1, <2>2, RestKeeps
  <2>6. TradingInv => Uncrossed(book')
    BY <1>1, <1>2, <2>1, RestUncrossed DEF Inv, OrderInHand
  <2>7. OrderInHand'
    BY <2>1 DEF OrderInHand
  <2>. QED  BY <1>2, <2>4, <2>5, <2>6, <2>7 DEF Inv, TradingInv
<1>5. ASSUME Expire PROVE Inv' /\ (TradingInv => TradingInv')
  <2>1. /\ book' = book /\ busy' = FALSE
        /\ order' = [order EXCEPT !.status = "CANCELLED"]
        /\ trades' = trades /\ received' = received /\ cancelled' = cancelled
    BY <1>5, Zenon DEF Expire
  <2>2. order' \in Order
    BY <1>1, <2>1 DEF Order, Status
  <2>3. TypeOK' /\ OrderInHand'
    BY <1>1, <2>1, <2>2 DEF TypeOK, OrderInHand
  <2>. QED  BY <1>1, <1>2, <2>1, <2>3 DEF Inv, TradingInv
<1>6. ASSUME SkipCancelled PROVE Inv' /\ (TradingInv => TradingInv')
  <2>1. /\ book' = RemoveTop(book, Opposite(order.side))
        /\ UNCHANGED << order, busy, trades, received, cancelled >>
    BY <1>6 DEF SkipCancelled
  <2>2. Opposite(order.side) \in Side
    BY DEF Opposite, Side
  <2>3. /\ book' \in Book(MinPrice, MaxPrice)
        /\ WellPlaced(book') /\ Reached(book')
        /\ PointsAtLive(book) => PointsAtLive(book')
        /\ Uncrossed(book) => Uncrossed(book')
    BY <1>1, <2>1, <2>2, RemoveTopKeeps
  <2>4. TypeOK' /\ OrderInHand'
    BY <2>1, <2>3 DEF Inv, TypeOK, OrderInHand
  <2>. QED  BY <1>2, <2>3, <2>4 DEF Inv, TradingInv
<1>7. ASSUME ExecuteTrade PROVE Inv' /\ (TradingInv => TradingInv')
  <2> DEFINE q == TradeQuantity(book, order)
  <2>1. /\ busy /\ MustTrade(book, order)
        /\ book' = BookAfterTrade(book, order)
        /\ order' = Filled(order, q)
        /\ trades' = Append(trades, TradeOf(book, order))
        /\ UNCHANGED << busy, received, cancelled >>
    BY <1>7 DEF ExecuteTrade
  <2>3. order' \in Order /\ InHand(order', MinPrice, MaxPrice)
    BY <1>1, <2>1, InHandTrades DEF Inv, OrderInHand
  <2>4. /\ book' \in Book(MinPrice, MaxPrice)
        /\ WellPlaced(book') /\ Reached(book')
        /\ PointsAtLive(book) => PointsAtLive(book')
        /\ Uncrossed(book) => Uncrossed(book')
    BY <1>1, <2>1, TradeKeeps
  <2>5. TypeOK'
    <3>1. trades' \in Seq(Trade)
      BY <1>1, <2>1, TradeOfCorrect
    <3>. QED  BY <1>1, <2>1, <2>3, <2>4, <3>1 DEF TypeOK
  <2>6. OrderInHand'
    BY <2>3 DEF OrderInHand
  <2>. QED  BY <1>2, <2>4, <2>5, <2>6 DEF Inv, TradingInv
<1>8. ASSUME Return PROVE Inv' /\ (TradingInv => TradingInv')
  <2>1. busy' = FALSE /\ UNCHANGED << book, order, trades, received, cancelled >>
    BY <1>8, Zenon DEF Return
  <2>2. TypeOK' /\ OrderInHand'
    BY <1>1, <2>1 DEF TypeOK, OrderInHand
  <2>. QED  BY <1>1, <1>2, <2>1, <2>2 DEF Inv, TradingInv
<1>9. ASSUME NEW id \in CancelIds, Cancel(id) PROVE Inv'
  <2>1. /\ ~ busy /\ book' = CancelOrder(book, id)
        /\ cancelled' = cancelled \cup {id}
        /\ UNCHANGED << order, busy, trades, received >>
    BY <1>9 DEF Cancel
  <2>2. id \in OrderIds
    OBVIOUS
  <2>3. /\ book' \in Book(MinPrice, MaxPrice)
        /\ book'.best = book.best
        /\ \A s \in Side, p \in MinPrice .. MaxPrice :
             \A j \in DOMAIN book'.levels[s][p] :
               \E k \in DOMAIN book.levels[s][p] :
                 book'.levels[s][p][j] = book.levels[s][p][k]
    BY <1>1, <2>1, <2>2, CancelOrderCorrect
  <2>4. /\ WellPlaced(book')
        /\ \A s \in Side, p \in MinPrice .. MaxPrice :
             Occupied(book', s, p) => Occupied(book, s, p)
    BY <1>1, <2>3, FewerOrders
  <2>5. Prices(book) = MinPrice .. MaxPrice /\ Prices(book') = MinPrice .. MaxPrice
    BY <1>1, <2>3, BookFields
  <2>6. Reached(book')
    BY <1>1, <2>3, <2>4, <2>5 DEF Reached
  <2>7. TypeOK' /\ OrderInHand'
    BY <1>1, <2>1, <2>3 DEF TypeOK, OrderInHand
  <2>. QED  BY <2>4, <2>6, <2>7 DEF Inv
<1>10. ASSUME UNCHANGED vars PROVE Inv' /\ (TradingInv => TradingInv')
  BY <1>10 DEF vars, Inv, TradingInv, TypeOK, OrderInHand
<1>. QED  BY <1>3, <1>4, <1>5, <1>6, <1>7, <1>8, <1>9, <1>10 DEF Next, Loop
----------------------------------------------------------------------------
(* The places of a book's queues are finitely many. *)
LEMMA PlacesFinite ==
  ASSUME NEW lo \in Int, NEW hi \in Int, NEW b \in Book(lo, hi), NEW s \in Side
  PROVE  IsFiniteSet(Places(b, s)) /\ Cardinality(Places(b, s)) \in Nat
<1> DEFINE At(p) == {<< p, i >> : i \in DOMAIN b.levels[s][p]}
           f == [p \in lo .. hi |-> At(p)]
           R == {At(p) : p \in lo .. hi}
<1>1. Prices(b) = lo .. hi
  BY BookFields
<1>2. ASSUME NEW p \in lo .. hi PROVE IsFiniteSet(At(p))
  <2>1. b.levels[s][p] \in Seq(Order)
    BY BookFields
  <2>2. DOMAIN b.levels[s][p] = 1 .. Len(b.levels[s][p])
        /\ Len(b.levels[s][p]) \in Nat
    BY <2>1
  <2> DEFINE g == [i \in 1 .. Len(b.levels[s][p]) |-> << p, i >>]
  <2>3. g \in Surjection(1 .. Len(b.levels[s][p]), At(p))
    BY <2>2, Zenon DEF Surjection
  <2>4. IsFiniteSet(1 .. Len(b.levels[s][p]))
    BY <2>2, FS_Interval
  <2> HIDE DEF g, At
  <2>. QED  BY <2>3, <2>4, FS_Surjection
<1>3. IsFiniteSet(R)
  <2>1. f \in Surjection(lo .. hi, R)
    BY Zenon DEF Surjection
  <2>2. IsFiniteSet(lo .. hi)
    BY FS_Interval
  <2> HIDE DEF f, R
  <2>. QED  BY <2>1, <2>2, FS_Surjection
<1>4. \A T \in R : IsFiniteSet(T)
  BY <1>2
<1>5. Places(b, s) = UNION R
  BY <1>1 DEF Places
<1>6. IsFiniteSet(Places(b, s))
  BY <1>3, <1>4, <1>5, FS_UNION
<1>. QED  BY <1>6, FS_CardinalityType

(* Shorter queues have fewer places: no more if no queue is longer, and    *)
(* fewer if one of them is shorter.                                        *)
LEMMA PlacesFewer ==
  ASSUME NEW lo \in Int, NEW hi \in Int,
         NEW b \in Book(lo, hi), NEW c \in Book(lo, hi), NEW s \in Side,
         \A p \in lo .. hi : Len(c.levels[s][p]) <= Len(b.levels[s][p])
  PROVE  /\ Cardinality(Places(c, s)) <= Cardinality(Places(b, s))
         /\ \A p \in lo .. hi : Len(c.levels[s][p]) < Len(b.levels[s][p])
              => Cardinality(Places(c, s)) < Cardinality(Places(b, s))
<1>1. \A p \in lo .. hi :
        /\ DOMAIN b.levels[s][p] = 1 .. Len(b.levels[s][p])
        /\ DOMAIN c.levels[s][p] = 1 .. Len(c.levels[s][p])
        /\ Len(b.levels[s][p]) \in Nat /\ Len(c.levels[s][p]) \in Nat
  <2>1. \A p \in lo .. hi : b.levels[s][p] \in Seq(Order) /\ c.levels[s][p] \in Seq(Order)
    BY BookFields
  <2>. QED  BY <2>1
<1>2. Prices(b) = lo .. hi /\ Prices(c) = lo .. hi
  BY BookFields
<1>3. \A p \in lo .. hi : DOMAIN c.levels[s][p] \subseteq DOMAIN b.levels[s][p]
  BY <1>1
<1>4. ASSUME NEW x \in Places(c, s) PROVE x \in Places(b, s)
  <2>1. PICK p \in lo .. hi : \E i \in DOMAIN c.levels[s][p] : x = << p, i >>
    BY <1>2 DEF Places
  <2>2. \E i \in DOMAIN b.levels[s][p] : x = << p, i >>
    BY <1>3, <2>1
  <2>. QED  BY <1>2, <2>2 DEF Places
<1>5. IsFiniteSet(Places(b, s)) /\ Cardinality(Places(b, s)) \in Nat
      /\ Cardinality(Places(c, s)) \in Nat
  BY PlacesFinite
<1>6. /\ Cardinality(Places(c, s)) <= Cardinality(Places(b, s))
      /\ Cardinality(Places(b, s)) = Cardinality(Places(c, s))
           => Places(b, s) = Places(c, s)
  BY <1>4, <1>5, FS_Subset
<1>7. ASSUME NEW p \in lo .. hi, Len(c.levels[s][p]) < Len(b.levels[s][p])
      PROVE  Places(b, s) # Places(c, s)
  <2> DEFINE n == Len(b.levels[s][p])
  <2>1. n \in DOMAIN b.levels[s][p] /\ n \notin DOMAIN c.levels[s][p]
    BY <1>1, <1>7
  <2>2. << p, n >> \in Places(b, s)
    BY <1>2, <2>1 DEF Places
  <2>3. << p, n >> \notin Places(c, s)
    <3> HIDE DEF n
    <3>. QED  BY <1>2, <2>1 DEF Places
  <2>. QED  BY <2>2, <2>3
<1>. QED  BY <1>5, <1>6, <1>7

(* Dropping the top of a side that has one shortens a queue. *)
LEMMA RemoveDropsPlace ==
  ASSUME NEW lo \in Int, NEW hi \in Int, NEW b \in Book(lo, hi), NEW o \in Order,
         WellPlaced(b), ~ NoContra(b, o)
  PROVE  LET s == Opposite(o.side) IN
         Cardinality(Places(RemoveTop(b, s), s)) < Cardinality(Places(b, s))
<1> DEFINE s == Opposite(o.side)
           c == RemoveTop(b, s)
           p == b.best[s]
<1>1. s \in Side /\ p \in lo .. hi /\ b.levels[s][p] # << >>
  BY ContraCorrect DEF Occupied
<1>2. /\ c \in Book(lo, hi)
      /\ \A q \in lo .. hi :
           c.levels[s][q] = IF q = p THEN Tail(b.levels[s][q]) ELSE b.levels[s][q]
  BY <1>1, RemoveTopCorrect
<1>3. \A q \in lo .. hi : b.levels[s][q] \in Seq(Order)
  BY <1>1, BookFields
<1>4. Len(c.levels[s][p]) < Len(b.levels[s][p])
  <2>1. \A q \in Seq(Order) : q # << >> => Len(Tail(q)) < Len(q)
    OBVIOUS
  <2>2. c.levels[s][p] = Tail(b.levels[s][p]) /\ b.levels[s][p] \in Seq(Order)
    BY <1>1, <1>2, <1>3
  <2> HIDE DEF c, s, p
  <2>. QED  BY <1>1, <2>1, <2>2
<1>5. ASSUME NEW q \in lo .. hi PROVE Len(c.levels[s][q]) <= Len(b.levels[s][q])
  <2>1. CASE q = p
    <3>1. c.levels[s][p] \in Seq(Order) /\ b.levels[s][p] \in Seq(Order)
      BY <1>1, <1>2, <1>3, BookFields
    <3> HIDE DEF c, s, p
    <3>. QED  BY <1>4, <2>1, <3>1
  <2>2. CASE q # p
    <3>1. c.levels[s][q] = b.levels[s][q] /\ b.levels[s][q] \in Seq(Order)
      BY <1>2, <1>3, <2>2
    <3>. QED  BY <3>1
  <2>. QED  BY <2>1, <2>2
<1> HIDE DEF c, s, p
<1>. QED  BY <1>1, <1>2, <1>4, <1>5, PlacesFewer DEF c, s

(* A trade lengthens no queue, and shortens one or fills the order in hand. *)
LEMMA TradeKeepsPlaces ==
  ASSUME NEW lo \in Int, NEW hi \in Int, NEW b \in Book(lo, hi), NEW o \in Order,
         WellPlaced(b), Reached(b), MustTrade(b, o)
  PROVE  LET s == Opposite(o.side)
             c == BookAfterTrade(b, o) IN
         /\ Cardinality(Places(c, s)) <= Cardinality(Places(b, s))
         /\ LoopGuard(Filled(o, TradeQuantity(b, o)))
              => Cardinality(Places(c, s)) < Cardinality(Places(b, s))
<1> DEFINE s == Opposite(o.side)
           c == BookAfterTrade(b, o)
<1>1. s \in Side /\ c \in Book(lo, hi) /\ ~ NoContra(b, o)
  BY TradeKeeps DEF Opposite, Side, Order, MustTrade, LiveContra
<1>2. \A p \in lo .. hi : Kept(b.levels[s][p], c.levels[s][p])
  BY <1>1, TradeKept
<1>3. ASSUME NEW p \in lo .. hi PROVE Len(c.levels[s][p]) <= Len(b.levels[s][p])
  <2>1. b.levels[s][p] \in Seq(Order) /\ c.levels[s][p] \in Seq(Order)
    BY <1>1, BookFields
  <2>2. Kept(b.levels[s][p], c.levels[s][p])
    BY <1>2
  <2>. QED  BY <2>1, <2>2, KeptShorter
<1>4. Cardinality(Places(c, s)) <= Cardinality(Places(b, s))
  <2> HIDE DEF c, s
  <2>. QED  BY <1>1, <1>3, PlacesFewer
<1>5. ASSUME LoopGuard(Filled(o, TradeQuantity(b, o)))
      PROVE  Cardinality(Places(c, s)) < Cardinality(Places(b, s))
  <2>1. c = RemoveTop(b, s)
    BY <1>5, TradeRemovesTop
  <2>. QED  BY <1>1, <2>1, RemoveDropsPlace
<1>. QED  BY <1>4, <1>5

(* A step that leaves the loop running takes an order off the other side   *)
(* or fills the one in hand.                                               *)
LEMMA IterationShrinks ==
  ASSUME Inv, [Next]_vars, busy, busy'
  PROVE  vars' # vars => ToMatch' < ToMatch
<1> DEFINE s == Opposite(order.side)
           m == Cardinality(Places(book, s))
           n == Cardinality(Places(book', s))
<1>1. /\ book \in Book(MinPrice, MaxPrice) /\ WellPlaced(book) /\ Reached(book)
      /\ order \in Order /\ MinPrice \in Int /\ MaxPrice \in Int
  BY EngineAssumption DEF Inv, TypeOK
<1>2. s \in Side
  BY <1>1 DEF Order, Side, Opposite
<1>3. m \in Nat
  BY <1>1, <1>2, PlacesFinite
<1>4. CASE SkipCancelled
  <2>1. MustSkip(book, order) /\ book' = RemoveTop(book, s) /\ order' = order
    BY <1>4 DEF SkipCancelled
  <2>2. book' \in Book(MinPrice, MaxPrice)
    BY <1>1, <1>2, <2>1, RemoveTopCorrect
  <2>3. n < m
    BY <1>1, <2>1, RemoveDropsPlace DEF MustSkip, StaleContra
  <2>4. n \in Nat
    BY <1>1, <1>2, <2>2, PlacesFinite
  <2>5. ToMatch' = n + (IF LoopGuard(order) THEN 1 ELSE 0)
    BY <2>1 DEF ToMatch
  <2>6. ToMatch = m + (IF LoopGuard(order) THEN 1 ELSE 0)
    BY DEF ToMatch
  <2> HIDE DEF n, m
  <2>. QED  BY <1>3, <2>3, <2>4, <2>5, <2>6
<1>5. CASE ExecuteTrade
  <2> DEFINE x == Filled(order, TradeQuantity(book, order))
  <2>1. /\ MustTrade(book, order) /\ book' = BookAfterTrade(book, order)
        /\ order' = x
    BY <1>5 DEF ExecuteTrade
  <2>2. x.side = order.side
    BY <1>1 DEF Filled, Order
  <2>3. book' \in Book(MinPrice, MaxPrice)
    BY <1>1, <2>1, TradeKeeps
  <2>4. n <= m /\ (LoopGuard(x) => n < m)
    BY <1>1, <2>1, TradeKeepsPlaces
  <2>5. n \in Nat
    BY <1>1, <1>2, <2>3, PlacesFinite
  <2>6. ToMatch' = n + (IF LoopGuard(x) THEN 1 ELSE 0)
    <3> HIDE DEF x
    <3>. QED  BY <2>1, <2>2 DEF ToMatch
  <2>7. ToMatch = m + 1
    BY <2>1 DEF MustTrade, ToMatch
  <2> HIDE DEF n, m, x
  <2>. QED  BY <1>3, <2>4, <2>5, <2>6, <2>7
<1>6. CASE UNCHANGED vars
  BY <1>6
<1>7. CASE ~ (SkipCancelled \/ ExecuteTrade \/ UNCHANGED vars)
  <2>1. FALSE
    BY <1>7, Zenon DEF Next, Loop, Rest, Expire, Return, ProcessOrder, Cancel
  <2>. QED  BY <2>1
<1>. QED  BY <1>4, <1>5, <1>6, <1>7
----------------------------------------------------------------------------
(* What the invariants say, in the words of the properties of the engine. *)
LEMMA InvBounds == Inv => PointerBounds /\ RestingWellFormed
<1> SUFFICES ASSUME Inv PROVE PointerBounds /\ RestingWellFormed
  OBVIOUS
<1> USE EngineAssumption
<1>1. book \in Book(MinPrice, MaxPrice) /\ WellPlaced(book) /\ Reached(book)
  BY DEF Inv, TypeOK
<1>2. Prices(book) = MinPrice .. MaxPrice
  BY <1>1, BookFields
<1>3. ASSUME NEW s \in Side, NEW r \in Resting(book, s)
      PROVE  ~ Better(s, r.price, book.best[s])
  <2>1. PICK p \in MinPrice .. MaxPrice : Occupied(book, s, p) /\ RestsAt(r, s, p)
    BY <1>1, RestingAt
  <2>. QED  BY <1>1, <1>2, <2>1 DEF Reached, RestsAt
<1>4. RestingWellFormed
  BY <1>1, <1>2 DEF WellPlaced, RestingWellFormed, RestsAt
<1>. QED  BY <1>3, <1>4 DEF PointerBounds

LEMMA TradingInvBest == TradingInv => NoCrossedBook /\ BestIsBest
<1> SUFFICES ASSUME TradingInv PROVE NoCrossedBook /\ BestIsBest
  OBVIOUS
<1> USE EngineAssumption
<1>1. /\ book \in Book(MinPrice, MaxPrice) /\ WellPlaced(book) /\ Reached(book)
      /\ PointsAtLive(book) /\ Uncrossed(book)
  BY DEF TradingInv, Inv, TypeOK
<1>2. /\ Prices(book) = MinPrice .. MaxPrice
      /\ book.minPrice = MinPrice /\ book.maxPrice = MaxPrice
  BY <1>1, BookFields
<1>3. NoCrossedBook
  <2>1. ASSUME NEW b \in Resting(book, "BUY"), NEW a \in Resting(book, "SELL")
        PROVE  b.price < a.price
    <3>1. PICK p \in MinPrice .. MaxPrice :
            Occupied(book, "BUY", p) /\ RestsAt(b, "BUY", p)
      BY <1>1, RestingAt DEF Side
    <3>2. PICK q \in MinPrice .. MaxPrice :
            Occupied(book, "SELL", q) /\ RestsAt(a, "SELL", q)
      BY <1>1, RestingAt DEF Side
    <3>. QED  BY <1>1, <1>2, <3>1, <3>2 DEF Uncrossed, RestsAt
  <2>. QED  BY <2>1 DEF NoCrossedBook
<1>4. ASSUME NEW s \in Side, NEW r \in Resting(book, s)
      PROVE  /\ GetBest(book, s) \in Resting(book, s)
             /\ ~ Better(s, r.price, GetBest(book, s).price)
  <2> DEFINE p == book.best[s]
             level == book.levels[s][p]
  <2>1. PICK q \in MinPrice .. MaxPrice : Occupied(book, s, q) /\ RestsAt(r, s, q)
    BY <1>1, RestingAt
  <2>2. p \in MinPrice .. MaxPrice /\ level \in Seq(Order)
    <3>1. p \in MinPrice .. MaxPrice
      BY <1>1, BookFields
    <3> HIDE DEF p
    <3>2. book.levels[s][p] \in Seq(Order)
      BY <1>1, <3>1, BookFields
    <3>. QED  BY <3>1, <3>2
  <2>3. ~ Better(s, q, p)
    BY <1>1, <1>2, <2>1 DEF Reached
  <2>4. level # << >>
    <3>1. CASE p = WorstPrice(book, s)
      <4>1. q = p
        BY <1>2, <2>2, <2>3, <3>1 DEF WorstPrice, Better, Side
      <4>. QED  BY <2>1, <4>1 DEF Occupied
    <3>. QED  BY <1>1, <3>1 DEF PointsAtLive, Occupied
  <2>5. 1 \in DOMAIN level /\ GetBest(book, s) = level[1]
    <3>1. GetBest(book, s) = Head(level)
      BY <2>4 DEF GetBest
    <3> HIDE DEF level
    <3>. QED  BY <2>2, <2>4, <3>1
  <2>6. GetBest(book, s) \in Resting(book, s)
    BY <1>2, <2>2, <2>5 DEF Resting
  <2>7. RestsAt(GetBest(book, s), s, p)
    BY <1>1, <1>2, <2>2, <2>5 DEF WellPlaced
  <2>. QED  BY <2>1, <2>3, <2>6, <2>7 DEF RestsAt
<1>. QED  BY <1>3, <1>4 DEF BestIsBest
----------------------------------------------------------------------------
LEMMA InitHistory == Init => HistoryInv
<1> SUFFICES ASSUME Init PROVE HistoryInv
  OBVIOUS
<1> USE EngineAssumption
<1>1. /\ book \in Book(MinPrice, MaxPrice)
      /\ \A s \in Side, p \in MinPrice .. MaxPrice : book.levels[s][p] = << >>
  BY NewBookCorrect DEF Init
<1>2. Prices(book) = MinPrice .. MaxPrice
  BY <1>1, BookFields
<1>3. Inv
  BY InitInv DEF TradingInv
<1>4. /\ Traced(book, received) /\ Indexed(book) /\ InOrder(book)
      /\ NoneOf(book, cancelled)
  BY <1>1, <1>2 DEF Traced, Indexed, InOrder, NoneOf
<1>5. Increasing(received) /\ CancelsKept(book, received, cancelled)
  BY DEF Init, Increasing, CancelsKept
<1>6. book.cancelledOrders = {}
  BY DEF Init, NewBook
<1>7. HandTraced /\ \A n \in DOMAIN trades : Within(trades[n], received)
  BY DEF Init, HandTraced
<1>. QED  BY <1>3, <1>4, <1>5, <1>6, <1>7 DEF HistoryInv

(* A new order has an id that nothing on the book and nothing cancelled    *)
(* has.                                                                    *)
LEMMA ProcessOrderHistory ==
  ASSUME UniqueIds, HistoryInv, NEW o \in NewOrders, ProcessOrder(o), Inv'
  PROVE  HistoryInv'
<1> USE EngineAssumption
<1>1. /\ book' = book /\ order' = o /\ trades' = trades
      /\ cancelled' = cancelled /\ received' = Append(received, o)
      /\ \A i \in DOMAIN received : received[i].orderId < o.orderId
      /\ busy' => o.orderId \notin book.cancelledOrders
  BY DEF ProcessOrder, FreshId, IsCancelled
<1>2. /\ received \in Seq(NewOrders)
      /\ Increasing(received) /\ Traced(book, received) /\ Indexed(book)
      /\ InOrder(book) /\ NoneOf(book, cancelled)
      /\ CancelsKept(book, received, cancelled)
      /\ book.cancelledOrders \subseteq cancelled
      /\ \A n \in DOMAIN trades : Within(trades[n], received)
  BY DEF HistoryInv, Inv, TypeOK
<1>3. \A x \in NewOrders : x.orderId \in Nat
  BY NewOrdersAreOrders DEF Order
<1>4. /\ Came(received', o) /\ Traced(book, received')
      /\ CancelsKept(book, received', cancelled)
      /\ \A n \in DOMAIN trades : Within(trades[n], received')
  <2>1. received \in Seq(Order) /\ o \in Order
    BY <1>2, NewOrdersAreOrders
  <2>2. /\ Came(received', o) /\ Traced(book, received')
        /\ \A n \in DOMAIN trades : Within(trades[n], received')
    BY <1>1, <1>2, <2>1, OneMoreReceived
  <2>3. \A i \in DOMAIN received : i \in DOMAIN received' /\ received'[i] = received[i]
    BY <1>1, <2>1
  <2>4. CancelsKept(book, received', cancelled)
    BY <1>2, <2>3 DEF CancelsKept
  <2>. QED  BY <2>2, <2>4
<1>5. Increasing(received')
  <2> SUFFICES ASSUME NEW i \in DOMAIN received', NEW j \in DOMAIN received', i < j
               PROVE  received'[i].orderId < received'[j].orderId
    BY DEF Increasing
  <2>1. i \in 1 .. Len(received) + 1 /\ j \in 1 .. Len(received) + 1
    BY <1>1, <1>2
  <2>2. i \in DOMAIN received /\ received'[i] = received[i]
    BY <1>1, <1>2, <2>1
  <2>3. CASE j = Len(received) + 1
    <3>1. received'[j] = o
      BY <1>1, <1>2, <2>3
    <3>. QED  BY <1>1, <2>2, <3>1
  <2>4. CASE j # Len(received) + 1
    <3>1. j \in DOMAIN received /\ received'[j] = received[j]
      BY <1>1, <1>2, <2>1, <2>4
    <3>. QED  BY <1>2, <2>2, <3>1 DEF Increasing
  <2>. QED  BY <2>3, <2>4
<1>6. \A i \in DOMAIN received : received[i].orderId # o.orderId
  <2> SUFFICES ASSUME NEW i \in DOMAIN received
               PROVE  received[i].orderId # o.orderId
    OBVIOUS
  <2>1. received[i] \in NewOrders
    BY <1>2
  <2>. QED  BY <1>1, <1>3, <2>1
<1>7. Older(book, o.orderId)
  BY <1>1, <1>2 DEF Older, Traced, Came, SameOrder
<1>8. busy' => o.orderId \notin cancelled
  BY <1>1, <1>2, <1>6 DEF CancelsKept
<1>9. HandTraced'
  BY <1>1, <1>4, <1>7, <1>8 DEF HandTraced
<1>. QED  BY <1>1, <1>2, <1>4, <1>5, <1>9 DEF HistoryInv

(* Every step keeps the history, whatever is cancelled. *)
LEMMA NextHistory ==
  ASSUME UniqueIds, HistoryInv, [Next]_vars
  PROVE  HistoryInv'
<1> USE EngineAssumption
<1>1. /\ book \in Book(MinPrice, MaxPrice) /\ order \in Order
      /\ WellPlaced(book)
      /\ Increasing(received) /\ Traced(book, received) /\ Indexed(book)
      /\ InOrder(book) /\ NoneOf(book, cancelled)
      /\ CancelsKept(book, received, cancelled)
      /\ book.cancelledOrders \subseteq cancelled
      /\ \A n \in DOMAIN trades : Within(trades[n], received)
      /\ trades \in Seq(Trade)
  BY DEF HistoryInv, Inv, TypeOK
<1>2. busy => /\ Came(received, order) /\ order.orderId \notin cancelled
              /\ Older(book, order.orderId)
  BY DEF HistoryInv, HandTraced
<1>3. Inv'
  BY NextInv DEF HistoryInv
<1>4. Opposite(order.side) \in Side
  BY DEF Opposite, Side
<1>5. ASSUME NEW o \in NewOrders, ProcessOrder(o) PROVE HistoryInv'
  BY <1>3, <1>5, ProcessOrderHistory
<1>6. ASSUME Rest PROVE HistoryInv'
  <2>1. /\ busy /\ MustRest(book, order)
        /\ book' = AddOrder(book, order) /\ busy' = FALSE
        /\ UNCHANGED << order, trades, received, cancelled >>
    BY <1>6, Zenon DEF Rest
  <2>2. /\ order.price \in MinPrice .. MaxPrice
        /\ order.orderId \in OrderIds
    BY <1>1, <2>1, InHandRests DEF HistoryInv, Inv, OrderInHand, RestsAt
  <2>3. /\ Traced(book', received) /\ Indexed(book') /\ InOrder(book')
        /\ NoneOf(book', cancelled)
        /\ book'.cancelledOrders = book.cancelledOrders
    BY <1>1, <1>2, <2>1, <2>2, RestTraced
  <2>4. CancelsKept(book', received, cancelled)
    BY <1>1, <2>3 DEF CancelsKept
  <2>5. HandTraced'
    BY <2>1 DEF HandTraced
  <2>. QED  BY <1>1, <1>3, <2>1, <2>3, <2>4, <2>5 DEF HistoryInv
<1>7. ASSUME Expire \/ Return PROVE HistoryInv'
  <2>1. busy' = FALSE /\ UNCHANGED << book, trades, received, cancelled >>
    BY <1>7, Zenon DEF Expire, Return
  <2>2. HandTraced'
    BY <2>1 DEF HandTraced
  <2>. QED  BY <1>1, <1>3, <2>1, <2>2 DEF HistoryInv
<1>8. ASSUME SkipCancelled PROVE HistoryInv'
  <2>1. /\ book' = RemoveTop(book, Opposite(order.side))
        /\ UNCHANGED << order, busy, trades, received, cancelled >>
    BY <1>8 DEF SkipCancelled
  <2>2. /\ book' \in Book(MinPrice, MaxPrice)
        /\ \A t \in Side, q \in MinPrice .. MaxPrice :
             Kept(book.levels[t][q], book'.levels[t][q])
        /\ book'.orderIndex = book.orderIndex
        /\ book'.cancelledOrders = book.cancelledOrders
    BY <1>1, <1>4, <2>1, RemoveTopKept, RemoveTopCorrect
  <2>3. /\ Traced(book', received) /\ Indexed(book') /\ InOrder(book')
        /\ NoneOf(book', cancelled)
        /\ busy => Older(book', order.orderId)
    BY <1>1, <1>2, <2>2, KeptBook
  <2>4. CancelsKept(book', received, cancelled)
    BY <1>1, <2>2 DEF CancelsKept
  <2>5. HandTraced'
    BY <1>2, <2>1, <2>3 DEF HandTraced
  <2>. QED  BY <1>1, <1>3, <2>1, <2>2, <2>3, <2>4, <2>5 DEF HistoryInv
<1>9. ASSUME ExecuteTrade PROVE HistoryInv'
  <2> DEFINE q == TradeQuantity(book, order)
  <2>1. /\ busy /\ MustTrade(book, order)
        /\ book' = BookAfterTrade(book, order)
        /\ order' = Filled(order, q)
        /\ trades' = Append(trades, TradeOf(book, order))
        /\ UNCHANGED << busy, received, cancelled >>
    BY <1>9 DEF ExecuteTrade
  <2>2. q \in Nat /\ q > 0 /\ q <= order.remainingQuantity
    BY <1>1, <2>1, TradeQuantityCorrect DEF MustTrade, LiveContra
  <2>3. SameOrder(order', order)
    BY <1>1, <2>1, <2>2, FilledCorrect DEF SameOrder
  <2>4. /\ book' \in Book(MinPrice, MaxPrice)
        /\ \A t \in Side, p \in MinPrice .. MaxPrice :
             Kept(book.levels[t][p], book'.levels[t][p])
        /\ book'.orderIndex = book.orderIndex
        /\ book'.cancelledOrders = book.cancelledOrders
    BY <1>1, <1>3, <2>1, TradeKept DEF Inv, TypeOK
  <2>5. /\ Traced(book', received) /\ Indexed(book') /\ InOrder(book')
        /\ NoneOf(book', cancelled) /\ Older(book', order.orderId)
    BY <1>1, <1>2, <2>1, <2>4, KeptBook
  <2>6. CancelsKept(book', received, cancelled)
    BY <1>1, <2>4 DEF CancelsKept
  <2>7. Came(received, order')
    BY <1>2, <2>1, <2>3 DEF Came, SameOrder
  <2>8. HandTraced'
    BY <1>2, <2>1, <2>3, <2>5, <2>7 DEF HandTraced, SameOrder
  <2>9. ASSUME NEW n \in DOMAIN trades' PROVE Within(trades'[n], received)
    <3>1. \/ n \in DOMAIN trades /\ trades'[n] = trades[n]
          \/ trades'[n] = TradeOf(book, order)
      BY <1>1, <2>1
    <3>2. Within(TradeOf(book, order), received)
      BY <1>1, <1>2, <2>1, TradeWithin
    <3>. QED  BY <1>1, <3>1, <3>2
  <2>. QED  BY <1>1, <1>3, <2>1, <2>4, <2>5, <2>6, <2>8, <2>9 DEF HistoryInv
<1>10. ASSUME NEW id \in CancelIds, Cancel(id) PROVE HistoryInv'
  <2>1. /\ ~ busy /\ book' = CancelOrder(book, id)
        /\ cancelled' = cancelled \cup {id}
        /\ UNCHANGED << order, busy, trades, received >>
    BY <1>10 DEF Cancel
  <2>2. id \in OrderIds
    OBVIOUS
  <2>3. /\ \A s \in Side, p \in MinPrice .. MaxPrice :
             Kept(book.levels[s][p], book'.levels[s][p])
        /\ Indexed(book') /\ NoneOf(book', {id})
        /\ \/ book'.cancelledOrders = book.cancelledOrders \cup {id}
           \/ /\ book'.cancelledOrders = book.cancelledOrders \ {id}
              /\ \E s \in Side, p \in MinPrice .. MaxPrice :
                   \E k \in DOMAIN book.levels[s][p] :
                     book.levels[s][p][k].orderId = id
    <3>1. /\ MinPrice \in Int /\ MaxPrice \in Int
          /\ book \in Book(MinPrice, MaxPrice)
          /\ WellPlaced(book) /\ Indexed(book) /\ InOrder(book)
      BY <1>1
    <3>2. book' = CancelOrder(book, id)
      BY <2>1
    <3>. QED  BY <2>2, <3>1, <3>2, CancelKept
  <2>4. book' \in Book(MinPrice, MaxPrice)
    BY <1>3 DEF Inv, TypeOK
  <2>5. Traced(book', received) /\ InOrder(book') /\ NoneOf(book', cancelled)
    BY <1>1, <2>3, <2>4, KeptBook
  <2>6. NoneOf(book', cancelled')
    BY <2>1, <2>3, <2>5 DEF NoneOf
  <2>7. CancelsKept(book', received, cancelled')
    <3>1. CASE book'.cancelledOrders = book.cancelledOrders \cup {id}
      BY <1>1, <2>1, <3>1 DEF CancelsKept
    <3>2. CASE /\ book'.cancelledOrders = book.cancelledOrders \ {id}
               /\ \E s \in Side, p \in MinPrice .. MaxPrice :
                    \E k \in DOMAIN book.levels[s][p] :
                      book.levels[s][p][k].orderId = id
      <4>1. Prices(book) = MinPrice .. MaxPrice
        BY <1>1, BookFields
      <4>2. \E i \in DOMAIN received : received[i].orderId = id
        BY <1>1, <3>2, <4>1 DEF Traced, Came, SameOrder
      <4>. QED  BY <1>1, <2>1, <3>2, <4>2 DEF CancelsKept
    <3>. QED  BY <2>3, <3>1, <3>2
  <2>8. HandTraced'
    BY <2>1 DEF HandTraced
  <2>9. book'.cancelledOrders \subseteq cancelled'
    BY <1>1, <2>1, <2>3
  <2>. QED  BY <1>1, <1>3, <2>1, <2>3, <2>5, <2>6, <2>7, <2>8, <2>9 DEF HistoryInv
<1>11. ASSUME UNCHANGED vars PROVE HistoryInv'
  <2>1. UNCHANGED << book, order, busy, trades, received, cancelled >>
    BY <1>11 DEF vars
  <2>2. HandTraced'
    BY <1>2, <2>1 DEF HandTraced
  <2>. QED  BY <1>1, <1>3, <2>1, <2>2 DEF HistoryInv
<1>12. CASE Next
  BY <1>5, <1>6, <1>7, <1>8, <1>9, <1>10, <1>12 DEF Next, Loop
<1>. QED  BY <1>11, <1>12
----------------------------------------------------------------------------
(* With increasing ids an id names one call. *)
LEMMA ArrivalUnique ==
  ASSUME HistoryInv, NEW i \in DOMAIN received
  PROVE  Arrival(received[i].orderId) = i
<1>1. received \in Seq(NewOrders) /\ Increasing(received)
  BY DEF HistoryInv, Inv, TypeOK
<1>2. \A k \in DOMAIN received : k \in Nat /\ received[k].orderId \in Nat
  BY <1>1, NewOrdersAreOrders DEF Order
<1>3. ASSUME NEW k \in DOMAIN received, received[k].orderId = received[i].orderId
      PROVE  k = i
  <2>1. ~ (k < i) /\ ~ (i < k)
    BY <1>1, <1>2, <1>3 DEF Increasing
  <2>. QED  BY <1>2, <2>1
<1>. QED  BY <1>3 DEF Arrival

LEMMA HistoryLimits == HistoryInv => LimitsRespected
<1> SUFFICES ASSUME HistoryInv, NEW n \in DOMAIN trades
             PROVE  LET buy  == received[Arrival(trades[n].buyOrderId)]
                        sell == received[Arrival(trades[n].sellOrderId)]
                    IN  /\ buy.side = "BUY" /\ sell.side = "SELL"
                        /\ "LIMIT" \in {buy.orderType, sell.orderType}
                        /\ sell.orderType = "LIMIT" =>
                             /\ sell.price <= trades[n].price
                             /\ buy.orderType = "LIMIT"
                                  => trades[n].price <= buy.price
  BY DEF LimitsRespected
<1>1. PICK i, j \in DOMAIN received :
        /\ received[i].orderId = trades[n].buyOrderId
        /\ received[j].orderId = trades[n].sellOrderId
        /\ received[i].side = "BUY" /\ received[j].side = "SELL"
        /\ "LIMIT" \in {received[i].orderType, received[j].orderType}
        /\ trades[n].price = received[j].price
        /\ received[i].orderType = "LIMIT" /\ received[j].orderType = "LIMIT"
             => trades[n].price \in received[j].price .. received[i].price
  BY DEF HistoryInv, Within
<1>2. Arrival(trades[n].buyOrderId) = i /\ Arrival(trades[n].sellOrderId) = j
  BY <1>1, ArrivalUnique
<1>3. received[i].price \in Int /\ received[j].price \in Int
  BY NewOrdersAreOrders DEF HistoryInv, Inv, TypeOK, Order
<1>. QED  BY <1>1, <1>2, <1>3

LEMMA HistoryIndex == HistoryInv => IndexLocates
<1> SUFFICES ASSUME HistoryInv, NEW o \in AllResting(book)
             PROVE  book.orderIndex[o.orderId]
                      = [price |-> o.price, side |-> o.side]
  BY DEF IndexLocates
<1> USE EngineAssumption
<1>1. book \in Book(MinPrice, MaxPrice) /\ WellPlaced(book) /\ Indexed(book)
  BY DEF HistoryInv, Inv, TypeOK
<1>2. PICK s \in Side : o \in Resting(book, s)
  BY DEF AllResting, Side
<1>3. PICK p \in Prices(book) :
        \E i \in DOMAIN book.levels[s][p] : o = book.levels[s][p][i]
  BY <1>2 DEF Resting
<1>4. book.orderIndex[o.orderId] = [price |-> p, side |-> s]
  BY <1>1, <1>3 DEF Indexed
<1>5. o.price = p /\ o.side = s
  BY <1>1, <1>3 DEF WellPlaced, RestsAt
<1>. QED  BY <1>4, <1>5

(* No order on the book is cancelled, and a step that trades takes the     *)
(* order in hand and one that rests.                                       *)
LEMMA HistoryCancels ==
  ASSUME HistoryInv, [Next]_vars
  PROVE  /\ \A o \in AllResting(book) : o.orderId \notin cancelled
         /\ Len(trades') > Len(trades) =>
              cancelled \cap {trades'[Len(trades')].buyOrderId,
                              trades'[Len(trades')].sellOrderId} = {}
<1> USE EngineAssumption
<1>1. /\ book \in Book(MinPrice, MaxPrice) /\ order \in Order
      /\ WellPlaced(book) /\ NoneOf(book, cancelled) /\ trades \in Seq(Trade)
      /\ Prices(book) = MinPrice .. MaxPrice
  BY BookFields DEF HistoryInv, Inv, TypeOK
<1>2. \A o \in AllResting(book) : o.orderId \notin cancelled
  BY <1>1 DEF AllResting, Resting, NoneOf, Side
<1>3. ASSUME Len(trades') > Len(trades)
      PROVE  cancelled \cap {trades'[Len(trades')].buyOrderId,
                             trades'[Len(trades')].sellOrderId} = {}
  <2>1. trades' # trades
    BY <1>1, <1>3
  <2>2. ExecuteTrade
    BY <2>1 DEF Next, Loop, ProcessOrder, Rest, Expire, SkipCancelled, Return,
                Cancel, vars
  <2>3. /\ busy /\ MustTrade(book, order)
        /\ trades' = Append(trades, TradeOf(book, order))
    BY <2>2 DEF ExecuteTrade
  <2>4. trades'[Len(trades')] = TradeOf(book, order)
    BY <1>1, <2>3
  <2>5. order.orderId \notin cancelled
    BY <2>3 DEF HistoryInv, HandTraced
  <2> DEFINE s == Opposite(order.side)
  <2>6. /\ s \in Side /\ book.best[s] \in MinPrice .. MaxPrice
        /\ book.levels[s][book.best[s]] # << >>
        /\ Contra(book, order) = book.levels[s][book.best[s]][1]
    BY <1>1, <2>3, ContraCorrect DEF Occupied, MustTrade, LiveContra
  <2>7. Contra(book, order).orderId \notin cancelled
    <3>1. book.levels[s][book.best[s]] \in Seq(Order)
      BY <1>1, <2>6, BookFields
    <3>2. 1 \in DOMAIN book.levels[s][book.best[s]]
      BY <2>6, <3>1
    <3>. QED  BY <1>1, <2>6, <3>2 DEF NoneOf
  <2>8. /\ TradeOf(book, order).buyOrderId
             \in {order.orderId, Contra(book, order).orderId}
        /\ TradeOf(book, order).sellOrderId
             \in {order.orderId, Contra(book, order).orderId}
    BY DEF TradeOf
  <2>. QED  BY <2>4, <2>5, <2>7, <2>8
<1>. QED  BY <1>2, <1>3
(* Ids increase with arrival. *)
LEMMA ArrivalMonotone ==
  ASSUME HistoryInv, NEW q, NEW r, Came(received, q), Came(received, r),
         r.orderId = q.orderId \/ r.orderId < q.orderId
  PROVE  /\ received[Arrival(r.orderId)].price = r.price
         /\ Arrival(r.orderId) <= Arrival(q.orderId)
<1>1. PICK i \in DOMAIN received : SameOrder(r, received[i])
  BY DEF Came
<1>2. PICK j \in DOMAIN received : SameOrder(q, received[j])
  BY DEF Came
<1>3. Arrival(r.orderId) = i /\ Arrival(q.orderId) = j
  BY <1>1, <1>2, ArrivalUnique DEF SameOrder
<1>4. received \in Seq(NewOrders) /\ Increasing(received)
  BY DEF HistoryInv, Inv, TypeOK
<1>5. i \in Nat /\ j \in Nat
      /\ received[i].orderId \in Nat /\ received[j].orderId \in Nat
  BY <1>4, NewOrdersAreOrders DEF Order
<1>6. ~ (j < i)
  <2> SUFFICES ASSUME j < i PROVE FALSE
    OBVIOUS
  <2>1. received[j].orderId < received[i].orderId
    BY <1>4 DEF Increasing
  <2>. QED  BY <1>1, <1>2, <1>5, <2>1 DEF SameOrder
<1>. QED  BY <1>1, <1>3, <1>5, <1>6 DEF SameOrder

LEMMA HistoryPriority ==
  ASSUME HistoryInv, [Next]_vars, Len(trades') > Len(trades)
  PROVE  LET t    == trades'[Len(trades')]
             with == IF order.side = "BUY" THEN t.sellOrderId ELSE t.buyOrderId
             r    == received[Arrival(with)]
         IN  \A q \in Resting(book, Opposite(order.side)) :
               \/ Better(q.side, r.price, q.price)
               \/ r.price = q.price /\ Arrival(with) <= Arrival(q.orderId)
<1> USE EngineAssumption
<1>1. /\ book \in Book(MinPrice, MaxPrice) /\ order \in Order
      /\ WellPlaced(book) /\ Reached(book) /\ trades \in Seq(Trade)
      /\ Traced(book, received) /\ InOrder(book)
      /\ Prices(book) = MinPrice .. MaxPrice
  BY BookFields DEF HistoryInv, Inv, TypeOK
<1>2. /\ MustTrade(book, order)
      /\ trades' = Append(trades, TradeOf(book, order))
  <2>1. trades' # trades
    BY <1>1
  <2>. QED  BY <2>1 DEF Next, Loop, ProcessOrder, Rest, Expire, SkipCancelled,
                        Return, Cancel, vars, ExecuteTrade
<1> DEFINE t == trades'[Len(trades')]
           with == IF order.side = "BUY" THEN t.sellOrderId ELSE t.buyOrderId
           c == Contra(book, order)
           s == Opposite(order.side)
<1>3. t = TradeOf(book, order)
  BY <1>1, <1>2
<1>4. with = c.orderId
  BY <1>3 DEF TradeOf
<1>5. ~ NoContra(book, order)
  BY <1>2 DEF MustTrade, LiveContra
<1>6. s \in Side
  BY DEF Opposite, Side
<1>7. \A q \in Resting(book, s) : Came(received, q)
  BY <1>1, <1>6 DEF Resting, Traced
<1>8. c \in Resting(book, s)
  <2>1. /\ book.best[s] \in MinPrice .. MaxPrice
        /\ book.levels[s][book.best[s]] # << >>
        /\ c = book.levels[s][book.best[s]][1]
    <3>1. /\ book.best[s] \in MinPrice .. MaxPrice
          /\ Occupied(book, s, book.best[s])
          /\ c = book.levels[s][book.best[s]][1]
      BY <1>1, <1>5, ContraCorrect, SMTT(30)
    <3>. QED  BY <3>1 DEF Occupied
  <2>2. book.levels[s][book.best[s]] \in Seq(Order)
    BY <1>1, <1>6, <2>1, BookFields
  <2>3. 1 \in DOMAIN book.levels[s][book.best[s]]
    BY <2>1, <2>2
  <2>. QED  BY <1>1, <2>1, <2>3 DEF Resting
<1>9. ASSUME NEW q \in Resting(book, s)
      PROVE  \/ Better(q.side, received[Arrival(with)].price, q.price)
             \/ /\ received[Arrival(with)].price = q.price
                /\ Arrival(with) <= Arrival(q.orderId)
  <2>1. received[Arrival(c.orderId)].price = c.price
    BY <1>7, <1>8, ArrivalMonotone
  <2>2. \/ Better(q.side, c.price, q.price)
        \/ c.price = q.price /\ (c = q \/ c.orderId < q.orderId)
    BY <1>1, <1>5, ContraFirst
  <2>3. c = q \/ c.orderId < q.orderId => Arrival(c.orderId) <= Arrival(q.orderId)
    BY <1>7, <1>8, ArrivalMonotone
  <2>. QED  BY <1>4, <2>1, <2>2, <2>3
<1>. QED  BY <1>9
----------------------------------------------------------------------------
(* The account of every order: what of it has traded, and what is open.    *)

(* Orders still open: those that rest, and the one in hand. *)
Live == AllResting(book) \cup {x \in {order} : busy}

Naming(ts, id) ==
  {i \in DOMAIN ts : id \in {ts[i].buyOrderId, ts[i].sellOrderId}}

ExecutedIn(ts, id) == QuantityIn(ts, Naming(ts, id))

OpenIn(S, id) == RemainingIn({o \in S : o.orderId = id})

(* Order o, of which n has traded or is open, with the ids in ids          *)
(* cancelled.                                                              *)
Adds(o, n, ids) ==
  /\ n <= o.quantity
  /\ o.orderType = "LIMIT" /\ o.orderId \notin ids => n = o.quantity

AccountInv ==
  \A i \in DOMAIN received :
    LET id == received[i].orderId
    IN  Adds(received[i], ExecutedIn(trades, id) + OpenIn(Live, id), cancelled)

LEMMA AccountedFills == AccountInv => FillsAccounted
BY DEF AccountInv, Adds, FillsAccounted, Executed, Open, Sum, ExecutedIn,
       OpenIn, QuantityIn, RemainingIn, Naming, Live

LEMMA OpenNone ==
  ASSUME NEW S, NEW id, \A x \in S : x.orderId # id
  PROVE  OpenIn(S, id) = 0
<1>1. {o \in S : o.orderId = id} = {}
  OBVIOUS
<1>. QED  BY <1>1, RemainingEmpty DEF OpenIn

LEMMA OpenOne ==
  ASSUME NEW S, NEW x \in S, x.remainingQuantity \in Nat,
         \A y \in S : y.orderId = x.orderId => y = x
  PROVE  OpenIn(S, x.orderId) = x.remainingQuantity
<1>1. {o \in S : o.orderId = x.orderId} = {x}
  OBVIOUS
<1>. QED  BY <1>1, RemainingOne DEF OpenIn

LEMMA OpenSame ==
  ASSUME NEW S, NEW T, NEW id,
         \A x : x.orderId = id => (x \in S <=> x \in T)
  PROVE  OpenIn(S, id) = OpenIn(T, id)
<1>1. {o \in S : o.orderId = id} = {o \in T : o.orderId = id}
  OBVIOUS
<1>. QED  BY <1>1 DEF OpenIn

LEMMA ExecutedNone ==
  ASSUME NEW ts, NEW id, \A i \in DOMAIN ts :
           id # ts[i].buyOrderId /\ id # ts[i].sellOrderId
  PROVE  ExecutedIn(ts, id) = 0
<1>1. Naming(ts, id) = {}
  BY DEF Naming
<1>. QED  BY <1>1, QuantityEmpty DEF ExecutedIn

LEMMA NamingFinite ==
  ASSUME NEW ts \in Seq(Trade), NEW id
  PROVE  /\ IsFiniteSet(Naming(ts, id))
         /\ Naming(ts, id) \subseteq 1 .. Len(ts)
         /\ \A i \in Naming(ts, id) : ts[i].quantity \in Nat
<1>1. DOMAIN ts = 1 .. Len(ts) /\ Len(ts) \in Nat
  OBVIOUS
<1>2. Naming(ts, id) \subseteq 1 .. Len(ts)
  BY <1>1 DEF Naming
<1>3. IsFiniteSet(1 .. Len(ts))
  BY <1>1, FS_Interval
<1>4. IsFiniteSet(Naming(ts, id))
  BY <1>2, <1>3, FS_Subset
<1>5. \A i \in 1 .. Len(ts) : ts[i] \in Trade
  OBVIOUS
<1>6. \A i \in 1 .. Len(ts) : ts[i].quantity \in Nat
  BY <1>5 DEF Trade
<1>. QED  BY <1>2, <1>4, <1>6

LEMMA ExecutedType ==
  ASSUME NEW ts \in Seq(Trade), NEW id
  PROVE  ExecutedIn(ts, id) \in Nat
BY NamingFinite, QuantityType DEF ExecutedIn

(* A trade adds its quantity to what its two orders have executed, and     *)
(* nothing to the others.                                                  *)
LEMMA ExecutedAppend ==
  ASSUME NEW ts \in Seq(Trade), NEW t \in Trade, NEW id
  PROVE  ExecutedIn(Append(ts, t), id) =
           IF id \in {t.buyOrderId, t.sellOrderId}
           THEN ExecutedIn(ts, id) + t.quantity ELSE ExecutedIn(ts, id)
<1> DEFINE us == Append(ts, t)
           k  == Len(ts) + 1
           S  == Naming(ts, id)
<1>1. /\ us \in Seq(Trade) /\ DOMAIN us = 1 .. k /\ us[k] = t
      /\ DOMAIN ts = 1 .. Len(ts) /\ Len(ts) \in Nat
      /\ \A i \in 1 .. Len(ts) : us[i] = ts[i]
  OBVIOUS
<1>2. /\ IsFiniteSet(S) /\ S \subseteq 1 .. Len(ts)
      /\ IsFiniteSet(Naming(us, id))
      /\ \A i \in Naming(us, id) : us[i].quantity \in Nat
  BY <1>1, NamingFinite
<1> HIDE DEF us
<1>3. \A i \in S : ts[i].quantity = us[i].quantity
  BY <1>1, <1>2
<1>4. QuantityIn(ts, S) = QuantityIn(us, S)
  BY <1>2, <1>3, QuantityAgrees
<1>5. k \notin S
  BY <1>1, <1>2
<1>6. CASE id \in {t.buyOrderId, t.sellOrderId}
  <2>1. Naming(us, id) = S \cup {k}
    BY <1>1, <1>6 DEF Naming
  <2>2. QuantityIn(us, S \cup {k}) = QuantityIn(us, S) + us[k].quantity
    <3> HIDE DEF S, k
    <3>. QED  BY <1>2, <1>5, <2>1, QuantityAdd
  <2>. QED  BY <1>1, <1>4, <1>6, <2>1, <2>2 DEF ExecutedIn, us
<1>7. CASE id \notin {t.buyOrderId, t.sellOrderId}
  <2>1. Naming(us, id) = S
    BY <1>1, <1>7 DEF Naming
  <2>. QED  BY <1>4, <1>7, <2>1 DEF ExecutedIn, us
<1>. QED  BY <1>6, <1>7

(* An id names one open order. *)
LEMMA LiveDistinct ==
  ASSUME HistoryInv
  PROVE  /\ \A x \in AllResting(book) : x \in Order
         /\ \A x, y \in AllResting(book) : x.orderId = y.orderId => x = y
         /\ busy => \A x \in AllResting(book) : x.orderId # order.orderId
         /\ \A x \in AllResting(book) : x.orderId \notin cancelled
<1> USE EngineAssumption
<1>1. /\ book \in Book(MinPrice, MaxPrice) /\ WellPlaced(book)
      /\ InOrder(book) /\ order \in Order /\ NoneOf(book, cancelled)
      /\ busy => Older(book, order.orderId)
      /\ Prices(book) = MinPrice .. MaxPrice
  BY BookFields DEF HistoryInv, HandTraced, Inv, TypeOK
<1>2. \A t \in Side, q \in MinPrice .. MaxPrice : book.levels[t][q] \in Seq(Order)
  <2>1. book.levels \in [Side -> [MinPrice .. MaxPrice -> Seq(Order)]]
    BY <1>1, BookFields
  <2>. QED  BY <2>1
<1>3. ASSUME NEW x \in AllResting(book)
      PROVE  /\ x \in Order /\ x.orderId \notin cancelled
             /\ busy => x.orderId # order.orderId
  <2>1. PICK t \in Side, q \in MinPrice .. MaxPrice :
          \E k \in DOMAIN book.levels[t][q] : x = book.levels[t][q][k]
    BY <1>1, AllRestingAt
  <2>2. x \in Order
    BY <1>2, <2>1
  <2>3. x.orderId \notin cancelled
    BY <1>1, <2>1 DEF NoneOf
  <2>4. busy => x.orderId < order.orderId
    BY <1>1, <2>1 DEF Older
  <2>5. x.orderId \in Nat /\ order.orderId \in Nat
    BY <1>1, <2>2 DEF Order
  <2>. QED  BY <2>2, <2>3, <2>4, <2>5
<1>4. ASSUME NEW x \in AllResting(book), NEW y \in AllResting(book),
             x.orderId = y.orderId
      PROVE  x = y
  <2>1. /\ book.orderIndex[x.orderId] = [price |-> x.price, side |-> x.side]
        /\ book.orderIndex[y.orderId] = [price |-> y.price, side |-> y.side]
    BY HistoryIndex DEF IndexLocates
  <2>2. x.price = y.price /\ x.side = y.side
    <3>1. [price |-> x.price, side |-> x.side] = [price |-> y.price, side |-> y.side]
      BY <1>4, <2>1
    <3>. QED  BY <3>1
  <2>. QED  BY <1>1, <1>4, <2>2, OneRests
<1>. QED  BY <1>3, <1>4

(* What each step does to the account. *)
LEMMA RestAccount ==
  ASSUME HistoryInv, AccountInv, Rest
  PROVE  AccountInv'
<1> USE EngineAssumption
<1>1. /\ book \in Book(MinPrice, MaxPrice) /\ order \in Order
      /\ busy => InHand(order, MinPrice, MaxPrice)
  BY DEF HistoryInv, Inv, TypeOK, OrderInHand
<1>2. /\ busy /\ MustRest(book, order)
      /\ book' = AddOrder(book, order) /\ busy' = FALSE
      /\ UNCHANGED << order, trades, received, cancelled >>
  BY Zenon DEF Rest
<1>3. order.price \in MinPrice .. MaxPrice /\ order.orderId \in OrderIds
  BY <1>1, <1>2, InHandRests DEF RestsAt
<1>4. AllResting(book') = AllResting(book) \cup {order}
  BY <1>1, <1>2, <1>3, RestAddsOrder
<1>5. Live' = Live
  BY <1>2, <1>4 DEF Live
<1>. QED  BY <1>2, <1>5 DEF AccountInv

(* The order in hand leaves: with nothing left, or a market order.         *)
LEMMA LeaveAccount ==
  ASSUME UniqueIds, HistoryInv, AccountInv, Expire \/ Return
  PROVE  AccountInv'
<1>1. /\ busy /\ busy' = FALSE /\ AllResting(book') = AllResting(book)
      /\ UNCHANGED << trades, received, cancelled >>
      /\ order.remainingQuantity > 0 => order.orderType = "MARKET"
  BY Zenon DEF Expire, Return, MustExpire, LoopGuard
<1>2. /\ order \in Order /\ trades \in Seq(Trade) /\ received \in Seq(NewOrders)
      /\ Came(received, order)
  BY <1>1 DEF HistoryInv, HandTraced, Inv, TypeOK
<1>3. Live = AllResting(book) \cup {order} /\ Live' = AllResting(book)
  BY <1>1 DEF Live
<1>4. \A x \in AllResting(book) : x.orderId # order.orderId
  BY <1>1, LiveDistinct
<1>5. SUFFICES ASSUME NEW i \in DOMAIN received
               PROVE  LET id == received[i].orderId
                      IN  Adds(received[i],
                               ExecutedIn(trades, id) + OpenIn(Live', id),
                               cancelled)
  BY <1>1 DEF AccountInv
<1> DEFINE id == received[i].orderId
           e  == ExecutedIn(trades, id)
<1>6. Adds(received[i], e + OpenIn(Live, id), cancelled)
  BY DEF AccountInv
<1>7. CASE id # order.orderId
  <2>1. OpenIn(Live, id) = OpenIn(Live', id)
    BY <1>3, <1>7, OpenSame
  <2>. QED  BY <1>6, <2>1
<1>8. CASE id = order.orderId
  <2>1. OpenIn(Live', id) = 0
    BY <1>3, <1>4, <1>8, OpenNone
  <2>2. OpenIn(Live, id) = order.remainingQuantity
    <3>1. order \in Live /\ \A y \in Live : y.orderId = order.orderId => y = order
      BY <1>3, <1>4
    <3>2. order.remainingQuantity \in Nat
      BY <1>2 DEF Order
    <3>. QED  BY <1>8, <3>1, <3>2, OpenOne
  <2>3. e \in Nat
    BY <1>2, ExecutedType
  <2>4. received[i].orderType = order.orderType
    <3>1. PICK j \in DOMAIN received : SameOrder(order, received[j])
      BY <1>2 DEF Came
    <3>2. j = i
      BY <1>8, <3>1, ArrivalUnique DEF SameOrder
    <3>. QED  BY <3>1, <3>2 DEF SameOrder
  <2>5. order.remainingQuantity \in Nat /\ received[i].quantity \in Nat
    BY <1>2, NewOrdersAreOrders DEF Order
  <2>6. e + order.remainingQuantity <= received[i].quantity
    BY <1>6, <2>2 DEF Adds
  <2>7. e + 0 <= received[i].quantity
    <3> HIDE DEF e, id
    <3>. QED  BY <2>3, <2>5, <2>6
  <2>8. CASE order.remainingQuantity = 0
    BY <1>6, <2>1, <2>2, <2>8
  <2>9. CASE order.orderType = "MARKET"
    BY <2>1, <2>4, <2>7, <2>9 DEF Adds
  <2>10. order.remainingQuantity = 0 \/ order.remainingQuantity > 0
    BY <2>5
  <2>. QED  BY <1>1, <2>8, <2>9, <2>10
<1>. QED  BY <1>7, <1>8

(* No resting order is cancelled, so none is skipped. *)
LEMMA NoneSkipped ==
  ASSUME HistoryInv
  PROVE  ~ SkipCancelled
<1> USE EngineAssumption
<1> SUFFICES ASSUME SkipCancelled PROVE FALSE
  OBVIOUS
<1>1. /\ book \in Book(MinPrice, MaxPrice) /\ order \in Order
      /\ WellPlaced(book) /\ book.cancelledOrders \subseteq cancelled
      /\ NoneOf(book, cancelled) /\ Prices(book) = MinPrice .. MaxPrice
  BY BookFields DEF HistoryInv, Inv, TypeOK
<1> DEFINE s == Opposite(order.side)
           r == Contra(book, order)
<1>2. ~ NoContra(book, order) /\ r.orderId \in book.cancelledOrders
  BY DEF SkipCancelled, MustSkip, StaleContra, IsCancelled
<1>3. /\ s \in Side /\ book.best[s] \in MinPrice .. MaxPrice
      /\ Occupied(book, s, book.best[s])
      /\ r = book.levels[s][book.best[s]][1]
  BY <1>1, <1>2, ContraCorrect
<1>4. book.levels[s][book.best[s]] \in Seq(Order)
  BY <1>1, <1>3, BookFields
<1>5. 1 \in DOMAIN book.levels[s][book.best[s]]
  BY <1>3, <1>4 DEF Occupied
<1>. QED  BY <1>1, <1>2, <1>3, <1>5 DEF NoneOf

(* A trade moves its quantity from open to executed, for both orders. *)
LEMMA TradeAccount ==
  ASSUME HistoryInv, AccountInv, ExecuteTrade
  PROVE  AccountInv'
<1> DEFINE r == Contra(book, order)
           q == TradeQuantity(book, order)
           f == Filled(r, q)
           t == TradeOf(book, order)
<1> USE EngineAssumption
<1>1. /\ busy /\ MustTrade(book, order) /\ busy' = busy
      /\ book' = BookAfterTrade(book, order)
      /\ order' = Filled(order, q)
      /\ trades' = Append(trades, t)
      /\ UNCHANGED << received, cancelled >>
  BY DEF ExecuteTrade
<1>2. /\ book \in Book(MinPrice, MaxPrice) /\ WellPlaced(book)
      /\ InOrder(book) /\ order \in Order /\ trades \in Seq(Trade)
  BY DEF HistoryInv, Inv, TypeOK
<1>3. ~ NoContra(book, order) /\ LoopGuard(order)
  BY <1>1 DEF MustTrade, LiveContra
<1>4. /\ q \in Nat /\ q > 0 /\ q <= order.remainingQuantity
      /\ q <= r.remainingQuantity /\ r \in Order
  BY <1>2, <1>3, TradeQuantityCorrect, ContraCorrect
<1>5. t \in Trade
  BY <1>1, <1>2, TradeOfCorrect
<1>6. /\ t.quantity = q
      /\ {t.buyOrderId, t.sellOrderId} = {order.orderId, r.orderId}
  BY DEF TradeOf
<1>7. /\ r \in AllResting(book)
      /\ AllResting(book') = (AllResting(book) \ {r}) \cup
                             {x \in {f} : x.remainingQuantity > 0}
  BY <1>1, <1>2, TradeReplacesOrder
<1>8. /\ f \in Order /\ f.orderId = r.orderId
      /\ f.remainingQuantity = r.remainingQuantity - q
      /\ order' \in Order /\ order'.orderId = order.orderId
      /\ order'.remainingQuantity = order.remainingQuantity - q
  BY <1>1, <1>2, <1>4, FilledCorrect
<1>9. /\ Live = AllResting(book) \cup {order}
      /\ Live' = AllResting(book') \cup {order'}
  BY <1>1 DEF Live
<1>10. /\ \A x, y \in AllResting(book) : x.orderId = y.orderId => x = y
       /\ \A x \in AllResting(book) : x.orderId # order.orderId
  BY <1>1, LiveDistinct
<1>11. order.remainingQuantity \in Nat /\ r.remainingQuantity \in Nat
  BY <1>2, <1>4 DEF Order
<1> HIDE DEF r, q, f, t
<1>12. ASSUME NEW id
       PROVE  ExecutedIn(trades', id) + OpenIn(Live', id)
                = ExecutedIn(trades, id) + OpenIn(Live, id)
  <2>1. ExecutedIn(trades', id) = IF id \in {order.orderId, r.orderId}
                                  THEN ExecutedIn(trades, id) + q
                                  ELSE ExecutedIn(trades, id)
    BY <1>1, <1>2, <1>5, <1>6, ExecutedAppend
  <2>2. ExecutedIn(trades, id) \in Nat
    BY <1>2, ExecutedType
  <2>3. CASE id = order.orderId
    <3>1. order \in Live /\ \A y \in Live : y.orderId = order.orderId => y = order
      BY <1>9, <1>10
    <3>2. OpenIn(Live, id) = order.remainingQuantity
      BY <1>11, <2>3, <3>1, OpenOne
    <3>3. /\ order' \in Live'
          /\ \A y \in Live' : y.orderId = order'.orderId => y = order'
      BY <1>7, <1>8, <1>9, <1>10
    <3>4. OpenIn(Live', id) = order'.remainingQuantity
      <4>1. order'.remainingQuantity \in Nat
        BY <1>8 DEF Order
      <4>. QED  BY <1>8, <2>3, <3>3, <4>1, OpenOne
    <3>. QED  BY <1>4, <1>8, <1>11, <2>1, <2>2, <2>3, <3>2, <3>4
  <2>4. CASE id = r.orderId /\ id # order.orderId
    <3>1. r \in Live /\ \A y \in Live : y.orderId = r.orderId => y = r
      BY <1>7, <1>9, <1>10
    <3>2. OpenIn(Live, id) = r.remainingQuantity
      BY <1>11, <2>4, <3>1, OpenOne
    <3>3. OpenIn(Live', id) = r.remainingQuantity - q
      <4>1. CASE f.remainingQuantity > 0
        <5>1. f \in Live' /\ \A y \in Live' : y.orderId = f.orderId => y = f
          BY <1>7, <1>8, <1>9, <1>10, <4>1
        <5>2. f.remainingQuantity \in Nat
          BY <1>8 DEF Order
        <5>. QED  BY <1>8, <2>4, <5>1, <5>2, OpenOne
      <4>2. CASE ~ (f.remainingQuantity > 0)
        <5>1. \A y \in Live' : y.orderId # id
          BY <1>7, <1>8, <1>9, <1>10, <2>4, <4>2
        <5>2. OpenIn(Live', id) = 0
          BY <5>1, OpenNone
        <5>3. r.remainingQuantity - q = 0
          BY <1>4, <1>8, <1>11, <4>2
        <5>. QED  BY <5>2, <5>3
      <4>. QED  BY <4>1, <4>2
    <3>. QED  BY <1>4, <1>11, <2>1, <2>2, <2>4, <3>2, <3>3
  <2>5. CASE id # order.orderId /\ id # r.orderId
    <3>1. \A x : x.orderId = id => (x \in Live <=> x \in Live')
      BY <1>7, <1>8, <1>9, <2>5
    <3>2. OpenIn(Live, id) = OpenIn(Live', id)
      BY <3>1, OpenSame
    <3>. QED  BY <2>1, <2>5, <3>2
  <2>. QED  BY <2>3, <2>4, <2>5
<1>. QED  BY <1>1, <1>12 DEF AccountInv

(* A cancel closes the order it names and no other. *)
LEMMA CancelAccount ==
  ASSUME UniqueIds, HistoryInv, AccountInv, HistoryInv',
         NEW id \in CancelIds, Cancel(id)
  PROVE  AccountInv'
<1> USE EngineAssumption
<1>1. /\ ~ busy /\ ~ busy' /\ book' = CancelOrder(book, id)
      /\ cancelled' = cancelled \cup {id}
      /\ UNCHANGED << trades, received >>
  BY Zenon DEF Cancel
<1>2. /\ book \in Book(MinPrice, MaxPrice) /\ trades \in Seq(Trade)
      /\ received \in Seq(NewOrders) /\ id \in OrderIds
  BY DEF HistoryInv, Inv, TypeOK
<1>3. /\ AllResting(book') \subseteq AllResting(book)
      /\ \A x \in AllResting(book) : x.orderId # id => x \in AllResting(book')
  BY <1>1, <1>2, CancelKeepsOthers
<1>4. Live = AllResting(book) /\ Live' = AllResting(book')
  BY <1>1 DEF Live
<1>5. \A x \in AllResting(book') : x.orderId \notin cancelled'
  <2>1. book' \in Book(MinPrice, MaxPrice) /\ NoneOf(book', cancelled')
    BY DEF HistoryInv, Inv, TypeOK
  <2>2. Prices(book') = MinPrice .. MaxPrice
    BY <2>1, BookFields
  <2>. QED  BY <2>1, <2>2, AllRestingAt DEF NoneOf
<1>6. SUFFICES ASSUME NEW i \in DOMAIN received
               PROVE  LET j == received[i].orderId
                      IN  Adds(received[i],
                               ExecutedIn(trades, j) + OpenIn(Live', j),
                               cancelled')
  BY <1>1 DEF AccountInv
<1> DEFINE j == received[i].orderId
           e == ExecutedIn(trades, j)
           n == OpenIn(Live, j)
<1>7. Adds(received[i], e + n, cancelled)
  BY DEF AccountInv
<1>8. CASE j # id
  <2>1. OpenIn(Live, j) = OpenIn(Live', j)
    BY <1>3, <1>4, <1>8, OpenSame
  <2>. QED  BY <1>1, <1>7, <2>1 DEF Adds
<1>9. CASE j = id
  <2>1. OpenIn(Live', j) = 0
    BY <1>1, <1>4, <1>5, <1>9, OpenNone
  <2>2. e \in Nat /\ received[i].quantity \in Nat
    BY <1>2, ExecutedType, NewOrdersAreOrders DEF Order
  <2>3. n \in Nat
    <3>1. CASE \E x \in AllResting(book) : x.orderId = j
      <4>1. PICK x \in AllResting(book) : x.orderId = j
        BY <3>1
      <4>2. n = x.remainingQuantity /\ x \in Order
        <5>1. x \in Order /\ \A y \in AllResting(book) : y.orderId = x.orderId => y = x
          BY LiveDistinct
        <5>2. x.remainingQuantity \in Nat
          BY <5>1 DEF Order
        <5>. QED  BY <1>4, <4>1, <5>1, <5>2, OpenOne
      <4>. QED  BY <4>2 DEF Order
    <3>2. CASE ~ \E x \in AllResting(book) : x.orderId = j
      BY <1>4, <3>2, OpenNone
    <3>. QED  BY <3>1, <3>2
  <2>4. e + n <= received[i].quantity
    BY <1>7 DEF Adds
  <2>5. e + 0 <= received[i].quantity
    <3> HIDE DEF e, n
    <3>. QED  BY <2>2, <2>3, <2>4
  <2>. QED  BY <1>1, <1>9, <2>1, <2>5 DEF Adds
<1>. QED  BY <1>8, <1>9

(* A new order is open in full, unless its id was cancelled before. *)
LEMMA ArriveAccount ==
  ASSUME UniqueIds, HistoryInv, AccountInv, NEW o \in NewOrders, ProcessOrder(o)
  PROVE  AccountInv'
<1> USE EngineAssumption
<1>1. /\ ~ busy /\ book' = book /\ order' = o /\ trades' = trades
      /\ cancelled' = cancelled /\ received' = Append(received, o)
      /\ \A i \in DOMAIN received : received[i].orderId < o.orderId
      /\ ~ busy' => o.orderId \in book.cancelledOrders
  BY Zenon DEF ProcessOrder, FreshId, IsCancelled
<1>2. /\ received \in Seq(NewOrders) /\ Traced(book, received)
      /\ book \in Book(MinPrice, MaxPrice) /\ trades \in Seq(Trade)
      /\ book.cancelledOrders \subseteq cancelled
      /\ \A n \in DOMAIN trades : Within(trades[n], received)
      /\ Prices(book) = MinPrice .. MaxPrice
  BY BookFields DEF HistoryInv, Inv, TypeOK
<1>3. /\ o.orderId \in Nat /\ o.quantity \in Nat
      /\ o.remainingQuantity = o.quantity
  BY NewOrdersAreOrders DEF Order
<1>4. \A i \in DOMAIN received : received[i].orderId # o.orderId
  <2>1. \A i \in DOMAIN received : received[i] \in NewOrders
    BY <1>2
  <2>2. \A i \in DOMAIN received : received[i].orderId \in Nat
    BY <2>1, NewOrdersAreOrders DEF Order
  <2>. QED  BY <1>1, <1>3, <2>2
<1>5. \A x \in AllResting(book) : x.orderId # o.orderId
  <2> SUFFICES ASSUME NEW x \in AllResting(book) PROVE x.orderId # o.orderId
    OBVIOUS
  <2>1. PICK t \in Side, q \in MinPrice .. MaxPrice :
          \E k \in DOMAIN book.levels[t][q] : x = book.levels[t][q][k]
    BY <1>2, AllRestingAt
  <2>2. Came(received, x)
    BY <1>2, <2>1 DEF Traced
  <2>. QED  BY <1>4, <2>2 DEF Came, SameOrder
<1>6. ExecutedIn(trades, o.orderId) = 0
  <2>1. \A n \in DOMAIN trades : /\ o.orderId # trades[n].buyOrderId
                                 /\ o.orderId # trades[n].sellOrderId
    BY <1>2, <1>4 DEF Within
  <2>. QED  BY <2>1, ExecutedNone
<1>7. /\ Live = AllResting(book)
      /\ Live' = AllResting(book) \cup {x \in {o} : busy'}
  BY <1>1 DEF Live
<1>8. Adds(o, ExecutedIn(trades, o.orderId) + OpenIn(Live', o.orderId), cancelled)
  <2>1. CASE busy'
    <3>1. o \in Live' /\ \A y \in Live' : y.orderId = o.orderId => y = o
      BY <1>5, <1>7, <2>1
    <3>2. OpenIn(Live', o.orderId) = o.quantity
      BY <1>3, <3>1, OpenOne
    <3>. QED  BY <1>3, <1>6, <3>2 DEF Adds
  <2>2. CASE ~ busy'
    <3>1. OpenIn(Live', o.orderId) = 0
      BY <1>5, <1>7, <2>2, OpenNone
    <3>2. o.orderId \in cancelled
      BY <1>1, <1>2, <2>2
    <3>. QED  BY <1>3, <1>6, <3>1, <3>2 DEF Adds
  <2>. QED  BY <2>1, <2>2
<1>9. ASSUME NEW i \in DOMAIN received
      PROVE  LET id == received[i].orderId
             IN  Adds(received[i], ExecutedIn(trades, id) + OpenIn(Live', id),
                      cancelled)
  <2> DEFINE id == received[i].orderId
  <2>1. Adds(received[i], ExecutedIn(trades, id) + OpenIn(Live, id), cancelled)
    BY DEF AccountInv
  <2>2. OpenIn(Live, id) = OpenIn(Live', id)
    <3>1. id # o.orderId
      BY <1>4
    <3> HIDE DEF id
    <3>. QED  BY <1>7, <3>1, OpenSame
  <2>. QED  BY <2>1, <2>2
<1>10. ASSUME NEW i \in DOMAIN received'
       PROVE  \/ i \in DOMAIN received /\ received'[i] = received[i]
              \/ received'[i] = o
  <2>1. received \in Seq(Order) /\ o \in Order
    BY <1>2, NewOrdersAreOrders
  <2>. QED  BY <1>1, <2>1
<1>. QED  BY <1>1, <1>8, <1>9, <1>10 DEF AccountInv

LEMMA InitAccount == Init => AccountInv
BY DEF Init, AccountInv

LEMMA NextAccount ==
  ASSUME UniqueIds, HistoryInv, AccountInv, [Next]_vars
  PROVE  AccountInv'
<1>1. HistoryInv'
  BY NextHistory
<1>2. ASSUME UNCHANGED vars PROVE AccountInv'
  <2>1. UNCHANGED << book, order, busy, trades, received, cancelled >>
    BY <1>2 DEF vars
  <2>2. Live' = Live
    BY <2>1 DEF Live
  <2>. QED  BY <2>1, <2>2 DEF AccountInv
<1>3. CASE Next
  BY <1>1, <1>3, ArriveAccount, RestAccount, LeaveAccount, NoneSkipped,
     TradeAccount, CancelAccount DEF Next, Loop
<1>. QED  BY <1>2, <1>3
----------------------------------------------------------------------------
(* The engine as an abstract limit order book. *)

(* When the loop ends with quantity left, no resting order is within the   *)
(* reach of the order in hand.                                             *)
LEMMA NothingInReach ==
  ASSUME TradingInv, busy,
         \/ NoContra(book, order)
         \/ LiveContra(book, order) /\ OutOfReach(book, order)
  PROVE  Abstract!Candidates = {}
<1> DEFINE s == Opposite(order.side)
           p == book.best[s]
<1> USE EngineAssumption
<1>1. /\ book \in Book(MinPrice, MaxPrice) /\ WellPlaced(book) /\ Reached(book)
      /\ PointsAtLive(book) /\ order \in Order /\ order.price \in MinPrice .. MaxPrice
  BY DEF TradingInv, Inv, TypeOK, OrderInHand, InHand
<1>2. /\ Prices(book) = MinPrice .. MaxPrice
      /\ book.minPrice = MinPrice /\ book.maxPrice = MaxPrice
      /\ \A t \in Side : book.best[t] \in MinPrice .. MaxPrice
  BY <1>1, BookFields
<1>3. s \in Side /\ order.side \in Side
  BY <1>1 DEF Opposite, Side, Order
<1> SUFFICES ASSUME NEW r \in AllResting(book), r.side # order.side,
                    Abstract!WithinLimit(order, r)
             PROVE  FALSE
  BY DEF Abstract!Candidates
<1>4. PICK t \in Side, x \in MinPrice .. MaxPrice :
        \E k \in DOMAIN book.levels[t][x] : r = book.levels[t][x][k]
  BY <1>1, AllRestingAt
<1>5. r.side = t /\ r.price = x
  BY <1>1, <1>2, <1>4 DEF WellPlaced, RestsAt
<1>6. t = s
  BY <1>3, <1>5 DEF Opposite, Side
<1>7. Occupied(book, s, x)
  <2>1. book.levels[s][x] \in Seq(Order)
    BY <1>1, <1>3, BookFields
  <2>. QED  BY <1>4, <1>6, <2>1 DEF Occupied
<1>8. ~ Better(s, x, p)
  BY <1>1, <1>2, <1>3, <1>7 DEF Reached
<1>9. Occupied(book, s, p)
  <2>1. CASE p = WorstPrice(book, s)
    <3>1. x = p
      BY <1>2, <1>3, <1>8, <2>1 DEF WorstPrice, Better, Side
    <3>. QED  BY <1>7, <3>1
  <2>. QED  BY <1>1, <1>3, <2>1 DEF PointsAtLive
<1>10. ~ NoContra(book, order)
  BY <1>1, <1>9, NoContraCorrect
<1>11. Contra(book, order).price = p /\ OutOfReach(book, order)
  BY <1>1, <1>10, ContraCorrect DEF RestsAt
<1>12. order.orderType = "LIMIT" /\ Better(order.side, p, order.price)
  BY <1>11 DEF OutOfReach
<1>13. Better(order.side, x, order.price)
  BY <1>1, <1>2, <1>3, <1>8, <1>12 DEF Better, Opposite, Side
<1>. QED  BY <1>5, <1>12, <1>13 DEF Abstract!WithinLimit, Abstract!Better, Better

LEMMA TradeMatches ==
  ASSUME HistoryInv, ExecuteTrade
  PROVE  \E r \in Abstract!Candidates : Abstract!Match(r)
<1> DEFINE r == Contra(book, order)
           s == Opposite(order.side)
           n == TradeQuantity(book, order)
           f == Filled(r, n)
<1> USE EngineAssumption
<1>1. /\ book \in Book(MinPrice, MaxPrice) /\ WellPlaced(book) /\ Reached(book)
      /\ InOrder(book) /\ order \in Order
  BY DEF HistoryInv, Inv, TypeOK
<1>2. /\ busy /\ MustTrade(book, order)
      /\ book' = BookAfterTrade(book, order)
      /\ order' = Filled(order, n)
      /\ trades' = Append(trades, TradeOf(book, order))
      /\ UNCHANGED << busy, received, cancelled >>
  BY DEF ExecuteTrade
<1>3. /\ ~ NoContra(book, order) /\ LoopGuard(order)
      /\ ~ OutOfReach(book, order)
  BY <1>2 DEF MustTrade, LiveContra
<1>4. /\ s \in Side /\ r \in Order /\ r.side = s
  BY <1>1, <1>3, ContraCorrect DEF RestsAt
<1>5. order.side \in Side /\ s # order.side
  BY <1>1 DEF Order, Opposite, Side
<1>6. /\ r \in AllResting(book)
      /\ AllResting(book') = (AllResting(book) \ {r}) \cup
                             {x \in {f} : x.remainingQuantity > 0}
  BY <1>1, <1>2, TradeReplacesOrder
<1>7. r \in Abstract!Candidates
  BY <1>3, <1>4, <1>5, <1>6
     DEF Abstract!Candidates, Abstract!WithinLimit, Abstract!Better, Better, OutOfReach
<1>8. ASSUME NEW q \in Abstract!Candidates \ {r} PROVE Abstract!Ahead(r, q)
  <2>1. q \in AllResting(book) /\ q.side # order.side /\ q # r
    BY DEF Abstract!Candidates
  <2>2. q \in Resting(book, s)
    <3>1. PICK t \in Side, x \in MinPrice .. MaxPrice :
            \E k \in DOMAIN book.levels[t][x] : q = book.levels[t][x][k]
      BY <1>1, <2>1, AllRestingAt
    <3>2. Prices(book) = MinPrice .. MaxPrice
      BY <1>1, BookFields
    <3>3. q.side = t
      BY <1>1, <3>1, <3>2 DEF WellPlaced, RestsAt
    <3>4. t = s
      BY <1>5, <2>1, <3>3 DEF Opposite, Side
    <3>. QED  BY <3>1, <3>2, <3>4 DEF Resting
  <2>3. /\ q.side = s
        /\ \/ Better(q.side, r.price, q.price)
           \/ r.price = q.price /\ r.orderId < q.orderId
    BY <1>1, <1>3, <2>1, <2>2, ContraFirst
  <2>. QED  BY <1>4, <2>3 DEF Abstract!Ahead, Abstract!Better, Better
<1>9. /\ n \in {order.remainingQuantity, r.remainingQuantity}
      /\ n <= order.remainingQuantity /\ n <= r.remainingQuantity
  BY <1>1, <1>3, TradeQuantityCorrect DEF TradeQuantity
<1>10. order' = Abstract!Take(order, n) /\ f = Abstract!Take(r, n)
  <2>1. \A o, m : Filled(o, m) = Abstract!Take(o, m)
    BY DEF Filled, Abstract!Take
  <2>. QED  BY <1>2, <2>1
<1>11. \E buy, sell \in {order, r} :
         /\ buy.side = "BUY" /\ sell.side = "SELL"
         /\ trades' = Append(trades,
              [buyOrderId |-> buy.orderId, sellOrderId |-> sell.orderId,
               price |-> sell.price, quantity |-> n,
               symbol |-> sell.symbol])
  <2>1. CASE order.side = "BUY"
    <3>1. TradeOf(book, order) =
            [buyOrderId |-> order.orderId, sellOrderId |-> r.orderId,
             price |-> r.price, quantity |-> n, symbol |-> r.symbol]
      BY <2>1 DEF TradeOf
    <3>2. r.side = "SELL"
      BY <1>4, <2>1 DEF Opposite
    <3>. QED  BY <1>2, <2>1, <3>1, <3>2
  <2>2. CASE order.side = "SELL"
    <3>1. TradeOf(book, order) =
            [buyOrderId |-> r.orderId, sellOrderId |-> order.orderId,
             price |-> order.price, quantity |-> n, symbol |-> order.symbol]
      BY <2>2 DEF TradeOf
    <3>2. r.side = "BUY"
      BY <1>4, <2>2 DEF Opposite
    <3>. QED  BY <1>2, <2>2, <3>1, <3>2
  <2>. QED  BY <1>5, <2>1, <2>2 DEF Side
<1>12. Abstract!Match(r)
  <2>1. order.remainingQuantity > 0
    BY <1>3 DEF LoopGuard
  <2> HIDE DEF r, n, f
  <2>. QED  BY <1>2, <1>6, <1>8, <1>9, <1>10, <1>11, <2>1 DEF Abstract!Match
<1>. QED  BY <1>7, <1>12

LEMMA StepImplemented ==
  ASSUME CancelIds = {}, HistoryInv, TradingInv, [Next]_vars
  PROVE  [Abstract!Next]_(Abstract!vars)
<1> USE EngineAssumption
<1>1. /\ book \in Book(MinPrice, MaxPrice) /\ order \in Order
      /\ cancelled = {} /\ book.cancelledOrders = {}
  BY DEF HistoryInv, Inv, TypeOK
<1>2. ASSUME NEW o \in NewOrders, ProcessOrder(o) PROVE Abstract!Arrive(o)
  <2>1. busy' = TRUE
    BY <1>1, <1>2, Zenon DEF ProcessOrder, IsCancelled
  <2>2. o.orderId \notin cancelled
    BY <1>1
  <2>. QED  BY <1>2, <2>1, <2>2, Zenon DEF ProcessOrder, Abstract!Arrive
<1>3. ASSUME Rest PROVE Abstract!Close
  <2>1. /\ busy /\ MustRest(book, order)
        /\ book' = AddOrder(book, order) /\ busy' = FALSE
        /\ UNCHANGED << order, trades, received, cancelled >>
    BY <1>3, Zenon DEF Rest
  <2>2. order.price \in MinPrice .. MaxPrice /\ order.orderId \in OrderIds
    BY <1>1, <2>1, InHandRests DEF HistoryInv, Inv, OrderInHand, RestsAt
  <2>3. AllResting(book') = AllResting(book) \cup {order}
    BY <1>1, <2>1, <2>2, RestAddsOrder
  <2>4. Abstract!Candidates = {}
    BY <2>1, NothingInReach DEF MustRest
  <2>5. order.remainingQuantity > 0 /\ order.orderType = "LIMIT"
    BY <2>1 DEF MustRest, LoopGuard
  <2>. QED  BY <2>1, <2>3, <2>4, <2>5, Zenon DEF Abstract!Close
<1>4. ASSUME Expire PROVE Abstract!Close
  <2>1. /\ busy /\ MustExpire(book, order)
        /\ order' = [order EXCEPT !.status = "CANCELLED"] /\ busy' = FALSE
        /\ UNCHANGED << book, trades, received, cancelled >>
    BY <1>4, Zenon DEF Expire
  <2>2. AllResting(book') = AllResting(book)
    BY <2>1
  <2>3. Abstract!Candidates = {}
    BY <2>1, NothingInReach DEF MustExpire
  <2>4. order.remainingQuantity > 0 /\ order.orderType = "MARKET"
    BY <2>1 DEF MustExpire, LoopGuard
  <2>. QED  BY <2>1, <2>2, <2>3, <2>4, Zenon DEF Abstract!Close
<1>5. ~ SkipCancelled
  BY <1>1 DEF SkipCancelled, MustSkip, StaleContra, IsCancelled
<1>6. ASSUME Return PROVE Abstract!Close
  <2>1. /\ busy /\ busy' = FALSE
        /\ UNCHANGED << book, order, trades, received, cancelled >>
    BY <1>6, Zenon DEF Return
  <2>2. order.remainingQuantity = 0
    BY <1>1, <1>6 DEF Return, LoopGuard, Order
  <2>3. AllResting(book') = AllResting(book)
    BY <2>1
  <2>. QED  BY <2>1, <2>2, <2>3, Zenon DEF Abstract!Close
<1>7. ASSUME UNCHANGED vars PROVE UNCHANGED Abstract!vars
  BY <1>7 DEF vars, Abstract!vars
<1>8. CASE Next
  BY <1>2, <1>3, <1>4, <1>5, <1>6, <1>8, TradeMatches
     DEF Next, Loop, Abstract!Next
<1>. QED  BY <1>7, <1>8

LEMMA InitImplemented == Init => Abstract!Init
<1> SUFFICES ASSUME Init PROVE Abstract!Init
  OBVIOUS
<1> USE EngineAssumption
<1>1. /\ book \in Book(MinPrice, MaxPrice)
      /\ \A s \in Side, p \in MinPrice .. MaxPrice : book.levels[s][p] = << >>
  BY NewBookCorrect DEF Init
<1>2. AllResting(book) = {}
  BY <1>1, AllRestingAt
<1>. QED  BY <1>2, Zenon DEF Init, Abstract!Init, EmptyOrder, Abstract!EmptyOrder
----------------------------------------------------------------------------
(* Every variable of the engine keeps its type, whatever is cancelled and  *)
(* whatever ids clients reuse: a book never holds an order outside its     *)
(* price range and no pointer leaves it, so no access to a deque of bids   *)
(* or asks is out of bounds.                                               *)
THEOREM TypeCorrect == Spec => []TypeOK
<1>1. Inv => TypeOK
  BY DEF Inv
<1>2. Inv /\ [Next]_vars => Inv'
  BY NextInv
<1>3. Init => Inv
  BY InitInv DEF TradingInv
<1>. QED  BY <1>1, <1>2, <1>3, PTL DEF Spec

(* Under any cancels and any reuse of ids, no order rests beyond the best  *)
(* pointer of its side, where no scan would find it again.                 *)
THEOREM PointersCorrect == Spec => []PointerBounds
<1>1. Inv => PointerBounds
  BY InvBounds
<1>2. Inv /\ [Next]_vars => Inv'
  BY NextInv
<1>3. Init => Inv
  BY InitInv DEF TradingInv
<1>. QED  BY <1>1, <1>2, <1>3, PTL DEF Spec

(* Every iteration of the loop of processOrder but the last removes an     *)
(* order of the other side or fills the one in hand, for any book, any ids *)
(* and any cancels, and ToMatch is a natural number: no call goes round    *)
(* more often than that side has orders and once more.                     *)
THEOREM LoopShrinks == Spec => EveryIterationShrinks /\ [](ToMatch \in Nat)
<1>1. Inv /\ [Next]_vars => [busy /\ busy' => ToMatch' < ToMatch]_vars
  BY IterationShrinks
<1>2. Inv => ToMatch \in Nat
  <2> SUFFICES ASSUME Inv PROVE ToMatch \in Nat
    OBVIOUS
  <2>1. /\ book \in Book(MinPrice, MaxPrice) /\ order \in Order
        /\ MinPrice \in Int /\ MaxPrice \in Int
    BY EngineAssumption DEF Inv, TypeOK
  <2>2. Opposite(order.side) \in Side
    BY <2>1 DEF Order, Side, Opposite
  <2>3. Cardinality(Places(book, Opposite(order.side))) \in Nat
    BY <2>1, <2>2, PlacesFinite
  <2> QED  BY <2>3 DEF ToMatch
<1>3. Inv /\ [Next]_vars => Inv'
  BY NextInv
<1>4. Init => Inv
  BY InitInv DEF TradingInv
<1>. QED  BY <1>1, <1>2, <1>3, <1>4, PTL DEF Spec, EveryIterationShrinks

(* Under any cancels and any reuse of ids, every resting order is on the   *)
(* level of its own side and price, has quantity left, and has the status  *)
(* its fills imply.                                                        *)
THEOREM LevelsCorrect == Spec => []RestingWellFormed
<1>1. Inv => RestingWellFormed
  BY InvBounds
<1>2. Inv /\ [Next]_vars => Inv'
  BY NextInv
<1>3. Init => Inv
  BY InitInv DEF TradingInv
<1>. QED  BY <1>1, <1>2, <1>3, PTL DEF Spec

(* While nothing is cancelled, no bid ever rests at or above an ask. *)
THEOREM BookNeverCrossed ==
  ASSUME CancelIds = {}
  PROVE  Spec => []NoCrossedBook
<1>1. TradingInv => NoCrossedBook
  BY TradingInvBest
<1>2. TradingInv /\ [Next]_vars => TradingInv'
  BY NextInv DEF TradingInv
<1>3. Init => TradingInv
  BY InitInv
<1>. QED  BY <1>1, <1>2, <1>3, PTL DEF Spec

(* While nothing is cancelled, getBestBid and getBestAsk return the best   *)
(* resting order of their side.                                            *)
THEOREM BestCorrect ==
  ASSUME CancelIds = {}
  PROVE  Spec => []BestIsBest
<1>1. TradingInv => BestIsBest
  BY TradingInvBest
<1>2. TradingInv /\ [Next]_vars => TradingInv'
  BY NextInv DEF TradingInv
<1>3. Init => TradingInv
  BY InitInv
<1>. QED  BY <1>1, <1>2, <1>3, PTL DEF Spec

(* If ids are unique, a trade is between a buy and a sell order, one of    *)
(* which is a limit order; a limit seller never gets less than its limit,  *)
(* and from one a limit buyer never pays more than its own, whatever fills *)
(* and cancels were between (executeTrade logs the seller's price).        *)
THEOREM LimitsCorrect ==
  ASSUME UniqueIds
  PROVE  Spec => []LimitsRespected
<1>1. HistoryInv => LimitsRespected
  BY HistoryLimits
<1>2. HistoryInv /\ [Next]_vars => HistoryInv'
  BY NextHistory
<1>3. Init => HistoryInv
  BY InitHistory
<1>. QED  BY <1>1, <1>2, <1>3, PTL DEF Spec

(* If ids are unique, orderIndex leads cancelOrder to every order that     *)
(* rests, although filled orders leave their entries behind.               *)
THEOREM IndexCorrect ==
  ASSUME UniqueIds
  PROVE  Spec => []IndexLocates
<1>1. HistoryInv => IndexLocates
  BY HistoryIndex
<1>2. HistoryInv /\ [Next]_vars => HistoryInv'
  BY NextHistory
<1>3. Init => HistoryInv
  BY InitHistory
<1>. QED  BY <1>1, <1>2, <1>3, PTL DEF Spec

(* If ids are unique, an id that was cancelled is off the book and never   *)
(* trades again, whether its order came before or after the cancel.        *)
THEOREM CancelCorrect ==
  ASSUME UniqueIds
  PROVE  Spec => CancelIsFinal
<1>1. HistoryInv /\ [Next]_vars =>
        [ /\ \A o \in AllResting(book) : o.orderId \notin cancelled
          /\ Len(trades') > Len(trades) =>
               cancelled \cap {trades'[Len(trades')].buyOrderId,
                               trades'[Len(trades')].sellOrderId} = {} ]_vars
  BY HistoryCancels
<1>2. HistoryInv /\ [Next]_vars => HistoryInv'
  BY NextHistory
<1>3. Init => HistoryInv
  BY InitHistory
<1>. QED  BY <1>1, <1>2, <1>3, PTL DEF Spec, CancelIsFinal

(* If ids are unique, every trade takes the best-priced and, among equals, *)
(* the oldest order of the other side, under any cancels.                  *)
THEOREM PriorityCorrect ==
  ASSUME UniqueIds
  PROVE  Spec => PriceTimePriority
<1>1. HistoryInv /\ [Next]_vars =>
        [Len(trades') > Len(trades) =>
           LET t    == trades'[Len(trades')]
               with == IF order.side = "BUY" THEN t.sellOrderId ELSE t.buyOrderId
               r    == received[Arrival(with)]
           IN  \A q \in Resting(book, Opposite(order.side)) :
                 \/ Better(q.side, r.price, q.price)
                 \/ r.price = q.price /\ Arrival(with) <= Arrival(q.orderId)]_vars
  BY HistoryPriority
<1>2. HistoryInv /\ [Next]_vars => HistoryInv'
  BY NextHistory
<1>3. Init => HistoryInv
  BY InitHistory
<1>. QED  BY <1>1, <1>2, <1>3, PTL DEF Spec, PriceTimePriority

(* If ids are unique, no quantity is created or lost between the orders    *)
(* that came, the book, the order in hand and the trade log, whatever      *)
(* fills in part, is cancelled or expires.                                 *)
THEOREM FillsAddUp ==
  ASSUME UniqueIds
  PROVE  Spec => []FillsAccounted
<1>1. HistoryInv /\ [Next]_vars => HistoryInv'
  BY NextHistory
<1>2. HistoryInv /\ AccountInv /\ [Next]_vars => AccountInv'
  BY NextAccount
<1>3. Init => HistoryInv /\ AccountInv
  BY InitHistory, InitAccount
<1>4. AccountInv => FillsAccounted
  BY AccountedFills
<1>. QED  BY <1>1, <1>2, <1>3, <1>4, PTL DEF Spec

(* Driven with unique ids and no cancels, as the program drives it, the    *)
(* engine with its levels, pointers and scans is the abstract limit order  *)
(* book: a set of orders matched by price and time, whatever the prices,   *)
(* quantities and numbers of orders.                                       *)
THEOREM LimitOrderBookImplemented ==
  ASSUME UniqueIds, CancelIds = {}
  PROVE  Spec => ImplementsLimitOrderBook
<1>1. Init => Abstract!Init
  BY InitImplemented
<1>2. HistoryInv /\ TradingInv /\ [Next]_vars => [Abstract!Next]_(Abstract!vars)
  BY StepImplemented
<1>3. HistoryInv /\ [Next]_vars => HistoryInv'
  BY NextHistory
<1>4. TradingInv /\ [Next]_vars => TradingInv'
  BY NextInv DEF TradingInv
<1>5. Init => HistoryInv /\ TradingInv
  BY InitHistory, InitInv
<1>. QED
  BY <1>1, <1>2, <1>3, <1>4, <1>5, PTL
     DEF Spec, ImplementsLimitOrderBook, Abstract!Spec
============================================================================
