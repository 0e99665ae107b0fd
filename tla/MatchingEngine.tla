--------------------------- MODULE MatchingEngine ---------------------------
(***************************************************************************)
(* The matching engine of one symbol (src/matchingengine.cpp) on its       *)
(* OrderBook.  A call of processOrder is a sequence of steps, one per      *)
(* iteration of its loop; calls of processOrder and cancelOrder do not     *)
(* overlap, since one thread owns the book.                                *)
(***************************************************************************)
EXTENDS MatchingStep, FiniteSetsExt

CONSTANTS
  Symbol,               \* the symbol of this book
  MinPrice, MaxPrice,   \* its price range (symbolConfig, exchange.h:13)
  Quantities,           \* the quantities clients ask for
  OrderTypes,           \* the order types clients use
  CancelIds,            \* the ids clients may cancel
  UniqueIds,            \* whether ids increase, as the feed's nextOrderId++
  MaxOrders             \* bound: calls of processOrder

ASSUME EngineAssumption ==
  /\ Symbol \in Symbols
  /\ MinPrice \in Int /\ MaxPrice \in Int /\ MinPrice <= MaxPrice
  /\ Quantities \subseteq Nat \ {0}
  /\ OrderTypes \subseteq OrderType
  /\ CancelIds \subseteq OrderIds
  /\ UniqueIds \in BOOLEAN
  /\ MaxOrders \in Nat

VARIABLES
  book,       \* the OrderBook the engine refers to
  order,      \* the caller's Order, passed by reference to processOrder
  busy,       \* a call of processOrder is in progress
  trades,     \* trades.log
  received,   \* history: the orders passed to processOrder, in call order
  cancelled   \* history: the ids passed to cancelOrder

vars == << book, order, busy, trades, received, cancelled >>

(* The orders Exchange::processOrder lets through: price in range,         *)
(* quantity positive, nothing of it executed yet.                          *)
NewOrders ==
  {[side |-> s, symbol |-> Symbol, price |-> p, quantity |-> q,
    orderType |-> t, orderId |-> i, remainingQuantity |-> q,
    status |-> "NEW"] :
     s \in Side, p \in MinPrice .. MaxPrice, q \in Quantities,
     t \in OrderTypes, i \in OrderIds}

(* No price ever indexes the level arrays out of their bounds, no pointer  *)
(* leaves them, and no unsigned remaining quantity goes below zero.        *)
TypeOK ==
  /\ book \in Book(MinPrice, MaxPrice)
  /\ order \in Order
  /\ busy \in BOOLEAN
  /\ trades \in Seq(Trade)
  /\ received \in Seq(NewOrders)
  /\ cancelled \subseteq CancelIds

Init ==
  /\ book = NewBook(MinPrice, MaxPrice)
  /\ order = EmptyOrder
  /\ busy = FALSE
  /\ trades = << >>
  /\ received = << >>
  /\ cancelled = {}
----------------------------------------------------------------------------
FreshId(o) ==
  \A i \in DOMAIN received : UniqueIds => received[i].orderId < o.orderId

(* Mutant of ProcessOrder: an incoming order that was cancelled goes on. *)
ProcessOrder_IgnoresCancel(o) ==
  /\ ~ busy
  /\ Len(received) < MaxOrders
  /\ FreshId(o)
  /\ order' = o
  /\ busy' = TRUE
  /\ received' = Append(received, o)
  /\ UNCHANGED << book, trades, cancelled >>

(* A call of processOrder enters its loop, unless the incoming order has   *)
(* been cancelled already: then it returns at once.                        *)
ProcessOrder(o) ==
  /\ ~ busy
  /\ Len(received) < MaxOrders
  /\ FreshId(o)
  /\ order' = o
  /\ busy' = ~ IsCancelled(book, o.orderId)
  /\ received' = Append(received, o)
  /\ UNCHANGED << book, trades, cancelled >>

Rest ==
  /\ busy
  /\ MustRest(book, order)
  /\ book' = AddOrder(book, order)
  /\ busy' = FALSE
  /\ UNCHANGED << order, trades, received, cancelled >>

(* What a market order could not execute is cancelled, never rested. *)
Expire ==
  /\ busy
  /\ MustExpire(book, order)
  /\ order' = [order EXCEPT !.status = "CANCELLED"]
  /\ busy' = FALSE
  /\ UNCHANGED << book, trades, received, cancelled >>

(* Mutant of SkipCancelled: continue without removing the stale order. *)
SkipCancelled_NoRemove ==
  /\ busy
  /\ MustSkip(book, order)
  /\ UNCHANGED vars

SkipCancelled ==
  /\ busy
  /\ MustSkip(book, order)
  /\ book' = RemoveTop(book, Opposite(order.side))
  /\ UNCHANGED << order, busy, trades, received, cancelled >>

ExecuteTrade ==
  /\ busy
  /\ MustTrade(book, order)
  /\ book' = BookAfterTrade(book, order)
  /\ order' = Filled(order, TradeQuantity(book, order))
  /\ trades' = Append(trades, TradeOf(book, order))
  /\ UNCHANGED << busy, received, cancelled >>

Return ==
  /\ busy
  /\ ~ LoopGuard(order)
  /\ busy' = FALSE
  /\ UNCHANGED << book, order, trades, received, cancelled >>

Cancel(id) ==
  /\ ~ busy
  /\ book' = CancelOrder(book, id)
  /\ cancelled' = cancelled \cup {id}
  /\ UNCHANGED << order, busy, trades, received >>

Loop == Rest \/ Expire \/ SkipCancelled \/ ExecuteTrade \/ Return

Next ==
  \/ \E o \in NewOrders : ProcessOrder(o)
  \/ Loop
  \/ \E id \in CancelIds : Cancel(id)

Spec == Init /\ [][Next]_vars

(* The thread that called processOrder keeps running its loop. *)
FairSpec == Spec /\ WF_vars(Loop)
----------------------------------------------------------------------------
(* No bid rests at or above a resting ask: the loop of processOrder rests  *)
(* a limit order only when the best opposite order is out of its reach, so *)
(* the pointer it looks through must never hide a reachable order.         *)
NoCrossedBook ==
  \A b \in Resting(book, "BUY"), a \in Resting(book, "SELL") :
    b.price < a.price

(* getBestBid and getBestAsk return an order that no resting order of that *)
(* side beats, and the empty order only when that side is empty: the       *)
(* pointers follow every addOrder and every scan of removeTop.             *)
BestIsBest ==
  \A s \in Side :
    LET best == GetBest(book, s) IN
    \A r \in Resting(book, s) :
      best \in Resting(book, s) /\ ~ Better(s, r.price, best.price)

(* No order rests beyond the best pointer, whatever has been cancelled:    *)
(* the scans of removeTop only look from the pointer towards worse prices, *)
(* so an order beyond it would be lost.                                    *)
PointerBounds ==
  \A s \in Side : \A r \in Resting(book, s) :
    ~ Better(s, r.price, book.best[s])

(* Every resting order sits on the side and level its own fields name,     *)
(* still has quantity to trade, is a limit order, and has the status its   *)
(* fills imply: levels are indexed by price and updated in place.          *)
RestingWellFormed ==
  \A s \in Side, p \in MinPrice .. MaxPrice :
    \A i \in DOMAIN book.levels[s][p] :
      LET o == book.levels[s][p][i] IN
      /\ o.side = s /\ o.price = p /\ o.orderType = "LIMIT"
      /\ o.remainingQuantity \in 1 .. o.quantity
      /\ o.status = IF o.remainingQuantity = o.quantity
                     THEN "NEW" ELSE "PARTIAL_FILL"

Arrival(id) == CHOOSE i \in DOMAIN received : received[i].orderId = id

(* A trade takes the best-priced, and among equals the earliest, resting   *)
(* order of the other side: the price-time priority of the README.         *)
PriceTimePriority ==
  [][Len(trades') > Len(trades) =>
       LET t    == trades'[Len(trades')]
           with == IF order.side = "BUY" THEN t.sellOrderId ELSE t.buyOrderId
           r    == received[Arrival(with)]
       IN  \A q \in Resting(book, Opposite(order.side)) :
             \/ Better(q.side, r.price, q.price)
             \/ r.price = q.price /\ Arrival(with) <= Arrival(q.orderId)]_vars

Sum(f(_), S) == MapThenSumSet(f, S)

Executed(id) ==
  Sum(LAMBDA i : trades[i].quantity,
      {i \in DOMAIN trades : id \in {trades[i].buyOrderId,
                                     trades[i].sellOrderId}})

Open(id) ==
  Sum(LAMBDA o : o.remainingQuantity,
      {o \in AllResting(book) \cup {x \in {order} : busy} : o.orderId = id})

(* No quantity is created or lost between the trade log, the book and the  *)
(* order in hand, across partial fills and the copy addOrder makes.  Only  *)
(* a cancel and the end of a market order give quantity up.                *)
FillsAccounted ==
  \A i \in DOMAIN received :
    LET o == received[i]
        n == Executed(o.orderId) + Open(o.orderId)
    IN  /\ n <= o.quantity
        /\ o.orderType = "LIMIT" /\ o.orderId \notin cancelled
             => n = o.quantity

(* A trade is between a buy and a sell order, never two market orders: one *)
(* of them rested, and a market order does not.  No limit order sells      *)
(* below its limit, and none buys above it from another.  executeTrade     *)
(* logs the seller's price even when the buy order was resting, so of a    *)
(* market seller's trades the log shows any price.                         *)
LimitsRespected ==
  \A n \in DOMAIN trades :
    LET buy  == received[Arrival(trades[n].buyOrderId)]
        sell == received[Arrival(trades[n].sellOrderId)]
    IN  /\ buy.side = "BUY" /\ sell.side = "SELL"
        /\ "LIMIT" \in {buy.orderType, sell.orderType}
        /\ sell.orderType = "LIMIT" =>
             /\ sell.price <= trades[n].price
             /\ buy.orderType = "LIMIT" => trades[n].price <= buy.price

(* An id passed to cancelOrder never trades again and is not on the book,  *)
(* whether the cancel came before its order, while it rested, or after.    *)
CancelIsFinal ==
  [][ /\ \A o \in AllResting(book) : o.orderId \notin cancelled
      /\ Len(trades') > Len(trades) =>
           cancelled \cap {trades'[Len(trades')].buyOrderId,
                           trades'[Len(trades')].sellOrderId} = {} ]_vars

(* orderIndex leads cancelOrder to every order that rests. *)
IndexLocates ==
  \A o \in AllResting(book) :
    book.orderIndex[o.orderId] = [price |-> o.price, side |-> o.side]

(* README.md design decision 3 (lines 112-116): a cancelled order is not   *)
(* removed from its deque by the cancel; its id is recorded and the order  *)
(* is dropped when it reaches the front.                                   *)
LazyDeletion ==
  [][ \A id \in CancelIds : Cancel(id) =>
        book'.levels = book.levels /\ id \in book'.cancelledOrders ]_vars

(* Every call of processOrder returns: each iteration of the loop trades,  *)
(* removes a cancelled resting order, or is the last one.                  *)
ProcessOrderReturns == busy ~> ~ busy

(* The places of the queues of side s. *)
Places(b, s) == UNION {{<< p, i >> : i \in DOMAIN b.levels[s][p]} : p \in Prices(b)}

(* The orders the loop of processOrder can still meet, and the one in hand. *)
ToMatch ==
  Cardinality(Places(book, Opposite(order.side)))
    + (IF LoopGuard(order) THEN 1 ELSE 0)

(* An iteration that is not the last leaves one of them less: it removes a *)
(* resting order, cancelled or filled (matchingengine.cpp:43, 58), or has  *)
(* filled the order in hand.  So a call has at most one iteration more     *)
(* than the other side has orders, whatever the quantities.                *)
EveryIterationShrinks == [][busy /\ busy' => ToMatch' < ToMatch]_vars

(* The engine implements the abstract limit order book. *)
Abstract ==
  INSTANCE LimitOrderBook WITH resting <- AllResting(book),
                               Incoming <- NewOrders

ImplementsLimitOrderBook == Abstract!Spec
=============================================================================
