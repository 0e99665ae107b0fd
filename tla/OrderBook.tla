----------------------------- MODULE OrderBook -----------------------------
(***************************************************************************)
(* The order book of one symbol (src/orderbook.h, src/orderbook.cpp) and   *)
(* the Order it stores (src/order.h).  A book is a record; each member     *)
(* function of OrderBook is an operator from a book to a book.  bids and   *)
(* asks are levels["BUY"] and levels["SELL"], bestBidIndex and             *)
(* bestAskIndex are best["BUY"] and best["SELL"]: the two halves of every  *)
(* function are mirror images, told apart here by Better.                  *)
(***************************************************************************)
EXTENDS Integers, Sequences

CONSTANTS
  Symbols,     \* the symbols that orders name
  OrderIds,    \* the order ids clients use
  NoLocation   \* an id that orderIndex does not hold

(* Id 0 marks the empty order, so no client order may carry it: the feed   *)
(* numbers its orders from 1 (marketdata.h:33).                            *)
ASSUME OrderIdsAssumption == OrderIds \subseteq Nat \ {0}

Side      == {"BUY", "SELL"}
OrderType == {"LIMIT", "MARKET"}
Status    == {"NEW", "PARTIAL_FILL", "FILLED", "CANCELLED"}

(* An Order{} has the empty string for its symbol. *)
SymbolName == Symbols \cup {""}

(* clientId and timeStamp are never read and are left out. *)
Order == [side : Side, symbol : SymbolName, price : Int, quantity : Nat,
          orderType : OrderType, orderId : Nat, remainingQuantity : Nat,
          status : Status]

OrderLocation == [price : Int, side : Side]

ASSUME NoLocationAssumption == NoLocation \notin OrderLocation

(* The static Order{} that getBestBid and getBestAsk return for an empty   *)
(* level.                                                                  *)
EmptyOrder == [side |-> "BUY", symbol |-> "", price |-> 0, quantity |-> 0,
               orderType |-> "LIMIT", orderId |-> 0, remainingQuantity |-> 0,
               status |-> "NEW"]

Opposite(s) == IF s = "BUY" THEN "SELL" ELSE "BUY"

(* On side s, an order priced p executes before one priced q. *)
Better(s, p, q) == IF s = "BUY" THEN p > q ELSE p < q

(* The last price of side s the scan of removeTop can reach. *)
WorstPrice(b, s) == IF s = "BUY" THEN b.minPrice ELSE b.maxPrice

Prices(b) == b.minPrice .. b.maxPrice

Book(lo, hi) ==
  [minPrice : {lo}, maxPrice : {hi},
   levels : [Side -> [lo .. hi -> Seq(Order)]],
   best : [Side -> lo .. hi],
   orderIndex : [OrderIds -> [price : lo .. hi, side : Side] \cup {NoLocation}],
   cancelledOrders : SUBSET OrderIds]

(* The constructor: both pointers start at the worst price of their side. *)
NewBook(lo, hi) ==
  [minPrice |-> lo, maxPrice |-> hi,
   levels |-> [s \in Side |-> [p \in lo .. hi |-> << >>]],
   best |-> [s \in Side |-> IF s = "BUY" THEN lo ELSE hi],
   orderIndex |-> [i \in OrderIds |-> NoLocation],
   cancelledOrders |-> {}]
----------------------------------------------------------------------------
(* Mutants of AddOrder: the pointer is not moved; the order jumps the      *)
(* queue of its level; orderIndex is not written.                          *)
AddOrder_KeepsPointer(b, o) ==
  [b EXCEPT !.levels[o.side][o.price] = Append(@, o),
            !.orderIndex[o.orderId] = [price |-> o.price, side |-> o.side]]

AddOrder_AtFront(b, o) ==
  [b EXCEPT !.best[o.side] = IF Better(o.side, o.price, @) THEN o.price ELSE @,
            !.levels[o.side][o.price] = << o >> \o @,
            !.orderIndex[o.orderId] = [price |-> o.price, side |-> o.side]]

AddOrder_NotIndexed(b, o) ==
  [b EXCEPT !.best[o.side] = IF Better(o.side, o.price, @) THEN o.price ELSE @,
            !.levels[o.side][o.price] = Append(@, o)]

AddOrder(b, o) ==
  [b EXCEPT !.best[o.side] = IF Better(o.side, o.price, @) THEN o.price ELSE @,
            !.levels[o.side][o.price] = Append(@, o),
            !.orderIndex[o.orderId] = [price |-> o.price, side |-> o.side]]

GetBest(b, s) ==
  LET level == b.levels[s][b.best[s]]
  IN  IF level = << >> THEN EmptyOrder ELSE Head(level)

IsCancelled(b, id) == id \in b.cancelledOrders

(* The loop that ends removeTopBid and removeTopAsk: from price p towards  *)
(* worse prices, stop at the first level that holds an order, or at the    *)
(* last price.                                                             *)
NextBest(b, levels, s, p) ==
  LET live == {q \in Prices(b) : levels[q] # << >> /\ ~ Better(s, q, p)}
  IN  IF live = {} THEN WorstPrice(b, s)
      ELSE CHOOSE q \in live : \A r \in live : ~ Better(s, r, q)

(* Mutants of RemoveTop: the pointer stays on the emptied level; the       *)
(* pointer steps one level even when orders are left on the level.         *)
RemoveTop_NoScan(b, s) ==
  [b EXCEPT !.levels[s][b.best[s]] = IF @ = << >> THEN @ ELSE Tail(@)]

RemoveTop_AlwaysSteps(b, s) ==
  LET p == b.best[s]
      q == IF p = WorstPrice(b, s) THEN p ELSE IF s = "BUY" THEN p - 1 ELSE p + 1
      popped == [b.levels[s] EXCEPT ![p] = Tail(@)]
  IN  IF b.levels[s][p] = << >> THEN b
      ELSE [b EXCEPT !.levels[s] = popped,
                     !.best[s] = NextBest(b, popped, s, q)]

RemoveTop(b, s) ==
  LET p      == b.best[s]
      popped == [b.levels[s] EXCEPT ![p] = Tail(@)]
  IN  IF b.levels[s][p] = << >> THEN b
      ELSE [b EXCEPT !.levels[s] = popped,
                     !.best[s] = NextBest(b, popped, s, p)]

(* Mutant of CancelOrder: an id that orderIndex does not hold is ignored. *)
CancelOrder_KnownOnly(b, id) ==
  LET loc   == b.orderIndex[id]
      level == b.levels[loc.side][loc.price]
      at    == {i \in DOMAIN level : level[i].orderId = id}
      i     == CHOOSE n \in at : \A m \in at : n <= m
  IN  IF loc = NoLocation \/ at = {} THEN b
      ELSE [b EXCEPT !.levels[loc.side][loc.price] =
                       SubSeq(@, 1, i - 1) \o SubSeq(@, i + 1, Len(@)),
                     !.orderIndex[id] = NoLocation]

(* cancelOrder erases the order from its level at once when orderIndex     *)
(* locates it, and otherwise leaves the id in cancelledOrders.  Neither    *)
(* pointer moves.                                                          *)
CancelOrder(b, id) ==
  LET loc   == b.orderIndex[id]
      level == b.levels[loc.side][loc.price]
      at    == {i \in DOMAIN level : level[i].orderId = id}
      i     == CHOOSE n \in at : \A m \in at : n <= m
  IN  IF loc = NoLocation \/ at = {}
      THEN [b EXCEPT !.cancelledOrders = @ \cup {id}]
      ELSE [b EXCEPT !.levels[loc.side][loc.price] =
                       SubSeq(@, 1, i - 1) \o SubSeq(@, i + 1, Len(@)),
                     !.orderIndex[id] = NoLocation,
                     !.cancelledOrders = @ \ {id}]
----------------------------------------------------------------------------
(* What the properties of the engine say of a book. *)

(* The orders resting on side s. *)
Resting(b, s) ==
  UNION {{b.levels[s][p][i] : i \in DOMAIN b.levels[s][p]} : p \in Prices(b)}

AllResting(b) == Resting(b, "BUY") \cup Resting(b, "SELL")
============================================================================
